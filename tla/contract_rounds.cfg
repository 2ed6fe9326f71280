\* Two operations of up to two rounds; every call may fail.
CONSTANTS
    Tables <- MCTables
    Statements <- MCStatements
    Memories <- MCMemories
    MaxOps = 2
    MaxRounds = 2
    TopK = 6
    Reliable = FALSE
SPECIFICATION Spec
INVARIANTS
    TypeOK
    StaleCountsFlagged
    RejectedPrecedentShown
    
CHECK_DEADLOCK FALSE
