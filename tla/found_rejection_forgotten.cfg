\* An operation is rejected and submitted again; the memory store answers.
CONSTANTS
    Tables <- MCTables
    Statements <- MCStatements
    Memories <- MCMemories
    MaxOps = 2
    MaxRounds = 1
    TopK = 6
    Reliable = TRUE
SPECIFICATION Spec
INVARIANT RejectionSurfaces
CHECK_DEADLOCK FALSE
