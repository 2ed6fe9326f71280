\* Every schema of up to four foreign keys, with a depth limit of two.
CONSTANTS
    Tables <- MCTables
    Root = 1
    Schemas <- MCSchemas
    Counts <- MCCounts
    Matches = {1, 20}
    Analysed <- MCAnalysed
    Statements <- MCStatements
    TriggerSets <- MCTriggerSets
    Installed = {"dblink", "http"}
    Ages = {30}
    MaxDepth = 2
    MaxKeys = 4
SPECIFICATION Spec
INVARIANTS
    TypeOK
    ListsWhatCascades
    FlagsTellTheTruth
    WithinStatistics
    UncountedIsUntrusted
CHECK_DEADLOCK FALSE
