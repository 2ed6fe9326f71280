\* Two simulations of changes to the same rows; only the session's first and
\* last call are reliable.
CONSTANTS
    op1 = op1
    op2 = op2
    Sims = {op1, op2}
    Kinds = {"DELETE"}
    Size = 3
    Touched = 2
    Lossy = {"pre", "execute", "post", "log"}
    ReportsText = TRUE
SPECIFICATION FairSpec
INVARIANTS
    NoLockLeft
PROPERTIES
    SimulationEnds
    SessionsClosed
