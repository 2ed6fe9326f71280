\* Two simulations of changes to the same rows; the execution and the roll-back
\* may be lost.
CONSTANTS
    op1 = op1
    op2 = op2
    Sims = {op1, op2}
    Kinds = {"INSERT", "UPDATE"}
    Size = 3
    Touched = 2
    Lossy = {"execute", "rollback"}
    ReportsText = TRUE
SPECIFICATION Spec
SYMMETRY Symmetry
INVARIANTS
    TypeOK
    MeasuredOwnChange
