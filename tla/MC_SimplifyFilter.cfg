CONSTANTS
    IntWidth = 3
    NegOverflow = "panic"
    c1 = c1
    c2 = c2
    Columns = {c1, c2}
    Inputs <- PassInputs
    MaxVersion = 2
INIT Init
NEXT Next
CHECK_DEADLOCK FALSE
INVARIANTS
    RewritePreservesValue
    NoEmptyHole
    PlanFoldedFromRoot
PROPERTIES
    ConstantCalculationIdempotent
