CONSTANTS
    IntWidth = 3
    NegOverflow = "wrap"
    c1 = c1
    c2 = c2
    Columns = {c1, c2}
    Inputs <- NegInputs
    MaxVersion = 2
INIT Init
NEXT Next
CHECK_DEADLOCK FALSE
INVARIANT RewritePreservesValue
