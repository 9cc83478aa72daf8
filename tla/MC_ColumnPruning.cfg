CONSTANTS
    a = a
    b = b
    c = c
    v = v
    s = s
    star = star
    StarCol = star
    Columns = {a, b, c, v, s, star}
    Plans <- TestPlans
    MaxPasses = 2
INIT Init
NEXT Next
\* the batch stops once its iteration cap is reached
CHECK_DEADLOCK FALSE
INVARIANTS
    TypeOK
    PruneSound
    TryReferenceSound
