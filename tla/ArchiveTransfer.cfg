SPECIFICATION TransferSpec
CONSTANTS
    f1 = f1
    f2 = f2
    f3 = f3
    f4 = f4
    Files = {f1, f2, f3, f4}
    CanDelete = TRUE
    CanMisread = TRUE
INVARIANTS
    
    AtMostOnePartial
CHECK_DEADLOCK FALSE
