\* The persistent store at the expiry of a receipt.
SPECIFICATION Spec
CONSTANTS
    v1 = v1
    v2 = v2
    v3 = v3
    t1 = t1
    t2 = t2
    o1 = o1
    o2 = o2
    Verifiers = {v1, v2}
    Receipts <- RaceReceipts
    Tokens = {t1, t2}
    Objects = {o1, o2}
    Contexts <- MCContexts
    None = None
    MaxTime = 2
INVARIANT AtMostOnce
CHECK_DEADLOCK FALSE
