\* Two processes or threads on either store, with receipts of several gates
\* that share nonces and expire.
SPECIFICATION FairSpec
CONSTANTS
    v1 = v1
    v2 = v2
    v3 = v3
    t1 = t1
    t2 = t2
    o1 = o1
    o2 = o2
    Verifiers = {v1, v2}
    Receipts <- MCReceipts
    Tokens = {t1, t2}
    Objects = {o1, o2}
    Contexts <- MCContexts
    None = None
    MaxTime = 2
INVARIANTS OnceBeforeExpiry MemoryAtMostOnce GrantsMatch
PROPERTY LockIsFreed
CHECK_DEADLOCK FALSE
