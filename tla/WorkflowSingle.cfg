\* One writer that crashes, restarts and loses writes.
SPECIFICATION Spec
CONSTANTS
    w1 = w1
    w2 = w2
    i1 = i1
    i2 = i2
    intake = intake
    intent = intent
    Workers = {w1}
    Inputs = {i1}
    Steps = {intake, intent}
    Outcomes = {"succeeded"}
    LongStep = long_step
    Keys = {policy}
    None = None
    MaxVersion = 1
    MaxAttempt = 2
    MaxClock = 1
    MaxReceipts = 2
SYMMETRY Symmetry
INVARIANT HolderIsCurrent
PROPERTIES LedgerSpec
CHECK_DEADLOCK FALSE
