\* One worker that crashes, or completes again.
SPECIFICATION Spec
CONSTANTS
    w1 = w1
    w2 = w2
    i1 = i1
    i2 = i2
    intake = intake
    intent = intent
    Workers = {w1}
    Inputs = {i1}
    Steps = {intake, intent}
    Outcomes = {"succeeded", "failed"}
    LongStep = long_step
    Keys = {}
    None = None
    MaxVersion = 0
    MaxAttempt = 1
    MaxClock = 1
    MaxReceipts = 2
INVARIANTS OneReceiptPerAttempt
CHECK_DEADLOCK FALSE
