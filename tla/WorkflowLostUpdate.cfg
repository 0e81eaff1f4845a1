\* Two workers load the same job.
SPECIFICATION Spec
CONSTANTS
    w1 = w1
    w2 = w2
    i1 = i1
    i2 = i2
    intake = intake
    intent = intent
    Workers = {w1, w2}
    Inputs = {i1}
    Steps = {intake, intent}
    Outcomes = {"succeeded"}
    LongStep = long_step
    Keys = {}
    None = None
    MaxVersion = 0
    MaxAttempt = 2
    MaxClock = 0
    MaxReceipts = 2
PROPERTIES NoStaleWrite
CHECK_DEADLOCK FALSE
