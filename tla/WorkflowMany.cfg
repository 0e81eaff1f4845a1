\* Two writers on one run directory.
SPECIFICATION Spec
CONSTANTS
    w1 = w1
    w2 = w2
    i1 = i1
    i2 = i2
    intake = intake
    intent = intent
    Workers = {w1, w2}
    Inputs = {i1, i2}
    Steps = {intake, intent}
    Outcomes = {"succeeded", "failed"}
    LongStep = long_step
    Keys = {}
    None = None
    MaxVersion = 0
    MaxAttempt = 2
    MaxClock = 0
    MaxReceipts = 2
SYMMETRY Symmetry
INVARIANTS OutcomeHasReceipt
CHECK_DEADLOCK FALSE
