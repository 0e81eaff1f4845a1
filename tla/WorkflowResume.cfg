\* Two steps with prerequisites of their own, one of which changes.
SPECIFICATION HSpec
CONSTANTS
    Workers = {w1}
    Inputs = {i1}
    Steps = {intake, intent}
    Outcomes = {"succeeded"}
    LongStep = long_step
    Keys = {policy, data}
    None = None
    MaxVersion = 1
    MaxAttempt = 1
    MaxClock = 0
    MaxReceipts = 2
INVARIANTS ResumeChecksEveryStep
CHECK_DEADLOCK FALSE
