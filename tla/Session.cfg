\* Two contexts, the second of them out of its project's scope, with tools that
\* invoke one another, agents that submit, and the clock.
SPECIFICATION Spec
CONSTANTS
    x1 = x1
    x2 = x2
    read = read
    probe = probe
    remote = remote
    out1 = out1
    out2 = out2
    Contexts = {x1, x2}
    InScope = {x1}
    Authorized <- MCAuthorized
    Limit <- SmallLimit
    MaxElapsed = 0
    MaxClock = 1
    Slack = 1
    Capabilities = {read, probe, remote}
    Bindings = {read, probe}
    Discovered = {probe, remote}
    Outputs = {out1, out2}
    Misfits = {out2}
    Untyped = Untyped
    NoHandler = NoHandler
    Candidates <- MCCandidates
INVARIANTS CallsWithinBudget AcceptedWithinBudget OneStartAfterDeadline ResultsArePinned
PROPERTY BudgetNeverRefunded
CHECK_DEADLOCK FALSE
