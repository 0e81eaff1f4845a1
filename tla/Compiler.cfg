\* All dependency graphs over three contracts with at most two dependencies each.
SPECIFICATION MCSpec
CONSTANTS
    a = a
    b = b
    c = c
    good = good
    other = other
    bad = bad
    Nodes = {a, b, c}
    Contents = {good, other, bad}
    Invalid = {bad}
INVARIANTS DependenciesFirst SnapshotIsClosed
PROPERTIES OrderSpec CompileEnds
CHECK_DEADLOCK FALSE
