\* Two processes, two artifacts, changes from outside and a power loss.
SPECIFICATION Spec
CONSTANTS
    p1 = p1
    p2 = p2
    p3 = p3
    a1 = a1
    a2 = a2
    Processes = {p1, p2}
    Artifacts = {a1, a2}
    None = None
    MaxChanges = 1
    MaxLosses = 1
SYMMETRY Symmetry
PROPERTY ImplementsMap
INVARIANTS NoTornArtifact RefusalsAreDeserved TempFilesAreCleaned
CHECK_DEADLOCK FALSE
