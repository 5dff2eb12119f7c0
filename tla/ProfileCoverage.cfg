CONSTANTS
    Client = {c1}
    MaxEvents = 2
    MaxRuns = 2
    MaxChanges = 0
    MaxVersions = 1
SPECIFICATION Spec
CHECK_DEADLOCK FALSE
INVARIANT CompleteIsCovered
