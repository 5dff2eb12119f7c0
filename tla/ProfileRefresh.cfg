CONSTANTS
    Client = {c1, c2}
    MaxEvents = 1
    MaxRuns = 1
    MaxChanges = 1
    MaxVersions = 2
SPECIFICATION Spec
CHECK_DEADLOCK FALSE
SYMMETRY Symmetry
INVARIANTS TypeOK SeesEarlierWrites NoMeaninglessVersion
PROPERTY VersionsGrow
