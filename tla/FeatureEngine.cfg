CONSTANTS
    w1 = w1  w2 = w2  x1 = x1  x2 = x2  y = y  z = z
    Worker = {w1, w2}
    Extractor = {x1, y, z}
    Dimension = {1, 2}
    DimensionOf <- Observes
    Release <- Crossing
    Limit = {2}
    MaxEvents = 2
    MaxRuns = 2
SPECIFICATION FairSpec
INVARIANTS TypeOK ReleaseIsObserved StatesTraceable StatesCurrent
PROPERTY OperationsEnd
CHECK_DEADLOCK FALSE
