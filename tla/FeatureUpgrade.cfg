CONSTANTS
    w1 = w1  w2 = w2  x1 = x1  x2 = x2  y = y  z = z
    Worker = {w1, w2}
    Extractor = {x1, x2, y}
    Dimension = {1, 2}
    DimensionOf <- Observes
    Release <- Upgrade
    Limit = {1}
    MaxEvents = 1
    MaxRuns = 2
SPECIFICATION Spec
INVARIANTS SucceededIsObserved
CHECK_DEADLOCK FALSE
