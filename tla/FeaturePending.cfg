CONSTANTS
    w1 = w1  w2 = w2  x1 = x1  x2 = x2  y = y  z = z
    Worker = {w1}
    Extractor = {x1, y}
    Dimension = {1, 2}
    DimensionOf <- Observes
    Release <- OneRelease
    Limit = {1}
    MaxEvents = 1
    MaxRuns = 2
SPECIFICATION Spec
PROPERTY PendingAreUnprocessed
CHECK_DEADLOCK FALSE
