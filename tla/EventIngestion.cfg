CONSTANTS
    k1 = k1  k2 = k2  x = x  y = y  r = r
    Client = {c1, c2}
    Key = {k1, k2}
    Content = {x, y}
    Ref = {r}
    NoRef = noRef
    Batch <- Meeting
    NoContent = none
SPECIFICATION FairSpec
INVARIANTS TypeOK StoredEventsTraceable
PROPERTIES ImplementsEventLog EveryRequestAnswered
