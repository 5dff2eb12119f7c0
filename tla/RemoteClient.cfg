CONSTANTS
    Caller = {c1, c2}
    Key = {k}
    Content = {x, y}
    NoContent = none
    MaxRetries = 1
    MaxCalls = 2
SPECIFICATION FairSpec
INVARIANTS TypeOK WritesAtMostOnce ToldIsStored ErrorsNameTheirRequest
PROPERTY CallsEnd
