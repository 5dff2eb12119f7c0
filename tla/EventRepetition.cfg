CONSTANTS
    k1 = k1  k2 = k2  x = x  y = y  r = r
    Client = {c1, c2}
    Key = {k1, k2}
    Content = {x}
    Ref = {}
    NoRef = noRef
    Batch <- Single
    NoContent = none
SPECIFICATION Spec
PROPERTY RepetitionIsReplayed
