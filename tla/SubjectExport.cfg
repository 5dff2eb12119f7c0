CONSTANTS
    p1 = p1  p2 = p2  t1 = t1  t2 = t2  t3 = t3
    Process = {p1}
    Task = {t1, t2}
    Home <- OneProcess
    Doc = {d1, d2}
    Token = {k1}
    MaxGen = 1
SPECIFICATION Spec
INVARIANTS ExportIsWhole
