CONSTANTS
    p1 = p1  p2 = p2  t1 = t1  t2 = t2  t3 = t3
    Process = {p1, p2}
    Task = {t1, t3}
    Home <- TwoProcesses
    Doc = {d1}
    Token = {k1, k2}
    MaxGen = 2
SPECIFICATION Spec
INVARIANTS TypeOK RowsBelongToSubject PurgedNotServed
