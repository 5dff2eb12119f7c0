-------------------------- MODULE MCEventIngestion --------------------------
EXTENDS EventIngestion

CONSTANTS k1, k2, x, y, r

\* Lists that meet on a key with equal and with other contents, on an evidence
\* source (their own, too), in opposite orders, and that repeat themselves.
Meeting ==
    LET event(k, c, ref) == [key |-> k, content |-> c, ref |-> ref]
        a == event(k1, x, NoRef)
        b == event(k2, x, r)
        other == event(k1, y, NoRef)
    IN {<<a>>, <<a, b>>, <<a, a>>, <<a, other>>,
        <<event(k2, x, NoRef), other>>, <<event(k1, x, r), b>>}

Single == [1..1 -> Item]
=============================================================================
