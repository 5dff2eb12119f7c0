-------------------------- MODULE MCSubjectPrivacy --------------------------
EXTENDS SubjectPrivacy, TLC

CONSTANTS p1, p2, t1, t2, t3

OneProcess == [t \in Task |-> p1]
TwoProcesses == [t \in Task |-> IF t = t3 THEN p2 ELSE p1]
=============================================================================
