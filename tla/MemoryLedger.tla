---------------------------- MODULE MemoryLedger ----------------------------
(***************************************************************************)
(* What the memory store promises, without requests, readings, evidence   *)
(* rows or retries: every memory is a log of numbered versions that only  *)
(* grows, its newest version is the memory, each new version is a legal   *)
(* step of the lifecycle in domain/memory.py, and a slot has at most one  *)
(* active memory.  MemoryService implements it.                           *)
(***************************************************************************)
EXTENDS Integers, Sequences

CONSTANTS Memory, MinConfidence

VARIABLE ledger      \* ledger[m]: the versions of m, oldest first

Written == {m \in Memory : ledger[m] # <<>>}
Newest(log) == log[Len(log)]

\* The log gains exactly one version; the older ones stay as they are.
Grows(log, next) ==
    /\ Len(next) = Len(log) + 1
    /\ SubSeq(next, 1, Len(log)) = log
    /\ Newest(next).revision = Len(next)

\* The state the memory had before it was deleted.
StateBeforeDeletion(log) ==
    LET live == {i \in 1..Len(log) : log[i].state # "deleted"}
    IN  log[CHOOSE i \in live : \A j \in live : j <= i].state

\* The log gains one version or more, the first of a memory included.
GrowsBy(log, next) ==
    /\ Len(next) >= Len(log)
    /\ SubSeq(next, 1, Len(log)) = log
    /\ \A i \in Len(log) + 1..Len(next) : next[i].revision = i

\* What a version keeps of the one before, whatever happens to the memory.
Keeps(v, w) ==
    /\ w.key = v.key
    /\ w.evidence_count \in {v.evidence_count, v.evidence_count + 1}

Edit(v, w) == w.state = v.state /\ w.authority = v.authority

Confirm(v, w) ==
    /\ v.state = "candidate" /\ w.state = "active"
    /\ v.authority = "inferred" /\ w.authority = "confirmed"
    /\ v.evidence_count >= 1 /\ v.confidence >= MinConfidence

Delete(v, w) ==
    /\ v.state # "deleted" /\ w.state = "deleted"
    /\ w.authority = v.authority

Restore(log, w) ==
    LET v == Newest(log) IN
    /\ v.state = "deleted" /\ w.state # "deleted"
    /\ w.state = StateBeforeDeletion(log)
    /\ w.authority = v.authority
    /\ ~(w.state = "active" /\ w.authority = "inferred")

\* The first version: stated by the user, or a candidate that was inferred.
Stated(v) == v.authority = "explicit" /\ v.state = "active"
Inferred(v) ==
    v.authority = "inferred" /\ v.state = "candidate" /\ v.evidence_count = 1

\* More evidence for a memory; only while it is an inferred candidate may
\* that raise the confidence in it.
Merge(v, w) ==
    /\ Keeps(v, w) /\ Edit(v, w)
    /\ w.scope = v.scope /\ w.content = v.content
    /\ w.confidence >= v.confidence
    /\ w.confidence # v.confidence =>
           v.authority = "inferred" /\ v.state = "candidate"

OneActive(l) ==
    \A m, n \in {k \in Memory : l[k] # <<>>} :
        /\ Newest(l[m]).state = "active" /\ Newest(l[n]).state = "active"
        /\ Newest(l[m]).key = Newest(l[n]).key
        /\ Newest(l[m]).scope = Newest(l[n]).scope
        => m = n

Others(M) == \A n \in Memory \ M : ledger'[n] = ledger[n]

Create(m) ==
    /\ m \notin Written
    /\ Grows(ledger[m], ledger'[m])
    /\ Stated(Newest(ledger'[m]))
    /\ Others({m})

Revise(m) ==
    LET v == Newest(ledger[m])
        w == Newest(ledger'[m])
    IN
    /\ m \in Written
    /\ Grows(ledger[m], ledger'[m])
    /\ Keeps(v, w)
    /\ Edit(v, w) \/ Confirm(v, w) \/ Delete(v, w) \/ Restore(ledger[m], w)
    /\ Others({m})

\* An active memory gives way to a new explicit one in the same slot, in the
\* same step and with nothing else about it changed.
Replace(old, new) ==
    LET v == Newest(ledger[old])
        w == Newest(ledger'[old])
        successor == Newest(ledger'[new])
    IN
    /\ old \in Written /\ new \notin Written
    /\ Grows(ledger[old], ledger'[old]) /\ Grows(ledger[new], ledger'[new])
    /\ v.state = "active"
    /\ w = [v EXCEPT !.state = "superseded", !.revision = @ + 1]
    /\ successor.authority = "explicit" /\ successor.state = "active"
    /\ successor.key = v.key /\ successor.scope = v.scope
    /\ successor.content # v.content
    /\ Others({old, new})

\* An extraction adds all it has learned in one step: new candidates, and to
\* any of the memories, also to a new one, any number of merges.
Learn ==
    \A m \in Memory :
        /\ GrowsBy(ledger[m], ledger'[m])
        /\ \A i \in Len(ledger[m]) + 1..Len(ledger'[m]) :
            IF i = 1 THEN Inferred(ledger'[m][i])
                     ELSE Merge(ledger'[m][i - 1], ledger'[m][i])

Init == ledger = [m \in Memory |-> <<>>]

Next ==
    /\ \/ Learn
       \/ \E m \in Memory : Create(m) \/ Revise(m)
       \/ \E old, new \in Memory : Replace(old, new)
    /\ OneActive(ledger')

Spec == Init /\ [][Next]_ledger
=============================================================================
