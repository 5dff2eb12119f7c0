---------------------------- MODULE Idempotency ----------------------------
(***************************************************************************)
(* What an event with an idempotency key means to a log that has the      *)
(* content of each key, or NoContent: what its sender is told, and what   *)
(* the log is afterwards.                                                 *)
(***************************************************************************)
EXTENDS Naturals, Sequences, FiniteSetsExt

CONSTANTS Key, NoContent

Decision(l, item) ==
    IF l[item.key] = NoContent THEN "created"
    ELSE IF l[item.key] = item.content THEN "replayed" ELSE "conflict"

Stored(l, item) ==
    IF l[item.key] = NoContent THEN [l EXCEPT ![item.key] = item.content] ELSE l

\* The log after the first n items: the first content of a key stays.
About(items, key, n) == {i \in 1..n : items[i].key = key}

LogAfter(l, items, n) ==
    [k \in Key |-> IF l[k] # NoContent \/ About(items, k, n) = {} THEN l[k]
                   ELSE items[Min(About(items, k, n))].content]

\* What each of the items is told.
Decisions(l, items) ==
    [i \in 1..Len(items) |-> Decision(LogAfter(l, items, i - 1), items[i])]
=============================================================================
