------------------------------ MODULE EventLog ------------------------------
(***************************************************************************)
(* What event ingestion promises a caller who may send the same events    *)
(* again at any time: an event is stored once and never changes, every    *)
(* answer to a request is the one that the log justifies for the          *)
(* request's own events, in their order and each at a single moment, and  *)
(* an atomic batch is stored and answered whole or not at all.            *)
(* EventIngestion implements it.                                          *)
(***************************************************************************)
EXTENDS Idempotency

CONSTANTS Client, Batch

VARIABLES
    log,        \* content stored under each idempotency key, or NoContent
    asked,      \* each client's request: its mode and its events
    answers     \* what each client has been told of its request

vars == <<log, asked, answers>>

Mode == {"each", "atomic"}

Nothing == [mode |-> "each", items |-> <<>>]

Ask(c, mode, items) ==
    /\ asked[c] = Nothing
    /\ asked' = [asked EXCEPT ![c] = [mode |-> mode, items |-> items]]
    /\ UNCHANGED <<log, answers>>

\* A request for one event after the other is answered in their order.
Turn(c) == Len(answers[c]) + 1
Current(c) == asked[c].items[Turn(c)]

Answering(c) == asked[c].mode = "each" /\ Turn(c) <= Len(asked[c].items)

Tell(c, status) == answers' = [answers EXCEPT ![c] = Append(@, status)]

IngestOne(c) ==
    /\ Answering(c)
    /\ log' = Stored(log, Current(c))
    /\ Tell(c, Decision(log, Current(c)))
    /\ UNCHANGED asked

\* An event may be refused for other reasons, but not once it is stored:
\* a repetition of a stored event is told so.
RefuseOne(c) ==
    /\ Answering(c)
    /\ log[Current(c).key] = NoContent
    /\ Tell(c, "failed")
    /\ UNCHANGED <<log, asked>>

\* An atomic batch has one answer.
AnswerAll(c, statuses) ==
    /\ asked[c].mode = "atomic" /\ answers[c] = <<>>
    /\ answers' = [answers EXCEPT ![c] = statuses]
    /\ UNCHANGED asked

HasConflict(c) ==
    \E i \in 1..Len(asked[c].items) : Decisions(log, asked[c].items)[i] = "conflict"

\* Every event of it at once.
IngestAll(c) ==
    /\ ~HasConflict(c)
    /\ log' = LogAfter(log, asked[c].items, Len(asked[c].items))
    /\ AnswerAll(c, Decisions(log, asked[c].items))

\* One of its events conflicts with the log or with an earlier one of them.
RefuseConflict(c) ==
    /\ HasConflict(c)
    /\ AnswerAll(c, <<"conflict">>)
    /\ UNCHANGED log

\* It may be refused for other reasons, whatever is stored.
RefuseAll(c) ==
    /\ AnswerAll(c, <<"failed">>)
    /\ UNCHANGED log

\* The answer is received or lost; the events of a lost one stay stored.
Forget(c) ==
    /\ asked' = [asked EXCEPT ![c] = Nothing]
    /\ answers' = [answers EXCEPT ![c] = <<>>]
    /\ UNCHANGED log

Init ==
    /\ log = [k \in Key |-> NoContent]
    /\ asked = [c \in Client |-> Nothing]
    /\ answers = [c \in Client |-> <<>>]

Next == \E c \in Client :
    \/ \E mode \in Mode, items \in Batch : Ask(c, mode, items)
    \/ IngestOne(c) \/ RefuseOne(c)
    \/ IngestAll(c) \/ RefuseConflict(c) \/ RefuseAll(c)
    \/ Forget(c)

Spec == Init /\ [][Next]_vars
=============================================================================
