--------------------------- MODULE EventIngestion ---------------------------
(***************************************************************************)
(* Event ingestion for one subject: application/event_service.py over the *)
(* event and evidence repositories.  A unit of work flushes its rows one  *)
(* at a time; a flushed row is invisible to others but holds its entry in *)
(* the unique indexes until the unit of work ends, so a second insert of  *)
(* the same key waits, and two units of work can wait on each other.      *)
(***************************************************************************)
EXTENDS Naturals, Sequences, FiniteSets, SequencesExt

CONSTANTS
    Client,     \* callers with a request in flight
    Key,        \* (source, idempotency_key) pairs
    Content,    \* event contents: equal digests are equal contents
    Ref,        \* evidence sources that callers supply
    NoRef,      \* no evidence supplied: the source is the event's own id
    Batch,      \* the lists of events they send
    NoContent

Item == [key: Key, content: Content, ref: Ref \cup {NoRef}]

ASSUME ConstantAssumption == /\ NoRef \notin Ref
                             /\ NoContent \notin Content
                             /\ Batch \subseteq Seq(Item) \ {<<>>}

\* "each": one ingest_event per item, which is also a best-effort batch.
\* "atomic": one unit of work for all of them.
Mode == {"each", "atomic"}

VARIABLES
    subject,    \* whether the subject has a row
    events,     \* committed event rows
    evidence,   \* committed evidence rows
    request     \* what each caller's request has done so far

vars == <<subject, events, evidence, request>>

EventRow == [key: Key, content: Content]
EvidenceRow == [ref: Ref \cup {NoRef}, event: EventRow]
Status == {"created", "replayed", "conflict", "failed"}

\* rows, proofs and newSubject are flushed but not committed; status answers
\* the items before at.
Request ==
    [phase: {"idle", "open", "enrol", "read", "insert", "prove", "commit", "retry",
             "answered"},
     mode: Mode, items: Batch \cup {<<>>}, at: Nat \ {0},
     newSubject: BOOLEAN, rows: SUBSET EventRow, proofs: SUBSET EvidenceRow,
     status: Seq(Status)]

Idle == [phase |-> "idle", mode |-> "each", items |-> <<>>, at |-> 1,
         newSubject |-> FALSE, rows |-> {}, proofs |-> {}, status |-> <<>>]

Current(c) == request[c].items[request[c].at]
Become(c, q) == request' = [request EXCEPT ![c] = q]
Goes(c, phase) == Become(c, [request[c] EXCEPT !.phase = phase])
Kept == UNCHANGED <<subject, events, evidence>>

\* Mutant: a unit of work that ends does not let go of its rows.
RollbackKeepingRows(q) == [q EXCEPT !.newSubject = FALSE, !.proofs = {}]

\* The unit of work is gone, and with it everything it flushed.
RolledBack(q) == [q EXCEPT !.newSubject = FALSE, !.rows = {}, !.proofs = {}]

\* get_by_idempotency_key: committed rows and one's own flushed ones.
Found(c, key) == {r \in events \cup request[c].rows : r.key = key}

\* classify_idempotency, once the key has a row.
Decide(row, item) == IF row.content = item.content THEN "replayed" ELSE "conflict"

\* An item of an "each" request is answered: the next one gets a new unit of
\* work.
Answered(q, status) ==
    [RolledBack(q) EXCEPT
        !.status = Append(@, status), !.at = @ + 1,
        !.phase = IF q.at = Len(q.items) THEN "answered" ELSE "open"]

\* The whole request ends with an error.
Refused(q, status) ==
    [RolledBack(q) EXCEPT !.status = <<status>>, !.phase = "answered"]

\* An item of the unit of work is done; an "each" one commits now.
Advanced(q, status) ==
    [q EXCEPT !.status = IF q.mode = "atomic" THEN Append(@, status) ELSE @,
              !.at = IF q.mode = "atomic" THEN @ + 1 ELSE @,
              !.phase = IF q.mode = "atomic" /\ q.at < Len(q.items)
                        THEN "read" ELSE "commit"]

-----------------------------------------------------------------------------
(* The unique indexes.  An entry flushed by another unit of work makes the *)
(* insert wait; a committed one makes it fail.                             *)

\* The other units of work that hold key.
EventHolders(c, key) ==
    {d \in Client \ {c} : \E r \in request[d].rows : r.key = key}

KeyTaken(key) == \E r \in events : r.key = key

RefHolders(c, ref) ==
    {d \in Client \ {c} : ref # NoRef /\ \E p \in request[d].proofs : p.ref = ref}

\* Mutant: no unique index on evidence sources.
RefUnindexed(c, ref) == FALSE

RefTaken(c, ref) ==
    ref # NoRef /\ \E p \in evidence \cup request[c].proofs : p.ref = ref

SubjectHolders(c) == {d \in Client \ {c} : request[d].newSubject}

\* The units of work that request c waits for.
Blockers(c) ==
    CASE request[c].phase = "enrol" -> SubjectHolders(c)
      [] request[c].phase = "insert" -> EventHolders(c, Current(c).key)
      [] request[c].phase = "prove" -> RefHolders(c, Current(c).ref)
      [] OTHER -> {}

\* A cycle of requests that wait for each other.
Deadlocked(c) ==
    \E S \in SUBSET Client : /\ c \in S
                             /\ \A d \in S : Blockers(d) \cap S # {}

-----------------------------------------------------------------------------

Submit(c, mode, items) ==
    /\ request[c].phase = "idle"
    /\ Become(c, [Idle EXCEPT !.phase = "open", !.mode = mode, !.items = items])
    /\ Kept

\* Mutant: nothing is looked up again after a violated constraint.
ViolatedNoRetry(q) == IF q.mode = "each" THEN Answered(q, "failed") ELSE Refused(q, "failed")

\* _flush raises InvalidArgumentError: ingest_event looks again, a batch fails.
Violated(q) ==
    IF q.mode = "each" THEN [RolledBack(q) EXCEPT !.phase = "retry"]
                       ELSE Refused(q, "failed")

\* ensure_in_uow: look for the subject.
Open(c) ==
    /\ request[c].phase = "open"
    /\ Goes(c, IF subject THEN "read" ELSE "enrol")
    /\ Kept

\* There was none: insert it.
Enrol(c) ==
    /\ request[c].phase = "enrol"
    /\ Blockers(c) = {} /\ ~subject
    /\ Become(c, [request[c] EXCEPT !.phase = "read", !.newSubject = TRUE])
    /\ Kept

\* Another unit of work has committed it since.
EnrolLost(c) ==
    /\ request[c].phase = "enrol"
    /\ Blockers(c) = {} /\ subject
    /\ Become(c, Violated(request[c]))
    /\ Kept

\* _ingest_one_in_uow: the lookup.  Every stored event has its evidence, so a
\* replay writes nothing.
Read(c) ==
    LET q == request[c] IN
    /\ q.phase = "read"
    /\ \/ /\ Found(c, Current(c).key) = {}
          /\ Goes(c, "insert")
       \/ \E row \in Found(c, Current(c).key) :
            CASE Decide(row, Current(c)) = "replayed" /\ q.mode = "atomic" ->
                    Become(c, Advanced(q, "replayed"))
              [] Decide(row, Current(c)) = "replayed" /\ q.mode = "each" ->
                    Become(c, Answered(q, "replayed"))
              [] Decide(row, Current(c)) = "conflict" /\ q.mode = "atomic" ->
                    Become(c, Refused(q, "conflict"))
              [] OTHER ->
                    Become(c, Answered(q, "conflict"))
    /\ Kept

\* A new event names an entity that the subject does not have (entities are
\* not modelled: any new event may).
EntityMissing(c) ==
    LET q == request[c] IN
    /\ q.phase = "read"
    /\ Found(c, Current(c).key) = {}
    /\ Become(c, IF q.mode = "each" THEN Answered(q, "failed") ELSE Refused(q, "failed"))
    /\ Kept

InsertEvent(c) ==
    LET row == [key |-> Current(c).key, content |-> Current(c).content] IN
    /\ request[c].phase = "insert"
    /\ Blockers(c) = {} /\ ~KeyTaken(Current(c).key)
    /\ Become(c, [request[c] EXCEPT !.phase = "prove", !.rows = @ \cup {row}])
    /\ Kept

InsertEventLost(c) ==
    /\ request[c].phase = "insert"
    /\ Blockers(c) = {} /\ KeyTaken(Current(c).key)
    /\ Become(c, Violated(request[c]))
    /\ Kept

InsertEvidence(c) ==
    LET q == request[c]
        row == CHOOSE r \in q.rows : r.key = Current(c).key
    IN
    /\ q.phase = "prove"
    /\ Blockers(c) = {} /\ ~RefTaken(c, Current(c).ref)
    /\ Become(c, Advanced([q EXCEPT !.proofs =
                    @ \cup {[ref |-> Current(c).ref, event |-> row]}], "created"))
    /\ Kept

InsertEvidenceLost(c) ==
    /\ request[c].phase = "prove"
    /\ Blockers(c) = {} /\ RefTaken(c, Current(c).ref)
    /\ Become(c, Violated(request[c]))
    /\ Kept

Commit(c) ==
    LET q == request[c] IN
    /\ q.phase = "commit"
    /\ subject' = (subject \/ q.newSubject)
    /\ events' = events \cup q.rows
    /\ evidence' = evidence \cup q.proofs
    /\ Become(c, IF q.mode = "atomic" THEN [RolledBack(q) EXCEPT !.phase = "answered"]
                                      ELSE Answered(q, "created"))

\* Mutant: when the key is still unknown the insert is simply tried again.
RetryForever(c) ==
    LET q == request[c] IN
    /\ q.phase = "retry"
    /\ \/ /\ Found(c, Current(c).key) = {}
          /\ Goes(c, "open")
       \/ \E row \in Found(c, Current(c).key) :
            Become(c, Answered(q, Decide(row, Current(c))))
    /\ Kept

\* _retry_idempotency_race: a second unit of work only looks.  When the key
\* is not there, the violation was another constraint and is raised.
Retry(c) ==
    LET q == request[c] IN
    /\ q.phase = "retry"
    /\ \/ /\ Found(c, Current(c).key) = {}
          /\ Become(c, Answered(q, "failed"))
       \/ \E row \in Found(c, Current(c).key) :
            Become(c, Answered(q, Decide(row, Current(c))))
    /\ Kept

\* The database breaks a cycle of waits by failing one statement.  The error
\* is not the service's own: nothing catches it, later items are not tried.
DeadlockVictim(c) ==
    LET q == request[c] IN
    /\ Deadlocked(c)
    /\ Become(c, [Refused(q, "failed") EXCEPT !.status =
                    IF q.mode = "each" THEN Append(q.status, "failed") ELSE <<"failed">>])
    /\ Kept

\* The caller has its answer.
Return(c) ==
    /\ request[c].phase = "answered"
    /\ Become(c, Idle)
    /\ Kept

\* The connection, the process or the answer is lost at any point.  The
\* caller may submit the same items again.
Crash(c) ==
    /\ request[c].phase \notin {"idle", "answered"}
    /\ Become(c, Idle)
    /\ Kept

\* Another service may have created the subject already.
Init ==
    /\ subject \in BOOLEAN
    /\ events = {} /\ evidence = {}
    /\ request = [c \in Client |-> Idle]

Step(c) ==
    \/ Open(c) \/ Enrol(c) \/ EnrolLost(c) \/ Read(c) \/ EntityMissing(c)
    \/ InsertEvent(c) \/ InsertEventLost(c)
    \/ InsertEvidence(c) \/ InsertEvidenceLost(c)
    \/ Commit(c) \/ Retry(c) \/ DeadlockVictim(c) \/ Return(c)

Next == \E c \in Client :
    \/ \E mode \in Mode, items \in Batch : Submit(c, mode, items)
    \/ Step(c) \/ Crash(c)

Spec == Init /\ [][Next]_vars

\* The event loop runs every request, and a row lock is granted to those who
\* wait for it in turn.
FairSpec == Spec /\ \A c \in Client : SF_vars(Step(c))

-----------------------------------------------------------------------------

\* Every variable has its type, and a request holds flushed rows only while
\* its unit of work is open.
TypeOK ==
    /\ subject \in BOOLEAN
    /\ events \subseteq EventRow
    /\ evidence \subseteq EvidenceRow
    /\ request \in [Client -> Request]
    /\ \A c \in Client :
        request[c].phase \in {"idle", "open", "enrol", "retry", "answered"} =>
            /\ ~request[c].newSubject
            /\ request[c].rows = {} /\ request[c].proofs = {}

\* plan.md:1031: every stored event has one traceable evidence row, and every
\* evidence row leads to a stored event; a source that a caller supplied
\* proves one event only.
StoredEventsTraceable ==
    /\ \A e \in events : Cardinality({p \in evidence : p.event = e}) = 1
    /\ \A p \in evidence : p.event \in events
    /\ \A p, q \in evidence : p.ref = q.ref /\ p.ref # NoRef => p = q
    /\ events # {} => subject

\* A caller may send its events again at any moment: what is stored, and what
\* it is told of each event that it asked to store, are those of an event log
\* that handles one event, or one atomic batch, at once.
Log == [k \in Key |-> IF \E r \in events : r.key = k
                       THEN (CHOOSE r \in events : r.key = k).content
                       ELSE NoContent]

Answers ==
    [c \in Client |-> IF request[c].mode = "atomic" /\ request[c].phase # "answered"
                       THEN <<>> ELSE request[c].status]

Asked == [c \in Client |-> [mode |-> request[c].mode, items |-> request[c].items]]

Abstract == INSTANCE EventLog WITH log <- Log, asked <- Asked, answers <- Answers
ImplementsEventLog == Abstract!Spec

\* Requests that wait for each other's rows, or look again after a violated
\* constraint, are still answered.
EveryRequestAnswered ==
    \A c \in Client : request[c].phase # "idle" ~> request[c].phase = "idle"

\* plan.md:346: repeating an event with the same key and content returns the
\* stored event.  So a request whose events are all stored with the contents
\* it carries is not refused.
Repeats(c) ==
    \A i \in DOMAIN request[c].items :
        [key |-> request[c].items[i].key, content |-> request[c].items[i].content]
            \in events

RepetitionIsReplayed ==
    [][\A c \in Client :
        request[c].phase # "answered" /\ request'[c].phase = "answered" /\ Repeats(c)
            => "failed" \notin Range(request'[c].status)]_vars
=============================================================================
