---------------------------- MODULE RemoteClient ----------------------------
(***************************************************************************)
(* The remote client, sdk/remote_client.py: coroutines that share one     *)
(* AsyncPersonalizationClient, the network and a service that keeps what  *)
(* EventLog promises of one event.  An attempt that the client has given  *)
(* up may still be on its way, and be served after later ones.            *)
(***************************************************************************)
EXTENDS Naturals

CONSTANTS
    Caller,     \* coroutines that share the client
    Key, Content, NoContent,
    MaxRetries, \* max_retries of the client
    MaxCalls    \* bound: calls that are made

ASSUME ConstantAssumption == /\ MaxRetries \in Nat /\ MaxCalls \in Nat
                             /\ NoContent \notin Content

\* ingest_event, which alone carries an idempotency key; the operations that
\* get; all others, "write", for which no retry is asked.
Event == [kind: {"event"}, key: Key, content: Content]
Operation == Event \cup [kind: {"read", "write"}]

VARIABLES
    call,       \* what each coroutine's call is doing
    lastId,     \* last_request_id, shared by all of them; 0 is None
    closed,     \* the HTTP client was closed
    wire,       \* requests on their way to the service
    log,        \* the events stored, by key
    applied,    \* how often the write of each call was applied
    told        \* history: how each call ended

vars == <<call, lastId, closed, wire, log, applied, told>>

\* The calls, by X-Request-Id.
CallId == 1..MaxCalls

Reply == {"created", "replayed", "conflict", "failed", "ok"}

\* What a coroutine is told: a reply, an answer of status 500 or that cannot be
\* read ("error"), 502 to 504 ("unavailable"), a time out or transport error
\* ("lost"), that the client is closed, or nothing, as it was cancelled.
Outcome == Reply \cup {"error", "unavailable", "lost", "closed", "cancelled"}

Idle == [phase |-> "idle"]
Active == [phase: {"send", "wait", "sleep"} \cup Reply, id: CallId, op: Operation,
           attempt: 0..MaxRetries]
Request == [id: CallId, op: Operation, attempt: 0..MaxRetries]
Told == [id: CallId, op: Operation, outcome: Outcome, reported: CallId]

\* Mutant: every operation is sent again.
RetryAll(op) == TRUE

CanRetry(op) == op.kind \in {"read", "event"}

Attempts(op) == IF CanRetry(op) THEN MaxRetries ELSE 0

Begun == {t.id : t \in told} \cup {call[c].id : c \in {d \in Caller : call[d] # Idle}}

RequestOf(c) == [id |-> call[c].id, op |-> call[c].op, attempt |-> call[c].attempt]

Goes(c, phase) == call' = [call EXCEPT ![c].phase = phase]

\* The call returns or raises; reported is the request id of the error.
Ends(c, outcome, reported) ==
    /\ call' = [call EXCEPT ![c] = Idle]
    /\ told' = told \cup {[id |-> call[c].id, op |-> call[c].op, outcome |-> outcome,
                           reported |-> reported]}

\* Mutant: one attempt too many.
AgainOnceMore(c, outcome, reported) ==
    IF call[c].attempt <= Attempts(call[c].op)
    THEN Goes(c, "sleep") /\ UNCHANGED told
    ELSE Ends(c, outcome, reported)

\* The attempt brought nothing: wait and make another, if there is one left.
AgainOr(c, outcome, reported) ==
    IF call[c].attempt < Attempts(call[c].op)
    THEN Goes(c, "sleep") /\ UNCHANGED told
    ELSE Ends(c, outcome, reported)

-----------------------------------------------------------------------------
(* The client.                                                             *)

Begin(c, op) ==
    /\ call[c] = Idle
    /\ \E id \in CallId \ Begun :
        /\ 1..(id - 1) \subseteq Begun
        /\ call' = [call EXCEPT ![c] =
                        [phase |-> "send", id |-> id, op |-> op, attempt |-> 0]]
        /\ lastId' = id
    /\ UNCHANGED <<closed, wire, log, applied, told>>

Send(c) ==
    /\ call[c].phase = "send" /\ ~closed
    /\ Goes(c, "wait")
    /\ wire' = wire \cup {RequestOf(c)}
    /\ UNCHANGED <<lastId, closed, log, applied, told>>

\* httpx raises a RuntimeError, which is not a transport error.
SendClosed(c) ==
    /\ call[c].phase = "send" /\ closed
    /\ Ends(c, "closed", call[c].id)
    /\ UNCHANGED <<lastId, closed, wire, log, applied>>

\* A definite answer, success or error.
Receive(c) ==
    /\ call[c].phase \in Reply
    /\ lastId' = call[c].id
    /\ Ends(c, call[c].phase, lastId')
    /\ UNCHANGED <<closed, wire, log, applied>>

\* The service answers 500, or something else than was expected: whether the
\* request was served is not known, and it is not sent again.
Broken(c) ==
    /\ call[c].phase = "wait" \/ call[c].phase \in Reply
    /\ lastId' = call[c].id
    /\ Ends(c, "error", lastId')
    /\ UNCHANGED <<closed, wire, log, applied>>

\* A gateway or the service answers 502, 503 or 504.
Unavailable(c) ==
    /\ call[c].phase = "wait" \/ call[c].phase \in Reply
    /\ lastId' = call[c].id
    /\ AgainOr(c, "unavailable", lastId')
    /\ UNCHANGED <<closed, wire, log, applied>>

\* Mutant: the error takes the request id from the client.
FailWithLastId(c) ==
    /\ call[c].phase = "wait" \/ call[c].phase \in Reply
    /\ AgainOr(c, "lost", lastId)
    /\ UNCHANGED <<lastId, closed, wire, log, applied>>

\* httpx.TimeoutException or httpx.TransportError, before the answer is there
\* or while it is read.
Fail(c) ==
    /\ call[c].phase = "wait" \/ call[c].phase \in Reply
    /\ AgainOr(c, "lost", call[c].id)
    /\ UNCHANGED <<lastId, closed, wire, log, applied>>

\* Mutant: the attempts are not counted.
WakeUncounted(c) ==
    /\ call[c].phase = "sleep"
    /\ Goes(c, "send")
    /\ UNCHANGED <<lastId, closed, wire, log, applied, told>>

Wake(c) ==
    /\ call[c].phase = "sleep"
    /\ call' = [call EXCEPT ![c].phase = "send", ![c].attempt = @ + 1]
    /\ UNCHANGED <<lastId, closed, wire, log, applied, told>>

\* The coroutine is cancelled at one of its awaits.
Cancel(c) ==
    /\ call[c] # Idle
    /\ Ends(c, "cancelled", call[c].id)
    /\ UNCHANGED <<lastId, closed, wire, log, applied>>

Close ==
    /\ closed' = TRUE
    /\ UNCHANGED <<call, lastId, wire, log, applied, told>>

-----------------------------------------------------------------------------
(* The network and the service.                                            *)

Service == INSTANCE Idempotency

\* Mutant: the answer goes to whoever waits for one of that kind.
WaitsForAny(c, m) == call[c].phase = "wait" /\ call[c].op.kind = m.op.kind

\* A connection answers the request that was sent over it.
WaitsFor(c, m) == call[c].phase = "wait" /\ RequestOf(c) = m

\* The request leaves the wire and its answer goes to who still waits for it.
Answer(m, reply) ==
    /\ wire' = wire \ {m}
    /\ call' = [c \in Caller |->
                    IF WaitsFor(c, m) THEN [call[c] EXCEPT !.phase = reply] ELSE call[c]]
    /\ UNCHANGED <<lastId, closed, told>>

ServeEvent(m) ==
    /\ m.op.kind = "event"
    /\ log' = Service!Stored(log, m.op)
    /\ Answer(m, Service!Decision(log, m.op))
    /\ UNCHANGED applied

\* A definite error before anything is done: no access, a deleted subject, an
\* argument or a revision that does not fit.
Refuse(m) ==
    /\ Answer(m, "failed")
    /\ UNCHANGED <<log, applied>>

ServeWrite(m) ==
    /\ m.op.kind = "write"
    /\ applied' = [applied EXCEPT ![m.id] = @ + 1]
    /\ Answer(m, "ok")
    /\ UNCHANGED log

ServeRead(m) ==
    /\ m.op.kind = "read"
    /\ Answer(m, "ok")
    /\ UNCHANGED <<log, applied>>

\* It never arrives, or the process that took it up is stopped.
Lose(m) ==
    /\ wire' = wire \ {m}
    /\ UNCHANGED <<call, lastId, closed, log, applied, told>>

Init ==
    /\ call = [c \in Caller |-> Idle]
    /\ lastId = 0 /\ closed = FALSE
    /\ wire = {}
    /\ log = [k \in Key |-> NoContent]
    /\ applied = [i \in CallId |-> 0]
    /\ told = {}

Step(c) ==
    \/ Send(c) \/ SendClosed(c) \/ Receive(c) \/ Broken(c)
    \/ Unavailable(c) \/ Fail(c) \/ Wake(c)

Next ==
    \/ \E c \in Caller :
        \/ \E op \in Operation : Begin(c, op)
        \/ Step(c) \/ Cancel(c)
    \/ \E m \in wire :
        ServeEvent(m) \/ Refuse(m) \/ ServeWrite(m) \/ ServeRead(m) \/ Lose(m)
    \/ Close

Spec == Init /\ [][Next]_vars

\* A request that is not answered times out, and a sleep ends.
FairSpec == Spec /\ \A c \in Caller : WF_vars(Step(c))

-----------------------------------------------------------------------------

\* Every variable has its type; no call makes more attempts than it may.
TypeOK ==
    /\ call \in [Caller -> Active \cup {Idle}]
    /\ \A c \in Caller : call[c] # Idle =>
        /\ call[c].attempt <= Attempts(call[c].op)
        /\ call[c].phase = "sleep" => call[c].attempt < Attempts(call[c].op)
    /\ lastId \in CallId \cup {0}
    /\ closed \in BOOLEAN
    /\ wire \subseteq Request
    /\ log \in [Key -> Content \cup {NoContent}]
    /\ applied \in [CallId -> Nat]
    /\ told \subseteq Told

\* sdk-quickstart.md:24: only safe requests and idempotent writes are sent
\* again.  So a write without a key is applied once at most, whatever is lost
\* or late; when it is reported done it was, and when refused it never will be.
WritesAtMostOnce ==
    \A i \in CallId :
        /\ applied[i] <= 1
        /\ \A t \in told : t.id = i /\ t.op.kind = "write" =>
            /\ t.outcome = "ok" => applied[i] = 1
            /\ t.outcome \in {"failed", "closed"} =>
                applied[i] = 0 /\ \A m \in wire : m.id # i

\* A caller that is told how its event was taken can rely on it, whichever of
\* its attempts was answered and whatever is served later: what was created or
\* replayed is stored as it was sent, a conflict is one with other contents,
\* and an event is reported created once only.
ToldIsStored ==
    \A t \in told : t.op.kind = "event" =>
        /\ t.outcome \in {"created", "replayed"} => log[t.op.key] = t.op.content
        /\ t.outcome = "conflict" => log[t.op.key] \notin {t.op.content, NoContent}
        /\ \A u \in told : u.op.kind = "event" /\ u.op.key = t.op.key
                            /\ u.outcome = "created" /\ t.outcome = "created" => u = t

\* README.md:123: an error carries the request id of the call that failed,
\* although the calls of one client share last_request_id.
ErrorsNameTheirRequest == \A t \in told : t.reported = t.id

\* A call whose attempts are lost again and again ends nevertheless.
CallsEnd == \A c \in Caller : call[c] # Idle ~> call[c] = Idle
=============================================================================
