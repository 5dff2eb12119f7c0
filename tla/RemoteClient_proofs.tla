------------------------- MODULE RemoteClient_proofs -------------------------
(***************************************************************************)
(* What TLAPS proves about RemoteClient for every number of callers,      *)
(* retries and calls, and every set of keys and contents.                 *)
(***************************************************************************)
EXTENDS RemoteClient, TLAPS

Calling(c) == call[c] # Idle

\* No two calls share an id, and a request on the wire is of its call.
IdsDistinct ==
    /\ \A c, d \in Caller :
        c # d /\ Calling(c) /\ Calling(d) => call[c].id # call[d].id
    /\ \A c \in Caller, t \in told : Calling(c) => t.id # call[c].id
    /\ \A t, u \in told : t.id = u.id => t = u

WireIsOfCalls ==
    /\ \A m \in wire : m.id \in Begun
    /\ \A m \in wire, c \in Caller : Calling(c) /\ call[c].id = m.id => m.op = call[c].op

\* What became of a call, by the counts and the requests there are.
Unsent(counts, requests, i) == counts[i] = 0 /\ \A m \in requests : m.id # i
Applied(counts, requests, i) == counts[i] = 1 /\ \A m \in requests : m.id # i

\* A write without a key has one request, which is gone once it was applied.
WritesOnce ==
    /\ \A i \in CallId : applied[i] = 0 \/ Applied(applied, wire, i)
    /\ \A i \in CallId \ Begun : Unsent(applied, wire, i)
    /\ \A m, n \in wire : m.op.kind = "write" /\ m.id = n.id => m = n
    /\ \A c \in Caller : Calling(c) =>
        IF call[c].op.kind = "write"
        THEN /\ call[c].phase = "send" => Unsent(applied, wire, call[c].id)
             /\ call[c].phase = "ok" => Applied(applied, wire, call[c].id)
             /\ call[c].phase = "failed" => Unsent(applied, wire, call[c].id)
        ELSE applied[call[c].id] = 0
    /\ \A t \in told : t.op.kind = "write" =>
        /\ t.outcome = "ok" => Applied(applied, wire, t.id)
        /\ t.outcome \in {"failed", "closed"} => Unsent(applied, wire, t.id)

\* The log bears out an answer.
Rests(l, op, outcome) ==
    op.kind = "event" =>
        /\ outcome \in {"created", "replayed"} => l[op.key] = op.content
        /\ outcome = "conflict" => l[op.key] \notin {op.content, NoContent}

Creates(op, outcome, k) == op.kind = "event" /\ op.key = k /\ outcome = "created"

\* An answer that was given is true, received or not, and a key was created
\* for one call.
AnswersRest ==
    /\ \A t \in told : Rests(log, t.op, t.outcome)
    /\ \A c \in Caller : Calling(c) => Rests(log, call[c].op, call[c].phase)
    /\ \A k \in Key :
        /\ \A t, u \in told :
            Creates(t.op, t.outcome, k) /\ Creates(u.op, u.outcome, k) => t = u
        /\ \A t \in told, c \in Caller :
            Calling(c) /\ Creates(t.op, t.outcome, k)
                => ~Creates(call[c].op, call[c].phase, k)
        /\ \A c, d \in Caller :
            Calling(c) /\ Calling(d) /\ c # d /\ Creates(call[c].op, call[c].phase, k)
                => ~Creates(call[d].op, call[d].phase, k)

Inv ==
    /\ TypeOK /\ IdsDistinct /\ WireIsOfCalls /\ WritesOnce /\ AnswersRest
    /\ ErrorsNameTheirRequest
-----------------------------------------------------------------------------
(* A step of a call, of the service or of the network is one of these.     *)

Sleeps(c) ==
    /\ Calling(c) /\ call[c].attempt < Attempts(call[c].op)
    /\ Goes(c, "sleep")
    /\ lastId' \in {lastId, call[c].id}
    /\ UNCHANGED <<closed, wire, log, applied, told>>

\* A reply is what the call had, and "closed" comes before anything is sent.
Finishes(c, outcome) ==
    /\ Calling(c) /\ outcome \in Outcome
    /\ outcome \in Reply => call[c].phase = outcome
    /\ outcome = "closed" => call[c].phase = "send"
    /\ Ends(c, outcome, call[c].id)
    /\ lastId' \in {lastId, call[c].id}
    /\ UNCHANGED <<closed, wire, log, applied>>

Serves(m) == ServeEvent(m) \/ Refuse(m) \/ ServeWrite(m) \/ ServeRead(m)

Quiet == UNCHANGED <<call, lastId, wire, log, applied, told>> /\ closed' \in BOOLEAN

LEMMA CallShape ==
    ASSUME TypeOK, NEW c \in Caller
    PROVE  /\ Calling(c) => call[c] \in Active
           /\ call[c].phase # "idle" => Calling(c)
           /\ call[c].phase = "idle" => ~Calling(c)
<1>1. call[c] \in Active \/ call[c] = Idle
  BY DEF TypeOK
<1>2. CASE call[c] \in Active
  BY <1>2 DEF Active, Reply, Calling, Idle
<1>3. CASE call[c] = Idle
  BY <1>3 DEF Calling, Idle
<1> QED BY <1>1, <1>2, <1>3

LEMMA StepShapes ==
    ASSUME TypeOK, [Next]_vars
    PROVE  \/ \E c \in Caller, op \in Operation : Begin(c, op)
           \/ \E c \in Caller : Send(c) /\ Calling(c)
           \/ \E c \in Caller : Wake(c) /\ Calling(c)
           \/ \E c \in Caller : Sleeps(c)
           \/ \E c \in Caller, o \in Outcome : Finishes(c, o)
           \/ \E m \in wire : Serves(m) \/ Lose(m)
           \/ Quiet
<1>1. CASE UNCHANGED vars
  BY <1>1 DEF vars, Quiet, TypeOK
<1>2. CASE Close
  BY <1>2 DEF Close, Quiet
<1>3. CASE \E m \in wire :
             ServeEvent(m) \/ Refuse(m) \/ ServeWrite(m) \/ ServeRead(m) \/ Lose(m)
  BY <1>3 DEF Serves
<1>4. ASSUME NEW c \in Caller, Step(c) \/ Cancel(c)
      PROVE  \/ Send(c) /\ Calling(c)
             \/ Wake(c) /\ Calling(c)
             \/ Sleeps(c)
             \/ \E o \in Outcome : Finishes(c, o)
  <2>1. CASE Send(c)
    BY <2>1, CallShape DEF Send
  <2>2. CASE Wake(c)
    BY <2>2, CallShape DEF Wake
  <2>3. CASE SendClosed(c)
    <3>1. Finishes(c, "closed")
      BY <2>3, CallShape DEF SendClosed, Finishes, Outcome, Reply
    <3> QED BY <3>1 DEF Outcome
  <2>4. CASE Receive(c)
    <3>1. Calling(c)
      BY <2>4, CallShape DEF Receive, Reply
    <3>2. Finishes(c, call[c].phase)
      BY <2>4, <3>1 DEF Receive, Finishes, Outcome, Reply
    <3> QED BY <3>2, <2>4 DEF Outcome, Receive
  <2>5. CASE Broken(c)
    <3>1. Finishes(c, "error")
      BY <2>5, CallShape DEF Broken, Finishes, Outcome, Reply
    <3> QED BY <3>1 DEF Outcome
  <2>6. CASE Unavailable(c)
    <3>1. Calling(c)
      BY <2>6, CallShape DEF Unavailable, Reply
    <3>2. Sleeps(c) \/ Finishes(c, "unavailable")
      BY <2>6, <3>1 DEF Unavailable, AgainOr, Sleeps, Finishes, Outcome, Reply
    <3> QED BY <3>2 DEF Outcome
  <2>7. CASE Fail(c)
    <3>1. Calling(c)
      BY <2>7, CallShape DEF Fail, Reply
    <3>2. Sleeps(c) \/ Finishes(c, "lost")
      BY <2>7, <3>1 DEF Fail, AgainOr, Sleeps, Finishes, Outcome, Reply
    <3> QED BY <3>2 DEF Outcome
  <2>8. CASE Cancel(c)
    <3>1. Finishes(c, "cancelled")
      BY <2>8 DEF Cancel, Calling, Finishes, Outcome, Reply
    <3> QED BY <3>1 DEF Outcome
  <2> QED BY <1>4, <2>1, <2>2, <2>3, <2>4, <2>5, <2>6, <2>7, <2>8 DEF Step
<1> QED BY <1>1, <1>2, <1>3, <1>4 DEF Next
-----------------------------------------------------------------------------
(* What a step makes of the calls.                                         *)

\* The calls that are made, with their ids and operations, stay.
SameCalls ==
    \A d \in Caller :
        /\ Calling(d)' <=> Calling(d)
        /\ Calling(d) => call'[d].id = call[d].id /\ call'[d].op = call[d].op

LEMMA GoesKeeps ==
    ASSUME TypeOK, NEW c \in Caller, Calling(c), NEW p \in {"send", "wait", "sleep"},
           NEW n \in 0..MaxRetries, told' = told,
           call' = [call EXCEPT ![c].phase = p, ![c].attempt = n]
    PROVE  /\ call' \in [Caller -> Active \cup {Idle}]
           /\ call'[c] = [call[c] EXCEPT !.phase = p, !.attempt = n]
           /\ call'[c].phase = p /\ call'[c].attempt = n
           /\ \A d \in Caller \ {c} : call'[d] = call[d]
           /\ SameCalls
           /\ Begun' = Begun
<1>1. call[c] \in Active /\ call \in [Caller -> Active \cup {Idle}]
  BY CallShape DEF TypeOK
<1>2. call'[c] = [call[c] EXCEPT !.phase = p, !.attempt = n]
  BY <1>1
<1>3. call'[c] \in Active /\ call'[c].phase = p /\ call'[c].attempt = n
      /\ call'[c].id = call[c].id /\ call'[c].op = call[c].op
  BY <1>1, <1>2 DEF Active, Reply
<1>4. \A d \in Caller \ {c} : call'[d] = call[d]
  BY <1>1
<1>5. call' \in [Caller -> Active \cup {Idle}]
  BY <1>1, <1>3
<1>6. call'[c] # Idle
  BY <1>3 DEF Idle, Active
<1>7. SameCalls
  BY <1>3, <1>4, <1>6 DEF SameCalls, Calling
<1>8. Begun' = Begun
  <2>1. {d \in Caller : call'[d] # Idle} = {d \in Caller : call[d] # Idle}
    BY <1>4, <1>6 DEF Calling
  <2>2. \A d \in Caller : call'[d].id = call[d].id
    BY <1>3, <1>4
  <2>3. QED
    BY <2>1, <2>2 DEF Begun
<1> QED BY <1>2, <1>3, <1>4, <1>5, <1>7, <1>8

LEMMA EndsKeeps ==
    ASSUME TypeOK, NEW c \in Caller, Calling(c), NEW o, Ends(c, o, call[c].id)
    PROVE  /\ call' \in [Caller -> Active \cup {Idle}]
           /\ ~Calling(c)'
           /\ \A d \in Caller \ {c} : call'[d] = call[d] /\ (Calling(d)' <=> Calling(d))
           /\ Begun' = Begun
<1>1. call[c] \in Active /\ call \in [Caller -> Active \cup {Idle}]
  BY CallShape DEF TypeOK
<1>2. call'[c] = Idle /\ \A d \in Caller \ {c} : call'[d] = call[d]
  BY <1>1 DEF Ends
<1>3. call' \in [Caller -> Active \cup {Idle}]
  BY <1>1 DEF Ends
<1>4. {t.id : t \in told'} = {t.id : t \in told} \cup {call[c].id}
  <2> DEFINE r == [id |-> call[c].id, op |-> call[c].op, outcome |-> o,
                   reported |-> call[c].id]
  <2>1. told' = told \cup {r}
    BY DEF Ends
  <2>2. r.id = call[c].id
    OBVIOUS
  <2> HIDE DEF r
  <2> QED BY <2>1, <2>2
<1>5. Begun' = Begun
  BY <1>2, <1>4 DEF Begun, Calling
<1> QED BY <1>2, <1>3, <1>5 DEF Calling

LEMMA AnswerKeeps ==
    ASSUME TypeOK, NEW m \in wire, NEW r \in Reply, Answer(m, r)
    PROVE  /\ call' \in [Caller -> Active \cup {Idle}]
           /\ \A d \in Caller : WaitsFor(d, m) =>
                /\ Calling(d) /\ call[d].id = m.id /\ call[d].op = m.op
                /\ call'[d].phase = r /\ call'[d].attempt = call[d].attempt
           /\ \A d \in Caller : ~WaitsFor(d, m) => call'[d] = call[d]
           /\ SameCalls
           /\ Begun' = Begun
<1>1. call \in [Caller -> Active \cup {Idle}]
  BY DEF TypeOK
<1>2. \A d \in Caller : ~WaitsFor(d, m) => call'[d] = call[d]
  BY <1>1 DEF Answer
<1>3. ASSUME NEW d \in Caller, WaitsFor(d, m)
      PROVE  /\ Calling(d) /\ call[d].id = m.id /\ call[d].op = m.op
             /\ call'[d] \in Active /\ call'[d] # Idle
             /\ call'[d].phase = r /\ call'[d].attempt = call[d].attempt
             /\ call'[d].id = call[d].id /\ call'[d].op = call[d].op
  <2>1. Calling(d) /\ call[d] \in Active
    BY <1>3, CallShape DEF WaitsFor
  <2>2. call[d].id = m.id /\ call[d].op = m.op
    BY <1>3 DEF WaitsFor, RequestOf
  <2>3. call'[d] = [call[d] EXCEPT !.phase = r]
    BY <1>1, <1>3 DEF Answer
  <2>4. /\ call'[d] \in Active /\ call'[d].phase = r /\ call'[d].attempt = call[d].attempt
        /\ call'[d].id = call[d].id /\ call'[d].op = call[d].op
    BY <2>1, <2>3 DEF Active
  <2> QED BY <2>1, <2>2, <2>4 DEF Active, Idle
<1>4. call' \in [Caller -> Active \cup {Idle}]
  BY <1>1, <1>2, <1>3 DEF Answer
<1>5. SameCalls
  BY <1>2, <1>3 DEF SameCalls, Calling
<1>6. told' = told
  BY DEF Answer
<1>7. Begun' = Begun
  BY <1>2, <1>3, <1>6 DEF Begun, Calling
<1> QED BY <1>2, <1>3, <1>4, <1>5, <1>7

\* What the answer to a request says of the store.
Served(m, r) ==
    /\ applied' = IF m.op.kind = "write" /\ r = "ok"
                  THEN [applied EXCEPT ![m.id] = @ + 1] ELSE applied
    /\ m.op.kind = "write" => r \in {"ok", "failed"}
    /\ \/ log' = log /\ r \in {"ok", "failed"}
       \/ /\ m.op.kind = "event"
          /\ log' = Service!Stored(log, m.op) /\ r = Service!Decision(log, m.op)

LEMMA ServesAnswer ==
    ASSUME NEW m \in wire, Serves(m)
    PROVE  \E r \in Reply : Answer(m, r) /\ Served(m, r)
<1>1. CASE ServeEvent(m)
  <2>1. Service!Decision(log, m.op) \in Reply
    BY DEF Service!Decision, Reply
  <2> QED BY <1>1, <2>1 DEF ServeEvent, Served
<1>2. CASE Refuse(m) \/ ServeRead(m)
  BY <1>2 DEF Refuse, ServeRead, Served, Reply
<1>3. CASE ServeWrite(m)
  BY <1>3 DEF ServeWrite, Served, Reply
<1> QED BY <1>1, <1>2, <1>3 DEF Serves

LEMMA EndsTells ==
    ASSUME TypeOK, NEW c \in Caller, Calling(c), NEW o \in Outcome,
           Ends(c, o, call[c].id)
    PROVE  \E r \in Told : /\ told' = told \cup {r}
                           /\ r.id = call[c].id /\ r.op = call[c].op
                           /\ r.outcome = o /\ r.reported = call[c].id
<1> DEFINE r == [id |-> call[c].id, op |-> call[c].op, outcome |-> o,
                 reported |-> call[c].id]
<1>1. told' = told \cup {r}
  BY DEF Ends
<1>2. r \in Told
  BY CallShape DEF Told, Active
<1>3. r.id = call[c].id /\ r.op = call[c].op /\ r.outcome = o /\ r.reported = call[c].id
  OBVIOUS
<1> HIDE DEF r
<1> QED BY <1>1, <1>2, <1>3

-----------------------------------------------------------------------------
(* Every shape of step keeps the invariant.                                *)

\* The steps that move a call on to another phase.
Moves(c, p) ==
    \/ p = "wait" /\ Send(c)
    \/ p = "send" /\ Wake(c)
    \/ p = "sleep" /\ Sleeps(c)

LEMMA MovesKeep ==
    ASSUME TypeOK, NEW c \in Caller, Calling(c), NEW p, Moves(c, p)
    PROVE  /\ SameCalls /\ Begun' = Begun
           /\ \A d \in Caller \ {c} : call'[d] = call[d]
           /\ call'[c].phase = p /\ p \in {"send", "wait", "sleep"}
           /\ UNCHANGED <<log, applied, told>>
<1>1. call[c] \in Active /\ call[c].attempt \in 0..MaxRetries
      /\ Attempts(call[c].op) \in 0..MaxRetries
      /\ (call[c].phase = "sleep" => call[c].attempt < Attempts(call[c].op))
  BY CallShape, ConstantAssumption DEF TypeOK, Active, Calling, Attempts
<1>2. CASE p = "wait" /\ Send(c)
  <2>1. call' = [call EXCEPT ![c].phase = "wait", ![c].attempt = call[c].attempt]
    BY <1>1, <1>2 DEF Send, Goes, Active
  <2>2. UNCHANGED <<log, applied, told>>
    BY <1>2 DEF Send
  <2> QED BY <1>1, <1>2, <2>1, <2>2, GoesKeeps
<1>3. CASE p = "send" /\ Wake(c)
  <2>1. call' = [call EXCEPT ![c].phase = "send", ![c].attempt = call[c].attempt + 1]
        /\ UNCHANGED <<log, applied, told>>
    BY <1>3 DEF Wake
  <2>2. call[c].attempt + 1 \in 0..MaxRetries
    BY <1>1, <1>3, ConstantAssumption DEF Wake
  <2> QED BY <1>3, <2>1, <2>2, GoesKeeps
<1>4. CASE p = "sleep" /\ Sleeps(c)
  <2>1. call' = [call EXCEPT ![c].phase = "sleep", ![c].attempt = call[c].attempt]
    BY <1>1, <1>4 DEF Sleeps, Goes, Active
  <2>2. UNCHANGED <<log, applied, told>>
    BY <1>4 DEF Sleeps
  <2> QED BY <1>1, <1>4, <2>1, <2>2, GoesKeeps
<1> QED BY <1>2, <1>3, <1>4 DEF Moves

LEMMA BeginKeeps ==
    ASSUME TypeOK, NEW c \in Caller, NEW op \in Operation, Begin(c, op)
    PROVE  \E id \in CallId \ Begun :
            /\ ~Calling(c) /\ Calling(c)'
            /\ call'[c].phase = "send" /\ call'[c].id = id /\ call'[c].op = op
            /\ \A d \in Caller \ {c} : call'[d] = call[d] /\ (Calling(d)' <=> Calling(d))
            /\ Begun' = Begun \cup {id}
            /\ UNCHANGED <<wire, log, applied, told>>
<1>1. PICK id \in CallId \ Begun :
          call' = [call EXCEPT ![c] =
                      [phase |-> "send", id |-> id, op |-> op, attempt |-> 0]]
  BY DEF Begin
<1>2. call'[c] = [phase |-> "send", id |-> id, op |-> op, attempt |-> 0]
      /\ \A d \in Caller \ {c} : call'[d] = call[d]
  BY <1>1 DEF TypeOK
<1>3. call'[c].phase = "send" /\ call'[c].id = id /\ call'[c].op = op
  BY <1>2
<1>4. ~Calling(c) /\ UNCHANGED <<wire, log, applied, told>>
  BY DEF Begin, Calling
<1>5. Calling(c)'
  BY <1>3 DEF Calling, Idle
<1>6. \A d \in Caller \ {c} : Calling(d)' <=> Calling(d)
  BY <1>2 DEF Calling
<1>7. Begun' = Begun \cup {id}
  BY <1>2, <1>3, <1>4, <1>5, <1>6 DEF Begun, Calling
<1> QED BY <1>2, <1>3, <1>4, <1>5, <1>6, <1>7

LEMMA TypeStep ==
    ASSUME TypeOK, [Next]_vars
    PROVE  TypeOK'
<1> USE ConstantAssumption
<1>1. CASE \E c \in Caller, op \in Operation : Begin(c, op)
  <2>1. PICK c \in Caller, op \in Operation : Begin(c, op)
    BY <1>1
  <2>2. PICK id \in CallId :
            /\ call' = [call EXCEPT ![c] =
                            [phase |-> "send", id |-> id, op |-> op, attempt |-> 0]]
            /\ lastId' = id
    BY <2>1 DEF Begin
  <2> DEFINE q == [phase |-> "send", id |-> id, op |-> op, attempt |-> 0]
  <2>3. q \in Active /\ q.attempt = 0 /\ q.phase = "send"
    BY DEF Active
  <2>4. 0 <= Attempts(q.op)
    BY DEF Attempts
  <2> HIDE DEF q
  <2>5. call' \in [Caller -> Active \cup {Idle}]
    BY <2>2, <2>3 DEF TypeOK, q
  <2>6. call'[c] = q /\ \A d \in Caller \ {c} : call'[d] = call[d]
    BY <2>2 DEF TypeOK, q
  <2>7. UNCHANGED <<closed, wire, log, applied, told>>
    BY <2>1 DEF Begin
  <2>8. \A d \in Caller : call'[d] # Idle =>
            /\ call'[d].attempt <= Attempts(call'[d].op)
            /\ call'[d].phase = "sleep" => call'[d].attempt < Attempts(call'[d].op)
    BY <2>3, <2>4, <2>6 DEF TypeOK
  <2> QED BY <2>2, <2>5, <2>7, <2>8 DEF TypeOK
<1>2. ASSUME NEW c \in Caller, Calling(c), NEW p \in {"send", "wait", "sleep"},
             NEW n \in 0..MaxRetries, told' = told,
             call' = [call EXCEPT ![c].phase = p, ![c].attempt = n],
             n <= Attempts(call[c].op), p = "sleep" => n < Attempts(call[c].op)
      PROVE  /\ call' \in [Caller -> Active \cup {Idle}]
             /\ \A d \in Caller : call'[d] # Idle =>
                /\ call'[d].attempt <= Attempts(call'[d].op)
                /\ call'[d].phase = "sleep" => call'[d].attempt < Attempts(call'[d].op)
  <2>1. /\ call' \in [Caller -> Active \cup {Idle}]
        /\ call'[c].phase = p /\ call'[c].attempt = n
        /\ \A d \in Caller \ {c} : call'[d] = call[d]
        /\ SameCalls
    BY <1>2, GoesKeeps
  <2>2. call'[c].op = call[c].op
    BY <1>2, <2>1 DEF SameCalls
  <2> QED BY <1>2, <2>1, <2>2 DEF TypeOK
<1>3. ASSUME NEW c \in Caller, Calling(c)
      PROVE  /\ call[c] \in Active /\ call \in [Caller -> Active \cup {Idle}]
             /\ call[c].attempt \in 0..MaxRetries
             /\ call[c].attempt <= Attempts(call[c].op)
             /\ call[c].phase = "sleep" => call[c].attempt < Attempts(call[c].op)
             /\ Attempts(call[c].op) \in 0..MaxRetries
             /\ call[c].id \in CallId
             /\ RequestOf(c) \in Request
  BY <1>3, CallShape DEF TypeOK, Active, Calling, Attempts, RequestOf, Request
<1>4. CASE \E c \in Caller : Send(c) /\ Calling(c)
  <2>1. PICK c \in Caller : Send(c) /\ Calling(c)
    BY <1>4
  <2>2. call' = [call EXCEPT ![c].phase = "wait", ![c].attempt = call[c].attempt]
    BY <2>1, <1>3 DEF Send, Goes, Active
  <2>3. wire' \subseteq Request /\ UNCHANGED <<lastId, closed, log, applied, told>>
    BY <2>1, <1>3 DEF Send, TypeOK
  <2> QED BY <1>2, <1>3, <2>1, <2>2, <2>3 DEF TypeOK
<1>5. CASE \E c \in Caller : Wake(c) /\ Calling(c)
  <2>1. PICK c \in Caller : Wake(c) /\ Calling(c)
    BY <1>5
  <2>2. call' = [call EXCEPT ![c].phase = "send", ![c].attempt = call[c].attempt + 1]
    BY <2>1 DEF Wake
  <2>3. /\ call[c].attempt + 1 \in 0..MaxRetries
        /\ call[c].attempt + 1 <= Attempts(call[c].op)
    BY <2>1, <1>3 DEF Wake
  <2>4. UNCHANGED <<lastId, closed, wire, log, applied, told>>
    BY <2>1 DEF Wake
  <2> QED BY <1>2, <2>1, <2>2, <2>3, <2>4 DEF TypeOK
<1>6. CASE \E c \in Caller : Sleeps(c)
  <2>1. PICK c \in Caller : Sleeps(c)
    BY <1>6
  <2>2. Calling(c) /\ call[c].attempt < Attempts(call[c].op)
    BY <2>1 DEF Sleeps
  <2>3. call' = [call EXCEPT ![c].phase = "sleep", ![c].attempt = call[c].attempt]
    BY <2>1, <2>2, <1>3 DEF Sleeps, Goes, Active
  <2>4. lastId' \in CallId \cup {0} /\ UNCHANGED <<closed, wire, log, applied, told>>
    BY <2>1, <2>2, <1>3 DEF Sleeps, TypeOK
  <2> QED BY <1>2, <1>3, <2>2, <2>3, <2>4 DEF TypeOK
<1>7. CASE \E c \in Caller, o \in Outcome : Finishes(c, o)
  <2>1. PICK c \in Caller, o \in Outcome : Finishes(c, o)
    BY <1>7
  <2>2. /\ Calling(c) /\ Ends(c, o, call[c].id)
        /\ lastId' \in CallId \cup {0} /\ UNCHANGED <<closed, wire, log, applied>>
    BY <2>1, <1>3 DEF Finishes, TypeOK
  <2>3. told' \subseteq Told
    BY <2>2, EndsTells DEF TypeOK
  <2> QED BY <2>2, <2>3, EndsKeeps DEF TypeOK, Calling
<1>8. CASE \E m \in wire : Serves(m)
  <2>1. PICK m \in wire : Serves(m)
    BY <1>8
  <2>2. PICK r \in Reply : Answer(m, r)
    BY <2>1, ServesAnswer
  <2>3. wire' \subseteq Request /\ UNCHANGED <<lastId, closed, told>>
    BY <2>2 DEF Answer, TypeOK
  <2>4. m.op \in Operation /\ m.id \in CallId
    BY DEF TypeOK, Request
  <2>5. log' \in [Key -> Content \cup {NoContent}] /\ applied' \in [CallId -> Nat]
    BY <2>1, <2>4 DEF Serves, ServeEvent, Refuse, ServeWrite, ServeRead, TypeOK,
                      Service!Stored, Operation, Event
  <2>6. \A d \in Caller : call'[d] # Idle =>
            /\ call'[d].attempt <= Attempts(call'[d].op)
            /\ call'[d].phase = "sleep" => call'[d].attempt < Attempts(call'[d].op)
    BY <2>2, AnswerKeeps DEF TypeOK, SameCalls, Calling, Reply
  <2> QED BY <2>2, <2>3, <2>5, <2>6, AnswerKeeps DEF TypeOK
<1>9. CASE Quiet \/ \E m \in wire : Lose(m)
  BY <1>9 DEF Quiet, Lose, TypeOK
<1> QED BY <1>1, <1>4, <1>5, <1>6, <1>7, <1>8, <1>9, StepShapes

LEMMA IdsStep ==
    ASSUME TypeOK, IdsDistinct, WireIsOfCalls, [Next]_vars
    PROVE  IdsDistinct' /\ WireIsOfCalls'
<1>1. ASSUME SameCalls, Begun' = Begun, told' = told, wire' \subseteq wire
      PROVE  IdsDistinct' /\ WireIsOfCalls'
  BY <1>1 DEF SameCalls, IdsDistinct, WireIsOfCalls, Calling
<1>2. CASE \E c \in Caller, op \in Operation : Begin(c, op)
  <2>1. PICK c \in Caller, op \in Operation : Begin(c, op)
    BY <1>2
  <2>2. PICK id \in CallId \ Begun :
            /\ ~Calling(c) /\ Calling(c)'
            /\ call'[c].id = id /\ call'[c].op = op
            /\ \A d \in Caller \ {c} : call'[d] = call[d] /\ (Calling(d)' <=> Calling(d))
            /\ Begun' = Begun \cup {id}
            /\ UNCHANGED <<wire, told>>
    BY <2>1, BeginKeeps
  <2>3. /\ \A t \in told : t.id # id
        /\ \A d \in Caller : Calling(d) => call[d].id # id
        /\ \A m \in wire : m.id # id
    BY <2>2 DEF Begun, Calling, WireIsOfCalls
  <2>4. IdsDistinct'
    BY <2>2, <2>3 DEF IdsDistinct
  <2>5. WireIsOfCalls'
    BY <2>2, <2>3 DEF WireIsOfCalls
  <2> QED BY <2>4, <2>5
<1>3. CASE \E c \in Caller : Send(c) /\ Calling(c)
  <2>1. PICK c \in Caller : Send(c) /\ Calling(c)
    BY <1>3
  <2>2. SameCalls /\ Begun' = Begun /\ told' = told
    BY <2>1, MovesKeep DEF Moves
  <2>3. IdsDistinct'
    BY <2>2 DEF SameCalls, IdsDistinct
  <2>4. wire' = wire \cup {RequestOf(c)}
    BY <2>1 DEF Send
  <2>5. RequestOf(c).id = call[c].id /\ RequestOf(c).op = call[c].op
    BY DEF RequestOf
  <2>6. call[c].id \in Begun
    BY <2>1 DEF Begun, Calling
  <2>7. WireIsOfCalls'
    BY <2>1, <2>2, <2>4, <2>5, <2>6 DEF SameCalls, WireIsOfCalls, IdsDistinct
  <2> QED BY <2>3, <2>7
<1>4. CASE \E c \in Caller : Calling(c) /\ (Wake(c) \/ Sleeps(c))
  <2>1. PICK c \in Caller : Calling(c) /\ (Wake(c) \/ Sleeps(c))
    BY <1>4
  <2>2. SameCalls /\ Begun' = Begun /\ told' = told
    BY <2>1, MovesKeep DEF Moves
  <2>3. wire' = wire
    BY <2>1 DEF Wake, Sleeps
  <2> QED BY <1>1, <2>2, <2>3
<1>5. CASE \E c \in Caller, o \in Outcome : Finishes(c, o)
  <2>1. PICK c \in Caller, o \in Outcome : Finishes(c, o)
    BY <1>5
  <2>2. Calling(c) /\ Ends(c, o, call[c].id) /\ wire' = wire
    BY <2>1 DEF Finishes
  <2>3. PICK r \in Told : told' = told \cup {r} /\ r.id = call[c].id
    BY <2>2, EndsTells
  <2>4. /\ ~Calling(c)' /\ Begun' = Begun
        /\ \A d \in Caller \ {c} : call'[d] = call[d] /\ (Calling(d)' <=> Calling(d))
    BY <2>2, EndsKeeps
  <2>5. IdsDistinct'
    BY <2>2, <2>3, <2>4 DEF IdsDistinct
  <2>6. WireIsOfCalls'
    BY <2>2, <2>4 DEF WireIsOfCalls
  <2> QED BY <2>5, <2>6
<1>6. CASE \E m \in wire : Serves(m)
  <2>1. PICK m \in wire : Serves(m)
    BY <1>6
  <2>2. PICK r \in Reply : Answer(m, r)
    BY <2>1, ServesAnswer
  <2>3. SameCalls /\ Begun' = Begun
    BY <2>2, AnswerKeeps
  <2>4. told' = told /\ wire' \subseteq wire
    BY <2>2 DEF Answer
  <2> QED BY <1>1, <2>3, <2>4
<1>7. CASE Quiet \/ \E m \in wire : Lose(m)
  <2>1. call' = call /\ told' = told /\ wire' \subseteq wire
    BY <1>7 DEF Quiet, Lose
  <2>2. SameCalls /\ Begun' = Begun
    BY <2>1 DEF SameCalls, Begun, Calling
  <2> QED BY <1>1, <2>1, <2>2
<1> QED BY <1>2, <1>3, <1>4, <1>5, <1>6, <1>7, StepShapes DEF Sleeps

LEMMA WritesStep ==
    ASSUME TypeOK, IdsDistinct, WireIsOfCalls, WritesOnce, [Next]_vars
    PROVE  WritesOnce'
<1>1. CASE \E c \in Caller, op \in Operation : Begin(c, op)
  <2>1. PICK c \in Caller, op \in Operation : Begin(c, op)
    BY <1>1
  <2>2. PICK id \in CallId \ Begun :
            /\ call'[c].phase = "send" /\ call'[c].id = id /\ call'[c].op = op
            /\ \A d \in Caller \ {c} : call'[d] = call[d] /\ (Calling(d)' <=> Calling(d))
            /\ Begun' = Begun \cup {id}
            /\ UNCHANGED <<wire, applied, told>>
    BY <2>1, BeginKeeps
  <2>3. Unsent(applied, wire, id)
    BY <2>2 DEF WritesOnce, Unsent
  <2> QED BY <2>2, <2>3 DEF WritesOnce, Unsent, Applied
<1>2. CASE \E c \in Caller : Send(c) /\ Calling(c)
  <2>1. PICK c \in Caller : Send(c) /\ Calling(c)
    BY <1>2
  <2>2. /\ SameCalls /\ Begun' = Begun
        /\ \A d \in Caller \ {c} : call'[d] = call[d]
        /\ call'[c].phase = "wait" /\ UNCHANGED <<applied, told>>
    BY <2>1, MovesKeep DEF Moves
  <2>3. wire' = wire \cup {RequestOf(c)} /\ call[c].phase = "send"
    BY <2>1 DEF Send
  <2>4. RequestOf(c).id = call[c].id /\ RequestOf(c).op = call[c].op
    BY DEF RequestOf
  <2>5. call[c].id \in Begun /\ call[c].id \in CallId
    BY <2>1, CallShape DEF Begun, Calling, Active
  <2>6. /\ applied[call[c].id] = 0
        /\ call[c].op.kind = "write" => \A m \in wire : m.id # call[c].id
        /\ \A m \in wire : m.id = call[c].id => m.op = call[c].op
    BY <2>1, <2>3 DEF WritesOnce, Unsent, WireIsOfCalls
  <2> DEFINE i == call[c].id
             q == RequestOf(c)
  <2>7. \A j \in CallId \ {i} :
            /\ Unsent(applied, wire, j) => Unsent(applied', wire', j)
            /\ Applied(applied, wire, j) => Applied(applied', wire', j)
    BY <2>2, <2>3, <2>4 DEF Unsent, Applied
  <2>8. /\ \A j \in CallId : applied'[j] = 0 \/ Applied(applied', wire', j)
        /\ \A j \in CallId \ Begun' : Unsent(applied', wire', j)
    BY <2>2, <2>5, <2>6, <2>7 DEF WritesOnce
  <2>9. \A m, n \in wire' : m.op.kind = "write" /\ m.id = n.id => m = n
    BY <2>3, <2>4, <2>6 DEF WritesOnce
  <2>10. \A d \in Caller : Calling(d)' =>
            IF call'[d].op.kind = "write"
            THEN /\ call'[d].phase = "send" => Unsent(applied', wire', call'[d].id)
                 /\ call'[d].phase = "ok" => Applied(applied', wire', call'[d].id)
                 /\ call'[d].phase = "failed" => Unsent(applied', wire', call'[d].id)
            ELSE applied'[call'[d].id] = 0
    <3> SUFFICES ASSUME NEW d \in Caller, Calling(d)'
                 PROVE  IF call'[d].op.kind = "write"
                        THEN /\ call'[d].phase = "send" => Unsent(applied', wire', call'[d].id)
                             /\ call'[d].phase = "ok" => Applied(applied', wire', call'[d].id)
                             /\ call'[d].phase = "failed" => Unsent(applied', wire', call'[d].id)
                        ELSE applied'[call'[d].id] = 0
      OBVIOUS
    <3>1. CASE d = c
      BY <3>1, <2>1, <2>2, <2>6 DEF SameCalls
    <3>2. CASE d # c
      <4>1. call'[d] = call[d] /\ Calling(d) /\ call[d].id # i /\ call[d].id \in CallId
        BY <3>2, <2>1, <2>2, CallShape DEF SameCalls, IdsDistinct, Active
      <4> QED BY <4>1, <2>2, <2>7 DEF WritesOnce
    <3> QED BY <3>1, <3>2
  <2>11. \A t \in told' : t.id \in CallId /\ t.id # i
    BY <2>1, <2>2 DEF IdsDistinct, TypeOK, Told
  <2>12. \A t \in told' : t.op.kind = "write" =>
            /\ t.outcome = "ok" => Applied(applied', wire', t.id)
            /\ t.outcome \in {"failed", "closed"} => Unsent(applied', wire', t.id)
    BY <2>2, <2>7, <2>11 DEF WritesOnce
  <2> QED BY <2>8, <2>9, <2>10, <2>12 DEF WritesOnce
<1>3. CASE \E c \in Caller : Calling(c) /\ (Wake(c) \/ Sleeps(c))
  <2>1. PICK c \in Caller : Calling(c) /\ (Wake(c) \/ Sleeps(c))
    BY <1>3
  <2>2. PICK p \in {"send", "sleep"} : Moves(c, p)
    BY <2>1 DEF Moves
  <2>3. /\ SameCalls /\ Begun' = Begun
        /\ \A d \in Caller \ {c} : call'[d] = call[d]
        /\ call'[c].phase = p /\ UNCHANGED <<applied, told>>
    BY <2>1, <2>2, MovesKeep
  <2>4. wire' = wire
    BY <2>1 DEF Wake, Sleeps
  <2>5. call[c].op.kind # "write"
    <3>1. call[c].attempt \in Nat /\ call[c].attempt < Attempts(call[c].op)
      BY <2>1, CallShape DEF Wake, Sleeps, TypeOK, Active, Calling
    <3> QED BY <3>1 DEF Attempts, CanRetry
  <2> QED BY <2>1, <2>3, <2>4, <2>5 DEF WritesOnce, SameCalls, Unsent, Applied
<1>4. CASE \E c \in Caller, o \in Outcome : Finishes(c, o)
  <2>1. PICK c \in Caller, o \in Outcome : Finishes(c, o)
    BY <1>4
  <2>2. /\ Calling(c) /\ Ends(c, o, call[c].id) /\ UNCHANGED <<wire, applied>>
        /\ (o \in Reply => call[c].phase = o) /\ (o = "closed" => call[c].phase = "send")
    BY <2>1 DEF Finishes
  <2>3. PICK r \in Told : /\ told' = told \cup {r} /\ r.id = call[c].id
                         /\ r.op = call[c].op /\ r.outcome = o
    BY <2>2, EndsTells
  <2>4. /\ ~Calling(c)' /\ Begun' = Begun
        /\ \A d \in Caller \ {c} : call'[d] = call[d] /\ (Calling(d)' <=> Calling(d))
    BY <2>2, EndsKeeps
  <2>5. r.op.kind = "write" =>
            /\ r.outcome = "ok" => Applied(applied, wire, r.id)
            /\ r.outcome \in {"failed", "closed"} => Unsent(applied, wire, r.id)
    BY <2>2, <2>3 DEF WritesOnce, Reply, Unsent, Applied
  <2> QED BY <2>2, <2>3, <2>4, <2>5 DEF WritesOnce, Unsent, Applied
<1>5. CASE \E m \in wire : Serves(m)
  <2>1. PICK m \in wire : Serves(m)
    BY <1>5
  <2>2. PICK r \in Reply : Answer(m, r) /\ Served(m, r)
    BY <2>1, ServesAnswer
  <2>3. /\ SameCalls /\ Begun' = Begun
        /\ \A d \in Caller : WaitsFor(d, m) =>
            call[d].id = m.id /\ call[d].op = m.op /\ call'[d].phase = r
        /\ \A d \in Caller : ~WaitsFor(d, m) => call'[d] = call[d]
    BY <2>2, AnswerKeeps
  <2>4. wire' = wire \ {m} /\ told' = told /\ m.id \in CallId /\ m.id \in Begun
    BY <2>2 DEF Answer, TypeOK, Request, WireIsOfCalls
  <2>5. applied[m.id] = 0 /\ (m.op.kind = "write" => \A n \in wire' : n.id # m.id)
    BY <2>4 DEF WritesOnce, Applied
  <2>6. \A j \in CallId \ {m.id} :
            /\ applied'[j] = applied[j]
            /\ Unsent(applied, wire, j) => Unsent(applied', wire', j)
            /\ Applied(applied, wire, j) => Applied(applied', wire', j)
    BY <2>2, <2>4 DEF Served, Unsent, Applied, TypeOK
  <2>7. /\ m.op.kind = "write" /\ r = "ok" => Applied(applied', wire', m.id)
        /\ m.op.kind # "write" \/ r # "ok" => applied'[m.id] = 0
        /\ m.op.kind = "write" /\ r # "ok" => Unsent(applied', wire', m.id)
        /\ m.op.kind = "write" => r \in {"ok", "failed"}
    BY <2>2, <2>4, <2>5 DEF Served, Unsent, Applied, TypeOK
  <2>8. /\ \A j \in CallId : applied'[j] = 0 \/ Applied(applied', wire', j)
        /\ \A j \in CallId \ Begun' : Unsent(applied', wire', j)
    BY <2>3, <2>4, <2>6, <2>7 DEF WritesOnce
  <2>9. \A k, n \in wire' : k.op.kind = "write" /\ k.id = n.id => k = n
    BY <2>4 DEF WritesOnce
  <2>10. ASSUME NEW d \in Caller, Calling(d)'
         PROVE  IF call'[d].op.kind = "write"
                THEN /\ call'[d].phase = "send" => Unsent(applied', wire', call'[d].id)
                     /\ call'[d].phase = "ok" => Applied(applied', wire', call'[d].id)
                     /\ call'[d].phase = "failed" => Unsent(applied', wire', call'[d].id)
                ELSE applied'[call'[d].id] = 0
    <3>1. /\ Calling(d) /\ call[d].id \in CallId
          /\ call'[d].id = call[d].id /\ call'[d].op = call[d].op
      BY <2>3, <2>10, CallShape DEF SameCalls, Active
    <3>2. CASE WaitsFor(d, m)
      BY <3>1, <3>2, <2>3, <2>7 DEF Unsent, Applied, Reply
    <3>3. CASE ~WaitsFor(d, m) /\ call[d].id # m.id
      BY <3>1, <3>3, <2>3, <2>6 DEF WritesOnce
    <3>4. CASE ~WaitsFor(d, m) /\ call[d].id = m.id
      <4>1. call[d].op = m.op /\ call'[d].phase = call[d].phase
        BY <3>1, <3>4, <2>3 DEF WireIsOfCalls
      <4>2. ~Unsent(applied, wire, m.id) /\ ~Applied(applied, wire, m.id)
        BY DEF Unsent, Applied
      <4> QED BY <3>1, <3>4, <4>1, <4>2, <2>7 DEF WritesOnce, Unsent, Applied
    <3> QED BY <3>2, <3>3, <3>4
  <2>11. ASSUME NEW t \in told', t.op.kind = "write"
         PROVE  /\ t.outcome = "ok" => Applied(applied', wire', t.id)
                /\ t.outcome \in {"failed", "closed"} => Unsent(applied', wire', t.id)
    <3>1. t \in told /\ t.id \in CallId
      BY <2>4, <2>11 DEF TypeOK, Told
    <3>2. ~Unsent(applied, wire, m.id) /\ ~Applied(applied, wire, m.id)
      BY DEF Unsent, Applied
    <3> QED BY <3>1, <3>2, <2>6, <2>11 DEF WritesOnce
  <2> QED BY <2>8, <2>9, <2>10, <2>11 DEF WritesOnce
<1>6. CASE Quiet \/ \E m \in wire : Lose(m)
  <2>1. UNCHANGED <<call, told, applied>> /\ wire' \subseteq wire
    BY <1>6 DEF Quiet, Lose
  <2>2. Begun' = Begun
    BY <2>1 DEF Begun
  <2> QED BY <2>1, <2>2 DEF WritesOnce, Unsent, Applied, Calling
<1> QED BY <1>1, <1>2, <1>3, <1>4, <1>5, <1>6, StepShapes DEF Sleeps

LEMMA RestStep ==
    ASSUME TypeOK, IdsDistinct, AnswersRest, [Next]_vars
    PROVE  AnswersRest'
<1>1. CASE \E c \in Caller, op \in Operation : Begin(c, op)
  <2>1. PICK c \in Caller, op \in Operation : Begin(c, op)
    BY <1>1
  <2>2. /\ call'[c].phase = "send"
        /\ \A d \in Caller \ {c} : call'[d] = call[d] /\ (Calling(d)' <=> Calling(d))
        /\ UNCHANGED <<log, told>>
    BY <2>1, BeginKeeps
  <2>3. Rests(log, call'[c].op, call'[c].phase)
        /\ \A k \in Key : ~Creates(call'[c].op, call'[c].phase, k)
    BY <2>2 DEF Rests, Creates
  <2> QED BY <2>2, <2>3 DEF AnswersRest
<1>2. CASE \E c \in Caller : Calling(c) /\ (Send(c) \/ Wake(c) \/ Sleeps(c))
  <2>1. PICK c \in Caller : Calling(c) /\ (Send(c) \/ Wake(c) \/ Sleeps(c))
    BY <1>2
  <2>2. PICK p \in {"send", "wait", "sleep"} : Moves(c, p)
    BY <2>1 DEF Moves
  <2>3. /\ call'[c].phase = p /\ SameCalls
        /\ \A d \in Caller \ {c} : call'[d] = call[d]
        /\ UNCHANGED <<log, told>>
    BY <2>1, <2>2, MovesKeep
  <2>4. Rests(log, call'[c].op, call'[c].phase)
        /\ \A k \in Key : ~Creates(call'[c].op, call'[c].phase, k)
    BY <2>3 DEF Rests, Creates
  <2> QED BY <2>3, <2>4 DEF AnswersRest, SameCalls
<1>3. CASE \E c \in Caller, o \in Outcome : Finishes(c, o)
  <2>1. PICK c \in Caller, o \in Outcome : Finishes(c, o)
    BY <1>3
  <2>2. /\ Calling(c) /\ Ends(c, o, call[c].id) /\ log' = log
        /\ (o \in Reply => call[c].phase = o)
    BY <2>1 DEF Finishes
  <2>3. PICK r \in Told : told' = told \cup {r} /\ r.op = call[c].op /\ r.outcome = o
    BY <2>2, EndsTells
  <2>4. /\ ~Calling(c)'
        /\ \A d \in Caller \ {c} : call'[d] = call[d] /\ (Calling(d)' <=> Calling(d))
    BY <2>2, EndsKeeps
  <2>5. CASE o \in Reply
    BY <2>2, <2>3, <2>4, <2>5 DEF AnswersRest
  <2>6. CASE o \notin Reply
    <3>1. Rests(log, r.op, r.outcome) /\ \A k \in Key : ~Creates(r.op, r.outcome, k)
      BY <2>3, <2>6 DEF Rests, Creates, Reply
    <3> QED BY <2>2, <2>3, <2>4, <3>1 DEF AnswersRest
  <2> QED BY <2>5, <2>6
<1>4. CASE \E m \in wire : Serves(m)
  <2>1. PICK m \in wire : Serves(m)
    BY <1>4
  <2>2. PICK r \in Reply : Answer(m, r) /\ Served(m, r)
    BY <2>1, ServesAnswer
  <2>3. /\ SameCalls
        /\ \A d \in Caller : WaitsFor(d, m) =>
            /\ Calling(d) /\ call[d].id = m.id
            /\ call[d].op = m.op /\ call'[d].phase = r
        /\ \A d \in Caller : ~WaitsFor(d, m) => call'[d] = call[d]
    BY <2>2, AnswerKeeps
  <2>4. told' = told /\ m.op \in Operation
    BY <2>2 DEF Answer, TypeOK, Request
  <2>5. \A d, e \in Caller : WaitsFor(d, m) /\ WaitsFor(e, m) => d = e
    BY <2>3 DEF IdsDistinct
  <2>6. ASSUME NEW op \in Operation, NEW o, Rests(log, op, o)
        PROVE  Rests(log', op, o)
    BY <2>2, <2>4, <2>6, ConstantAssumption
       DEF Served, Rests, Operation, Event, TypeOK, Service!Stored
  <2>7. Rests(log', m.op, r)
    BY <2>2, <2>4, ConstantAssumption
       DEF Served, Rests, Operation, Event, TypeOK, Service!Stored, Service!Decision
  <2>8. ASSUME NEW k \in Key, Creates(m.op, r, k), NEW op \in Operation, NEW o,
               Rests(log, op, o)
        PROVE  ~Creates(op, o, k)
    <3>1. log[k] = NoContent
      BY <2>2, <2>8 DEF Served, Creates, Service!Decision
    <3> QED BY <2>8, <3>1, ConstantAssumption DEF Rests, Creates, Operation, Event
  <2>9. \A t \in told : t.op \in Operation
    BY DEF TypeOK, Told
  <2>10. \A d \in Caller : Calling(d) => call[d].op \in Operation
    BY CallShape DEF Active
  <2>11. \A t \in told' : Rests(log', t.op, t.outcome)
    BY <2>4, <2>6, <2>9 DEF AnswersRest
  <2>12. \A d \in Caller : Calling(d)' =>
            /\ Calling(d) /\ call'[d].op = call[d].op
            /\ Rests(log', call'[d].op, call'[d].phase)
    BY <2>3, <2>6, <2>7, <2>10 DEF AnswersRest, SameCalls
  <2>13. ASSUME NEW k \in Key
         PROVE  /\ \A t, u \in told' :
                    Creates(t.op, t.outcome, k) /\ Creates(u.op, u.outcome, k) => t = u
                /\ \A t \in told', c \in Caller :
                    Calling(c)' /\ Creates(t.op, t.outcome, k)
                        => ~Creates(call'[c].op, call'[c].phase, k)
                /\ \A c, d \in Caller :
                    Calling(c)' /\ Calling(d)' /\ c # d
                    /\ Creates(call'[c].op, call'[c].phase, k)
                        => ~Creates(call'[d].op, call'[d].phase, k)
    <3>1. \A d \in Caller : Calling(d) /\ ~WaitsFor(d, m) =>
            call'[d].op = call[d].op /\ call'[d].phase = call[d].phase
      BY <2>3
    <3>2. \A d \in Caller : WaitsFor(d, m) =>
            call'[d].op = m.op /\ call'[d].phase = r
      BY <2>3 DEF SameCalls
    <3>3. CASE Creates(m.op, r, k)
      <4>1. \A t \in told : ~Creates(t.op, t.outcome, k)
        BY <2>8, <2>9, <3>3 DEF AnswersRest
      <4>2. \A d \in Caller : Calling(d) => ~Creates(call[d].op, call[d].phase, k)
        BY <2>8, <2>10, <3>3 DEF AnswersRest
      <4> QED BY <2>4, <2>5, <2>12, <3>1, <4>1, <4>2
    <3>4. CASE ~Creates(m.op, r, k)
      BY <2>4, <2>12, <3>1, <3>2, <3>4 DEF AnswersRest
    <3> QED BY <3>3, <3>4
  <2> QED BY <2>11, <2>12, <2>13 DEF AnswersRest
<1>5. CASE Quiet \/ \E m \in wire : Lose(m)
  BY <1>5 DEF Quiet, Lose, AnswersRest, Calling
<1> QED BY <1>1, <1>2, <1>3, <1>4, <1>5, StepShapes DEF Sleeps

LEMMA ReportsStep ==
    ASSUME TypeOK, ErrorsNameTheirRequest, [Next]_vars
    PROVE  ErrorsNameTheirRequest'
<1>1. CASE \E c \in Caller, o \in Outcome : Finishes(c, o)
  BY <1>1, EndsTells DEF Finishes, ErrorsNameTheirRequest
<1>2. CASE told' = told
  BY <1>2 DEF ErrorsNameTheirRequest
<1>3. \/ told' = told
      \/ \E c \in Caller, o \in Outcome : Finishes(c, o)
  <2>1. ASSUME NEW m \in wire, Serves(m)
        PROVE  told' = told
    BY <2>1, ServesAnswer DEF Answer
  <2> QED BY <2>1, StepShapes DEF Begin, Send, Wake, Sleeps, Lose, Quiet
<1> QED BY <1>1, <1>2, <1>3

LEMMA InvInit == Init => Inv
<1> SUFFICES ASSUME Init
             PROVE  Inv
  OBVIOUS
<1>1. TypeOK
  BY DEF Init, TypeOK
<1>2. \A c \in Caller : ~Calling(c)
  BY DEF Init, Calling
<1>3. told = {} /\ wire = {} /\ \A i \in CallId : applied[i] = 0
  BY DEF Init
<1>4. IdsDistinct /\ WireIsOfCalls /\ AnswersRest /\ ErrorsNameTheirRequest
  BY <1>2, <1>3 DEF IdsDistinct, WireIsOfCalls, AnswersRest, ErrorsNameTheirRequest
<1>5. WritesOnce
  BY <1>2, <1>3 DEF WritesOnce, Unsent
<1> QED BY <1>1, <1>4, <1>5 DEF Inv

-----------------------------------------------------------------------------
(* The theorems.                                                           *)

\* The invariant that the others follow from: however many attempts of however
\* many calls are under way, their ids are distinct, a write has one request,
\* and every answer given, received or not, is true of what is stored.
THEOREM ClientInvariant == Spec => []Inv
<1>1. Inv /\ [Next]_vars => Inv'
  BY TypeStep, IdsStep, WritesStep, RestStep, ReportsStep DEF Inv
<1> QED BY InvInit, <1>1, PTL DEF Spec

\* The type invariant: no call makes more attempts than _request allows it.
THEOREM TypeCorrect == Spec => []TypeOK
<1>1. Inv => TypeOK
  BY DEF Inv
<1> QED BY ClientInvariant, <1>1, PTL

\* An operation that _request does not retry is applied once at most, was
\* applied when it is reported done and never will be when it is refused.
THEOREM WriteAppliedAtMostOnce == Spec => []WritesAtMostOnce
<1>1. Inv => WritesAtMostOnce
  BY DEF Inv, WritesOnce, WritesAtMostOnce, Unsent, Applied
<1> QED BY ClientInvariant, <1>1, PTL

\* What ingest_event told a caller stays true, whichever attempt was answered
\* and whatever late attempts the service still serves.
THEOREM ToldStaysStored == Spec => []ToldIsStored
<1>1. Inv => ToldIsStored
  <2> SUFFICES ASSUME Inv, NEW t \in told, t.op.kind = "event"
               PROVE  /\ t.outcome \in {"created", "replayed"} =>
                            log[t.op.key] = t.op.content
                      /\ t.outcome = "conflict" =>
                            log[t.op.key] \notin {t.op.content, NoContent}
                      /\ \A u \in told : u.op.kind = "event" /\ u.op.key = t.op.key
                            /\ u.outcome = "created" /\ t.outcome = "created" => u = t
    BY DEF ToldIsStored
  <2>1. t.op.key \in Key
    BY DEF Inv, TypeOK, Told, Operation, Event
  <2> QED BY <2>1 DEF Inv, AnswersRest, Rests, Creates
<1> QED BY ClientInvariant, <1>1, PTL

\* An error carries the request id of its own call, although all calls write
\* last_request_id.
THEOREM ErrorsCarryTheirId == Spec => []ErrorsNameTheirRequest
<1>1. Inv => ErrorsNameTheirRequest
  BY DEF Inv
<1> QED BY ClientInvariant, <1>1, PTL
=============================================================================
