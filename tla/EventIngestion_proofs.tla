------------------------ MODULE EventIngestion_proofs ------------------------
(***************************************************************************)
(* What TLAPS proves about EventIngestion for every set of callers, keys, *)
(* contents, sources and batches.  A committed event has its evidence     *)
(* because a unit of work flushes both before it commits, and it has one  *)
(* because no two units of work, and no committed row, ever hold the same *)
(* key or the same source: the unique indexes.  The last part shows that   *)
(* it implements EventLog.                                                 *)
(***************************************************************************)
EXTENDS EventIngestion, FiniteSetTheorems, TLAPS

\* Each row has one of the proofs.
Traced(rows, proofs) ==
    \A r \in rows : \E p \in proofs : \A q \in proofs : q.event = r <=> q = p

Grounded(proofs, rows) == \A p \in proofs : p.event \in rows

OneRef(proofs) == \A p, q \in proofs : p.ref = q.ref /\ p.ref # NoRef => p = q

OneKey(rows) == \A r, s \in rows : r.key = s.key => r = s

\* What is committed.
Sound ==
    /\ Traced(events, evidence) /\ Grounded(evidence, events)
    /\ OneRef(evidence) /\ OneKey(events)
    /\ events # {} => subject

\* The item a request is at.
At(q) == q.items[q.at]

\* A request that is not over is at one of its items, or past the last one.
Placed(q) ==
    /\ q.phase \in {"open", "enrol", "read", "insert", "prove", "retry"}
        => q.items \in Batch /\ q.at \in 1..Len(q.items)
    /\ q.phase = "commit"
        => q.items \in Batch /\ (q.mode = "each" => q.at \in 1..Len(q.items))

\* What it has flushed is as sound as what is committed, but for the row whose
\* evidence comes next, and needs a subject.
Flushed(q) ==
    /\ Grounded(q.proofs, q.rows) /\ OneRef(q.proofs) /\ OneKey(q.rows)
    /\ q.phase # "prove" => Traced(q.rows, q.proofs)
    /\ q.phase = "prove" =>
        /\ \E r \in q.rows : r.key = At(q).key
        /\ Traced({r \in q.rows : r.key # At(q).key}, q.proofs)
        /\ \A p \in q.proofs : p.event.key # At(q).key
    /\ q.phase = "insert" => \A r \in q.rows : r.key # At(q).key
    /\ q.phase \in {"read", "insert", "prove", "commit"} => subject \/ q.newSubject
    /\ q.phase \in {"idle", "open", "enrol", "retry", "answered"} =>
        ~q.newSubject /\ q.rows = {} /\ q.proofs = {}

\* The unique indexes: rows and proofs share no key and no source with others.
Apart(rows, proofs, others, theirs) ==
    /\ \A r \in rows, s \in others : r.key # s.key
    /\ \A p \in proofs, t \in theirs : p.ref = t.ref => p.ref = NoRef

Held(q) == Placed(q) /\ Flushed(q) /\ Apart(q.rows, q.proofs, events, evidence)

\* The inductive invariant.
Inv ==
    /\ TypeOK /\ Sound
    /\ \A c \in Client : Held(request[c])
    /\ \A c, d \in Client : c # d =>
        Apart(request[c].rows, request[c].proofs, request[d].rows, request[d].proofs)

-----------------------------------------------------------------------------
(* The operators the model is built from.                                  *)

\* The batches are lists of items.
LEMMA BatchItems ==
    ASSUME NEW items \in Batch
    PROVE  /\ items \in Seq(Item) /\ Len(items) \in Nat \ {0}
           /\ \A i \in 1..Len(items) : items[i] \in Item
BY ConstantAssumption

LEMMA AppendIsStatus ==
    ASSUME NEW s \in Seq(Status), NEW status \in Status
    PROVE  Append(s, status) \in Seq(Status)
OBVIOUS

LEMMA IdleIsRequest == Idle \in Request
BY DEF Idle, Request, Mode

\* What is left of a request whose unit of work has ended.
Over(q, r) ==
    /\ r \in Request /\ ~r.newSubject /\ r.rows = {} /\ r.proofs = {}
    /\ r.mode = q.mode /\ r.items = q.items

LEMMA RolledBackIsOver ==
    ASSUME NEW q \in Request
    PROVE  /\ Over(q, RolledBack(q)) /\ RolledBack(q).at = q.at
           /\ RolledBack(q).status = q.status /\ RolledBack(q).phase = q.phase
BY DEF RolledBack, Over, Request

LEMMA AnsweredIsOver ==
    ASSUME NEW q \in Request, NEW status \in Status
    PROVE  /\ Over(q, Answered(q, status)) /\ Answered(q, status).at = q.at + 1
           /\ Answered(q, status).phase =
                IF q.at = Len(q.items) THEN "answered" ELSE "open"
           /\ Answered(q, status).status = Append(q.status, status)
<1>1. PICK r : r = RolledBack(q)
  OBVIOUS
<1>2. Over(q, r) /\ r.at = q.at /\ r.status = q.status
  BY <1>1, RolledBackIsOver
<1>3. PICK n \in Nat \ {0} : n = r.at + 1
  BY <1>2 DEF Request
<1>4. PICK s \in Seq(Status) : s = Append(r.status, status)
  <2>1. r.status \in Seq(Status)
    BY <1>2 DEF Over, Request
  <2>2. QED
    BY <2>1, AppendIsStatus
<1>5. PICK phase \in {"answered", "open"} :
        phase = IF q.at = Len(q.items) THEN "answered" ELSE "open"
  OBVIOUS
<1>6. Answered(q, status) = [r EXCEPT !.status = s, !.at = n, !.phase = phase]
  BY <1>1, <1>3, <1>4, <1>5 DEF Answered
<1>7. r \in Request /\ ~r.newSubject /\ r.rows = {} /\ r.proofs = {}
      /\ r.mode = q.mode /\ r.items = q.items
  BY <1>2 DEF Over
<1>8. PICK a : a = [r EXCEPT !.status = s, !.at = n, !.phase = phase]
  OBVIOUS
<1>9. /\ a \in Request /\ ~a.newSubject /\ a.rows = {} /\ a.proofs = {}
      /\ a.mode = q.mode /\ a.items = q.items /\ a.at = n /\ a.phase = phase
      /\ a.status = s
  BY <1>7, <1>8 DEF Request
<1>10. a.status = Append(q.status, status)
  BY <1>2, <1>4, <1>9
<1>11. QED
  BY <1>2, <1>3, <1>5, <1>6, <1>8, <1>9, <1>10 DEF Over

LEMMA RefusedIsOver ==
    ASSUME NEW q \in Request, NEW status \in Status
    PROVE  /\ Over(q, Refused(q, status)) /\ Refused(q, status).phase = "answered"
           /\ Refused(q, status).status = <<status>>
<1>1. PICK r : r = RolledBack(q)
  OBVIOUS
<1>2. Over(q, r)
  BY <1>1, RolledBackIsOver
<1>3. Refused(q, status) = [r EXCEPT !.status = <<status>>, !.phase = "answered"]
  BY <1>1 DEF Refused
<1>4. <<status>> \in Seq(Status)
  OBVIOUS
<1>5. QED
  BY <1>2, <1>3, <1>4 DEF Over, Request

LEMMA ViolatedIsOver ==
    ASSUME NEW q \in Request
    PROVE  /\ Over(q, Violated(q))
           /\ \/ /\ q.mode # "each" /\ Violated(q).phase = "answered"
                 /\ Violated(q).status = <<"failed">>
              \/ /\ q.mode = "each" /\ Violated(q).phase = "retry"
                 /\ Violated(q).at = q.at /\ Violated(q).status = q.status
<1>1. CASE q.mode = "each"
  <2>1. PICK r : r = RolledBack(q)
    OBVIOUS
  <2>2. Over(q, r) /\ r.at = q.at /\ r.status = q.status
    BY <2>1, RolledBackIsOver
  <2>3. Violated(q) = [r EXCEPT !.phase = "retry"]
    BY <1>1, <2>1 DEF Violated
  <2>4. QED
    BY <1>1, <2>2, <2>3 DEF Over, Request
<1>2. CASE q.mode # "each"
  <2>1. Violated(q) = Refused(q, "failed") /\ "failed" \in Status
    BY <1>2 DEF Violated, Status
  <2>2. QED
    BY <1>2, <2>1, RefusedIsOver
<1>3. QED
  BY <1>1, <1>2

\* An item that is done leaves what was flushed alone.
LEMMA AdvancedFields ==
    ASSUME NEW q \in Request, NEW status \in Status
    PROVE  LET r == Advanced(q, status) IN
           /\ r \in Request /\ r.mode = q.mode /\ r.items = q.items
           /\ r.newSubject = q.newSubject /\ r.rows = q.rows /\ r.proofs = q.proofs
           /\ \/ r.phase = "read" /\ r.at = q.at + 1 /\ q.at < Len(q.items)
              \/ r.phase = "commit" /\ (q.mode = "each" => r.at = q.at)
           /\ q.mode = "atomic" => /\ r.status = Append(q.status, status)
                                   /\ r.at = q.at + 1
                                   /\ r.phase = "commit" => ~(q.at < Len(q.items))
           /\ q.mode = "each" => r.phase = "commit" /\ r.status = q.status
<1>1. PICK n \in Nat \ {0} : n = IF q.mode = "atomic" THEN q.at + 1 ELSE q.at
  BY DEF Request
<1>2. PICK s \in Seq(Status) :
        s = IF q.mode = "atomic" THEN Append(q.status, status) ELSE q.status
  <2>1. q.status \in Seq(Status)
    BY DEF Request
  <2>2. QED
    BY <2>1, AppendIsStatus
<1>3. PICK phase \in {"read", "commit"} :
        phase = IF q.mode = "atomic" /\ q.at < Len(q.items) THEN "read" ELSE "commit"
  OBVIOUS
<1>4. Advanced(q, status) = [q EXCEPT !.status = s, !.at = n, !.phase = phase]
  BY <1>1, <1>2, <1>3 DEF Advanced
<1>5. PICK r : r = [q EXCEPT !.status = s, !.at = n, !.phase = phase]
  OBVIOUS
<1>6. /\ r \in Request /\ r.mode = q.mode /\ r.items = q.items
      /\ r.newSubject = q.newSubject /\ r.rows = q.rows /\ r.proofs = q.proofs
      /\ r.status = s /\ r.at = n /\ r.phase = phase
  BY <1>5 DEF Request
<1>7. /\ q.mode = "atomic" => r.status = Append(q.status, status)
      /\ q.mode = "each" => r.status = q.status
  BY <1>2, <1>6
<1>8. QED
  BY <1>1, <1>3, <1>4, <1>5, <1>6, <1>7

-----------------------------------------------------------------------------
(* Two frames: a step of one request that leaves the rows alone, and one   *)
(* that gives up everything it had flushed.                                *)

\* What a caller's request is known to be.
LEMMA RequestIsHeld ==
    ASSUME Inv, NEW c \in Client
    PROVE  request[c] \in Request /\ Held(request[c])
BY DEF Inv, TypeOK

\* What holds of a request after a step, by what it is then.
LEMMA HeldAfter ==
    ASSUME NEW c, NEW q, request'[c] = q, Held(q)'
    PROVE  Held(request[c])'
<1>1. Placed(request[c])'
  BY DEF Held, Placed
<1>2. Flushed(request[c])'
  BY DEF Held, Flushed, At
<1>3. Apart(request[c].rows, request[c].proofs, events, evidence)'
  BY DEF Held
<1>4. QED
  BY <1>1, <1>2, <1>3 DEF Held

LEMMA RequestStep ==
    ASSUME Inv, Kept, NEW c \in Client, NEW q \in Request, Become(c, q), Held(q),
           \A d \in Client \ {c} :
               Apart(q.rows, q.proofs, request[d].rows, request[d].proofs)
    PROVE  Inv'
<1>1. request' = [request EXCEPT ![c] = q] /\ UNCHANGED <<subject, events, evidence>>
  BY DEF Become, Kept
<1>2. /\ request' \in [Client -> Request]
      /\ \A d \in Client : request'[d] = IF d = c THEN q ELSE request[d]
  BY <1>1 DEF Inv, TypeOK
<1>3. ASSUME NEW d \in Client PROVE Held(request[d])'
  <2>1. PICK r : r = request'[d] /\ Held(r)
    BY <1>2 DEF Inv
  <2>2. Held(r)'
    BY <1>1, <2>1 DEF Held, Placed, Flushed, At
  <2>3. QED
    BY <2>1, <2>2, HeldAfter
<1>4. TypeOK'
  BY <1>1, <1>2, <1>3 DEF Inv, TypeOK, Held, Flushed
<1>5. Sound'
  BY <1>1 DEF Inv, Sound
<1>6. ASSUME NEW d \in Client, NEW e \in Client, d # e
      PROVE  Apart(request'[d].rows, request'[d].proofs, request'[e].rows, request'[e].proofs)
  <2>1. CASE d = c
    BY <1>2, <1>6, <2>1
  <2>2. CASE e = c
    <3>1. Apart(q.rows, q.proofs, request[d].rows, request[d].proofs)
      BY <1>6, <2>2
    <3>2. request'[d] = request[d] /\ request'[e] = q
      BY <1>2, <1>6, <2>2
    <3>3. QED
      BY <3>1, <3>2 DEF Apart
  <2>3. CASE d # c /\ e # c
    BY <1>2, <1>6, <2>3 DEF Inv
  <2>4. QED
    BY <2>1, <2>2, <2>3
<1>7. QED
  BY <1>3, <1>4, <1>5, <1>6 DEF Inv

\* Nothing flushed is never in the way.
LEMMA EndStep ==
    ASSUME Inv, Kept, NEW c \in Client, NEW q \in Request, Become(c, q),
           ~q.newSubject, q.rows = {}, q.proofs = {},
           \/ q.phase \in {"idle", "answered"}
           \/ /\ q.phase \in {"open", "retry"}
              /\ q.items \in Batch /\ q.at \in 1..Len(q.items)
    PROVE  Inv'
<1>1. Placed(q)
  BY DEF Placed
<1>2. Flushed(q)
  BY DEF Flushed, Grounded, OneRef, OneKey, Traced
<1>3. Apart(q.rows, q.proofs, events, evidence)
  BY DEF Apart
<1>4. \A d \in Client \ {c} : Apart(q.rows, q.proofs, request[d].rows, request[d].proofs)
  BY DEF Apart
<1>5. QED
  BY <1>1, <1>2, <1>3, <1>4, RequestStep DEF Held

\* An item is answered, and its request goes on with the next one or is over.
LEMMA AnsweredStep ==
    ASSUME Inv, Kept, NEW c \in Client, NEW status \in Status,
           request[c].phase \in {"read", "retry"},
           Become(c, Answered(request[c], status))
    PROVE  Inv'
<1>1. PICK q \in Request : q = request[c] /\ Placed(q)
  BY RequestIsHeld DEF Held
<1>2. PICK r : r = Answered(q, status)
  OBVIOUS
<1>3. /\ Over(q, r) /\ r.at = q.at + 1
      /\ r.phase = IF q.at = Len(q.items) THEN "answered" ELSE "open"
  BY <1>2, AnsweredIsOver
<1>4. q.items \in Batch /\ q.at \in 1..Len(q.items)
  BY <1>1 DEF Placed
<1>5. r.phase = "answered" \/ (r.phase = "open" /\ r.at \in 1..Len(q.items))
  BY <1>3, <1>4, BatchItems
<1>6. Become(c, r)
  BY <1>1, <1>2
<1>7. QED
  BY <1>3, <1>4, <1>5, <1>6, EndStep DEF Over

LEMMA RefusedStep ==
    ASSUME Inv, Kept, NEW c \in Client, NEW status \in Status,
           Become(c, Refused(request[c], status))
    PROVE  Inv'
<1>1. request[c] \in Request
  BY RequestIsHeld
<1>2. QED
  BY <1>1, RefusedIsOver, EndStep DEF Over

LEMMA ViolatedStep ==
    ASSUME Inv, Kept, NEW c \in Client, request[c].phase \in {"enrol", "insert", "prove"},
           Become(c, Violated(request[c]))
    PROVE  Inv'
<1>1. PICK q \in Request : q = request[c] /\ Placed(q)
  BY RequestIsHeld DEF Held
<1>2. PICK r : r = Violated(q)
  OBVIOUS
<1>3. Over(q, r) /\ (r.phase = "answered" \/ (r.phase = "retry" /\ r.at = q.at))
  BY <1>2, ViolatedIsOver
<1>4. q.items \in Batch /\ q.at \in 1..Len(q.items) /\ Become(c, r)
  BY <1>1, <1>2 DEF Placed
<1>5. QED
  BY <1>3, <1>4, EndStep DEF Over

\* A request that goes on with what it has flushed.
LEMMA MoveStep ==
    ASSUME Inv, Kept, NEW c \in Client, NEW q \in Request, Become(c, q),
           q.rows = request[c].rows, q.proofs = request[c].proofs, Placed(q), Flushed(q)
    PROVE  Inv'
<1>1. Apart(q.rows, q.proofs, events, evidence)
  BY RequestIsHeld DEF Held
<1>2. \A d \in Client \ {c} : Apart(q.rows, q.proofs, request[d].rows, request[d].proofs)
  BY DEF Inv
<1>3. QED
  BY <1>1, <1>2, RequestStep DEF Held

-----------------------------------------------------------------------------
(* The steps of a request.                                                 *)

LEMMA SubmitStep ==
    ASSUME Inv, NEW c \in Client, NEW mode \in Mode, NEW items \in Batch,
           Submit(c, mode, items)
    PROVE  Inv'
<1>1. PICK q : q = [Idle EXCEPT !.phase = "open", !.mode = mode, !.items = items]
  OBVIOUS
<1>2. /\ q \in Request /\ q.phase = "open" /\ q.items = items /\ q.at = Idle.at
      /\ q.newSubject = Idle.newSubject /\ q.rows = Idle.rows /\ q.proofs = Idle.proofs
  BY <1>1, IdleIsRequest DEF Request
<1>3. q.at = 1 /\ ~q.newSubject /\ q.rows = {} /\ q.proofs = {}
  BY <1>2 DEF Idle
<1>4. q.items \in Batch /\ q.at \in 1..Len(q.items)
  BY <1>2, <1>3, BatchItems
<1>5. Become(c, q) /\ Kept
  BY <1>1 DEF Submit
<1>6. QED
  BY <1>2, <1>3, <1>4, <1>5, EndStep

\* The caller has its answer, or is gone.
LEMMA ReturnStep ==
    ASSUME Inv, NEW c \in Client, Return(c) \/ Crash(c)
    PROVE  Inv'
<1>1. Idle.phase = "idle" /\ ~Idle.newSubject /\ Idle.rows = {} /\ Idle.proofs = {}
  BY DEF Idle
<1>2. QED
  BY <1>1, IdleIsRequest, EndStep DEF Return, Crash

LEMMA OpenStep ==
    ASSUME Inv, NEW c \in Client, Open(c)
    PROVE  Inv'
<1>1. PICK p \in Request : p = request[c] /\ Placed(p) /\ Flushed(p)
  BY RequestIsHeld DEF Held
<1>2. PICK phase \in {"read", "enrol"} : phase = IF subject THEN "read" ELSE "enrol"
  OBVIOUS
<1>3. PICK q : q = [p EXCEPT !.phase = phase]
  OBVIOUS
<1>4. /\ q \in Request /\ q.phase = phase /\ q.items = p.items /\ q.at = p.at
      /\ q.newSubject = p.newSubject /\ q.rows = p.rows /\ q.proofs = p.proofs
  BY <1>3 DEF Request
<1>5. p.phase = "open" /\ Become(c, q) /\ Kept
  BY <1>1, <1>2, <1>3 DEF Open, Goes
<1>6. Placed(q)
  BY <1>1, <1>4, <1>5 DEF Placed
<1>7. Flushed(q)
  BY <1>1, <1>2, <1>4, <1>5 DEF Flushed, Traced, Grounded
<1>8. QED
  BY <1>1, <1>4, <1>5, <1>6, <1>7, MoveStep

LEMMA EnrolStep ==
    ASSUME Inv, NEW c \in Client, Enrol(c)
    PROVE  Inv'
<1>1. PICK p \in Request : p = request[c] /\ Placed(p) /\ Flushed(p)
  BY RequestIsHeld DEF Held
<1>2. PICK q : q = [p EXCEPT !.phase = "read", !.newSubject = TRUE]
  OBVIOUS
<1>3. /\ q \in Request /\ q.phase = "read" /\ q.items = p.items /\ q.at = p.at
      /\ q.newSubject = TRUE /\ q.rows = p.rows /\ q.proofs = p.proofs
  BY <1>2 DEF Request
<1>4. p.phase = "enrol" /\ Become(c, q) /\ Kept
  BY <1>1, <1>2 DEF Enrol
<1>5. Placed(q)
  BY <1>1, <1>3, <1>4 DEF Placed
<1>6. Flushed(q)
  BY <1>1, <1>3, <1>4 DEF Flushed, Traced, Grounded
<1>7. QED
  BY <1>1, <1>3, <1>4, <1>5, <1>6, MoveStep

\* A violated constraint gives up the unit of work.
LEMMA LostStep ==
    ASSUME Inv, NEW c \in Client,
           EnrolLost(c) \/ InsertEventLost(c) \/ InsertEvidenceLost(c)
    PROVE  Inv'
BY ViolatedStep DEF EnrolLost, InsertEventLost, InsertEvidenceLost

\* A key without a row: its event is inserted next.
LEMMA NotFoundStep ==
    ASSUME Inv, Kept, NEW c \in Client, request[c].phase = "read",
           Found(c, Current(c).key) = {}, Goes(c, "insert")
    PROVE  Inv'
<1>1. PICK p \in Request : p = request[c] /\ Placed(p) /\ Flushed(p)
  BY RequestIsHeld DEF Held
<1>2. PICK q : q = [p EXCEPT !.phase = "insert"]
  OBVIOUS
<1>3. /\ q \in Request /\ q.phase = "insert" /\ q.items = p.items /\ q.at = p.at
      /\ q.newSubject = p.newSubject /\ q.rows = p.rows /\ q.proofs = p.proofs
  BY <1>2 DEF Request
<1>4. \A r \in p.rows : r.key # At(p).key
  BY <1>1 DEF Found, Current, At
<1>5. Placed(q)
  BY <1>1, <1>3 DEF Placed
<1>6. At(q) = At(p)
  BY <1>3 DEF At
<1>7. Flushed(q)
  BY <1>1, <1>3, <1>4, <1>6 DEF Flushed
<1>8. Become(c, q)
  BY <1>1, <1>2 DEF Goes
<1>9. QED
  BY <1>1, <1>3, <1>5, <1>7, <1>8, MoveStep

\* An item whose event and evidence are there is done.
LEMMA AdvanceStep ==
    ASSUME Inv, Kept, NEW c \in Client, NEW status \in Status,
           request[c].phase = "read", Become(c, Advanced(request[c], status))
    PROVE  Inv'
<1>1. PICK p \in Request : p = request[c] /\ Placed(p) /\ Flushed(p)
  BY RequestIsHeld DEF Held
<1>2. PICK q : q = Advanced(p, status)
  OBVIOUS
<1>3. /\ q \in Request /\ q.mode = p.mode /\ q.items = p.items
      /\ q.newSubject = p.newSubject /\ q.rows = p.rows /\ q.proofs = p.proofs
      /\ \/ q.phase = "read" /\ q.at = p.at + 1 /\ p.at < Len(p.items)
         \/ q.phase = "commit" /\ (p.mode = "each" => q.at = p.at)
  BY <1>2, AdvancedFields
<1>4. p.items \in Batch /\ p.at \in 1..Len(p.items)
  BY <1>1 DEF Placed
<1>5. Placed(q)
  BY <1>3, <1>4, BatchItems DEF Placed
<1>6. Flushed(q)
  BY <1>1, <1>3 DEF Flushed
<1>7. Become(c, q)
  BY <1>1, <1>2
<1>8. QED
  BY <1>1, <1>3, <1>5, <1>6, <1>7, MoveStep

LEMMA ReadStep ==
    ASSUME Inv, NEW c \in Client, Read(c)
    PROVE  Inv'
<1>1. request[c].phase = "read" /\ Kept
  BY DEF Read
<1>2. "replayed" \in Status /\ "conflict" \in Status
  BY DEF Status
<1>3. CASE Found(c, Current(c).key) = {} /\ Goes(c, "insert")
  BY <1>1, <1>3, NotFoundStep
<1>4. ASSUME NEW row \in Found(c, Current(c).key),
             CASE Decide(row, Current(c)) = "replayed" /\ request[c].mode = "atomic" ->
                    Become(c, Advanced(request[c], "replayed"))
              [] Decide(row, Current(c)) = "replayed" /\ request[c].mode = "each" ->
                    Become(c, Answered(request[c], "replayed"))
              [] Decide(row, Current(c)) = "conflict" /\ request[c].mode = "atomic" ->
                    Become(c, Refused(request[c], "conflict"))
              [] OTHER ->
                    Become(c, Answered(request[c], "conflict"))
      PROVE  Inv'
  <2>1. \/ Become(c, Advanced(request[c], "replayed"))
        \/ Become(c, Answered(request[c], "replayed"))
        \/ Become(c, Refused(request[c], "conflict"))
        \/ Become(c, Answered(request[c], "conflict"))
    BY <1>4
  <2>2. QED
    BY <1>1, <1>2, <2>1, AdvanceStep, AnsweredStep, RefusedStep
<1>5. QED
  BY <1>3, <1>4 DEF Read

LEMMA EntityMissingStep ==
    ASSUME Inv, NEW c \in Client, EntityMissing(c)
    PROVE  Inv'
<1>1. "failed" \in Status
  BY DEF Status
<1>2. QED
  BY <1>1, AnsweredStep, RefusedStep DEF EntityMissing

LEMMA RetryStep ==
    ASSUME Inv, NEW c \in Client, Retry(c)
    PROVE  Inv'
<1>1. "failed" \in Status /\ \A row : Decide(row, Current(c)) \in Status
  BY DEF Status, Decide
<1>2. QED
  BY <1>1, AnsweredStep DEF Retry

LEMMA DeadlockVictimStep ==
    ASSUME Inv, NEW c \in Client, DeadlockVictim(c)
    PROVE  Inv'
<1>1. PICK p \in Request : p = request[c]
  BY RequestIsHeld
<1>2. "failed" \in Status
  BY DEF Status
<1>3. PICK r : r = Refused(p, "failed")
  OBVIOUS
<1>4. Over(p, r) /\ r.phase = "answered"
  BY <1>2, <1>3, RefusedIsOver
<1>5. PICK s \in Seq(Status) :
        s = IF p.mode = "each" THEN Append(p.status, "failed") ELSE <<"failed">>
  <2>1. p.status \in Seq(Status) /\ <<"failed">> \in Seq(Status)
    BY <1>2 DEF Request
  <2>2. QED
    BY <1>2, <2>1, AppendIsStatus
<1>6. PICK q : q = [r EXCEPT !.status = s]
  OBVIOUS
<1>7. /\ q \in Request /\ ~q.newSubject /\ q.rows = {} /\ q.proofs = {}
      /\ q.phase = "answered"
  BY <1>4, <1>6 DEF Over, Request
<1>8. Become(c, q) /\ Kept
  BY <1>1, <1>3, <1>5, <1>6 DEF DeadlockVictim
<1>9. QED
  BY <1>7, <1>8, EndStep

\* An event is inserted under a key that nobody holds.
LEMMA InsertEventStep ==
    ASSUME Inv, NEW c \in Client, InsertEvent(c)
    PROVE  Inv'
<1>1. PICK p \in Request : p = request[c] /\ Held(p)
  BY RequestIsHeld
<1>2. /\ p.phase = "insert" /\ Placed(p) /\ Flushed(p)
      /\ Apart(p.rows, p.proofs, events, evidence) /\ Kept
  BY <1>1 DEF Held, InsertEvent
<1>3. PICK item \in Item : item = At(p) /\ item = Current(c)
  BY <1>1, <1>2, BatchItems DEF Placed, At, Current
<1>4. PICK row \in EventRow : row = [key |-> item.key, content |-> item.content]
  BY DEF Item, EventRow
<1>5. PICK rows \in SUBSET EventRow : rows = p.rows \cup {row}
  BY DEF Request
<1>6. PICK q : q = [p EXCEPT !.phase = "prove", !.rows = rows]
  OBVIOUS
<1>7. /\ q \in Request /\ q.phase = "prove" /\ q.items = p.items /\ q.at = p.at
      /\ q.newSubject = p.newSubject /\ q.rows = rows /\ q.proofs = p.proofs
  BY <1>6 DEF Request
<1>8. Become(c, q)
  BY <1>1, <1>3, <1>4, <1>5, <1>6 DEF InsertEvent
<1>9. /\ row.key = At(p).key /\ At(q) = At(p)
      /\ \A r \in p.rows : r.key # row.key
  BY <1>2, <1>3, <1>4, <1>7 DEF Flushed, At
<1>10. Placed(q)
  BY <1>2, <1>7 DEF Placed
<1>11. Flushed(q)
  <2>1. Grounded(q.proofs, q.rows) /\ OneRef(q.proofs) /\ OneKey(q.rows)
    BY <1>2, <1>5, <1>7, <1>9 DEF Flushed, Grounded, OneKey
  <2>2. {r \in q.rows : r.key # At(q).key} = p.rows
    BY <1>5, <1>7, <1>9
  <2>3. Traced(p.rows, p.proofs)
    BY <1>2 DEF Flushed
  <2>4. \A t \in q.proofs : t.event.key # At(q).key
    BY <1>2, <1>7, <1>9 DEF Flushed, Grounded
  <2>5. subject \/ q.newSubject
    BY <1>2, <1>7 DEF Flushed
  <2>6. \E r \in q.rows : r.key = At(q).key
    BY <1>5, <1>7, <1>9
  <2>7. QED
    BY <1>7, <2>1, <2>2, <2>3, <2>4, <2>5, <2>6 DEF Flushed
<1>12. Apart(q.rows, q.proofs, events, evidence)
  <2>1. \A r \in events : r.key # row.key
    BY <1>3, <1>9 DEF InsertEvent, KeyTaken
  <2>2. QED
    BY <1>2, <1>5, <1>7, <2>1 DEF Apart
<1>13. ASSUME NEW d \in Client \ {c}
       PROVE  Apart(q.rows, q.proofs, request[d].rows, request[d].proofs)
  <2>1. Blockers(c) = EventHolders(c, Current(c).key)
    BY DEF InsertEvent, Blockers
  <2>2. d \notin EventHolders(c, Current(c).key)
    BY <2>1 DEF InsertEvent
  <2>3. \A r \in request[d].rows : r.key # row.key
    BY <1>3, <1>9, <2>2 DEF EventHolders
  <2>4. Apart(p.rows, p.proofs, request[d].rows, request[d].proofs)
    BY <1>1 DEF Inv
  <2>5. QED
    BY <1>5, <1>7, <2>3, <2>4 DEF Apart
<1>14. QED
  BY <1>2, <1>7, <1>8, <1>10, <1>11, <1>12, <1>13, RequestStep DEF Held

\* Its evidence follows, with a source that proves nothing else.
LEMMA InsertEvidenceStep ==
    ASSUME Inv, NEW c \in Client, InsertEvidence(c)
    PROVE  Inv'
<1>1. PICK p \in Request : p = request[c] /\ Held(p)
  BY RequestIsHeld
<1>2. /\ p.phase = "prove" /\ Placed(p) /\ Flushed(p)
      /\ Apart(p.rows, p.proofs, events, evidence) /\ Kept
  BY <1>1 DEF Held, InsertEvidence
<1>3. PICK item \in Item : item = At(p) /\ item = Current(c)
  BY <1>1, <1>2, BatchItems DEF Placed, At, Current
<1>4. PICK row \in p.rows :
        row = (CHOOSE r \in p.rows : r.key = item.key) /\ row.key = item.key
  <2>1. \E r \in p.rows : r.key = item.key
    BY <1>2, <1>3 DEF Flushed
  <2>2. QED
    BY <2>1
<1>5. PICK proof \in EvidenceRow : proof = [ref |-> item.ref, event |-> row]
  BY DEF Item, EvidenceRow, Request
<1>6. PICK proofs \in SUBSET EvidenceRow : proofs = p.proofs \cup {proof}
  BY DEF Request
<1>7. PICK s : s = [p EXCEPT !.proofs = proofs]
  OBVIOUS
<1>8. /\ s \in Request /\ s.mode = p.mode /\ s.items = p.items /\ s.at = p.at
      /\ s.newSubject = p.newSubject /\ s.rows = p.rows /\ s.proofs = proofs
  BY <1>7 DEF Request
<1>9. PICK q : q = Advanced(s, "created")
  OBVIOUS
<1>10. Become(c, q)
  BY <1>1, <1>3, <1>4, <1>5, <1>6, <1>7, <1>9 DEF InsertEvidence
<1>11. /\ q \in Request /\ q.mode = p.mode /\ q.items = p.items
       /\ q.newSubject = p.newSubject /\ q.rows = p.rows /\ q.proofs = proofs
       /\ \/ q.phase = "read" /\ q.at = p.at + 1 /\ p.at < Len(p.items)
          \/ q.phase = "commit" /\ (p.mode = "each" => q.at = p.at)
  <2>1. "created" \in Status
    BY DEF Status
  <2>2. QED
    BY <1>8, <1>9, <2>1, AdvancedFields
<1>12. Placed(q)
  <2>1. p.items \in Batch /\ p.at \in 1..Len(p.items)
    BY <1>2 DEF Placed
  <2>2. QED
    BY <1>11, <2>1, BatchItems DEF Placed
<1>13. /\ proof.ref = item.ref /\ proof.event = row
       /\ \A t \in p.proofs : t.event.key # row.key
       /\ \A r \in p.rows : r.key = row.key => r = row
  BY <1>2, <1>3, <1>4, <1>5 DEF Flushed, OneKey
<1>14. Traced(q.rows, q.proofs)
  <2> SUFFICES ASSUME NEW r \in p.rows
               PROVE  \E t \in proofs : \A u \in proofs : u.event = r <=> u = t
    BY <1>11 DEF Traced
  <2>1. CASE r = row
    BY <1>6, <1>13, <2>1
  <2>2. CASE r # row
    <3>1. r \in {x \in p.rows : x.key # At(p).key}
      BY <1>3, <1>4, <1>13, <2>2
    <3>2. PICK t \in p.proofs : \A u \in p.proofs : u.event = r <=> u = t
      BY <1>2, <3>1 DEF Flushed, Traced
    <3>3. QED
      BY <1>6, <1>13, <2>2, <3>2
  <2>3. QED
    BY <2>1, <2>2
<1>15. Grounded(q.proofs, q.rows)
  BY <1>2, <1>6, <1>11, <1>13 DEF Flushed, Grounded
<1>16. \A t \in evidence \cup p.proofs : t.ref = proof.ref => t.ref = NoRef
  BY <1>1, <1>3, <1>13 DEF InsertEvidence, RefTaken
<1>17. OneRef(q.proofs)
  BY <1>2, <1>6, <1>11, <1>16 DEF Flushed, OneRef
<1>18. Flushed(q)
  <2>1. OneKey(q.rows) /\ (subject \/ q.newSubject)
    BY <1>2, <1>11 DEF Flushed
  <2>2. QED
    BY <1>11, <1>14, <1>15, <1>17, <2>1 DEF Flushed
<1>19. Apart(q.rows, q.proofs, events, evidence)
  BY <1>2, <1>6, <1>11, <1>16 DEF Apart
<1>20. ASSUME NEW d \in Client \ {c}
       PROVE  Apart(q.rows, q.proofs, request[d].rows, request[d].proofs)
  <2>1. Blockers(c) = RefHolders(c, Current(c).ref)
    BY DEF InsertEvidence, Blockers
  <2>2. d \notin RefHolders(c, Current(c).ref)
    BY <2>1 DEF InsertEvidence
  <2>3. \A t \in request[d].proofs : proof.ref = t.ref => proof.ref = NoRef
    BY <1>3, <1>13, <2>2 DEF RefHolders
  <2>4. Apart(p.rows, p.proofs, request[d].rows, request[d].proofs)
    BY <1>1 DEF Inv
  <2>5. QED
    BY <1>6, <1>11, <2>3, <2>4 DEF Apart
<1>21. QED
  BY <1>2, <1>10, <1>11, <1>12, <1>18, <1>19, <1>20, RequestStep DEF Held

\* Two sound sets that share no key and no source are sound together.
LEMMA TogetherSound ==
    ASSUME NEW rows, NEW proofs, NEW others, NEW theirs,
           Traced(rows, proofs), Grounded(proofs, rows), OneRef(proofs), OneKey(rows),
           Traced(others, theirs), Grounded(theirs, others), OneRef(theirs), OneKey(others),
           Apart(rows, proofs, others, theirs)
    PROVE  /\ Traced(others \cup rows, theirs \cup proofs)
           /\ Grounded(theirs \cup proofs, others \cup rows)
           /\ OneRef(theirs \cup proofs) /\ OneKey(others \cup rows)
<1>1. \A r \in rows, s \in others : r # s
  BY DEF Apart
<1>2. Traced(others \cup rows, theirs \cup proofs)
  <2> SUFFICES ASSUME NEW r \in others \cup rows
               PROVE  \E p \in theirs \cup proofs :
                         \A q \in theirs \cup proofs : q.event = r <=> q = p
    BY DEF Traced
  <2>1. CASE r \in rows
    <3>1. PICK p \in proofs : \A q \in proofs : q.event = r <=> q = p
      BY <2>1 DEF Traced
    <3>2. \A q \in theirs : q.event # r
      BY <1>1, <2>1 DEF Grounded
    <3>3. QED
      BY <3>1, <3>2
  <2>2. CASE r \in others
    <3>1. PICK p \in theirs : \A q \in theirs : q.event = r <=> q = p
      BY <2>2 DEF Traced
    <3>2. \A q \in proofs : q.event # r
      BY <1>1, <2>2 DEF Grounded
    <3>3. QED
      BY <3>1, <3>2
  <2>3. QED
    BY <2>1, <2>2
<1>3. Grounded(theirs \cup proofs, others \cup rows)
  BY DEF Grounded
<1>4. OneRef(theirs \cup proofs)
  BY DEF OneRef, Apart
<1>5. OneKey(others \cup rows)
  BY DEF OneKey, Apart
<1>6. QED
  BY <1>2, <1>3, <1>4, <1>5

\* What a request is after its commit.
LEMMA CommittedIsOver ==
    ASSUME Inv, NEW c \in Client, Commit(c)
    PROVE  \E q \in Request :
            /\ request' = [request EXCEPT ![c] = q]
            /\ ~q.newSubject /\ q.rows = {} /\ q.proofs = {} /\ Placed(q)
            /\ q.phase \in {"open", "answered"} /\ q.mode = request[c].mode
            /\ q.mode = "atomic" => q.phase = "answered" /\ q.status = request[c].status
            /\ q.items = request[c].items
            /\ q.mode = "each" => /\ q.at = request[c].at + 1
                                  /\ q.status = Append(request[c].status, "created")
<1>1. PICK p \in Request : p = request[c] /\ Placed(p)
  BY RequestIsHeld DEF Held
<1>2. p.phase = "commit" /\ p.items \in Batch
  BY <1>1 DEF Commit, Placed
<1>3. CASE p.mode = "atomic"
  <2>1. PICK r : r = RolledBack(p)
    OBVIOUS
  <2>2. Over(p, r) /\ r.status = p.status
    BY <2>1, RolledBackIsOver
  <2>3. PICK q : q = [r EXCEPT !.phase = "answered"]
    OBVIOUS
  <2>4. /\ q \in Request /\ q.phase = "answered" /\ q.items = p.items
        /\ q.mode = p.mode /\ q.status = p.status
        /\ ~q.newSubject /\ q.rows = {} /\ q.proofs = {}
    BY <2>2, <2>3 DEF Over, Request
  <2>5. request' = [request EXCEPT ![c] = q]
    BY <1>1, <1>3, <2>1, <2>3 DEF Commit, Become
  <2>6. QED
    BY <1>1, <1>3, <2>4, <2>5 DEF Placed
<1>4. CASE p.mode = "each"
  <2>1. PICK q : q = Answered(p, "created")
    OBVIOUS
  <2>2. /\ Over(p, q) /\ q.at = p.at + 1
        /\ q.phase = IF p.at = Len(p.items) THEN "answered" ELSE "open"
        /\ q.status = Append(p.status, "created")
    <3>1. "created" \in Status
      BY DEF Status
    <3>2. QED
      BY <2>1, <3>1, AnsweredIsOver
  <2>3. p.at \in 1..Len(p.items)
    BY <1>1, <1>2, <1>4 DEF Placed
  <2>4. Placed(q)
    BY <1>2, <2>2, <2>3, BatchItems DEF Placed, Over
  <2>5. request' = [request EXCEPT ![c] = q]
    BY <1>1, <1>4, <2>1 DEF Commit, Become
  <2>6. QED
    BY <1>1, <1>4, <2>2, <2>4, <2>5 DEF Over
<1>5. QED
  BY <1>3, <1>4 DEF Request, Mode

LEMMA CommitStep ==
    ASSUME Inv, NEW c \in Client, Commit(c)
    PROVE  Inv'
<1>1. PICK p \in Request : p = request[c] /\ Held(p)
  BY RequestIsHeld
<1>2. /\ p.phase = "commit" /\ Placed(p) /\ Flushed(p)
      /\ Apart(p.rows, p.proofs, events, evidence)
  BY <1>1 DEF Held, Commit
<1>3. /\ subject' = (subject \/ p.newSubject)
      /\ events' = events \cup p.rows /\ evidence' = evidence \cup p.proofs
  BY <1>1 DEF Commit
<1>4. PICK q \in Request :
        /\ request' = [request EXCEPT ![c] = q]
        /\ ~q.newSubject /\ q.rows = {} /\ q.proofs = {} /\ Placed(q)
        /\ q.phase \in {"open", "answered"}
  BY CommittedIsOver
<1>5. /\ request' \in [Client -> Request]
      /\ \A d \in Client : request'[d] = IF d = c THEN q ELSE request[d]
  BY <1>4 DEF Inv, TypeOK
<1>6. Sound'
  <2>1. /\ Traced(p.rows, p.proofs) /\ Grounded(p.proofs, p.rows)
        /\ OneRef(p.proofs) /\ OneKey(p.rows) /\ (subject \/ p.newSubject)
    BY <1>2 DEF Flushed
  <2>2. /\ Traced(events, evidence) /\ Grounded(evidence, events)
        /\ OneRef(evidence) /\ OneKey(events)
    BY DEF Inv, Sound
  <2>3. /\ Traced(events', evidence') /\ Grounded(evidence', events')
        /\ OneRef(evidence') /\ OneKey(events')
    BY <1>2, <1>3, <2>1, <2>2, TogetherSound
  <2>4. QED
    BY <1>3, <2>1, <2>3 DEF Sound, Traced, Grounded, OneRef, OneKey
<1>7. ASSUME NEW d \in Client \ {c} PROVE Held(request[d])'
  <2>1. request'[d] = request[d] /\ Held(request[d])
    BY <1>5, RequestIsHeld
  <2>2. PICK r : r = request[d]
    OBVIOUS
  <2>3. Placed(r) /\ Flushed(r) /\ Apart(r.rows, r.proofs, events, evidence)
    BY <2>1, <2>2 DEF Held
  <2>4. Flushed(r)'
    BY <1>3, <2>3 DEF Flushed
  <2>5. Apart(p.rows, p.proofs, r.rows, r.proofs)
    BY <1>1, <2>2 DEF Inv
  <2>6. Apart(r.rows, r.proofs, events', evidence')
    BY <1>3, <2>3, <2>5 DEF Apart
  <2>7. Held(r)'
    BY <2>3, <2>4, <2>6 DEF Held, Placed, Apart
  <2>8. QED
    BY <2>1, <2>2, <2>7, HeldAfter
<1>8. Held(request[c])'
  <2>1. Flushed(q)'
    BY <1>4 DEF Flushed, Grounded, OneRef, OneKey, Traced
  <2>2. Held(q)'
    BY <1>4, <2>1 DEF Held, Placed, Apart
  <2>3. request'[c] = q
    BY <1>5
  <2>4. QED
    BY <2>2, <2>3, HeldAfter
<1>9. TypeOK'
  <2>1. subject' \in BOOLEAN /\ events' \subseteq EventRow /\ evidence' \subseteq EvidenceRow
    BY <1>3 DEF Inv, TypeOK, Request
  <2>2. ASSUME NEW d \in Client,
               request'[d].phase \in {"idle", "open", "enrol", "retry", "answered"}
        PROVE  /\ ~request'[d].newSubject
               /\ request'[d].rows = {} /\ request'[d].proofs = {}
    BY <1>4, <1>5, <2>2 DEF Inv, TypeOK
  <2>3. QED
    BY <1>5, <2>1, <2>2 DEF TypeOK
<1>10. ASSUME NEW d \in Client, NEW e \in Client, d # e
       PROVE  Apart(request'[d].rows, request'[d].proofs, request'[e].rows, request'[e].proofs)
  <2>1. CASE d # c /\ e # c
    BY <1>5, <1>10, <2>1 DEF Inv
  <2>2. CASE d = c \/ e = c
    BY <1>4, <1>5, <2>2 DEF Apart
  <2>3. QED
    BY <2>1, <2>2
<1>11. QED
  BY <1>6, <1>7, <1>8, <1>9, <1>10 DEF Inv

-----------------------------------------------------------------------------
(* The invariant of the specification, and what follows from it.           *)

LEMMA InitHolds == Init => Inv
<1> SUFFICES ASSUME Init PROVE Inv
  OBVIOUS
<1>1. /\ Idle.phase = "idle" /\ ~Idle.newSubject /\ Idle.rows = {} /\ Idle.proofs = {}
  BY DEF Idle
<1>2. \A c \in Client : request[c] = Idle
  BY DEF Init
<1>3. TypeOK
  BY <1>1, IdleIsRequest DEF Init, TypeOK
<1>4. Sound
  BY DEF Init, Sound, Traced, Grounded, OneRef, OneKey
<1>5. Held(Idle)
  BY <1>1 DEF Held, Placed, Flushed, Apart, Traced, Grounded, OneRef, OneKey
<1>6. \A c, d \in Client :
        Apart(request[c].rows, request[c].proofs, request[d].rows, request[d].proofs)
  BY <1>1, <1>2 DEF Apart
<1>7. QED
  BY <1>2, <1>3, <1>4, <1>5, <1>6 DEF Inv

LEMMA NextKeeps == Inv /\ [Next]_vars => Inv'
<1> SUFFICES ASSUME Inv, [Next]_vars PROVE Inv'
  OBVIOUS
<1>1. CASE UNCHANGED vars
  <2>1. UNCHANGED <<subject, events, evidence, request>>
    BY <1>1 DEF vars
  <2>2. TypeOK' /\ Sound'
    BY <2>1 DEF Inv, TypeOK, Sound
  <2>3. ASSUME NEW c \in Client PROVE Held(request[c])'
    <3>1. PICK r : r = request[c] /\ request'[c] = r /\ Held(r)
      BY <2>1 DEF Inv
    <3>2. Held(r)'
      BY <2>1, <3>1 DEF Held, Placed, Flushed, At
    <3>3. QED
      BY <3>1, <3>2, HeldAfter
  <2>4. QED
    BY <2>1, <2>2, <2>3 DEF Inv
<1>2. ASSUME NEW c \in Client, NEW mode \in Mode, NEW items \in Batch,
             Submit(c, mode, items)
      PROVE  Inv'
  BY <1>2, SubmitStep
<1>3. ASSUME NEW c \in Client, Step(c) \/ Crash(c) PROVE Inv'
  BY <1>3, OpenStep, EnrolStep, LostStep, ReadStep, EntityMissingStep, InsertEventStep,
     InsertEvidenceStep, CommitStep, RetryStep, DeadlockVictimStep, ReturnStep
  DEF Step
<1>4. QED
  BY <1>1, <1>2, <1>3 DEF Next

\* The rows and what every request holds, in every reachable state: the unit of
\* work of ingest_event and ingest_events with the unique keys of its tables.
THEOREM InvHolds == Spec => []Inv
BY InitHolds, NextKeeps, PTL DEF Spec

\* Every variable has its type, and a request holds flushed rows only while its
\* unit of work is open (EventService over its units of work).
THEOREM IngestionTyped == Spec => []TypeOK
<1>1. Inv => TypeOK
  BY DEF Inv
<1>2. QED
  BY <1>1, InvHolds, PTL

\* Every stored event has one evidence row and every evidence row its event,
\* and a supplied source proves one event only, however ingestions of the same
\* key or source overlap, fail and are tried again (_ingest_one_in_uow).
THEOREM EventsAreTraceable == Spec => []StoredEventsTraceable
<1>1. ASSUME Inv PROVE StoredEventsTraceable
  <2>1. ASSUME NEW e \in events PROVE Cardinality({p \in evidence : p.event = e}) = 1
    <3>1. PICK p \in evidence : \A q \in evidence : q.event = e <=> q = p
      BY <1>1, <2>1 DEF Inv, Sound, Traced
    <3>2. {q \in evidence : q.event = e} = {p}
      BY <3>1
    <3>3. QED
      BY <3>2, FS_Singleton
  <2>2. QED
    BY <1>1, <2>1 DEF Inv, Sound, Grounded, OneRef, StoredEventsTraceable
<1>2. QED
  BY <1>1, InvHolds, PTL

-----------------------------------------------------------------------------
(* The event log that the service implements.  What a request has been told *)
(* so far must still be what the log answers when its unit of work commits, *)
(* and no state predicate above says so: a second inductive invariant.      *)

RowOf(item) == [key |-> item.key, content |-> item.content]

\* No earlier item of the list has the same key.
IsFirst(items, i) == \A j \in 1..i - 1 : items[j].key # items[i].key

\* How many of its items the unit of work has been through.
Flushes(q) == IF q.phase = "prove" THEN q.at ELSE q.at - 1

\* Item i was the first of its key and flushed, or found its event committed or
\* flushed.
Justified(q, i, status) ==
    \/ status = "created" /\ IsFirst(q.items, i) /\ RowOf(q.items[i]) \in q.rows
    \/ /\ status = "replayed" /\ RowOf(q.items[i]) \in events \cup q.rows
       /\ RowOf(q.items[i]) \in q.rows => ~IsFirst(q.items, i)

\* An atomic request at work: every flushed row is that of the first item with
\* its key, and what every item before at is told is justified.
Begun(q) ==
    /\ Len(q.status) = q.at - 1
    /\ q.phase # "commit" => q.at <= Len(q.items)
    /\ q.phase = "commit" => q.at = Len(q.items) + 1
    /\ \A r \in q.rows : \E i \in 1..Flushes(q) :
        IsFirst(q.items, i) /\ r = RowOf(q.items[i])
    /\ \A i \in 1..q.at - 1 : Justified(q, i, q.status[i])
    /\ q.phase = "prove" => RowOf(At(q)) \in q.rows /\ IsFirst(q.items, q.at)

Told(q) ==
    /\ q.mode = "atomic" /\ q.phase \in {"open", "enrol"} => q.at = 1 /\ q.status = <<>>
    /\ q.mode = "atomic" /\ q.phase \in {"read", "insert", "prove", "commit"} => Begun(q)
    /\ q.mode = "each" /\ q.phase \in {"read", "insert"} => q.rows = {}
    /\ q.mode = "each" /\ q.phase \in {"prove", "commit"} => q.rows = {RowOf(At(q))}
    /\ q.phase = "retry" => q.mode = "each"
    /\ q.newSubject => ~subject

AllTold ==
    /\ \A c \in Client : Told(request[c])
    /\ \A c, d \in Client : request[c].newSubject /\ request[d].newSubject => c = d

\* The log of a set of rows, and what a request's caller has been told.
LogOf(rows) == [k \in Key |-> IF \E r \in rows : r.key = k
                              THEN (CHOOSE r \in rows : r.key = k).content
                              ELSE NoContent]

AnswerOf(q) == IF q.mode = "atomic" /\ q.phase # "answered" THEN <<>> ELSE q.status

LEMMA LogReads ==
    ASSUME NEW rows \in SUBSET EventRow, OneKey(rows)
    PROVE  /\ \A r \in rows : r.key \in Key /\ LogOf(rows)[r.key] = r.content
                              /\ r.content # NoContent
           /\ \A k \in Key : (\A r \in rows : r.key # k) => LogOf(rows)[k] = NoContent
<1>1. ASSUME NEW r \in rows PROVE r.key \in Key /\ LogOf(rows)[r.key] = r.content
  <2>1. r.key \in Key
    BY DEF EventRow
  <2>2. (CHOOSE x \in rows : x.key = r.key) = r
    BY DEF OneKey
  <2>3. QED
    BY <2>1, <2>2 DEF LogOf
<1>2. \A r \in rows : r.content # NoContent
  BY ConstantAssumption DEF EventRow
<1>3. QED
  BY <1>1, <1>2 DEF LogOf

\* A key keeps its content, and one that no item has stays free.
LEMMA LogAfterKept ==
    ASSUME NEW l, NEW items, NEW n, NEW k \in Key,
           l[k] # NoContent \/ \A i \in 1..n : items[i].key # k
    PROVE  Abstract!LogAfter(l, items, n)[k] = l[k]
BY DEF Abstract!LogAfter, Abstract!About

\* A free key gets the content of the first item that has it.
LEMMA LogAfterFirst ==
    ASSUME NEW l, NEW items, NEW n \in Nat, NEW i \in 1..n,
           items[i].key \in Key, l[items[i].key] = NoContent, IsFirst(items, i)
    PROVE  Abstract!LogAfter(l, items, n)[items[i].key] = items[i].content
<1>1. PICK k \in Key : k = items[i].key
  OBVIOUS
<1>2. PICK S : S = Abstract!About(items, k, n)
  OBVIOUS
<1>3. i \in S /\ S \subseteq 1..n /\ \A j \in S : items[j].key = k
  BY <1>1, <1>2 DEF Abstract!About
<1>4. \A j \in S : i <= j
  BY <1>1, <1>3 DEF IsFirst
<1>5. Abstract!Min(S) = i
  <2>1. i \in S /\ S \subseteq Int
    BY <1>3
  <2>2. PICK m : m = CHOOSE x \in S : \A y \in S : x =< y
    OBVIOUS
  <2>3. m \in S /\ \A y \in S : m =< y
    BY <1>4, <2>1, <2>2
  <2>4. m = i
    BY <1>4, <2>1, <2>3
  <2>5. QED
    BY <2>2, <2>4 DEF Abstract!Min
<1>6. Abstract!LogAfter(l, items, n)[k] = items[Abstract!Min(S)].content
  BY <1>1, <1>2, <1>3 DEF Abstract!LogAfter
<1>7. QED
  BY <1>1, <1>5, <1>6

-----------------------------------------------------------------------------
(* The second invariant is kept.                                           *)

\* What a request's caller is told after a step, by what the request is then.
LEMMA ToldAfter ==
    ASSUME NEW c, NEW q, request'[c] = q, Told(q)'
    PROVE  Told(request[c])'
<1>1. \A i, status : Justified(q, i, status)' => Justified(request[c], i, status)'
  BY DEF Justified
<1>2. Begun(q)' => Begun(request[c])'
  BY <1>1 DEF Begun, At, Flushes
<1>3. QED
  BY <1>2 DEF Told, At

LEMMA ToldFrame ==
    ASSUME Inv, AllTold, Kept, NEW c \in Client, NEW q, Become(c, q), Told(q),
           q.newSubject => request[c].newSubject \/ SubjectHolders(c) = {}
    PROVE  AllTold'
<1>1. request' = [request EXCEPT ![c] = q] /\ UNCHANGED <<subject, events, evidence>>
  BY DEF Become, Kept
<1>2. \A d \in Client : request'[d] = IF d = c THEN q ELSE request[d]
  BY <1>1 DEF Inv, TypeOK
<1>3. ASSUME NEW d \in Client PROVE Told(request[d])'
  <2>1. PICK r : r = request'[d] /\ Told(r)
    BY <1>2 DEF AllTold
  <2>2. Told(r)'
    BY <1>1, <2>1 DEF Told, Begun, Justified
  <2>3. QED
    BY <2>1, <2>2, ToldAfter
<1>4. ASSUME NEW d \in Client, NEW e \in Client,
             request'[d].newSubject, request'[e].newSubject
      PROVE  d = e
  BY <1>2, <1>4 DEF AllTold, SubjectHolders
<1>5. QED
  BY <1>3, <1>4 DEF AllTold

\* A request without a unit of work owes nothing yet.
LEMMA SettledStep ==
    ASSUME Inv, AllTold, Kept, NEW c \in Client, NEW q, Become(c, q), ~q.newSubject,
           \/ q.phase \in {"idle", "answered"}
           \/ q.mode = "each" /\ q.phase \in {"open", "retry"}
    PROVE  AllTold'
<1>1. Told(q)
  BY DEF Told
<1>2. QED
  BY <1>1, ToldFrame

LEMMA AnsweredTold ==
    ASSUME Inv, AllTold, Kept, NEW c \in Client, NEW status \in Status,
           request[c].mode = "each", Become(c, Answered(request[c], status))
    PROVE  AllTold'
<1>1. PICK p \in Request : p = request[c]
  BY RequestIsHeld
<1>2. PICK q : q = Answered(p, status)
  OBVIOUS
<1>3. Over(p, q) /\ q.phase = IF p.at = Len(p.items) THEN "answered" ELSE "open"
  BY <1>2, AnsweredIsOver
<1>4. QED
  BY <1>1, <1>2, <1>3, SettledStep DEF Over

LEMMA RefusedTold ==
    ASSUME Inv, AllTold, Kept, NEW c \in Client, NEW status \in Status,
           Become(c, Refused(request[c], status))
    PROVE  AllTold'
<1>1. request[c] \in Request
  BY RequestIsHeld
<1>2. QED
  BY <1>1, RefusedIsOver, SettledStep DEF Over

LEMMA LostTold ==
    ASSUME Inv, AllTold, NEW c \in Client,
           EnrolLost(c) \/ InsertEventLost(c) \/ InsertEvidenceLost(c)
    PROVE  AllTold'
<1>1. PICK p \in Request : p = request[c]
  BY RequestIsHeld
<1>2. PICK q : q = Violated(p)
  OBVIOUS
<1>3. Over(p, q) /\ (q.phase = "answered" \/ (p.mode = "each" /\ q.phase = "retry"))
  BY <1>2, ViolatedIsOver
<1>4. Become(c, q) /\ Kept
  BY <1>1, <1>2 DEF EnrolLost, InsertEventLost, InsertEvidenceLost
<1>5. QED
  BY <1>3, <1>4, SettledStep DEF Over

LEMMA SubmitTold ==
    ASSUME Inv, AllTold, NEW c \in Client, NEW mode \in Mode, NEW items \in Batch,
           Submit(c, mode, items)
    PROVE  AllTold'
<1>1. PICK q : q = [Idle EXCEPT !.phase = "open", !.mode = mode, !.items = items]
  OBVIOUS
<1>2. /\ q.phase = "open" /\ q.at = Idle.at /\ q.status = Idle.status
      /\ q.newSubject = Idle.newSubject
  BY <1>1, IdleIsRequest DEF Request
<1>3. q.at = 1 /\ q.status = <<>> /\ ~q.newSubject
  BY <1>2 DEF Idle
<1>4. Told(q)
  BY <1>2, <1>3 DEF Told
<1>5. Become(c, q) /\ Kept
  BY <1>1 DEF Submit
<1>6. QED
  BY <1>3, <1>4, <1>5, ToldFrame

LEMMA ReturnTold ==
    ASSUME Inv, AllTold, NEW c \in Client, Return(c) \/ Crash(c)
    PROVE  AllTold'
<1>1. Idle.phase = "idle" /\ ~Idle.newSubject
  BY DEF Idle
<1>2. QED
  BY <1>1, SettledStep DEF Return, Crash

\* A unit of work that has just begun has been through nothing.
LEMMA NothingBegun ==
    ASSUME NEW q, q.at = 1, q.status = <<>>, q.rows = {}, q.phase = "read",
           q.items \in Batch
    PROVE  Begun(q)
<1>1. Len(q.items) \in Nat \ {0}
  BY BatchItems
<1>2. Len(q.status) = 0
  OBVIOUS
<1>3. 1..q.at - 1 = {}
  OBVIOUS
<1>4. QED
  BY <1>1, <1>2, <1>3 DEF Begun

LEMMA OpenTold ==
    ASSUME Inv, AllTold, NEW c \in Client, Open(c)
    PROVE  AllTold'
<1>1. PICK p \in Request : p = request[c] /\ Placed(p) /\ Flushed(p) /\ Told(p)
  BY RequestIsHeld DEF Held, AllTold
<1>2. PICK phase \in {"read", "enrol"} : phase = IF subject THEN "read" ELSE "enrol"
  OBVIOUS
<1>3. PICK q : q = [p EXCEPT !.phase = phase]
  OBVIOUS
<1>4. /\ q.phase = phase /\ q.items = p.items /\ q.at = p.at /\ q.mode = p.mode
      /\ q.newSubject = p.newSubject /\ q.rows = p.rows /\ q.status = p.status
  BY <1>3 DEF Request
<1>5. p.phase = "open" /\ Become(c, q) /\ Kept
  BY <1>1, <1>2, <1>3 DEF Open, Goes
<1>6. /\ p.rows = {} /\ ~p.newSubject /\ p.items \in Batch
      /\ p.mode = "atomic" => p.at = 1 /\ p.status = <<>>
  BY <1>1, <1>5 DEF Placed, Flushed, Told
<1>7. q.mode = "atomic" /\ q.phase = "read" => Begun(q)
  BY <1>4, <1>6, NothingBegun
<1>8. Told(q)
  BY <1>4, <1>6, <1>7 DEF Told
<1>9. QED
  BY <1>4, <1>5, <1>6, <1>8, ToldFrame

\* The subject is inserted by one unit of work at a time.
LEMMA EnrolTold ==
    ASSUME Inv, AllTold, NEW c \in Client, Enrol(c)
    PROVE  AllTold'
<1>1. PICK p \in Request : p = request[c] /\ Placed(p) /\ Flushed(p) /\ Told(p)
  BY RequestIsHeld DEF Held, AllTold
<1>2. PICK q : q = [p EXCEPT !.phase = "read", !.newSubject = TRUE]
  OBVIOUS
<1>3. /\ q.phase = "read" /\ q.items = p.items /\ q.at = p.at /\ q.mode = p.mode
      /\ q.rows = p.rows /\ q.status = p.status
  BY <1>2 DEF Request
<1>4. p.phase = "enrol" /\ Become(c, q) /\ Kept /\ ~subject /\ Blockers(c) = {}
  BY <1>1, <1>2 DEF Enrol
<1>5. /\ p.rows = {} /\ p.items \in Batch
      /\ p.mode = "atomic" => p.at = 1 /\ p.status = <<>>
  BY <1>1, <1>4 DEF Placed, Flushed, Told
<1>6. q.mode = "atomic" => Begun(q)
  BY <1>3, <1>5, NothingBegun
<1>7. Told(q)
  BY <1>3, <1>4, <1>5, <1>6 DEF Told
<1>8. SubjectHolders(c) = {}
  BY <1>1, <1>4 DEF Blockers
<1>9. QED
  BY <1>4, <1>7, <1>8, ToldFrame

LEMMA NotFoundTold ==
    ASSUME Inv, AllTold, Kept, NEW c \in Client, request[c].phase = "read",
           Goes(c, "insert")
    PROVE  AllTold'
<1>1. PICK p \in Request : p = request[c] /\ Told(p)
  BY RequestIsHeld DEF AllTold
<1>2. PICK q : q = [p EXCEPT !.phase = "insert"]
  OBVIOUS
<1>3. /\ q.phase = "insert" /\ q.items = p.items /\ q.at = p.at /\ q.mode = p.mode
      /\ q.newSubject = p.newSubject /\ q.rows = p.rows /\ q.status = p.status
  BY <1>2 DEF Request
<1>4. Begun(p) => Begun(q)
  BY <1>1, <1>3 DEF Begun, Justified, Flushes
<1>5. Told(q)
  BY <1>1, <1>3, <1>4 DEF Told
<1>6. Become(c, q)
  BY <1>1, <1>2 DEF Goes
<1>7. QED
  BY <1>1, <1>3, <1>5, <1>6, ToldFrame

\* What the item at which an atomic request is has been told is the last status.
LEMMA AdvancedBegun ==
    ASSUME NEW p \in Request, NEW q \in Request, NEW status \in Status,
           Begun(p), p.phase \in {"read", "prove"}, Justified(p, p.at, status),
           q.items = p.items, q.rows = p.rows, q.at = p.at + 1,
           q.status = Append(p.status, status),
           \/ q.phase = "read" /\ p.at < Len(p.items)
           \/ q.phase = "commit" /\ ~(p.at < Len(p.items)),
           Len(p.items) \in Nat
    PROVE  Begun(q)
<1>1. PICK s \in Seq(Status), n \in Nat \ {0} : s = p.status /\ n = p.at
  BY DEF Request
<1>2. Len(s) = n - 1 /\ n <= Len(p.items)
  BY <1>1 DEF Begun
<1>3. PICK t \in Seq(Status) : t = q.status
  BY DEF Request
<1>4. Len(t) = n /\ t[n] = status /\ \A i \in 1..n - 1 : t[i] = s[i]
  BY <1>1, <1>2, <1>3
<1>5. \A i \in 1..n - 1 : Justified(q, i, t[i])
  BY <1>1, <1>4 DEF Begun, Justified
<1>6. Justified(q, n, t[n])
  BY <1>1, <1>4 DEF Justified
<1>7. \A i \in 1..n : Justified(q, i, t[i])
  BY <1>5, <1>6
<1>8. ASSUME NEW r \in q.rows
      PROVE  \E i \in 1..Flushes(q) : IsFirst(q.items, i) /\ r = RowOf(q.items[i])
  <2>1. PICK i \in 1..Flushes(p) : IsFirst(p.items, i) /\ r = RowOf(p.items[i])
    BY DEF Begun
  <2>2. 1..Flushes(p) \subseteq 1..Flushes(q)
    BY <1>1 DEF Flushes
  <2>3. QED
    BY <2>1, <2>2
<1>9. /\ Len(q.status) = q.at - 1
      /\ q.phase # "commit" => q.at <= Len(q.items)
      /\ q.phase = "commit" => q.at = Len(q.items) + 1
  BY <1>1, <1>2, <1>3, <1>4
<1>10. \A i \in 1..q.at - 1 : Justified(q, i, q.status[i])
  <2>1. q.at - 1 = n
    BY <1>1
  <2>2. QED
    BY <1>3, <1>7, <2>1, Zenon
<1>11. q.phase # "prove"
  OBVIOUS
<1>12. QED
  BY <1>8, <1>9, <1>10, <1>11 DEF Begun

\* The row of an item that has been looked up: its event, if the contents agree.
LEMMA LookedUp ==
    ASSUME Inv, NEW c \in Client, request[c].phase \in {"read", "retry"},
           NEW row \in Found(c, Current(c).key)
    PROVE  /\ row \in EventRow /\ row \in events \cup request[c].rows
           /\ row.key = Current(c).key
           /\ Decide(row, Current(c)) \in {"replayed", "conflict"}
           /\ Decide(row, Current(c)) = "replayed" <=> row = RowOf(Current(c))
<1>1. request[c] \in Request /\ events \subseteq EventRow
  BY RequestIsHeld DEF Inv, TypeOK
<1>2. row \in EventRow /\ row \in events \cup request[c].rows /\ row.key = Current(c).key
  BY <1>1 DEF Found, Request
<1>3. row = [key |-> row.key, content |-> row.content]
  BY <1>2 DEF EventRow
<1>4. row = RowOf(Current(c)) <=> row.content = Current(c).content
  BY <1>2, <1>3 DEF RowOf
<1>5. QED
  BY <1>2, <1>4 DEF Decide

\* An item of an atomic batch whose event is committed or flushed.
LEMMA ReplayedTold ==
    ASSUME Inv, AllTold, Kept, NEW c \in Client, request[c].phase = "read",
           request[c].mode = "atomic", NEW row \in Found(c, Current(c).key),
           Decide(row, Current(c)) = "replayed",
           Become(c, Advanced(request[c], "replayed"))
    PROVE  AllTold'
<1>1. PICK p \in Request : p = request[c] /\ Told(p) /\ Placed(p)
  BY RequestIsHeld DEF AllTold, Held
<1>2. Begun(p) /\ Len(p.items) \in Nat /\ At(p) = Current(c) /\ p.items[p.at] = At(p)
  BY <1>1, BatchItems DEF Told, Placed, At, Current
<1>3. "replayed" \in Status
  BY DEF Status
<1>4. PICK q : q = Advanced(p, "replayed")
  OBVIOUS
<1>5. /\ q \in Request /\ q.mode = "atomic" /\ q.items = p.items
      /\ q.newSubject = p.newSubject /\ q.rows = p.rows
      /\ q.status = Append(p.status, "replayed") /\ q.at = p.at + 1
      /\ \/ q.phase = "read" /\ p.at < Len(p.items)
         \/ q.phase = "commit" /\ ~(p.at < Len(p.items))
  BY <1>1, <1>3, <1>4, AdvancedFields
<1>6. RowOf(At(p)) \in events \cup p.rows
  BY <1>1, <1>2, LookedUp
<1>7. RowOf(At(p)) \in p.rows => ~IsFirst(p.items, p.at)
  <2> SUFFICES ASSUME RowOf(At(p)) \in p.rows PROVE ~IsFirst(p.items, p.at)
    OBVIOUS
  <2>1. PICK i \in 1..p.at - 1 : RowOf(At(p)) = RowOf(p.items[i])
    BY <1>1, <1>2 DEF Begun, Flushes
  <2>2. p.items[i].key = At(p).key
    BY <2>1 DEF RowOf
  <2>3. QED
    BY <1>2, <2>2 DEF IsFirst
<1>8. Justified(p, p.at, "replayed")
  BY <1>2, <1>6, <1>7 DEF Justified
<1>9. Begun(q)
  BY <1>1, <1>2, <1>3, <1>5, <1>8, AdvancedBegun
<1>10. p.newSubject => ~subject
  BY <1>1 DEF Told
<1>11. Told(q)
  BY <1>5, <1>9, <1>10 DEF Told
<1>12. QED
  BY <1>1, <1>4, <1>5, <1>11, ToldFrame

LEMMA ReadTold ==
    ASSUME Inv, AllTold, NEW c \in Client, Read(c)
    PROVE  AllTold'
<1>1. request[c].phase = "read" /\ Kept /\ request[c].mode \in Mode
  BY RequestIsHeld DEF Read, Request
<1>2. "replayed" \in Status /\ "conflict" \in Status
  BY DEF Status
<1>3. CASE Found(c, Current(c).key) = {} /\ Goes(c, "insert")
  BY <1>1, <1>3, NotFoundTold
<1>4. ASSUME NEW row \in Found(c, Current(c).key),
             CASE Decide(row, Current(c)) = "replayed" /\ request[c].mode = "atomic" ->
                    Become(c, Advanced(request[c], "replayed"))
              [] Decide(row, Current(c)) = "replayed" /\ request[c].mode = "each" ->
                    Become(c, Answered(request[c], "replayed"))
              [] Decide(row, Current(c)) = "conflict" /\ request[c].mode = "atomic" ->
                    Become(c, Refused(request[c], "conflict"))
              [] OTHER ->
                    Become(c, Answered(request[c], "conflict"))
      PROVE  AllTold'
  <2>1. Decide(row, Current(c)) \in {"replayed", "conflict"}
    BY <1>1, LookedUp
  <2>2. CASE Decide(row, Current(c)) = "replayed" /\ request[c].mode = "atomic"
    BY <1>1, <1>4, <2>2, ReplayedTold
  <2>3. CASE Decide(row, Current(c)) = "replayed" /\ request[c].mode = "each"
    BY <1>1, <1>2, <1>4, <2>3, AnsweredTold
  <2>4. CASE Decide(row, Current(c)) = "conflict" /\ request[c].mode = "atomic"
    BY <1>1, <1>2, <1>4, <2>4, RefusedTold
  <2>5. CASE Decide(row, Current(c)) = "conflict" /\ request[c].mode = "each"
    BY <1>1, <1>2, <1>4, <2>5, AnsweredTold
  <2>6. QED
    BY <1>1, <2>1, <2>2, <2>3, <2>4, <2>5 DEF Mode
<1>5. QED
  BY <1>3, <1>4 DEF Read

LEMMA EntityMissingTold ==
    ASSUME Inv, AllTold, NEW c \in Client, EntityMissing(c)
    PROVE  AllTold'
<1>1. "failed" \in Status
  BY DEF Status
<1>2. QED
  BY <1>1, AnsweredTold, RefusedTold DEF EntityMissing

LEMMA RetryTold ==
    ASSUME Inv, AllTold, NEW c \in Client, Retry(c)
    PROVE  AllTold'
<1>1. "failed" \in Status /\ \A row : Decide(row, Current(c)) \in Status
  BY DEF Status, Decide
<1>2. request[c].mode = "each"
  BY DEF Retry, AllTold, Told
<1>3. QED
  BY <1>1, <1>2, AnsweredTold DEF Retry

\* What the victim of a deadlock is told.
LEMMA VictimIsOver ==
    ASSUME Inv, NEW c \in Client, DeadlockVictim(c)
    PROVE  \E q \in Request :
            /\ Become(c, q) /\ q.phase = "answered" /\ ~q.newSubject
            /\ q.mode = request[c].mode /\ q.items = request[c].items
            /\ q.status = IF q.mode = "each" THEN Append(request[c].status, "failed")
                                             ELSE <<"failed">>
<1>1. PICK p \in Request : p = request[c]
  BY RequestIsHeld
<1>2. "failed" \in Status
  BY DEF Status
<1>3. PICK r : r = Refused(p, "failed")
  OBVIOUS
<1>4. Over(p, r) /\ r.phase = "answered"
  BY <1>2, <1>3, RefusedIsOver
<1>5. PICK s \in Seq(Status) :
        s = IF p.mode = "each" THEN Append(p.status, "failed") ELSE <<"failed">>
  <2>1. p.status \in Seq(Status) /\ <<"failed">> \in Seq(Status)
    BY <1>2 DEF Request
  <2>2. QED
    BY <1>2, <2>1, AppendIsStatus
<1>6. PICK q : q = [r EXCEPT !.status = s]
  OBVIOUS
<1>7. /\ q \in Request /\ ~q.newSubject /\ q.phase = "answered" /\ q.mode = p.mode
      /\ q.items = p.items /\ q.status = s
  BY <1>4, <1>6 DEF Over, Request
<1>8. Become(c, q)
  BY <1>1, <1>3, <1>5, <1>6 DEF DeadlockVictim
<1>9. q.status = IF q.mode = "each" THEN Append(request[c].status, "failed")
                                    ELSE <<"failed">>
  BY <1>1, <1>5, <1>7
<1>10. QED
  BY <1>1, <1>7, <1>8, <1>9

LEMMA DeadlockVictimTold ==
    ASSUME Inv, AllTold, NEW c \in Client, DeadlockVictim(c)
    PROVE  AllTold'
BY VictimIsOver, SettledStep DEF DeadlockVictim

\* The row of an item is inserted under a key that no item before it has.
LEMMA InsertEventTold ==
    ASSUME Inv, AllTold, NEW c \in Client, InsertEvent(c)
    PROVE  AllTold'
<1>1. PICK p \in Request : p = request[c] /\ Placed(p) /\ Flushed(p) /\ Told(p)
  BY RequestIsHeld DEF Held, AllTold
<1>2. PICK item \in Item : item = At(p) /\ item = Current(c) /\ item = p.items[p.at]
  BY <1>1, BatchItems DEF Placed, At, Current, InsertEvent
<1>3. PICK row \in EventRow : row = RowOf(item)
  BY DEF Item, EventRow, RowOf
<1>4. PICK rows : rows = p.rows \cup {row}
  OBVIOUS
<1>5. PICK q : q = [p EXCEPT !.phase = "prove", !.rows = rows]
  OBVIOUS
<1>6. /\ q.phase = "prove" /\ q.items = p.items /\ q.at = p.at /\ q.mode = p.mode
      /\ q.newSubject = p.newSubject /\ q.rows = rows /\ q.status = p.status
  BY <1>5 DEF Request
<1>7. p.phase = "insert" /\ Become(c, q) /\ Kept
  BY <1>1, <1>2, <1>3, <1>4, <1>5 DEF InsertEvent, RowOf
<1>8. /\ \A r \in events \cup p.rows : r.key # item.key
      /\ row.key = item.key
  BY <1>1, <1>2, <1>3, <1>7 DEF InsertEvent, KeyTaken, Flushed, RowOf
<1>9. ASSUME p.mode = "atomic" PROVE Begun(q)
  <2>1. Begun(p)
    BY <1>1, <1>7, <1>9 DEF Told
  <2>2. ASSUME NEW i \in 1..p.at - 1 PROVE p.items[i].key # item.key
    <3>1. RowOf(p.items[i]) \in events \cup p.rows
      BY <2>1 DEF Begun, Justified
    <3>2. RowOf(p.items[i]).key # item.key
      BY <1>8, <3>1
    <3>3. QED
      BY <3>2 DEF RowOf
  <2>3. IsFirst(q.items, q.at)
    BY <1>2, <1>6, <2>2 DEF IsFirst
  <2>4. ASSUME NEW i \in 1..p.at - 1 PROVE Justified(q, i, q.status[i])
    <3>1. Justified(p, i, p.status[i])
      BY <2>1 DEF Begun
    <3>2. RowOf(p.items[i]) # row
      <4>1. RowOf(p.items[i]).key # item.key
        BY <2>2 DEF RowOf
      <4>2. QED
        BY <1>8, <4>1
    <3>3. QED
      BY <1>4, <1>6, <3>1, <3>2 DEF Justified
  <2>5. Flushes(q) = p.at /\ p.at \in Nat \ {0} /\ Flushes(p) = p.at - 1
    BY <1>6, <1>7 DEF Flushes, Request
  <2>6. ASSUME NEW r \in rows
        PROVE  \E i \in 1..p.at : IsFirst(q.items, i) /\ r = RowOf(q.items[i])
    <3>1. CASE r = row
      <4>1. p.at \in 1..p.at
        BY <2>5
      <4>2. IsFirst(q.items, p.at) /\ r = RowOf(q.items[p.at])
        BY <1>2, <1>3, <1>6, <2>3, <3>1
      <4>3. QED
        BY <4>1, <4>2
    <3>2. CASE r \in p.rows
      <4>1. PICK i \in 1..p.at - 1 : IsFirst(p.items, i) /\ r = RowOf(p.items[i])
        BY <2>1, <2>5, <3>2 DEF Begun
      <4>2. i \in 1..p.at
        BY <2>5
      <4>3. QED
        BY <1>6, <4>1, <4>2
    <3>3. QED
      BY <1>4, <3>1, <3>2
  <2>7. RowOf(At(q)) \in q.rows
    BY <1>2, <1>3, <1>4, <1>6 DEF At
  <2>8. QED
    BY <1>6, <1>7, <2>1, <2>3, <2>4, <2>5, <2>6, <2>7 DEF Begun
<1>10. p.mode = "each" => q.rows = {RowOf(At(q))}
  BY <1>1, <1>2, <1>3, <1>4, <1>6, <1>7 DEF Told, At
<1>11. q.newSubject => ~subject
  BY <1>1, <1>6 DEF Told
<1>12. Told(q)
  BY <1>6, <1>9, <1>10, <1>11 DEF Told
<1>13. QED
  BY <1>1, <1>6, <1>7, <1>12, ToldFrame

\* What is added to the flushed evidence is evidence.
LEMMA EvidenceIsAdded ==
    ASSUME Inv, NEW c \in Client, InsertEvidence(c)
    PROVE  \E proofs \in SUBSET EvidenceRow :
            Become(c, Advanced([request[c] EXCEPT !.proofs = proofs], "created")) /\ Kept
<1>1. PICK p \in Request : p = request[c] /\ Placed(p) /\ p.phase = "prove"
  BY RequestIsHeld DEF Held, InsertEvidence
<1>2. PICK item \in Item : item = At(p) /\ item = Current(c)
  BY <1>1, BatchItems DEF Placed, At, Current
<1>3. PICK row \in p.rows :
        row = (CHOOSE r \in p.rows : r.key = item.key) /\ row.key = item.key
  <2>1. \E r \in p.rows : r.key = item.key
    BY <1>1, <1>2, RequestIsHeld DEF Held, Flushed
  <2>2. QED
    BY <2>1
<1>4. PICK proof \in EvidenceRow : proof = [ref |-> item.ref, event |-> row]
  BY <1>2 DEF Item, EvidenceRow, Request
<1>5. PICK proofs \in SUBSET EvidenceRow : proofs = p.proofs \cup {proof}
  BY DEF Request
<1>6. QED
  BY <1>1, <1>2, <1>3, <1>4, <1>5 DEF InsertEvidence

LEMMA InsertEvidenceTold ==
    ASSUME Inv, AllTold, NEW c \in Client, InsertEvidence(c)
    PROVE  AllTold'
<1>1. PICK p \in Request : p = request[c] /\ Placed(p) /\ Told(p) /\ p.phase = "prove"
  BY RequestIsHeld DEF Held, AllTold, InsertEvidence
<1>2. PICK proofs \in SUBSET EvidenceRow :
        Become(c, Advanced([p EXCEPT !.proofs = proofs], "created")) /\ Kept
  BY <1>1, EvidenceIsAdded
<1>3. PICK s : s = [p EXCEPT !.proofs = proofs]
  OBVIOUS
<1>4. /\ s \in Request /\ s.mode = p.mode /\ s.items = p.items /\ s.at = p.at
      /\ s.newSubject = p.newSubject /\ s.rows = p.rows /\ s.status = p.status
  BY <1>3 DEF Request
<1>5. "created" \in Status
  BY DEF Status
<1>6. PICK q : q = Advanced(s, "created") /\ Become(c, q)
  BY <1>2, <1>3
<1>7. /\ q \in Request /\ q.mode = p.mode /\ q.items = p.items
      /\ q.newSubject = p.newSubject /\ q.rows = p.rows
      /\ \/ q.phase = "read" /\ q.at = p.at + 1 /\ p.at < Len(p.items)
         \/ q.phase = "commit" /\ (p.mode = "each" => q.at = p.at)
      /\ p.mode = "atomic" => /\ q.status = Append(p.status, "created")
                              /\ q.at = p.at + 1
                              /\ q.phase = "commit" => ~(p.at < Len(p.items))
      /\ p.mode = "each" => q.phase = "commit"
  BY <1>4, <1>5, <1>6, AdvancedFields
<1>8. ASSUME p.mode = "atomic" PROVE Begun(q)
  <2>1. Begun(p) /\ Len(p.items) \in Nat /\ At(p) = p.items[p.at]
    BY <1>1, <1>8, BatchItems DEF Told, Placed, At
  <2>2. Justified(p, p.at, "created")
    BY <1>1, <2>1 DEF Begun, Justified
  <2>3. QED
    BY <1>1, <1>5, <1>7, <1>8, <2>1, <2>2, AdvancedBegun
<1>9. p.mode = "each" => q.rows = {RowOf(At(q))}
  BY <1>1, <1>7 DEF Told, At
<1>10. q.newSubject => ~subject
  BY <1>1, <1>7 DEF Told
<1>11. Told(q)
  BY <1>7, <1>8, <1>9, <1>10 DEF Told
<1>12. QED
  BY <1>1, <1>2, <1>6, <1>7, <1>11, ToldFrame

LEMMA CommitTold ==
    ASSUME Inv, AllTold, NEW c \in Client, Commit(c)
    PROVE  AllTold'
<1>1. PICK p \in Request : p = request[c]
  BY RequestIsHeld
<1>2. subject' = (subject \/ p.newSubject) /\ events' = events \cup p.rows
  BY <1>1 DEF Commit
<1>3. PICK q \in Request :
        /\ request' = [request EXCEPT ![c] = q]
        /\ ~q.newSubject /\ q.phase \in {"open", "answered"}
        /\ q.mode = p.mode /\ (q.mode = "atomic" => q.phase = "answered")
  BY <1>1, CommittedIsOver
<1>4. \A d \in Client : request'[d] = IF d = c THEN q ELSE request[d]
  BY <1>3 DEF Inv, TypeOK
<1>5. q.mode \in Mode
  BY DEF Request
<1>6. Told(q)'
  BY <1>3, <1>5 DEF Told, Mode
<1>7. ASSUME NEW d \in Client \ {c} PROVE Told(request[d])'
  <2>1. PICK r : r = request[d] /\ Told(r) /\ (r.newSubject => ~p.newSubject)
    BY <1>1 DEF AllTold
  <2>2. \A i : Justified(r, i, r.status[i]) => Justified(r, i, r.status[i])'
    BY <1>2 DEF Justified
  <2>3. Begun(r) => Begun(r)'
    BY <2>2 DEF Begun, Flushes, At
  <2>4. (r.newSubject => ~subject)'
    BY <1>2, <2>1 DEF Told
  <2>5. Told(r)'
    BY <2>1, <2>3, <2>4 DEF Told, At
  <2>6. request'[d] = r
    BY <1>4, <2>1
  <2>7. QED
    BY <2>5, <2>6, ToldAfter
<1>8. Told(request[c])'
  BY <1>4, <1>6, ToldAfter
<1>9. \A d, e \in Client : request'[d].newSubject /\ request'[e].newSubject => d = e
  BY <1>3, <1>4 DEF AllTold
<1>10. QED
  BY <1>7, <1>8, <1>9 DEF AllTold

LEMMA InitTold == Init => AllTold
<1> SUFFICES ASSUME Init PROVE AllTold
  OBVIOUS
<1>1. /\ Idle.phase = "idle" /\ ~Idle.newSubject
      /\ \A c \in Client : request[c] = Idle
  BY DEF Idle, Init
<1>2. QED
  BY <1>1 DEF AllTold, Told

LEMMA NextTold == Inv /\ AllTold /\ [Next]_vars => AllTold'
<1> SUFFICES ASSUME Inv, AllTold, [Next]_vars PROVE AllTold'
  OBVIOUS
<1>1. CASE UNCHANGED vars
  <2>1. UNCHANGED <<subject, events, evidence, request>>
    BY <1>1 DEF vars
  <2>2. ASSUME NEW c \in Client PROVE Told(request[c])'
    <3>1. PICK r : r = request[c] /\ request'[c] = r /\ Told(r)
      BY <2>1 DEF AllTold
    <3>2. Told(r)'
      BY <2>1, <3>1 DEF Told, Begun, Justified
    <3>3. QED
      BY <3>1, <3>2, ToldAfter
  <2>3. QED
    BY <2>1, <2>2 DEF AllTold
<1>2. ASSUME NEW c \in Client, NEW mode \in Mode, NEW items \in Batch,
             Submit(c, mode, items)
      PROVE  AllTold'
  BY <1>2, SubmitTold
<1>3. ASSUME NEW c \in Client, Step(c) \/ Crash(c) PROVE AllTold'
  BY <1>3, OpenTold, EnrolTold, LostTold, ReadTold, EntityMissingTold, InsertEventTold,
     InsertEvidenceTold, CommitTold, RetryTold, DeadlockVictimTold, ReturnTold
  DEF Step
<1>4. QED
  BY <1>1, <1>2, <1>3 DEF Next

-----------------------------------------------------------------------------
(* A third invariant: a request for one event after the other has been     *)
(* told of the events before the one it is at, so the log and the service  *)
(* answer the same event next.                                             *)

Turned(q) ==
    /\ q.phase = "idle" => q = Idle
    /\ q.mode = "each" /\ q.phase # "answered" => Len(q.status) = q.at - 1

AllTurned == \A c \in Client : Turned(request[c])

\* Work on a request keeps what was asked, and is told of the event it was at
\* when it goes on to the next one.
Works(p, q) ==
    /\ q \in Request /\ q.mode = p.mode /\ q.items = p.items /\ q.phase # "idle"
    /\ q.mode = "each" /\ q.phase # "answered" =>
        /\ p.phase # "answered"
        /\ \/ q.at = p.at /\ q.status = p.status
           \/ q.at = p.at + 1 /\ \E s \in Status : q.status = Append(p.status, s)

\* The steps of a request that is not over.
WorkStep(c) ==
    \/ Open(c) \/ Enrol(c) \/ EnrolLost(c) \/ Read(c) \/ EntityMissing(c)
    \/ InsertEvent(c) \/ InsertEventLost(c)
    \/ InsertEvidence(c) \/ InsertEvidenceLost(c)
    \/ Commit(c) \/ Retry(c) \/ DeadlockVictim(c)

LEMMA CurrentIsItem ==
    ASSUME Inv, NEW c \in Client,
           \/ request[c].phase \in {"open", "enrol", "read", "insert", "prove", "retry"}
           \/ request[c].phase = "commit" /\ request[c].mode = "each"
    PROVE  /\ request[c].items \in Batch /\ request[c].at \in 1..Len(request[c].items)
           /\ Current(c) \in Item /\ Current(c) = At(request[c])
           /\ Current(c).key \in Key /\ Current(c).content \in Content
<1>1. request[c].items \in Batch /\ request[c].at \in 1..Len(request[c].items)
  BY RequestIsHeld DEF Held, Placed
<1>2. Current(c) \in Item /\ Current(c) = At(request[c])
  BY <1>1, BatchItems DEF Current, At
<1>3. QED
  BY <1>1, <1>2 DEF Item

LEMMA AnsweredWorks ==
    ASSUME NEW p \in Request, p.phase # "answered", NEW status \in Status
    PROVE  Works(p, Answered(p, status))
<1>1. PICK q : q = Answered(p, status)
  OBVIOUS
<1>2. /\ Over(p, q) /\ q.at = p.at + 1 /\ q.status = Append(p.status, status)
      /\ q.phase \in {"answered", "open"}
  BY <1>1, AnsweredIsOver
<1>3. Works(p, q)
  BY <1>2 DEF Over, Works
<1>4. QED
  BY <1>1, <1>3

LEMMA RefusedWorks ==
    ASSUME NEW p \in Request, NEW status \in Status
    PROVE  Works(p, Refused(p, status))
BY RefusedIsOver DEF Over, Works

LEMMA ViolatedWorks ==
    ASSUME NEW p \in Request, p.phase # "answered"
    PROVE  Works(p, Violated(p))
<1>1. PICK q : q = Violated(p)
  OBVIOUS
<1>2. /\ Over(p, q)
      /\ \/ p.mode # "each" /\ q.phase = "answered"
         \/ p.mode = "each" /\ q.phase = "retry" /\ q.at = p.at /\ q.status = p.status
  BY <1>1, ViolatedIsOver
<1>3. Works(p, q)
  BY <1>2 DEF Over, Works
<1>4. QED
  BY <1>1, <1>3

\* An item is advanced over whatever evidence was flushed for it.
LEMMA AdvancedWorks ==
    ASSUME NEW p \in Request, p.phase # "answered", NEW proofs \in SUBSET EvidenceRow,
           NEW status \in Status
    PROVE  Works(p, Advanced([p EXCEPT !.proofs = proofs], status))
<1>1. PICK s : s = [p EXCEPT !.proofs = proofs]
  OBVIOUS
<1>2. s \in Request /\ s.mode = p.mode /\ s.items = p.items /\ s.at = p.at
      /\ s.status = p.status
  BY <1>1 DEF Request
<1>3. PICK q : q = Advanced(s, status)
  OBVIOUS
<1>4. /\ q \in Request /\ q.mode = s.mode /\ q.items = s.items
      /\ q.phase \in {"read", "commit"}
      /\ q.mode = "each" => q.phase = "commit" /\ q.at = s.at /\ q.status = s.status
  BY <1>2, <1>3, AdvancedFields
<1>5. Works(p, q)
  BY <1>2, <1>4 DEF Works
<1>6. QED
  BY <1>1, <1>3, <1>5

\* A step that only marks where the unit of work is.
LEMMA MarkedWorks ==
    ASSUME NEW p \in Request, p.phase # "answered", NEW q \in Request, q.phase # "idle",
           q.mode = p.mode, q.items = p.items, q.at = p.at, q.status = p.status
    PROVE  Works(p, q)
BY DEF Works

LEMMA ReadWorks ==
    ASSUME Inv, NEW c \in Client, Read(c)
    PROVE  \E q : Become(c, q) /\ Works(request[c], q)
<1>1. PICK p \in Request : p = request[c] /\ p.phase = "read"
  BY RequestIsHeld DEF Read
<1>2. "replayed" \in Status /\ "conflict" \in Status
  BY DEF Status
<1>3. CASE Goes(c, "insert")
  <2>1. PICK q : q = [p EXCEPT !.phase = "insert"]
    OBVIOUS
  <2>2. /\ q \in Request /\ q.phase = "insert" /\ q.mode = p.mode
        /\ q.items = p.items /\ q.at = p.at /\ q.status = p.status
    BY <2>1 DEF Request
  <2>3. Works(p, q)
    BY <1>1, <2>2, MarkedWorks
  <2>4. QED
    BY <1>1, <1>3, <2>1, <2>3 DEF Goes
<1>4. CASE Become(c, Advanced(p, "replayed"))
  <2>1. PICK proofs \in SUBSET EvidenceRow : proofs = p.proofs
    BY DEF Request
  <2>2. p = [p EXCEPT !.proofs = proofs]
    BY <2>1 DEF Request
  <2>3. Works(p, Advanced(p, "replayed"))
    BY <1>1, <1>2, <2>2, AdvancedWorks
  <2>4. QED
    BY <1>1, <1>4, <2>3
<1>5. CASE Become(c, Refused(p, "conflict"))
  BY <1>1, <1>2, <1>5, RefusedWorks
<1>6. ASSUME NEW status \in {"replayed", "conflict"}, Become(c, Answered(p, status))
      PROVE  \E q : Become(c, q) /\ Works(request[c], q)
  <2>1. Works(p, Answered(p, status))
    BY <1>1, <1>2, AnsweredWorks
  <2>2. QED
    BY <1>1, <1>6, <2>1
<1>7. \/ Goes(c, "insert") \/ Become(c, Advanced(p, "replayed"))
      \/ Become(c, Refused(p, "conflict"))
      \/ Become(c, Answered(p, "replayed")) \/ Become(c, Answered(p, "conflict"))
  BY <1>1 DEF Read
<1>8. QED
  BY <1>3, <1>4, <1>5, <1>6, <1>7

LEMMA StepWorks ==
    ASSUME Inv, NEW c \in Client, WorkStep(c)
    PROVE  \E q : Become(c, q) /\ Works(request[c], q)
<1>1. PICK p \in Request : p = request[c]
  BY RequestIsHeld
<1>2. "failed" \in Status /\ "created" \in Status
      /\ \A row : Decide(row, Current(c)) \in Status
  BY DEF Status, Decide
<1>3. CASE Open(c) \/ Enrol(c)
  <2>1. PICK q : /\ Become(c, q)
                 /\ \/ q = [p EXCEPT !.phase = "read"]
                    \/ q = [p EXCEPT !.phase = "enrol"]
                    \/ q = [p EXCEPT !.phase = "read", !.newSubject = TRUE]
    BY <1>1, <1>3 DEF Open, Enrol, Goes
  <2>2. /\ q \in Request /\ q.phase \in {"read", "enrol"} /\ q.mode = p.mode
        /\ q.items = p.items /\ q.at = p.at /\ q.status = p.status
    <3>1. CASE q = [p EXCEPT !.phase = "read"]
      BY <3>1 DEF Request
    <3>2. CASE q = [p EXCEPT !.phase = "enrol"]
      BY <3>2 DEF Request
    <3>3. CASE q = [p EXCEPT !.phase = "read", !.newSubject = TRUE]
      BY <3>3 DEF Request
    <3>4. QED
      BY <2>1, <3>1, <3>2, <3>3
  <2>3. p.phase # "answered"
    BY <1>1, <1>3 DEF Open, Enrol
  <2>4. QED
    BY <1>1, <2>1, <2>2, <2>3, MarkedWorks
<1>4. CASE EnrolLost(c) \/ InsertEventLost(c) \/ InsertEvidenceLost(c)
  <2>1. p.phase # "answered" /\ Become(c, Violated(p))
    BY <1>1, <1>4 DEF EnrolLost, InsertEventLost, InsertEvidenceLost
  <2>2. QED
    BY <1>1, <2>1, ViolatedWorks
<1>5. CASE Read(c)
  BY <1>5, ReadWorks
<1>6. CASE EntityMissing(c) \/ Retry(c)
  <2>1. p.phase # "answered"
        /\ \/ Become(c, Refused(p, "failed")) \/ Become(c, Answered(p, "failed"))
           \/ \E row : Become(c, Answered(p, Decide(row, Current(c))))
    BY <1>1, <1>6 DEF EntityMissing, Retry
  <2>2. CASE Become(c, Refused(p, "failed"))
    BY <1>1, <1>2, <2>2, RefusedWorks
  <2>3. ASSUME NEW status \in Status, Become(c, Answered(p, status))
        PROVE  \E q : Become(c, q) /\ Works(request[c], q)
    BY <1>1, <2>1, <2>3, AnsweredWorks
  <2>4. QED
    BY <1>2, <2>1, <2>2, <2>3
<1>7. CASE InsertEvent(c)
  <2>1. PICK rows : /\ rows = p.rows \cup {[key |-> Current(c).key,
                                            content |-> Current(c).content]}
                    /\ Become(c, [p EXCEPT !.phase = "prove", !.rows = rows])
                    /\ p.phase = "insert"
    BY <1>1, <1>7 DEF InsertEvent
  <2>2. rows \in SUBSET EventRow
    BY <1>1, <2>1, CurrentIsItem DEF Request, EventRow
  <2>3. PICK q : q = [p EXCEPT !.phase = "prove", !.rows = rows]
    OBVIOUS
  <2>4. /\ q \in Request /\ q.phase = "prove" /\ q.mode = p.mode
        /\ q.items = p.items /\ q.at = p.at /\ q.status = p.status
    BY <2>2, <2>3 DEF Request
  <2>5. QED
    BY <1>1, <2>1, <2>3, <2>4, MarkedWorks
<1>8. CASE InsertEvidence(c)
  <2>1. PICK proofs \in SUBSET EvidenceRow :
          Become(c, Advanced([p EXCEPT !.proofs = proofs], "created"))
    BY <1>1, <1>8, EvidenceIsAdded
  <2>2. p.phase # "answered"
    BY <1>1, <1>8 DEF InsertEvidence
  <2>3. Works(p, Advanced([p EXCEPT !.proofs = proofs], "created"))
    BY <1>2, <2>2, AdvancedWorks
  <2>4. QED
    BY <1>1, <2>1, <2>3
<1>9. CASE Commit(c)
  <2>1. PICK q \in Request :
          /\ Become(c, q) /\ q.phase \in {"open", "answered"} /\ q.mode = p.mode
          /\ q.items = p.items
          /\ q.mode = "atomic" => q.phase = "answered"
          /\ q.mode = "each" => /\ q.at = p.at + 1
                                /\ q.status = Append(p.status, "created")
    BY <1>1, <1>9, CommittedIsOver DEF Become
  <2>2. p.phase = "commit"
    BY <1>1, <1>9 DEF Commit
  <2>3. Works(p, q)
    BY <1>2, <2>1, <2>2 DEF Works
  <2>4. QED
    BY <1>1, <2>1, <2>3
<1>10. CASE DeadlockVictim(c)
  <2>1. PICK q \in Request :
          Become(c, q) /\ q.phase = "answered" /\ q.mode = p.mode /\ q.items = p.items
    BY <1>1, <1>10, VictimIsOver
  <2>2. Works(p, q)
    BY <2>1 DEF Works
  <2>3. QED
    BY <1>1, <2>1, <2>2
<1>11. QED
  BY <1>3, <1>4, <1>5, <1>6, <1>7, <1>8, <1>9, <1>10 DEF WorkStep

\* What becomes of one request.
LEMMA TurnedFrame ==
    ASSUME Inv, AllTurned, NEW c \in Client, NEW q, Become(c, q), Turned(q)
    PROVE  AllTurned'
<1>1. \A d \in Client : request'[d] = IF d = c THEN q ELSE request[d]
  BY DEF Inv, TypeOK, Become
<1>2. \A r : Turned(r) <=> Turned(r)'
  BY DEF Turned, Idle
<1>3. ASSUME NEW d \in Client PROVE Turned(request[d])'
  <2>1. PICK r : r = request'[d] /\ Turned(r)
    BY <1>1 DEF AllTurned
  <2>2. QED
    BY <2>1 DEF Turned, Idle
<1>4. QED
  BY <1>3 DEF AllTurned

LEMMA InitTurned == Init => AllTurned
BY DEF Init, AllTurned, Turned, Idle

LEMMA NextTurned == Inv /\ AllTurned /\ [Next]_vars => AllTurned'
<1> SUFFICES ASSUME Inv, AllTurned, [Next]_vars PROVE AllTurned'
  OBVIOUS
<1>1. CASE UNCHANGED vars
  BY <1>1 DEF vars, AllTurned, Turned, Idle
<1>2. ASSUME NEW c \in Client, NEW mode \in Mode, NEW items \in Batch,
             Submit(c, mode, items)
      PROVE  AllTurned'
  <2>1. PICK q : q = [Idle EXCEPT !.phase = "open", !.mode = mode, !.items = items]
    OBVIOUS
  <2>2. q.phase = "open" /\ q.at = Idle.at /\ q.status = Idle.status
    BY <2>1, IdleIsRequest DEF Request
  <2>3. q.at = 1 /\ q.status = <<>>
    BY <2>2 DEF Idle
  <2>4. Turned(q)
    BY <2>2, <2>3 DEF Turned
  <2>5. Become(c, q)
    BY <1>2, <2>1 DEF Submit
  <2>6. QED
    BY <2>4, <2>5, TurnedFrame
<1>3. ASSUME NEW c \in Client, Return(c) \/ Crash(c) PROVE AllTurned'
  <2>1. Turned(Idle)
    BY DEF Turned, Idle
  <2>2. QED
    BY <1>3, <2>1, TurnedFrame DEF Return, Crash
<1>4. ASSUME NEW c \in Client, WorkStep(c) PROVE AllTurned'
  <2>1. PICK q : Become(c, q) /\ Works(request[c], q)
    BY <1>4, StepWorks
  <2>2. PICK p \in Request : p = request[c] /\ Turned(p)
    BY RequestIsHeld DEF AllTurned
  <2>3. ASSUME q.mode = "each", q.phase # "answered" PROVE Len(q.status) = q.at - 1
    <3>1. PICK s \in Seq(Status), n \in Nat \ {0} : s = p.status /\ n = p.at
      BY DEF Request
    <3>2. Len(s) = n - 1
      BY <2>1, <2>2, <2>3, <3>1 DEF Works, Turned
    <3>3. CASE q.at = n /\ q.status = s
      BY <3>2, <3>3
    <3>4. ASSUME NEW status \in Status, q.at = n + 1, q.status = Append(s, status)
          PROVE  Len(q.status) = q.at - 1
      BY <3>1, <3>2, <3>4
    <3>5. QED
      BY <2>1, <2>2, <2>3, <3>1, <3>3, <3>4 DEF Works
  <2>4. Turned(q)
    BY <2>1, <2>3 DEF Turned, Works
  <2>5. QED
    BY <2>1, <2>4, TurnedFrame
<1>5. QED
  BY <1>1, <1>2, <1>3, <1>4 DEF Next, Step, WorkStep

-----------------------------------------------------------------------------
(* Every step of the service is a step of the event log, or none of it.    *)

LEMMA LogKeys ==
    ASSUME Inv
    PROVE  /\ \A r \in events : r.key \in Key /\ Log[r.key] = r.content
                                /\ r.content # NoContent
           /\ \A k \in Key : (\A r \in events : r.key # k) => Log[k] = NoContent
<1>1. events \in SUBSET EventRow /\ OneKey(events)
  BY DEF Inv, TypeOK, Sound
<1>2. Log = LogOf(events)
  BY DEF Log, LogOf
<1>3. QED
  BY <1>1, <1>2, LogReads

LEMMA AnswersMove ==
    ASSUME Inv, NEW c \in Client, NEW q, request' = [request EXCEPT ![c] = q]
    PROVE  /\ Answers[c] = AnswerOf(request[c])
           /\ Answers' = [Answers EXCEPT ![c] = AnswerOf(q)]
<1>1. Answers = [d \in Client |-> AnswerOf(request[d])]
  BY DEF Answers, AnswerOf
<1>2. Answers' = [d \in Client |-> AnswerOf(request'[d])]
  BY DEF Answers, AnswerOf
<1>3. \A d \in Client : request'[d] = IF d = c THEN q ELSE request[d]
  BY DEF Inv, TypeOK
<1>4. QED
  BY <1>1, <1>2, <1>3

LEMMA AskedIs ==
    ASSUME NEW c \in Client
    PROVE  Asked[c].mode = request[c].mode /\ Asked[c].items = request[c].items
BY DEF Asked

LEMMA AskedMove ==
    ASSUME Inv, NEW c \in Client, NEW q, Become(c, q)
    PROVE  Asked' = [Asked EXCEPT ![c] = [mode |-> q.mode, items |-> q.items]]
BY DEF Asked, Become, Inv, TypeOK

\* Work on a request leaves what was asked alone.
LEMMA AskedStays ==
    ASSUME Inv, NEW c \in Client, WorkStep(c)
    PROVE  Asked' = Asked
<1>1. PICK q : Become(c, q) /\ Works(request[c], q)
  BY StepWorks
<1>2. \A d \in Client : /\ request'[d].mode = request[d].mode
                        /\ request'[d].items = request[d].items
  BY <1>1 DEF Inv, TypeOK, Become, Works
<1>3. QED
  BY <1>2, Zenon DEF Asked

LEMMA LogStays ==
    ASSUME Kept
    PROVE  Log' = Log
BY DEF Kept, Log

\* Work on rows that nobody sees yet.
LEMMA Stutter ==
    ASSUME Inv, Kept, NEW c \in Client, NEW q, Become(c, q), WorkStep(c),
           AnswerOf(q) = AnswerOf(request[c])
    PROVE  UNCHANGED Abstract!vars
<1>1. Answers' = [Answers EXCEPT ![c] = AnswerOf(q)] /\ Answers[c] = AnswerOf(q)
  BY AnswersMove DEF Become
<1>2. Answers' = Answers
  BY <1>1 DEF Answers
<1>3. QED
  BY <1>2, LogStays, AskedStays DEF Abstract!vars

\* An atomic batch that fails.
LEMMA RefuseAllMaps ==
    ASSUME Inv, Kept, NEW c \in Client, NEW q, Become(c, q),
           WorkStep(c), request[c].mode = "atomic",
           AnswerOf(request[c]) = <<>>, AnswerOf(q) = <<"failed">>
    PROVE  Abstract!Next
<1>1. Answers[c] = <<>> /\ Answers' = [Answers EXCEPT ![c] = <<"failed">>]
  BY AnswersMove, Zenon DEF Become
<1>2. Asked[c].mode = "atomic" /\ Asked' = Asked
  BY AskedIs, AskedStays
<1>3. Abstract!RefuseAll(c)
  BY <1>1, <1>2, LogStays DEF Abstract!RefuseAll, Abstract!AnswerAll
<1>4. QED
  BY <1>3 DEF Abstract!Next

\* A request for one item at a time has one item more answered.
LEMMA OneMaps ==
    ASSUME Inv, AllTurned, NEW c \in Client, NEW q, Become(c, q), WorkStep(c),
           request[c].mode = "each", request[c].phase # "answered",
           NEW status, AnswerOf(q) = Append(AnswerOf(request[c]), status),
           request[c].items \in Batch, request[c].at \in 1..Len(request[c].items),
           \/ Log' = Abstract!Stored(Log, Current(c))
              /\ status = Abstract!Decision(Log, Current(c))
           \/ Log' = Log /\ status = "failed" /\ Log[Current(c).key] = NoContent
    PROVE  Abstract!Next
<1>1. /\ Answers[c] = AnswerOf(request[c])
      /\ Answers' = [Answers EXCEPT ![c] = Append(Answers[c], status)]
  <2>1. /\ Answers[c] = AnswerOf(request[c])
        /\ Answers' = [Answers EXCEPT ![c] = AnswerOf(q)]
    BY AnswersMove DEF Become
  <2>2. QED
    BY <2>1, Zenon
<1>2. Abstract!Tell(c, status)
  BY <1>1 DEF Abstract!Tell
<1>3. Asked[c].mode = "each" /\ Asked[c].items = request[c].items /\ Asked' = Asked
  BY AskedIs, AskedStays
<1>4. Abstract!Turn(c) = request[c].at
  <2>1. Len(request[c].status) = request[c].at - 1
    BY DEF AllTurned, Turned
  <2>2. Answers[c] = request[c].status
    BY <1>1 DEF AnswerOf
  <2>3. Abstract!Turn(c) = Len(Answers[c]) + 1
    BY Zenon DEF Abstract!Turn
  <2>4. request[c].at \in Int
    OBVIOUS
  <2>5. QED
    BY <2>1, <2>2, <2>3, <2>4
<1>5. Abstract!Answering(c) /\ Abstract!Current(c) = Current(c)
  BY <1>3, <1>4 DEF Abstract!Answering, Abstract!Current, Current
<1>6. Abstract!IngestOne(c) \/ Abstract!RefuseOne(c)
  BY <1>2, <1>3, <1>5 DEF Abstract!IngestOne, Abstract!RefuseOne
<1>7. QED
  BY <1>6 DEF Abstract!Next

\* An event that is not stored is refused on its own.
LEMMA FailedMaps ==
    ASSUME Inv, AllTurned, Kept, NEW c \in Client, NEW q, Become(c, q), WorkStep(c),
           request[c].phase \in {"enrol", "read", "insert", "prove", "retry"},
           q.mode = "each", request[c].mode = "each",
           q.status = Append(request[c].status, "failed"),
           \A r \in events : r.key # Current(c).key
    PROVE  Abstract!Next
<1>1. Log[Current(c).key] = NoContent /\ Log' = Log
  BY CurrentIsItem, LogKeys, LogStays
<1>2. AnswerOf(q) = Append(AnswerOf(request[c]), "failed")
  BY DEF AnswerOf
<1>3. QED
  BY <1>1, <1>2, CurrentIsItem, OneMaps

\* An event that is stored is compared with what is stored.
LEMMA RepeatedMaps ==
    ASSUME Inv, AllTurned, Kept, NEW c \in Client, NEW q, Become(c, q), WorkStep(c),
           request[c].phase \in {"read", "retry"}, q.mode = "each", request[c].mode = "each",
           NEW row \in events, row.key = Current(c).key,
           q.status = Append(request[c].status, Decide(row, Current(c)))
    PROVE  Abstract!Next
<1>1. Log[Current(c).key] = row.content /\ row.content # NoContent
  BY LogKeys
<1>2. Log' = Abstract!Stored(Log, Current(c))
  BY <1>1, LogStays DEF Abstract!Stored
<1>3. Decide(row, Current(c)) = Abstract!Decision(Log, Current(c))
  BY <1>1 DEF Decide, Abstract!Decision
<1>4. AnswerOf(q) = Append(AnswerOf(request[c]), Decide(row, Current(c)))
  BY DEF AnswerOf
<1>5. QED
  BY <1>2, <1>3, <1>4, CurrentIsItem, OneMaps

LEMMA SubmitMaps ==
    ASSUME Inv, AllTurned, NEW c \in Client, NEW mode \in Mode, NEW items \in Batch,
           Submit(c, mode, items)
    PROVE  Abstract!Next
<1>1. PICK q : q = [Idle EXCEPT !.phase = "open", !.mode = mode, !.items = items]
  OBVIOUS
<1>2. /\ q.phase = "open" /\ q.status = Idle.status
      /\ q.mode = mode /\ q.items = items
  BY <1>1, IdleIsRequest DEF Request
<1>3. AnswerOf(q) = <<>> /\ AnswerOf(Idle) = <<>>
  BY <1>2 DEF AnswerOf, Idle
<1>4. Become(c, q) /\ Kept /\ request[c] = Idle
  BY <1>1 DEF Submit, AllTurned, Turned
<1>5. Answers' = Answers
  <2>1. Answers' = [Answers EXCEPT ![c] = Answers[c]]
    BY <1>3, <1>4, AnswersMove DEF Become
  <2>2. QED
    BY <2>1 DEF Answers
<1>6. /\ Asked[c] = Abstract!Nothing
      /\ Asked' = [Asked EXCEPT ![c] = [mode |-> mode, items |-> items]]
  <2>1. Asked[c] = [mode |-> Idle.mode, items |-> Idle.items]
    BY <1>4, Zenon DEF Asked
  <2>2. Asked[c] = Abstract!Nothing
    BY <2>1 DEF Idle, Abstract!Nothing
  <2>3. Asked' = [Asked EXCEPT ![c] = [mode |-> q.mode, items |-> q.items]]
    BY <1>4, AskedMove
  <2>4. QED
    BY <1>2, <2>2, <2>3
<1>7. Abstract!Ask(c, mode, items)
  BY <1>4, <1>5, <1>6, LogStays DEF Abstract!Ask
<1>8. mode \in Abstract!Mode
  BY DEF Mode, Abstract!Mode
<1>9. QED
  BY <1>7, <1>8 DEF Abstract!Next

LEMMA ReturnMaps ==
    ASSUME Inv, NEW c \in Client, Return(c) \/ Crash(c)
    PROVE  Abstract!Next
<1>1. AnswerOf(Idle) = <<>> /\ Become(c, Idle) /\ Kept
  BY DEF AnswerOf, Idle, Return, Crash
<1>2. Answers' = [Answers EXCEPT ![c] = <<>>]
  BY <1>1, AnswersMove, Zenon DEF Become
<1>3. Abstract!Nothing = [mode |-> Idle.mode, items |-> Idle.items]
  BY DEF Idle, Abstract!Nothing
<1>4. Asked' = [Asked EXCEPT ![c] = Abstract!Nothing]
  BY <1>1, <1>3, AskedMove
<1>5. Abstract!Forget(c)
  BY <1>1, <1>2, <1>4, LogStays DEF Abstract!Forget
<1>6. QED
  BY <1>5 DEF Abstract!Next

LEMMA OpenMaps ==
    ASSUME Inv, NEW c \in Client, Open(c) \/ Enrol(c)
    PROVE  UNCHANGED Abstract!vars
<1>1. PICK p \in Request : p = request[c]
  BY RequestIsHeld
<1>2. PICK q : /\ Become(c, q)
               /\ \/ q = [p EXCEPT !.phase = "read"]
                  \/ q = [p EXCEPT !.phase = "enrol"]
                  \/ q = [p EXCEPT !.phase = "read", !.newSubject = TRUE]
  BY <1>1 DEF Open, Enrol, Goes
<1>3. q.phase \in {"read", "enrol"} /\ q.mode = p.mode /\ q.status = p.status
  BY <1>2 DEF Request
<1>4. p.phase \in {"open", "enrol"} /\ Kept
  BY <1>1 DEF Open, Enrol
<1>5. AnswerOf(q) = AnswerOf(p)
  BY <1>3, <1>4 DEF AnswerOf
<1>6. WorkStep(c)
  BY DEF WorkStep
<1>7. QED
  BY <1>1, <1>2, <1>4, <1>5, <1>6, Stutter

\* A violated constraint fails a batch and sends one event back to look again.
LEMMA LostMaps ==
    ASSUME Inv, NEW c \in Client,
           EnrolLost(c) \/ InsertEventLost(c) \/ InsertEvidenceLost(c)
    PROVE  Abstract!Next \/ UNCHANGED Abstract!vars
<1>1. PICK p \in Request : p = request[c]
  BY RequestIsHeld
<1>2. PICK q : q = Violated(p)
  OBVIOUS
<1>3. /\ p.phase \in {"enrol", "insert", "prove"} /\ Become(c, q) /\ Kept
      /\ p.mode \in Mode /\ WorkStep(c)
  BY <1>1, <1>2 DEF EnrolLost, InsertEventLost, InsertEvidenceLost, Request, WorkStep
<1>4. /\ q.mode = p.mode
      /\ \/ p.mode # "each" /\ q.phase = "answered" /\ q.status = <<"failed">>
         \/ p.mode = "each" /\ q.status = p.status
  BY <1>2, ViolatedIsOver DEF Over
<1>5. CASE p.mode = "each"
  <2>1. AnswerOf(q) = AnswerOf(p)
    BY <1>4, <1>5 DEF AnswerOf
  <2>2. QED
    BY <1>1, <1>3, <2>1, Stutter
<1>6. CASE p.mode # "each"
  <2>1. AnswerOf(p) = <<>> /\ AnswerOf(q) = <<"failed">> /\ p.mode = "atomic"
    BY <1>3, <1>4, <1>6 DEF AnswerOf, Mode
  <2>2. QED
    BY <1>1, <1>3, <2>1, RefuseAllMaps
<1>7. QED
  BY <1>5, <1>6

LEMMA EntityMissingMaps ==
    ASSUME Inv, AllTurned, NEW c \in Client, EntityMissing(c)
    PROVE  Abstract!Next
<1>1. PICK p \in Request : p = request[c]
  BY RequestIsHeld
<1>2. p.phase = "read" /\ Kept /\ p.mode \in Mode /\ "failed" \in Status
      /\ WorkStep(c)
  BY <1>1 DEF EntityMissing, Request, Status, WorkStep
<1>3. \A r \in events : r.key # Current(c).key
  BY DEF EntityMissing, Found
<1>4. CASE p.mode = "each"
  <2>1. PICK q : q = Answered(p, "failed") /\ Become(c, q)
    BY <1>1, <1>4 DEF EntityMissing
  <2>2. q.mode = p.mode /\ q.status = Append(p.status, "failed")
    BY <1>2, <2>1, AnsweredIsOver DEF Over
  <2>3. QED
    BY <1>1, <1>2, <1>3, <1>4, <2>1, <2>2, FailedMaps
<1>5. CASE p.mode # "each"
  <2>1. PICK q : q = Refused(p, "failed") /\ Become(c, q)
    BY <1>1, <1>5 DEF EntityMissing
  <2>2. q.mode = p.mode /\ q.phase = "answered" /\ q.status = <<"failed">>
    BY <1>2, <2>1, RefusedIsOver DEF Over
  <2>3. AnswerOf(p) = <<>> /\ AnswerOf(q) = <<"failed">> /\ p.mode = "atomic"
    BY <1>2, <1>5, <2>2 DEF AnswerOf, Mode
  <2>4. QED
    BY <1>1, <1>2, <2>1, <2>3, RefuseAllMaps
<1>6. QED
  BY <1>4, <1>5

LEMMA RetryMaps ==
    ASSUME Inv, AllTold, AllTurned, NEW c \in Client, Retry(c)
    PROVE  Abstract!Next
<1>1. PICK p \in Request : p = request[c] /\ p.phase = "retry" /\ Kept /\ WorkStep(c)
  BY RequestIsHeld DEF Retry, WorkStep
<1>2. p.mode = "each" /\ p.rows = {}
  BY <1>1, RequestIsHeld DEF AllTold, Told, Held, Flushed
<1>3. CASE Found(c, Current(c).key) = {} /\ Become(c, Answered(p, "failed"))
  <2>1. PICK q : q = Answered(p, "failed") /\ Become(c, q)
    BY <1>3
  <2>2. "failed" \in Status
    BY DEF Status
  <2>3. q.mode = p.mode /\ q.status = Append(p.status, "failed")
    BY <2>1, <2>2, AnsweredIsOver DEF Over
  <2>4. \A r \in events : r.key # Current(c).key
    BY <1>3 DEF Found
  <2>5. QED
    BY <1>1, <1>2, <2>1, <2>3, <2>4, FailedMaps
<1>4. ASSUME NEW row \in Found(c, Current(c).key),
             Become(c, Answered(p, Decide(row, Current(c))))
      PROVE  Abstract!Next
  <2>1. row \in events /\ row.key = Current(c).key
    BY <1>1, <1>2 DEF Found
  <2>2. PICK status \in Status : status = Decide(row, Current(c))
    BY DEF Decide, Status
  <2>3. PICK q : q = Answered(p, status) /\ Become(c, q)
    BY <1>4, <2>2
  <2>4. q.mode = p.mode /\ q.status = Append(p.status, status)
    BY <2>3, AnsweredIsOver DEF Over
  <2>5. QED
    BY <1>1, <1>2, <2>1, <2>2, <2>3, <2>4, RepeatedMaps
<1>5. QED
  BY <1>1, <1>3, <1>4 DEF Retry

\* The victim waited for the subject, which nobody has stored, for a key that
\* another unit of work holds, or with a key that it holds itself.
LEMMA DeadlockVictimMaps ==
    ASSUME Inv, AllTold, AllTurned, NEW c \in Client, DeadlockVictim(c)
    PROVE  Abstract!Next
<1>1. PICK p \in Request : p = request[c] /\ Held(p) /\ p.mode \in Mode
  BY RequestIsHeld DEF Request
<1>2. Blockers(c) # {} /\ Kept /\ WorkStep(c)
  BY DEF DeadlockVictim, Deadlocked, WorkStep
<1>3. p.phase \in {"enrol", "insert", "prove"}
  BY <1>1, <1>2 DEF Blockers
<1>4. PICK q \in Request :
        /\ Become(c, q) /\ q.phase = "answered" /\ q.mode = p.mode
        /\ q.status = IF q.mode = "each" THEN Append(p.status, "failed") ELSE <<"failed">>
  BY <1>1, VictimIsOver
<1>5. ASSUME NEW r \in events PROVE r.key # Current(c).key
  <2>1. CASE p.phase = "enrol"
    <3>1. PICK d \in Client : request[d].newSubject
      BY <1>1, <1>2, <2>1 DEF Blockers, SubjectHolders
    <3>2. ~subject
      BY <3>1 DEF AllTold, Told
    <3>3. QED
      BY <1>5, <3>2 DEF Inv, Sound
  <2>2. CASE p.phase = "insert"
    <3>1. PICK d \in Client : \E s \in request[d].rows : s.key = Current(c).key
      BY <1>1, <1>2, <2>2 DEF Blockers, EventHolders
    <3>2. QED
      BY <1>5, <3>1, RequestIsHeld DEF Held, Apart
  <2>3. CASE p.phase = "prove"
    <3>1. PICK s \in p.rows : s.key = Current(c).key
      BY <1>1, <2>3, CurrentIsItem DEF Held, Flushed
    <3>2. QED
      BY <1>1, <1>5, <3>1 DEF Held, Apart
  <2>4. QED
    BY <1>3, <2>1, <2>2, <2>3
<1>6. CASE p.mode = "each"
  BY <1>1, <1>2, <1>3, <1>4, <1>5, <1>6, FailedMaps
<1>7. CASE p.mode # "each"
  <2>1. AnswerOf(p) = <<>> /\ AnswerOf(q) = <<"failed">> /\ p.mode = "atomic"
    BY <1>1, <1>3, <1>4, <1>7 DEF AnswerOf, Mode
  <2>2. QED
    BY <1>1, <1>2, <1>4, <2>1, RefuseAllMaps
<1>8. QED
  BY <1>6, <1>7

\* Rows and evidence are flushed without a word to the caller.
LEMMA InsertMaps ==
    ASSUME Inv, NEW c \in Client, InsertEvent(c) \/ InsertEvidence(c)
    PROVE  UNCHANGED Abstract!vars
<1>1. PICK p \in Request : p = request[c] /\ p.mode \in Mode
  BY RequestIsHeld DEF Request
<1>2. p.phase \in {"insert", "prove"} /\ Kept /\ WorkStep(c)
  BY <1>1 DEF InsertEvent, InsertEvidence, WorkStep
<1>3. CASE InsertEvent(c)
  <2>1. PICK rows : Become(c, [p EXCEPT !.phase = "prove", !.rows = rows])
    BY <1>1, <1>3 DEF InsertEvent
  <2>2. PICK q : q = [p EXCEPT !.phase = "prove", !.rows = rows] /\ Become(c, q)
    BY <2>1
  <2>3. q.phase = "prove" /\ q.mode = p.mode /\ q.status = p.status
    BY <2>2 DEF Request
  <2>4. AnswerOf(q) = AnswerOf(p)
    BY <1>2, <2>3 DEF AnswerOf
  <2>5. QED
    BY <1>1, <1>2, <2>2, <2>4, Stutter
<1>4. CASE InsertEvidence(c)
  <2>1. PICK proofs \in SUBSET EvidenceRow :
          Become(c, Advanced([p EXCEPT !.proofs = proofs], "created"))
    BY <1>1, <1>4, EvidenceIsAdded
  <2>2. PICK s : s = [p EXCEPT !.proofs = proofs]
    OBVIOUS
  <2>3. s \in Request /\ s.mode = p.mode /\ s.status = p.status
    BY <2>2 DEF Request
  <2>4. PICK q : q = Advanced(s, "created") /\ Become(c, q)
    BY <2>1, <2>2
  <2>5. "created" \in Status
    BY DEF Status
  <2>6. /\ q.mode = p.mode /\ q.phase \in {"read", "commit"}
        /\ p.mode = "each" => q.status = p.status
    BY <2>3, <2>4, <2>5, AdvancedFields
  <2>7. AnswerOf(q) = AnswerOf(p)
    BY <1>1, <1>2, <2>6 DEF AnswerOf, Mode
  <2>8. QED
    BY <1>1, <1>2, <2>4, <2>7, Stutter
<1>5. QED
  BY <1>3, <1>4

\* What an atomic request has been told is what the log decides item by item.
\* After the items before it, the log has the row of the first item of a key.
LEMMA FlushedIsRead ==
    ASSUME Inv, NEW c \in Client, request[c].items \in Batch, NEW n \in Nat,
           NEW i \in 1..n, i <= Len(request[c].items), IsFirst(request[c].items, i),
           RowOf(request[c].items[i]) \in request[c].rows
    PROVE  LET item == request[c].items[i] IN
           /\ Log[item.key] = NoContent /\ item.key \in Key
           /\ Abstract!LogAfter(Log, request[c].items, n)[item.key] = item.content
<1>1. PICK item \in Item : item = request[c].items[i]
  BY BatchItems
<1>2. item.key \in Key /\ RowOf(item).key = item.key
  BY DEF Item, RowOf
<1>3. \A r \in events : r.key # item.key
  BY <1>1, <1>2, RequestIsHeld DEF Held, Apart
<1>4. Log[item.key] = NoContent
  BY <1>2, <1>3, LogKeys
<1>5. QED
  BY <1>1, <1>2, <1>4, LogAfterFirst

LEMMA DecidedAsTold ==
    ASSUME Inv, NEW c \in Client, request[c].items \in Batch, Begun(request[c]),
           NEW i \in 1..Len(request[c].items), NEW status,
           Justified(request[c], i, status)
    PROVE  Abstract!Decisions(Log, request[c].items)[i] = status
<1>1. PICK p \in Request : p = request[c] /\ p.items \in Batch /\ Begun(p)
  BY RequestIsHeld
<1>2. PICK item \in Item : item = p.items[i]
  BY <1>1, BatchItems
<1>3. /\ i \in Nat /\ i - 1 \in Nat /\ i <= Len(p.items) /\ Len(p.items) \in Nat
      /\ item.key \in Key /\ item.content \in Content /\ item.content # NoContent
  BY <1>1, <1>2, BatchItems, ConstantAssumption DEF Item
<1>4. PICK after : after = Abstract!LogAfter(Log, p.items, i - 1)
  OBVIOUS
<1>5. Abstract!Decisions(Log, p.items)[i] = Abstract!Decision(after, item)
  BY <1>1, <1>2, <1>4 DEF Abstract!Decisions
<1>6. CASE status = "created" /\ IsFirst(p.items, i) /\ RowOf(item) \in p.rows
  <2>1. Log[item.key] = NoContent
    <3>1. i \in 1..i
      BY <1>3
    <3>2. QED
      BY <1>1, <1>2, <1>3, <1>6, <3>1, FlushedIsRead
  <2>2. \A j \in 1..i - 1 : p.items[j].key # item.key
    BY <1>2, <1>6 DEF IsFirst
  <2>3. after[item.key] = NoContent
    BY <1>3, <1>4, <2>1, <2>2, LogAfterKept
  <2>4. QED
    BY <1>1, <1>5, <1>6, <2>3 DEF Abstract!Decision
<1>7. CASE status = "replayed" /\ RowOf(item) \in events
  <2>1. RowOf(item).key = item.key /\ RowOf(item).content = item.content
    BY DEF RowOf
  <2>2. Log[item.key] = item.content
    BY <1>7, <2>1, LogKeys
  <2>3. after[item.key] = item.content
    BY <1>3, <1>4, <2>2, LogAfterKept
  <2>4. QED
    BY <1>1, <1>3, <1>5, <1>7, <2>3 DEF Abstract!Decision
<1>8. CASE status = "replayed" /\ RowOf(item) \in p.rows /\ ~IsFirst(p.items, i)
  <2>1. PICK j \in 1..i - 1 : p.items[j].key = item.key
    BY <1>2, <1>8 DEF IsFirst
  <2>2. PICK k \in 1..Flushes(p) : IsFirst(p.items, k) /\ RowOf(item) = RowOf(p.items[k])
    BY <1>1, <1>8 DEF Begun
  <2>3. p.items[k].key = item.key /\ p.items[k].content = item.content
    BY <2>2 DEF RowOf
  <2>4. k \in Nat \ {0}
    BY <2>2
  <2>5. ~(j <= k - 1)
    BY <2>1, <2>2, <2>3, <2>4 DEF IsFirst
  <2>6. k \in 1..i - 1 /\ k <= Len(p.items)
    BY <1>3, <2>1, <2>4, <2>5
  <2>7. RowOf(p.items[k]) \in p.rows
    BY <1>8, <2>2
  <2>8. after[p.items[k].key] = p.items[k].content
    BY <1>1, <1>3, <1>4, <2>2, <2>6, <2>7, FlushedIsRead
  <2>9. QED
    BY <1>1, <1>3, <1>5, <1>8, <2>3, <2>8 DEF Abstract!Decision
<1>9. QED
  BY <1>1, <1>2, <1>6, <1>7, <1>8 DEF Justified

\* A conflict in an atomic batch, with the log or within the batch.
LEMMA ConflictMaps ==
    ASSUME Inv, AllTold, Kept, NEW c \in Client, WorkStep(c), request[c].phase = "read",
           request[c].mode = "atomic", NEW row \in Found(c, Current(c).key),
           Decide(row, Current(c)) = "conflict",
           Become(c, Refused(request[c], "conflict"))
    PROVE  Abstract!Next
<1>1. PICK p \in Request : p = request[c] /\ Told(p)
  BY RequestIsHeld DEF AllTold
<1>2. PICK items \in Batch : items = p.items /\ p.at \in 1..Len(items)
  BY <1>1, CurrentIsItem
<1>3. PICK item \in Item : item = Current(c) /\ item = items[p.at]
  BY <1>1, <1>2, CurrentIsItem DEF At
<1>4. /\ row.key = item.key /\ item.key \in Key /\ row.content # item.content
      /\ row \in events \cup p.rows /\ row.content # NoContent
  <2>1. /\ row \in EventRow /\ row \in events \cup p.rows
        /\ row.key = item.key
    BY <1>1, <1>3, LookedUp
  <2>2. item.key \in Key /\ item.content \in Content
    BY DEF Item
  <2>3. row.content # item.content
    BY <1>3, <2>1 DEF Decide
  <2>4. row.content # NoContent
    BY <2>1, ConstantAssumption DEF EventRow
  <2>5. QED
    BY <2>1, <2>2, <2>3, <2>4
<1>5. PICK after : after = Abstract!LogAfter(Log, items, p.at - 1)
  OBVIOUS
<1>6. after[item.key] = row.content
  <2>1. CASE row \in events
    <3>1. Log[item.key] = row.content
      BY <1>4, <2>1, LogKeys
    <3>2. QED
      BY <1>4, <1>5, <3>1, LogAfterKept
  <2>2. CASE row \in p.rows
    <3>1. PICK k \in 1..p.at - 1 : IsFirst(items, k) /\ row = RowOf(items[k])
      BY <1>1, <1>2, <2>2 DEF Told, Begun, Flushes
    <3>2. p.at - 1 \in Nat /\ k <= Len(items)
      BY <1>2, <3>1, BatchItems
    <3>3. items[k].key = row.key /\ items[k].content = row.content
      BY <3>1 DEF RowOf
    <3>4. after[items[k].key] = items[k].content
      BY <1>1, <1>2, <1>5, <2>2, <3>1, <3>2, FlushedIsRead
    <3>5. QED
      BY <1>4, <3>3, <3>4
  <2>3. QED
    BY <1>4, <2>1, <2>2
<1>7. Abstract!Decisions(Log, items)[p.at] = "conflict"
  <2>1. Abstract!Decisions(Log, items)[p.at] = Abstract!Decision(after, item)
    BY <1>2, <1>3, <1>5 DEF Abstract!Decisions
  <2>2. QED
    BY <1>4, <1>6, <2>1 DEF Abstract!Decision
<1>8. Answers[c] = <<>> /\ Answers' = [Answers EXCEPT ![c] = <<"conflict">>]
  <2>1. PICK q : q = Refused(p, "conflict") /\ Become(c, q)
    BY <1>1
  <2>2. "conflict" \in Status
    BY DEF Status
  <2>3. q.phase = "answered" /\ q.status = <<"conflict">>
    BY <2>1, <2>2, RefusedIsOver
  <2>4. AnswerOf(q) = <<"conflict">> /\ AnswerOf(p) = <<>>
    BY <1>1, <2>3 DEF AnswerOf
  <2>5. request' = [request EXCEPT ![c] = q]
    BY <2>1 DEF Become
  <2>6. Answers[c] = AnswerOf(p) /\ Answers' = [Answers EXCEPT ![c] = AnswerOf(q)]
    BY <1>1, <2>5, AnswersMove
  <2>7. QED
    BY <2>4, <2>6, Zenon
<1>9. Asked[c].mode = "atomic" /\ Asked[c].items = items /\ Asked' = Asked
  BY <1>1, <1>2, AskedIs, AskedStays
<1>10. Abstract!HasConflict(c)
  BY <1>2, <1>7, <1>9 DEF Abstract!HasConflict
<1>11. Abstract!RefuseConflict(c)
  BY <1>8, <1>9, <1>10, LogStays DEF Abstract!RefuseConflict, Abstract!AnswerAll
<1>12. QED
  BY <1>11 DEF Abstract!Next

LEMMA ReadMaps ==
    ASSUME Inv, AllTold, AllTurned, NEW c \in Client, Read(c)
    PROVE  Abstract!Next \/ UNCHANGED Abstract!vars
<1>1. PICK p \in Request : /\ p = request[c] /\ p.phase = "read" /\ Kept
                           /\ p.mode \in Mode /\ Told(p) /\ WorkStep(c)
  BY RequestIsHeld DEF Read, Request, AllTold, WorkStep
<1>2. CASE Goes(c, "insert")
  <2>1. PICK q : q = [p EXCEPT !.phase = "insert"]
    OBVIOUS
  <2>2. q.phase = "insert" /\ q.mode = p.mode /\ q.status = p.status
    BY <2>1 DEF Request
  <2>3. AnswerOf(q) = AnswerOf(p) /\ Become(c, q)
    BY <1>1, <1>2, <2>1, <2>2 DEF AnswerOf, Goes
  <2>4. QED
    BY <1>1, <2>3, Stutter
<1>3. ASSUME NEW row \in Found(c, Current(c).key),
             CASE Decide(row, Current(c)) = "replayed" /\ request[c].mode = "atomic" ->
                    Become(c, Advanced(request[c], "replayed"))
              [] Decide(row, Current(c)) = "replayed" /\ request[c].mode = "each" ->
                    Become(c, Answered(request[c], "replayed"))
              [] Decide(row, Current(c)) = "conflict" /\ request[c].mode = "atomic" ->
                    Become(c, Refused(request[c], "conflict"))
              [] OTHER ->
                    Become(c, Answered(request[c], "conflict"))
      PROVE  Abstract!Next \/ UNCHANGED Abstract!vars
  <2>1. PICK status \in Status : /\ status = Decide(row, Current(c))
                                 /\ status \in {"replayed", "conflict"}
    BY <1>1, LookedUp DEF Status
  <2>2. CASE p.mode = "each"
    <3>1. PICK q : q = Answered(p, status) /\ Become(c, q)
      BY <1>1, <1>3, <2>1, <2>2
    <3>2. q.mode = p.mode /\ q.status = Append(p.status, status)
      BY <3>1, AnsweredIsOver DEF Over
    <3>3. row \in events /\ row.key = Current(c).key
      BY <1>1, <2>2, LookedUp DEF Told
    <3>4. QED
      BY <1>1, <2>1, <2>2, <3>1, <3>2, <3>3, RepeatedMaps
  <2>3. CASE p.mode = "atomic" /\ status = "replayed"
    <3>1. PICK q : q = Advanced(p, status) /\ Become(c, q)
      BY <1>1, <1>3, <2>1, <2>3
    <3>2. q.mode = p.mode /\ q.phase \in {"read", "commit"}
      BY <3>1, AdvancedFields
    <3>3. AnswerOf(q) = AnswerOf(p)
      BY <1>1, <2>3, <3>2 DEF AnswerOf
    <3>4. QED
      BY <1>1, <3>1, <3>3, Stutter
  <2>4. CASE p.mode = "atomic" /\ status = "conflict"
    <3>1. Become(c, Refused(p, "conflict"))
      BY <1>1, <1>3, <2>1, <2>4
    <3>2. QED
      BY <1>1, <2>1, <2>4, <3>1, ConflictMaps
  <2>5. QED
    BY <1>1, <2>1, <2>2, <2>3, <2>4 DEF Mode
<1>4. QED
  BY <1>2, <1>3 DEF Read

\* The log after an atomic batch: every key that had no content has that of the
\* first item with it.
LEMMA LogCommitted ==
    ASSUME Inv, AllTold, NEW c \in Client, Commit(c), request[c].mode = "atomic",
           NEW items \in Batch, items = request[c].items
    PROVE  Log' = Abstract!LogAfter(Log, items, Len(items))
<1>1. PICK p \in Request : /\ p = request[c] /\ Held(p) /\ p.phase = "commit"
                           /\ p.items = items /\ Begun(p) /\ p.at = Len(items) + 1
  BY RequestIsHeld DEF Commit, AllTold, Told, Begun
<1>2. Len(items) \in Nat
  BY BatchItems
<1>3. PICK rows \in SUBSET EventRow : rows = events' /\ OneKey(rows)
  <2>1. Inv'
    BY CommitStep
  <2>2. events' \subseteq EventRow /\ OneKey(events')
    BY <2>1 DEF Inv, TypeOK, Sound, OneKey
  <2>3. QED
    BY <2>2
<1>4. rows = events \cup p.rows
  BY <1>1, <1>3 DEF Commit
<1>5. Log' = LogOf(rows)
  BY <1>3 DEF Log, LogOf
<1>6. PICK after : after = Abstract!LogAfter(Log, items, Len(items))
  OBVIOUS
<1>7. ASSUME NEW k \in Key PROVE LogOf(rows)[k] = after[k]
  <2>1. ASSUME NEW r \in events, r.key = k PROVE LogOf(rows)[k] = after[k]
    <3>1. Log[k] = r.content /\ Log[k] # NoContent
      BY <2>1, LogKeys
    <3>2. after[k] = Log[k]
      BY <1>6, <3>1, LogAfterKept
    <3>3. LogOf(rows)[k] = r.content
      BY <1>3, <1>4, <2>1, LogReads
    <3>4. QED
      BY <3>1, <3>2, <3>3
  <2>2. ASSUME NEW r \in p.rows, r.key = k PROVE LogOf(rows)[k] = after[k]
    <3>1. PICK i \in 1..Len(items) : IsFirst(items, i) /\ r = RowOf(items[i])
      <4>1. Flushes(p) = Len(items)
        BY <1>1, <1>2 DEF Flushes
      <4>2. QED
        BY <1>1, <4>1 DEF Begun
    <3>2. items[i].key = k /\ items[i].content = r.content
      BY <2>2, <3>1 DEF RowOf
    <3>3. after[items[i].key] = items[i].content
      BY <1>1, <1>2, <1>6, <3>1, FlushedIsRead
    <3>4. LogOf(rows)[k] = r.content
      BY <1>3, <1>4, <2>2, LogReads
    <3>5. QED
      BY <3>2, <3>3, <3>4
  <2>3. ASSUME \A r \in rows : r.key # k PROVE LogOf(rows)[k] = after[k]
    <3>1. ASSUME NEW i \in 1..Len(items) PROVE items[i].key # k
      <4>1. Justified(p, i, p.status[i])
        <5>1. i \in 1..p.at - 1
          BY <1>1, <1>2
        <5>2. QED
          BY <1>1, <5>1 DEF Begun
      <4>2. RowOf(items[i]) \in rows
        BY <1>1, <1>4, <4>1 DEF Justified
      <4>3. RowOf(items[i]).key = items[i].key
        BY DEF RowOf
      <4>4. QED
        BY <2>3, <4>2, <4>3
    <3>2. Log[k] = NoContent
      BY <1>4, <2>3, LogKeys
    <3>3. after[k] = Log[k]
      BY <1>6, <3>1, LogAfterKept
    <3>4. LogOf(rows)[k] = NoContent
      BY <1>3, <2>3, LogReads
    <3>5. QED
      BY <3>2, <3>3, <3>4
  <2>4. QED
    BY <1>4, <2>1, <2>2, <2>3
<1>8. LogOf(rows) = [k \in Key |-> LogOf(rows)[k]]
  BY DEF LogOf
<1>9. after = [k \in Key |-> after[k]]
  BY <1>6 DEF Abstract!LogAfter
<1>10. QED
  BY <1>5, <1>6, <1>7, <1>8, <1>9

LEMMA CommitMaps ==
    ASSUME Inv, AllTold, AllTurned, NEW c \in Client, Commit(c)
    PROVE  Abstract!Next
<1>1. PICK p \in Request : /\ p = request[c] /\ p.phase = "commit" /\ p.mode \in Mode
                           /\ Held(p) /\ Told(p) /\ WorkStep(c)
  BY RequestIsHeld DEF Commit, Request, AllTold, WorkStep
<1>2. PICK q \in Request :
        /\ Become(c, q) /\ q.mode = p.mode
        /\ q.mode = "atomic" => q.phase = "answered" /\ q.status = p.status
        /\ q.mode = "each" => q.status = Append(p.status, "created")
  BY <1>1, CommittedIsOver DEF Become
<1>3. CASE p.mode = "each"
  <2>1. PICK item \in Item : /\ item = Current(c) /\ item = At(p)
                             /\ item.key \in Key /\ item.content \in Content
                             /\ p.items \in Batch /\ p.at \in 1..Len(p.items)
    BY <1>1, <1>3, CurrentIsItem
  <2>2. p.rows = {RowOf(item)} /\ RowOf(item).key = item.key
        /\ RowOf(item).content = item.content
    BY <1>1, <1>3, <2>1 DEF Told, RowOf
  <2>3. \A r \in events : r.key # item.key
    BY <1>1, <2>2 DEF Held, Apart
  <2>4. Log[item.key] = NoContent
    BY <2>1, <2>3, LogKeys
  <2>5. Log' = [Log EXCEPT ![item.key] = item.content]
    <3>1. PICK rows \in SUBSET EventRow : rows = events' /\ OneKey(rows)
      <4>1. Inv'
        BY CommitStep
      <4>2. events' \subseteq EventRow /\ OneKey(events')
        BY <4>1 DEF Inv, TypeOK, Sound, OneKey
      <4>3. QED
        BY <4>2
    <3>2. rows = events \cup {RowOf(item)}
      BY <1>1, <2>2, <3>1 DEF Commit
    <3>3. Log' = LogOf(rows)
      BY <3>1 DEF Log, LogOf
    <3>4. LogOf(rows)[item.key] = item.content
      BY <2>2, <3>1, <3>2, LogReads
    <3>5. ASSUME NEW k \in Key, k # item.key PROVE LogOf(rows)[k] = Log[k]
      <4>1. ASSUME NEW r \in events, r.key = k PROVE LogOf(rows)[k] = Log[k]
        BY <3>1, <3>2, <4>1, LogReads, LogKeys
      <4>2. ASSUME \A r \in events : r.key # k PROVE LogOf(rows)[k] = Log[k]
        <5>1. \A r \in rows : r.key # k
          BY <2>2, <3>2, <3>5, <4>2
        <5>2. QED
          BY <3>1, <4>2, <5>1, LogReads, LogKeys
      <4>3. QED
        BY <4>1, <4>2
    <3>6. LogOf(rows) = [k \in Key |-> LogOf(rows)[k]] /\ Log = [k \in Key |-> Log[k]]
      BY DEF LogOf, Log
    <3>7. QED
      BY <2>1, <3>3, <3>4, <3>5, <3>6
  <2>6. Log' = Abstract!Stored(Log, Current(c))
    BY <2>1, <2>4, <2>5 DEF Abstract!Stored
  <2>7. Abstract!Decision(Log, Current(c)) = "created"
    BY <2>1, <2>4 DEF Abstract!Decision
  <2>8. AnswerOf(q) = Append(AnswerOf(p), "created")
    BY <1>2, <1>3 DEF AnswerOf
  <2>9. QED
    BY <1>1, <1>2, <1>3, <2>1, <2>6, <2>7, <2>8, OneMaps
<1>4. CASE p.mode = "atomic"
  <2>1. PICK items \in Batch : items = p.items /\ p.at = Len(items) + 1
    BY <1>1, <1>4 DEF Held, Placed, Told, Begun
  <2>2. Begun(p) /\ Len(items) \in Nat /\ Len(p.status) = Len(items)
    BY <1>1, <1>4, <2>1, BatchItems DEF Told, Begun
  <2>3. ASSUME NEW i \in 1..Len(items)
        PROVE  /\ Abstract!Decisions(Log, items)[i] = p.status[i]
               /\ p.status[i] # "conflict"
    <3>1. i \in 1..p.at - 1
      BY <2>1, <2>2
    <3>2. Justified(p, i, p.status[i])
      BY <2>2, <3>1 DEF Begun
    <3>3. QED
      BY <1>1, <2>1, <2>2, <3>2, DecidedAsTold DEF Justified
  <2>4. Abstract!Decisions(Log, items) = p.status
    <3>1. PICK s \in Seq(Status) : s = p.status
      BY DEF Request
    <3>2. s = [i \in 1..Len(items) |-> s[i]]
      BY <2>2, <3>1
    <3>3. PICK t : t = Abstract!Decisions(Log, items)
      OBVIOUS
    <3>4. t = [i \in 1..Len(items) |-> t[i]]
      BY <3>3 DEF Abstract!Decisions
    <3>5. \A i \in 1..Len(items) : t[i] = s[i]
      BY <2>3, <3>1, <3>3
    <3>6. t = s
      BY <3>2, <3>4, <3>5
    <3>7. QED
      BY <3>1, <3>3, <3>6
  <2>5. AnswerOf(p) = <<>> /\ AnswerOf(q) = p.status
    BY <1>1, <1>2, <1>4 DEF AnswerOf
  <2>6. Answers[c] = <<>> /\ Answers' = [Answers EXCEPT ![c] = p.status]
    <3>1. Answers[c] = AnswerOf(p) /\ Answers' = [Answers EXCEPT ![c] = AnswerOf(q)]
      BY <1>1, <1>2, AnswersMove DEF Become
    <3>2. QED
      BY <2>5, <3>1, Zenon
  <2>7. Log' = Abstract!LogAfter(Log, items, Len(items))
    BY <1>1, <1>4, <2>1, LogCommitted
  <2>8. Asked[c].mode = "atomic" /\ Asked[c].items = items /\ Asked' = Asked
    BY <1>1, <1>2, <1>4, <2>1, AskedIs, AskedStays
  <2>9. ~Abstract!HasConflict(c)
    BY <2>3, <2>8 DEF Abstract!HasConflict
  <2>10. Abstract!IngestAll(c)
    BY <2>4, <2>6, <2>7, <2>8, <2>9 DEF Abstract!IngestAll, Abstract!AnswerAll
  <2>11. QED
    BY <2>10 DEF Abstract!Next
<1>5. QED
  BY <1>1, <1>3, <1>4 DEF Mode

LEMMA InitMaps == Init => Abstract!Init
<1> SUFFICES ASSUME Init PROVE Abstract!Init
  OBVIOUS
<1>1. \A c \in Client : request[c].status = <<>>
  BY DEF Init, Idle
<1>2. Answers = [c \in Client |-> <<>>]
  BY <1>1, Zenon DEF Answers
<1>3. Log = [k \in Key |-> NoContent]
  BY DEF Init, Log
<1>4. Asked = [c \in Client |-> Abstract!Nothing]
  BY DEF Init, Idle, Asked, Abstract!Nothing
<1>5. QED
  BY <1>2, <1>3, <1>4 DEF Abstract!Init

LEMMA NextMaps ==
    Inv /\ AllTold /\ AllTurned /\ [Next]_vars =>
        Abstract!Next \/ UNCHANGED Abstract!vars
<1> SUFFICES ASSUME Inv, AllTold, AllTurned, [Next]_vars
             PROVE  Abstract!Next \/ UNCHANGED Abstract!vars
  OBVIOUS
<1>1. CASE UNCHANGED vars
  BY <1>1 DEF vars, Abstract!vars, Log, Asked, Answers
<1>2. ASSUME NEW c \in Client, NEW mode \in Mode, NEW items \in Batch,
             Submit(c, mode, items)
      PROVE  Abstract!Next
  BY <1>2, SubmitMaps
<1>3. ASSUME NEW c \in Client, Step(c) \/ Crash(c)
      PROVE  Abstract!Next \/ UNCHANGED Abstract!vars
  BY <1>3, OpenMaps, LostMaps, ReadMaps, EntityMissingMaps, InsertMaps, CommitMaps,
     RetryMaps, DeadlockVictimMaps, ReturnMaps
  DEF Step
<1>4. QED
  BY <1>1, <1>2, <1>3 DEF Next

\* However requests overlap, wait for each other, fail and are sent again, what
\* is stored and what every caller is told of its own events are those of an
\* event log that takes each event, or each atomic batch, at one moment
\* (ingest_event, ingest_events and classify_idempotency).
THEOREM IngestionImplementsLog == Spec => ImplementsEventLog
<1>1. Spec => []AllTold
  BY InitTold, NextTold, InvHolds, PTL DEF Spec
<1>2. Spec => []AllTurned
  BY InitTurned, NextTurned, InvHolds, PTL DEF Spec
<1>3. Inv /\ AllTold /\ AllTurned /\ [Next]_vars => [Abstract!Next]_(Abstract!vars)
  BY NextMaps, Zenon
<1>4. QED
  BY <1>1, <1>2, <1>3, InitMaps, InvHolds, PTL DEF Spec, ImplementsEventLog, Abstract!Spec
=============================================================================
