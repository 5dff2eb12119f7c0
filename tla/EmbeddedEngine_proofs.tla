------------------------- MODULE EmbeddedEngine_proofs -------------------------
(***************************************************************************)
(* What TLAPS proves about EmbeddedEngine for every number of calls, every *)
(* pool and every set of inputs, as long as each session has a connection *)
(* of its own: PostgreSQL and a SQLite file, not the shared connection of *)
(* an in-memory SQLite database.                                           *)
(***************************************************************************)
EXTENDS EmbeddedEngine, FiniteSetTheorems, SequenceTheorems, TLAPS

OwnTransactions == \A c, d \in Call : TransactionOf[c] = TransactionOf[d] => c = d

Action == {"create subject", "create entity", "update entity"}

\* A row has all columns, the changes of a row some of them.
Cell == STRING \cup (STRING \X STRING) \cup Nat
Row == [Columns -> Cell]
Changes == UNION {[S -> Cell] : S \in SUBSET Columns}

CallState ==
    [phase: Phase, op: Operation, input: Input \cup {NoRow},
     conn: {"none", "pool", "detached"}, new_subject: BOOLEAN,
     seen: Row \cup {NoRow}, loaded: Row \cup {NoRow}, now: Nat,
     committed: BOOLEAN, due: Seq(Action), sent: Nat]

Unit == [subject: BOOLEAN, row: Changes, writers: SUBSET Call]

\* The phases without a connection, those in which the subject is ensured, and
\* those of upsert_entity.
Outside == {"idle", "connect", "answered", "failed"}
Writing == {"find", "add", "load", "update", "commit"}
Upserting == {"lookup", "ensure", "add_subject"} \cup Writing

\* What k's flush writes.
AnswerOf(k) == Answer(k.input, k.seen, k.now)
Difference(k) ==
    [column \in {x \in DOMAIN AnswerOf(k) : AnswerOf(k)[x] # k.loaded[x]} |->
        AnswerOf(k)[column]]
Write(k) == IF k.seen = NoRow THEN AnswerOf(k) ELSE Difference(k)

\* A connection is held in a unit of work only, and its transaction has what
\* the call has flushed and nothing else.
Flushes(c, k, w) ==
    /\ k.conn = "none" <=> k.phase \in Outside
    /\ k.phase \notin Writing => w = Nothing
    /\ k.phase \in Writing => subject \/ w.subject
    /\ k.phase \in Writing \ {"commit"} => w.row = NoRow /\ w.writers = {}
    /\ k.phase = "commit" => w.row = Write(k) /\ w.writers = {c}

\* An upsert is committed when it is audited or answered.
Ordered(k) ==
    /\ k.phase = "idle" => ~k.committed
    /\ k.phase \in Upserting => k.op = "upsert_entity" /\ ~k.committed
    /\ k.op = "upsert_entity" /\ k.phase \in Upserting \cup {"connect"} /\ ~k.committed
            => k.input \in Input
    /\ k.phase \in {"inspect", "create_all", "list", "probe"} => k.op # "upsert_entity"
    /\ k.phase = "audit" => k.committed
    /\ k.committed =>
        /\ k.op = "upsert_entity" /\ subject
        /\ k.phase \in {"connect", "audit", "answered", "failed"}
    /\ k.phase = "answered" /\ k.op = "upsert_entity" => k.committed

\* What a call has read of the entity still tells when it was first seen.
Reading(k) ==
    /\ k.phase \notin {"load", "update", "commit"} => k.seen = NoRow
    /\ k.phase \notin {"update", "commit"} => k.loaded = NoRow
    /\ k.phase \in {"load", "update"} => k.seen # NoRow
    /\ k.phase = "update" => k.loaded # NoRow
    /\ k.phase \in {"add", "load", "update", "commit"} => k.now <= clock
    /\ k.seen # NoRow =>
        /\ entity # NoRow /\ k.seen.first_seen_at = entity.first_seen_at
        /\ entity.first_seen_at <= k.now
    /\ k.loaded # NoRow => /\ k.seen # NoRow
                           /\ k.loaded.first_seen_at = entity.first_seen_at
    /\ k.phase = "commit" /\ k.seen = NoRow => entity = NoRow
    /\ k.phase = "commit" /\ k.seen # NoRow => k.loaded # NoRow

\* Its audit rows are the first of those that are due.
LoggedOf(c) == {a.action : a \in {b \in audits : b.call = c}}
First(due, n) == {due[i] : i \in 1..n}

Logged(c, k) ==
    /\ c \in stored <=> k.committed
    /\ ~k.committed => k.due = <<>> /\ k.sent = 0
    /\ k.committed => k.sent \in 0..Len(k.due)
    /\ k.committed /\ k.phase \in {"connect", "audit"} => k.sent < Len(k.due)
    /\ k.committed /\ k.phase = "answered" => k.sent = Len(k.due)
    /\ \A a \in audits : a.call = c => k.committed
    /\ k.committed => LoggedOf(c) = First(k.due, k.sent)
    /\ "create entity" \in Range(k.due) => entity # NoRow

Held(c, k, w) == Flushes(c, k, w) /\ Ordered(k) /\ Reading(k) /\ Logged(c, k)

\* first_seen_at is a time that has been, and no later than last_seen_at.
Dated ==
    entity # NoRow =>
        /\ entity.first_seen_at \in Nat /\ entity.last_seen_at \in Nat
        /\ entity.first_seen_at <= entity.last_seen_at /\ entity.first_seen_at <= clock

\* The unique row is locked by one transaction, and was created by one call.
OneHolder ==
    \A c, d \in Call : work[Tx(c)].row # NoRow /\ work[Tx(d)].row # NoRow => c = d
OneCreator ==
    \A c, d \in Call :
        "create entity" \in Range(call[c].due) \cap Range(call[d].due) => c = d

\* An engine that creates its tables has them once it counts as initialized.
TablesMade == schema_initializer /\ initialized => schema

\* The inductive invariant.
Typed ==
    /\ schema_initializer \in BOOLEAN
    /\ initialized \in BOOLEAN /\ closed \in BOOLEAN /\ disposed \in BOOLEAN
    /\ clock \in 1..MaxTime /\ schema \in BOOLEAN /\ subject \in BOOLEAN
    /\ entity \in Row \cup {NoRow}
    /\ call \in [Call -> CallState] /\ work \in [Transaction -> Unit]
    /\ stored \subseteq Call /\ audits \subseteq [call: Call, action: Action]
    /\ IsFiniteSet(InUse) /\ Cardinality(InUse) <= Capacity
    /\ TablesMade

Inv ==
    /\ Typed /\ Dated /\ OneHolder /\ OneCreator
    /\ \A c \in Call : Held(c, call[c], work[Tx(c)])

-----------------------------------------------------------------------------
(* Rows and their changes.                                                 *)

LEMMA NoRowHasNone ==
    /\ DOMAIN NoRow = {} /\ NoRow \notin Row /\ NoRow \in Changes
    /\ \A f \in Changes : DOMAIN f = {} => f = NoRow
    /\ Row \subseteq Changes
<1>1. DOMAIN NoRow = {} /\ NoRow \in [{} -> Cell]
  BY DEF NoRow
<1>2. NoRow \in Changes
  BY <1>1 DEF Changes
<1>3. "attributes" \in Columns
  BY DEF Columns
<1>4. NoRow \notin Row
  BY <1>1, <1>3 DEF Row
<1>5. ASSUME NEW f \in Changes, DOMAIN f = {} PROVE f = NoRow
  <2>1. PICK S \in SUBSET Columns : f \in [S -> Cell]
    BY DEF Changes
  <2>2. S = {}
    BY <1>5, <2>1
  <2>3. QED
    BY <2>1, <2>2 DEF NoRow
<1>6. Row \subseteq Changes
  BY DEF Row, Changes
<1>7. QED
  BY <1>1, <1>2, <1>4, <1>5, <1>6

\* What a caller is answered is a row.
LEMMA AnswerIsRow ==
    ASSUME NEW input \in Input, NEW seen \in Row \cup {NoRow}, NEW now \in Nat
    PROVE  LET a == Answer(input, seen, now) IN
           /\ a \in Row /\ DOMAIN a = Columns /\ a.last_seen_at = now
           /\ a.first_seen_at = IF seen = NoRow THEN now ELSE seen.first_seen_at
<1>1. PICK a : a = Answer(input, seen, now)
  OBVIOUS
<1>2. input.attributes \in STRING /\ input.content_text \in STRING
  BY ConstantAssumption
<1>3. PICK first \in Cell : first = IF seen = NoRow THEN now ELSE seen.first_seen_at
  <2>1. "first_seen_at" \in Columns
    BY DEF Columns
  <2>2. seen # NoRow => seen.first_seen_at \in Cell
    BY <2>1 DEF Row
  <2>3. now \in Cell
    BY DEF Cell
  <2>4. QED
    BY <2>2, <2>3
<1>4. PICK digest \in Cell : digest = Digest(input)
  BY <1>2 DEF Digest, Cell
<1>5. a = [attributes |-> input.attributes, content_text |-> input.content_text,
           content_hash |-> digest, first_seen_at |-> first, last_seen_at |-> now]
  BY <1>1, <1>3, <1>4 DEF Answer
<1>6. /\ DOMAIN a = Columns /\ a.last_seen_at = now /\ a.first_seen_at = first
      /\ a.attributes = input.attributes /\ a.content_text = input.content_text
      /\ a.content_hash = digest
  BY <1>5 DEF Columns
<1>7. \A column \in Columns : a[column] \in Cell
  BY <1>2, <1>5, <1>6 DEF Columns, Cell
<1>8. a = [column \in Columns |-> a[column]]
  BY <1>5 DEF Columns
<1>9. a \in Row
  BY <1>7, <1>8 DEF Row
<1>10. QED
  BY <1>1, <1>3, <1>6, <1>9

\* A row with some of its columns changed is a row; nothing changes it, and all
\* its columns replace it.
LEMMA OverlayIsRow ==
    ASSUME NEW row \in Row \cup {NoRow}, NEW changes \in Changes
    PROVE  /\ Overlay(NoRow, row) = row /\ Overlay(changes, NoRow) = changes
           /\ row \in Row => Overlay(changes, row) \in Row
           /\ \A column \in DOMAIN changes : Overlay(changes, row)[column] = changes[column]
           /\ \A column \in DOMAIN row \ DOMAIN changes :
                Overlay(changes, row)[column] = row[column]
<1>1. PICK S \in SUBSET Columns : changes \in [S -> Cell]
  BY DEF Changes
<1>2. DOMAIN changes = S /\ changes = [column \in S |-> changes[column]]
  BY <1>1
<1>3. PICK R \in SUBSET Columns : row \in [R -> Cell]
  BY NoRowHasNone DEF Row, Changes
<1>4. DOMAIN row = R /\ row = [column \in R |-> row[column]]
  BY <1>3
<1>5. Overlay(NoRow, row) = row
  BY <1>4, NoRowHasNone DEF Overlay
<1>6. Overlay(changes, NoRow) = changes
  BY <1>2, NoRowHasNone DEF Overlay
<1>7. \A column \in DOMAIN changes : Overlay(changes, row)[column] = changes[column]
  BY DEF Overlay
<1>8. \A column \in DOMAIN row \ DOMAIN changes : Overlay(changes, row)[column] = row[column]
  BY DEF Overlay
<1>9. row \in Row => Overlay(changes, row) \in Row
  <2> SUFFICES ASSUME row \in Row PROVE Overlay(changes, row) \in Row
    OBVIOUS
  <2>1. DOMAIN row = Columns /\ \A column \in Columns : row[column] \in Cell
    BY DEF Row
  <2>2. DOMAIN changes \cup DOMAIN row = Columns
    BY <1>2, <2>1
  <2>3. \A column \in DOMAIN changes : changes[column] \in Cell
    BY <1>1, <1>2
  <2>4. QED
    BY <2>1, <2>2, <2>3 DEF Overlay, Row
<1>10. QED
  BY <1>5, <1>6, <1>7, <1>8, <1>9

\* What the flush of an update writes.
LEMMA DifferenceIsChanges ==
    ASSUME NEW k \in CallState, k.input \in Input
    PROVE  /\ Difference(k) \in Changes
           /\ \A x \in Columns : x \in DOMAIN Difference(k) <=> AnswerOf(k)[x] # k.loaded[x]
           /\ \A x \in DOMAIN Difference(k) : Difference(k)[x] = AnswerOf(k)[x]
           /\ AnswerOf(k) \in Row /\ AnswerOf(k) \in Changes
<1>1. k.seen \in Row \cup {NoRow} /\ k.now \in Nat
  BY DEF CallState
<1>2. AnswerOf(k) \in Row /\ DOMAIN AnswerOf(k) = Columns
  BY <1>1, AnswerIsRow DEF AnswerOf
<1>3. \A x \in Columns : AnswerOf(k)[x] \in Cell
  BY <1>2 DEF Row
<1>4. PICK S \in SUBSET Columns : S = {x \in Columns : AnswerOf(k)[x] # k.loaded[x]}
  OBVIOUS
<1>5. Difference(k) = [x \in S |-> AnswerOf(k)[x]]
  BY <1>2, <1>4 DEF Difference
<1>6. Difference(k) \in [S -> Cell]
  BY <1>3, <1>5
<1>7. QED
  BY <1>2, <1>4, <1>5, <1>6, NoRowHasNone DEF Changes

-----------------------------------------------------------------------------
(* Frames: a step of one call that commits nothing.                        *)

LEMMA FreshIsState ==
    /\ Fresh \in CallState /\ Fresh.phase = "idle" /\ Fresh.conn = "none"
    /\ Fresh.input = NoRow /\ Fresh.seen = NoRow /\ Fresh.loaded = NoRow
    /\ Fresh.now = 0 /\ Fresh.committed = FALSE /\ Fresh.due = <<>> /\ Fresh.sent = 0
    /\ Fresh.op = "list"
BY DEF Fresh, CallState, Phase, Operation

LEMMA PastFields ==
    ASSUME NEW k \in CallState
    PROVE  LET r == Past(k) IN
           /\ r \in CallState /\ r.phase = k.phase /\ r.op = k.op /\ r.conn = "none"
           /\ r.input = NoRow /\ r.seen = NoRow /\ r.loaded = NoRow /\ r.now = 0
           /\ r.committed = k.committed /\ r.due = k.due /\ r.sent = k.sent
BY DEF Past, CallState

LEMMA NothingIsUnit ==
    /\ Nothing \in Unit /\ Nothing.row = NoRow /\ Nothing.writers = {}
    /\ Nothing.subject = FALSE
BY NoRowHasNone DEF Nothing, Unit

LEMMA CallIsHeld ==
    ASSUME Inv, NEW c \in Call
    PROVE  /\ call[c] \in CallState /\ work[Tx(c)] \in Unit /\ Tx(c) \in Transaction
           /\ Held(c, call[c], work[Tx(c)])
<1>1. Tx(c) \in Transaction
  BY ConstantAssumption DEF Tx
<1>2. QED
  BY <1>1 DEF Inv, Typed

\* What a call holds after a step, by what its state and its work are then.
LEMMA HeldAfter ==
    ASSUME NEW c, NEW k, NEW w, call'[c] = k, work'[Tx(c)] = w, Held(c, k, w)'
    PROVE  Held(c, call[c], work[Tx(c)])'
<1>1. Flushes(c, call[c], work[Tx(c)])'
  BY DEF Held, Flushes, Tx
<1>2. Ordered(call[c])'
  BY DEF Held, Ordered
<1>3. Reading(call[c])'
  BY DEF Held, Reading
<1>4. Logged(c, call[c])'
  BY DEF Held, Logged
<1>5. QED
  BY <1>1, <1>2, <1>3, <1>4 DEF Held

\* The pool after one call has changed.
LEMMA PoolStep ==
    ASSUME Inv, NEW c \in Call, NEW k,
           \A d \in Call : call'[d] = IF d = c THEN k ELSE call[d],
           k.conn = "pool" => call[c].conn = "pool" \/ Cardinality(InUse) < Capacity
    PROVE  IsFiniteSet(InUse') /\ Cardinality(InUse') <= Capacity
<1>1. IsFiniteSet(InUse) /\ Cardinality(InUse) <= Capacity /\ Capacity \in Nat
  BY ConstantAssumption DEF Inv, Typed
<1>2. Cardinality(InUse) \in Nat
  BY <1>1, FS_CardinalityType
<1>3. CASE InUse' \subseteq InUse
  <2>1. IsFiniteSet(InUse') /\ Cardinality(InUse') <= Cardinality(InUse)
    BY <1>1, <1>3, FS_Subset
  <2>2. Cardinality(InUse') \in Nat
    BY <2>1, FS_CardinalityType
  <2>3. QED
    BY <1>1, <1>2, <2>1, <2>2
<1>4. CASE ~(InUse' \subseteq InUse)
  <2>1. InUse' = InUse \cup {c} /\ c \notin InUse /\ k.conn = "pool" /\ call[c].conn # "pool"
    BY <1>4 DEF InUse
  <2>2. IsFiniteSet(InUse') /\ Cardinality(InUse') = Cardinality(InUse) + 1
    BY <1>1, <2>1, FS_AddElement
  <2>3. Cardinality(InUse) < Capacity
    BY <2>1
  <2>4. QED
    BY <1>1, <1>2, <2>2, <2>3
<1>5. QED
  BY <1>3, <1>4

LEMMA CallStep ==
    ASSUME OwnTransactions, Inv, NEW c \in Call, NEW k \in CallState, NEW w \in Unit,
           Become(c, k), work' = [work EXCEPT ![Tx(c)] = w],
           UNCHANGED <<schema_initializer, closed, disposed, clock, subject, entity, stored, audits>>,
           initialized' \in BOOLEAN, schema' \in BOOLEAN, TablesMade',
           Held(c, k, w), k.due = call[c].due,
           w.row = NoRow \/ \A d \in Call \ {c} : work[Tx(d)].row = NoRow,
           k.conn = "pool" => call[c].conn = "pool" \/ Cardinality(InUse) < Capacity
    PROVE  Inv'
<1>1. /\ call' \in [Call -> CallState]
      /\ \A d \in Call : call'[d] = IF d = c THEN k ELSE call[d]
  BY DEF Become, Inv, Typed
<1>2. /\ work' \in [Transaction -> Unit]
      /\ \A d \in Call : work'[Tx(d)] = IF d = c THEN w ELSE work[Tx(d)]
  <2>1. \A d \in Call : Tx(d) \in Transaction /\ (Tx(d) = Tx(c) => d = c)
    BY CallIsHeld DEF OwnTransactions, Tx
  <2>2. QED
    BY <2>1 DEF Inv, Typed
<1>3. IsFiniteSet(InUse') /\ Cardinality(InUse') <= Capacity
  BY <1>1, PoolStep
<1>4. Typed'
  BY <1>1, <1>2, <1>3 DEF Inv, Typed
<1>5. Dated'
  BY DEF Inv, Dated
<1>6. OneHolder'
  BY <1>2 DEF Inv, OneHolder, Tx
<1>7. OneCreator'
  BY <1>1 DEF Inv, OneCreator
<1>8. ASSUME NEW d \in Call PROVE Held(d, call[d], work[Tx(d)])'
  <2>1. Held(d, call'[d], work'[Tx(d)])
    BY <1>1, <1>2 DEF Inv
  <2>2. QED
    BY <2>1 DEF Held, Flushes, Ordered, Reading, Logged, LoggedOf, Tx
<1>9. QED
  BY <1>4, <1>5, <1>6, <1>7, <1>8 DEF Inv

\* A statement that flushes nothing.
LEMMA ReadStep ==
    ASSUME OwnTransactions, Inv, NEW c \in Call, NEW k \in CallState, Reads(c, k),
           Held(c, k, work[Tx(c)]), k.due = call[c].due,
           k.conn = "pool" => call[c].conn = "pool" \/ Cardinality(InUse) < Capacity
    PROVE  Inv'
<1>1. /\ Become(c, k) /\ UNCHANGED <<schema_initializer, initialized, schema, work>>
      /\ UNCHANGED <<schema_initializer, closed, disposed, clock, subject, entity, stored, audits>>
  BY DEF Reads, engine, database
<1>2. PICK w \in Unit : w = work[Tx(c)]
  BY CallIsHeld
<1>3. work' = [work EXCEPT ![Tx(c)] = w]
  BY <1>1, <1>2, CallIsHeld DEF Inv, Typed
<1>4. w.row = NoRow \/ \A d \in Call \ {c} : work[Tx(d)].row = NoRow
  BY <1>2 DEF Inv, OneHolder
<1>5. initialized' \in BOOLEAN /\ schema' \in BOOLEAN /\ TablesMade'
  BY <1>1 DEF Inv, Typed, TablesMade
<1>6. QED
  BY <1>1, <1>2, <1>3, <1>4, <1>5, CallStep

\* A unit of work is left without a commit.
LEMMA LeaveStep ==
    ASSUME OwnTransactions, Inv, NEW c \in Call, NEW phase \in {"answered", "failed"},
           call[c].phase # "idle",
           phase = "answered" => call[c].op # "upsert_entity",
           Leave(c, phase), work' = [work EXCEPT ![Tx(c)] = Nothing],
           UNCHANGED <<schema_initializer, closed, disposed, clock, subject, entity, stored, audits>>,
           initialized' \in BOOLEAN, schema' \in BOOLEAN, TablesMade'
    PROVE  Inv'
<1>1. PICK k \in CallState : k = call[c] /\ Held(c, k, work[Tx(c)])
  BY CallIsHeld
<1>2. PICK b : b = Past(k)
  OBVIOUS
<1>3. PICK r : r = [b EXCEPT !.phase = phase]
  OBVIOUS
<1>4. /\ r \in CallState /\ r.phase = phase /\ r.op = k.op /\ r.conn = "none"
      /\ r.input = NoRow /\ r.seen = NoRow /\ r.loaded = NoRow /\ r.now = 0
      /\ r.committed = k.committed /\ r.due = k.due /\ r.sent = k.sent
  <2>1. phase \in Phase
    BY DEF Phase
  <2>2. /\ b \in CallState /\ b.op = k.op /\ b.conn = "none"
        /\ b.input = NoRow /\ b.seen = NoRow /\ b.loaded = NoRow /\ b.now = 0
        /\ b.committed = k.committed /\ b.due = k.due /\ b.sent = k.sent
    BY <1>2, PastFields
  <2>3. QED
    BY <1>3, <2>1, <2>2 DEF CallState
<1>5. Flushes(c, r, Nothing)
  BY <1>4 DEF Flushes, Writing, Outside
<1>6. Ordered(r)
  BY <1>1, <1>4 DEF Held, Ordered, Upserting, Writing
<1>7. Reading(r)
  BY <1>4 DEF Reading
<1>8. Logged(c, r)
  BY <1>1, <1>4 DEF Held, Ordered, Logged
<1>9. Become(c, r)
  BY <1>1, <1>2, <1>3 DEF Leave
<1>10. QED
  BY <1>1, <1>4, <1>5, <1>6, <1>7, <1>8, <1>9, NothingIsUnit, CallStep DEF Held

LEMMA FailStep ==
    ASSUME OwnTransactions, Inv, NEW c \in Call, call[c].phase # "idle", Fail(c)
    PROVE  Inv'
<1>1. /\ Leave(c, "failed") /\ work' = [work EXCEPT ![Tx(c)] = Nothing]
      /\ UNCHANGED <<schema_initializer, closed, disposed, clock, subject, entity, stored, audits>>
  BY DEF Fail, DiscardWork, engine
<1>2. initialized' \in BOOLEAN /\ schema' \in BOOLEAN /\ TablesMade'
  BY DEF Fail, engine, Inv, Typed, TablesMade
<1>3. QED
  BY <1>1, <1>2, LeaveStep

\* What a call is known to be doing, with nothing flushed.
LEMMA NothingFlushed ==
    ASSUME Inv, NEW c \in Call, call[c].phase \notin Writing
    PROVE  work[Tx(c)] = Nothing /\ [work EXCEPT ![Tx(c)] = Nothing] = work
<1>1. work[Tx(c)] = Nothing
  BY CallIsHeld DEF Held, Flushes
<1>2. QED
  BY <1>1, CallIsHeld DEF Inv, Typed

-----------------------------------------------------------------------------
(* The facade, initialize and close.                                       *)

LEMMA BeginStep ==
    ASSUME OwnTransactions, Inv, NEW c \in Call, NEW op \in Operation,
           NEW input \in Input \cup {NoRow}, op = "upsert_entity" => input \in Input,
           Begin(c, op, input)
    PROVE  Inv'
<1>1. Begin(c, op, input) /\ (op = "upsert_entity" => input \in Input)
  OBVIOUS
<1>2. PICK k \in CallState : k = call[c] /\ Held(c, k, work[Tx(c)]) /\ k.phase = "idle"
  BY <1>1, CallIsHeld DEF Begin
<1>3. PICK phase \in {"failed", "answered", "connect"} :
        /\ phase = IF closed /\ op # "ready" THEN "failed"
                   ELSE IF op = "initialize" /\ initialized THEN "answered"
                   ELSE "connect"
        /\ phase = "answered" => op # "upsert_entity"
  OBVIOUS
<1>4. PICK r : r = [Fresh EXCEPT !.op = op, !.input = input, !.phase = phase]
  OBVIOUS
<1>5. /\ r \in CallState /\ r.phase = phase /\ r.op = op /\ r.input = input
      /\ r.conn = "none" /\ r.seen = NoRow /\ r.loaded = NoRow /\ r.now = 0
      /\ r.committed = FALSE /\ r.due = <<>> /\ r.sent = 0
  <2>1. phase \in Phase
    BY <1>3 DEF Phase
  <2>2. PICK b \in CallState :
            /\ b = Fresh /\ b.conn = "none" /\ b.seen = NoRow /\ b.loaded = NoRow
            /\ b.now = 0 /\ b.committed = FALSE /\ b.due = <<>> /\ b.sent = 0
    BY FreshIsState
  <2>3. r = [b EXCEPT !.op = op, !.input = input, !.phase = phase]
    BY <1>4, <2>2
  <2>4. QED
    BY <2>1, <2>2, <2>3 DEF CallState
<1>6. Reads(c, r)
  BY <1>1, <1>3, <1>4 DEF Begin
<1>7. Flushes(c, r, work[Tx(c)])
  BY <1>2, <1>5, NothingFlushed DEF Flushes, Outside, Writing
<1>8. Ordered(r)
  BY <1>1, <1>3, <1>5 DEF Ordered, Upserting, Writing
<1>9. Reading(r)
  BY <1>5 DEF Reading
<1>10. ~k.committed /\ k.due = <<>>
  BY <1>2 DEF Held, Ordered, Logged
<1>11. Logged(c, r)
  <2>1. Range(r.due) = {}
    BY <1>5 DEF Range
  <2>2. QED
    BY <1>2, <1>5, <1>10, <2>1 DEF Held, Logged
<1>12. QED
  BY <1>2, <1>5, <1>6, <1>7, <1>8, <1>9, <1>10, <1>11, ReadStep DEF Held

\* The flag is set and nothing is asked of the database.
LEMMA InitializeOnlyStep ==
    ASSUME OwnTransactions, Inv, NEW c \in Call, InitializeOnly(c)
    PROVE  Inv'
<1>1. PICK k \in CallState : k = call[c] /\ Held(c, k, work[Tx(c)]) /\ k.phase = "idle"
  BY CallIsHeld DEF InitializeOnly
<1>2. PICK r : r = [Fresh EXCEPT !.op = "initialize", !.phase = "answered"]
  OBVIOUS
<1>3. /\ r \in CallState /\ r.phase = "answered" /\ r.op = "initialize" /\ r.input = NoRow
      /\ r.conn = "none" /\ r.seen = NoRow /\ r.loaded = NoRow /\ r.now = 0
      /\ r.committed = FALSE /\ r.due = <<>> /\ r.sent = 0
  <2>1. "answered" \in Phase /\ "initialize" \in Operation
    BY DEF Phase, Operation
  <2>2. PICK b \in CallState :
            /\ b = Fresh /\ b.conn = "none" /\ b.seen = NoRow /\ b.loaded = NoRow
            /\ b.now = 0 /\ b.committed = FALSE /\ b.due = <<>> /\ b.sent = 0
            /\ b.input = NoRow
    BY FreshIsState DEF Fresh
  <2>3. r = [b EXCEPT !.op = "initialize", !.phase = "answered"]
    BY <1>2, <2>2
  <2>4. QED
    BY <2>1, <2>2, <2>3 DEF CallState
<1>4. PICK w \in Unit : w = work[Tx(c)]
  BY CallIsHeld
<1>5. Become(c, r) /\ work' = [work EXCEPT ![Tx(c)] = w]
  BY <1>2, <1>4, CallIsHeld DEF InitializeOnly, database, Inv, Typed
<1>6. /\ UNCHANGED <<schema_initializer, closed, disposed, clock, subject, entity, stored,
                      audits>>
      /\ initialized' \in BOOLEAN /\ schema' \in BOOLEAN /\ TablesMade'
  BY DEF InitializeOnly, database, Inv, Typed, TablesMade
<1>7. Flushes(c, r, w)
  BY <1>1, <1>3, <1>4, NothingFlushed DEF Flushes, Outside, Writing
<1>8. Ordered(r) /\ Reading(r)
  BY <1>3 DEF Ordered, Reading, Upserting, Writing
<1>9. ~k.committed /\ k.due = <<>>
  BY <1>1 DEF Held, Ordered, Logged
<1>10. Logged(c, r)
  <2>1. Range(r.due) = {}
    BY <1>3 DEF Range
  <2>2. QED
    BY <1>1, <1>3, <1>9, <2>1 DEF Held, Logged
<1>11. w.row = NoRow
  BY <1>1, <1>4, NothingFlushed, NothingIsUnit DEF Writing
<1>12. QED
  BY <1>1, <1>3, <1>5, <1>6, <1>7, <1>8, <1>9, <1>10, <1>11, CallStep DEF Held

LEMMA StartStep ==
    ASSUME OwnTransactions, Inv, NEW c \in Call, Start(c)
    PROVE  Inv'
<1>1. CASE InitializeOnly(c)
  BY <1>1, InitializeOnlyStep
<1>2. CASE ~InitializeOnly(c)
  <2>1. PICK op \in OperationsOf[c] :
            \E input \in IF op = "upsert_entity" THEN Input ELSE {NoRow} : Begin(c, op, input)
    BY <1>2 DEF Start
  <2>2. PICK input \in Input \cup {NoRow} :
            Begin(c, op, input) /\ (op = "upsert_entity" => input \in Input)
    BY <2>1
  <2>3. op \in Operation
    BY <2>1, ConstantAssumption
  <2>4. QED
    BY <2>2, <2>3, BeginStep
<1>3. QED
  BY <1>1, <1>2

LEMMA ConnectStep ==
    ASSUME OwnTransactions, Inv, NEW c \in Call, Connect(c)
    PROVE  Inv'
<1>1. PICK k \in CallState : k = call[c] /\ Held(c, k, work[Tx(c)]) /\ k.phase = "connect"
  BY CallIsHeld DEF Connect
<1>2. PICK phase \in {"audit", "lookup", "list", "inspect", "probe"} :
        phase = IF k.committed THEN "audit"
                ELSE CASE k.op = "upsert_entity" -> "lookup"
                       [] k.op = "list" -> "list"
                       [] k.op = "initialize" -> "inspect"
                       [] OTHER -> "probe"
  OBVIOUS
<1>3. PICK r : r = [k EXCEPT !.conn = "pool", !.phase = phase]
  OBVIOUS
<1>4. /\ r \in CallState /\ r.phase = phase /\ r.conn = "pool" /\ r.op = k.op
      /\ r.input = k.input /\ r.seen = k.seen /\ r.loaded = k.loaded /\ r.now = k.now
      /\ r.committed = k.committed /\ r.due = k.due /\ r.sent = k.sent
  <2>1. phase \in Phase
    BY <1>2 DEF Phase
  <2>2. r \in CallState
    BY <1>3, <2>1 DEF CallState
  <2>3. QED
    BY <1>3, <2>2 DEF CallState
<1>5. Reads(c, r) /\ Cardinality(InUse) < Capacity
  BY <1>1, <1>2, <1>3 DEF Connect, Reads
<1>6. Flushes(c, r, work[Tx(c)])
  BY <1>1, <1>2, <1>4, NothingFlushed DEF Flushes, Outside, Writing
<1>7. Ordered(r)
  <2>1. /\ k.committed => phase = "audit"
        /\ ~k.committed => phase # "audit"
        /\ ~k.committed => (k.op = "upsert_entity" <=> phase = "lookup")
    BY <1>2
  <2>2. QED
    BY <1>1, <1>2, <1>4, <2>1 DEF Held, Ordered, Upserting, Writing
<1>8. Reading(r)
  BY <1>1, <1>2, <1>4 DEF Held, Reading
<1>9. Logged(c, r)
  BY <1>1, <1>2, <1>4 DEF Held, Logged
<1>10. QED
  BY <1>1, <1>4, <1>5, <1>6, <1>7, <1>8, <1>9, ReadStep DEF Held

LEMMA PoolTimeoutStep ==
    ASSUME OwnTransactions, Inv, NEW c \in Call, PoolTimeout(c)
    PROVE  Inv'
<1>1. call[c].phase = "connect"
  BY DEF PoolTimeout
<1>2. PICK phase \in {"answered", "failed"} :
        phase = IF call[c].op = "ready" THEN "answered" ELSE "failed"
  OBVIOUS
<1>3. Leave(c, phase) /\ UNCHANGED <<schema_initializer, initialized, schema, work>>
  BY <1>2 DEF PoolTimeout, Reads, Leave, engine, database
<1>4. work' = [work EXCEPT ![Tx(c)] = Nothing]
  BY <1>1, <1>3, NothingFlushed DEF Writing
<1>5. UNCHANGED <<schema_initializer, closed, disposed, clock, subject, entity, stored, audits>>
  BY DEF PoolTimeout, Reads, engine, database
<1>6. initialized' \in BOOLEAN /\ schema' \in BOOLEAN /\ TablesMade'
  BY <1>3 DEF Inv, Typed, TablesMade
<1>7. phase = "answered" => call[c].op # "upsert_entity"
  BY <1>2
<1>8. QED
  BY <1>1, <1>3, <1>4, <1>5, <1>6, <1>7, LeaveStep

\* create_all leaves tables behind, or finds them.
LEMMA InspectStep ==
    ASSUME OwnTransactions, Inv, NEW c \in Call, Inspect(c) \/ CreateAll(c)
    PROVE  Inv'
<1>1. PICK k \in CallState :
        /\ k = call[c] /\ Held(c, k, work[Tx(c)])
        /\ k.phase \in {"inspect", "create_all"} /\ k.op # "upsert_entity"
  BY CallIsHeld DEF Inspect, CreateAll, Held, Ordered
<1>2. CASE Fail(c)
  BY <1>1, <1>2, FailStep
<1>3. CASE Leave(c, "answered")
  <2>1. /\ UNCHANGED <<schema_initializer, closed, disposed, clock, subject, entity, stored, audits, work>>
        /\ initialized' \in BOOLEAN /\ schema' \in BOOLEAN /\ TablesMade'
    <3>1. CASE Inspect(c) /\ schema
      BY <3>1 DEF Inspect, Inv, Typed, TablesMade, engine, database
    <3>2. CASE Inspect(c) /\ ~schema
      BY <3>2 DEF Inspect, Inv, Typed, TablesMade, engine, database
    <3>3. CASE CreateAll(c) /\ schema
      BY <1>1, <3>3, NothingFlushed
      DEF CreateAll, Fail, DiscardWork, Inv, Typed, TablesMade, engine, database, Writing
    <3>4. CASE CreateAll(c) /\ ~schema
      BY <3>4 DEF CreateAll, Inv, Typed, TablesMade, engine, database
    <3>5. QED
      BY <3>1, <3>2, <3>3, <3>4
  <2>2. work' = [work EXCEPT ![Tx(c)] = Nothing]
    BY <1>1, <2>1, NothingFlushed DEF Writing
  <2>3. QED
    BY <1>1, <1>3, <2>1, <2>2, LeaveStep
<1>4. CASE Reads(c, [call[c] EXCEPT !.phase = "create_all"])
  <2>1. PICK r : r = [k EXCEPT !.phase = "create_all"]
    OBVIOUS
  <2>2. /\ r \in CallState /\ r.phase = "create_all" /\ r.conn = k.conn /\ r.op = k.op
        /\ r.input = k.input /\ r.seen = k.seen /\ r.loaded = k.loaded /\ r.now = k.now
        /\ r.committed = k.committed /\ r.due = k.due /\ r.sent = k.sent
    BY <2>1 DEF CallState, Phase
  <2>3. Flushes(c, r, work[Tx(c)])
    BY <1>1, <2>2 DEF Held, Flushes, Outside, Writing
  <2>4. Ordered(r) /\ Reading(r) /\ Logged(c, r)
    BY <1>1, <2>2 DEF Held, Ordered, Reading, Logged, Upserting, Writing
  <2>5. QED
    BY <1>1, <1>4, <2>1, <2>2, <2>3, <2>4, ReadStep DEF Held
<1>5. QED
  BY <1>2, <1>3, <1>4 DEF Inspect, CreateAll, Goes, Reads

LEMMA CloseStep ==
    ASSUME Inv, Close
    PROVE  Inv'
<1>1. /\ UNCHANGED <<schema_initializer, initialized, disposed, call, clock, schema, subject, entity, work, stored,
                     audits>>
      /\ closed' = TRUE
  BY DEF Close, database
<1>2. InUse' = InUse
  BY <1>1 DEF InUse
<1>3. Typed' /\ Dated' /\ OneHolder' /\ OneCreator'
  BY <1>1, <1>2 DEF Inv, Typed, TablesMade, Dated, OneHolder, OneCreator, Tx
<1>4. ASSUME NEW c \in Call PROVE Held(c, call[c], work[Tx(c)])'
  <2>1. PICK k \in CallState : k = call[c] /\ Held(c, k, work[Tx(c)])
    BY CallIsHeld
  <2>2. Flushes(c, k, work[Tx(c)])' /\ Ordered(k)' /\ Reading(k)'
    BY <1>1, <2>1 DEF Held, Flushes, Ordered, Reading, Tx
  <2>3. Logged(c, k)'
    BY <1>1, <2>1 DEF Held, Logged, LoggedOf
  <2>4. PICK w : w = work[Tx(c)] /\ work'[Tx(c)] = w /\ call'[c] = k
    BY <1>1, <2>1
  <2>5. Held(c, k, w)'
    BY <2>2, <2>3, <2>4 DEF Held, Flushes, Tx
  <2>6. QED
    BY <2>4, <2>5, HeldAfter
<1>5. QED
  BY <1>3, <1>4 DEF Inv

\* The clock goes on: what was read at some time was read before.
LEMMA TickStep ==
    ASSUME Inv, Tick
    PROVE  Inv'
<1>1. /\ UNCHANGED <<schema_initializer, initialized, closed, disposed, call, schema, subject, entity, work,
                     stored, audits>>
      /\ clock' \in 1..MaxTime /\ clock \in Nat /\ clock' = clock + 1
  BY ConstantAssumption DEF Tick, engine, database, Inv, Typed
<1>2. InUse' = InUse
  BY <1>1 DEF InUse
<1>3. Typed' /\ OneHolder' /\ OneCreator'
  BY <1>1, <1>2 DEF Inv, Typed, TablesMade, OneHolder, OneCreator, Tx
<1>4. Dated'
  BY <1>1 DEF Inv, Dated
<1>5. ASSUME NEW c \in Call PROVE Held(c, call[c], work[Tx(c)])'
  <2>1. PICK k \in CallState : k = call[c] /\ Held(c, k, work[Tx(c)])
    BY CallIsHeld
  <2>2. Reading(call[c])'
    <3>1. k.now \in Nat
      BY DEF CallState
    <3>2. k.now <= clock => k.now <= clock'
      BY <1>1, <3>1
    <3>3. QED
      BY <1>1, <2>1, <3>2 DEF Held, Reading
  <2>3. Flushes(c, call[c], work[Tx(c)])'
    BY <1>1, <2>1 DEF Held, Flushes, Tx
  <2>4. Ordered(call[c])' /\ Logged(c, call[c])'
    BY <1>1, <2>1 DEF Held, Ordered, Logged, LoggedOf
  <2>5. QED
    BY <2>2, <2>3, <2>4 DEF Held
<1>6. QED
  BY <1>3, <1>4, <1>5 DEF Inv

\* The connections that are out are the calls' own from now on.
LEMMA DisposeStep ==
    ASSUME Inv, Dispose
    PROVE  Inv'
<1>1. UNCHANGED <<schema_initializer, initialized, closed, clock, schema, subject, entity, work, stored, audits>>
  BY DEF Dispose, database
<1>2. ASSUME NEW c \in Call
      PROVE  /\ call'[c] \in CallState /\ call'[c].due = call[c].due
             /\ call'[c].conn \in {"none", "detached"} /\ Held(c, call[c], work[Tx(c)])'
  <2>1. PICK k \in CallState : k = call[c] /\ Held(c, k, work[Tx(c)])
    BY CallIsHeld
  <2>2. PICK r : r = call'[c]
    OBVIOUS
  <2>3. /\ r \in CallState /\ r.phase = k.phase /\ r.op = k.op /\ r.input = k.input
        /\ r.seen = k.seen /\ r.loaded = k.loaded /\ r.now = k.now
        /\ r.committed = k.committed /\ r.due = k.due /\ r.sent = k.sent
        /\ r.conn = IF k.conn = "pool" THEN "detached" ELSE k.conn
    <3>1. CASE k.conn = "pool"
      <4>1. r = [k EXCEPT !.conn = "detached"]
        BY <2>1, <2>2, <3>1 DEF Dispose, InUse
      <4>2. QED
        BY <3>1, <4>1 DEF CallState
    <3>2. CASE k.conn # "pool"
      <4>1. r = k
        BY <2>1, <2>2, <3>2 DEF Dispose, InUse
      <4>2. QED
        BY <3>2, <4>1
    <3>3. QED
      BY <3>1, <3>2
  <2>4. Flushes(c, r, work[Tx(c)])
    <3>1. Write(r) = Write(k)
      BY <2>3 DEF Write, Difference, AnswerOf
    <3>2. QED
      BY <2>1, <2>3, <3>1 DEF Held, Flushes
  <2>5. Ordered(r) /\ Reading(r) /\ Logged(c, r)
    <3>1. Ordered(r)
      BY <2>1, <2>3 DEF Held, Ordered
    <3>2. Reading(r)
      BY <2>1, <2>3 DEF Held, Reading
    <3>3. Logged(c, r)
      BY <2>1, <2>3 DEF Held, Logged
    <3>4. QED
      BY <3>1, <3>2, <3>3
  <2>6. Held(c, call[c], work[Tx(c)])'
    <3>1. Flushes(c, call[c], work[Tx(c)])'
      BY <1>1, <2>2, <2>4 DEF Flushes, Tx
    <3>2. Ordered(call[c])' /\ Reading(call[c])' /\ Logged(c, call[c])'
      BY <1>1, <2>2, <2>5 DEF Ordered, Reading, Logged, LoggedOf
    <3>3. QED
      BY <3>1, <3>2 DEF Held
  <2>7. k.conn \in {"none", "pool", "detached"}
    BY DEF CallState
  <2>8. QED
    BY <2>1, <2>2, <2>3, <2>6, <2>7
<1>3. InUse' = {} /\ IsFiniteSet({}) /\ Cardinality({}) = 0
  BY <1>2, FS_EmptySet DEF InUse
<1>4. call' \in [Call -> CallState]
  BY <1>2 DEF Dispose
<1>5. Typed'
  BY <1>1, <1>3, <1>4, ConstantAssumption DEF Dispose, Inv, Typed, TablesMade
<1>6. Dated' /\ OneHolder' /\ OneCreator'
  BY <1>1, <1>2 DEF Inv, Dated, OneHolder, OneCreator, Tx
<1>7. QED
  BY <1>2, <1>5, <1>6 DEF Inv

-----------------------------------------------------------------------------
(* upsert_entity                                                           *)

LEMMA LookupStep ==
    ASSUME OwnTransactions, Inv, NEW c \in Call, Lookup(c)
    PROVE  Inv'
<1>1. PICK k \in CallState : k = call[c] /\ Held(c, k, work[Tx(c)]) /\ k.phase = "lookup"
  BY CallIsHeld DEF Lookup
<1>2. CASE Fail(c)
  BY <1>1, <1>2, FailStep
<1>3. CASE Reads(c, [call[c] EXCEPT !.phase = "ensure", !.new_subject = ~SeesSubject(c)])
  <2>1. PICK new \in BOOLEAN : new = ~SeesSubject(c)
    OBVIOUS
  <2>2. PICK r : r = [k EXCEPT !.phase = "ensure", !.new_subject = new]
    OBVIOUS
  <2>3. /\ r \in CallState /\ r.phase = "ensure" /\ r.conn = k.conn /\ r.op = k.op
        /\ r.input = k.input /\ r.seen = k.seen /\ r.loaded = k.loaded /\ r.now = k.now
        /\ r.committed = k.committed /\ r.due = k.due /\ r.sent = k.sent
    BY <2>2 DEF CallState, Phase
  <2>4. Flushes(c, r, work[Tx(c)]) /\ Ordered(r)
    BY <1>1, <2>3 DEF Held, Flushes, Ordered, Outside, Upserting, Writing
  <2>5. Reading(r) /\ Logged(c, r)
    BY <1>1, <2>3 DEF Held, Reading, Logged
  <2>6. Reads(c, r)
    BY <1>1, <1>3, <2>1, <2>2
  <2>7. QED
    BY <1>1, <2>3, <2>4, <2>5, <2>6, ReadStep DEF Held
<1>4. QED
  BY <1>2, <1>3 DEF Lookup

LEMMA EnsureStep ==
    ASSUME OwnTransactions, Inv, NEW c \in Call, Ensure(c)
    PROVE  Inv'
<1>1. PICK k \in CallState : k = call[c] /\ Held(c, k, work[Tx(c)]) /\ k.phase = "ensure"
  BY CallIsHeld DEF Ensure
<1>2. PICK phase \in {"find", "add_subject"} :
        phase = IF SeesSubject(c) THEN "find" ELSE "add_subject"
  OBVIOUS
<1>3. PICK r : r = [k EXCEPT !.phase = phase]
  OBVIOUS
<1>4. /\ r \in CallState /\ r.phase = phase /\ r.conn = k.conn /\ r.op = k.op
      /\ r.input = k.input /\ r.seen = k.seen /\ r.loaded = k.loaded /\ r.now = k.now
      /\ r.committed = k.committed /\ r.due = k.due /\ r.sent = k.sent
  BY <1>3 DEF CallState, Phase
<1>5. work[Tx(c)] = Nothing
  BY <1>1, NothingFlushed DEF Writing
<1>6. phase = "find" => subject \/ work[Tx(c)].subject
  BY <1>2 DEF SeesSubject
<1>7. Flushes(c, r, work[Tx(c)])
  BY <1>1, <1>4, <1>5, <1>6, NothingIsUnit DEF Held, Flushes, Outside, Writing
<1>8. Ordered(r) /\ Reading(r) /\ Logged(c, r)
  BY <1>1, <1>4 DEF Held, Ordered, Reading, Logged, Upserting, Writing
<1>9. Reads(c, r)
  BY <1>1, <1>2, <1>3 DEF Ensure
<1>10. QED
  BY <1>1, <1>4, <1>7, <1>8, <1>9, ReadStep DEF Held

LEMMA AddSubjectStep ==
    ASSUME OwnTransactions, Inv, NEW c \in Call, AddSubject(c)
    PROVE  Inv'
<1>1. PICK k \in CallState :
        k = call[c] /\ Held(c, k, work[Tx(c)]) /\ k.phase = "add_subject"
  BY CallIsHeld DEF AddSubject
<1>2. CASE Fail(c)
  BY <1>1, <1>2, FailStep
<1>3. CASE ~Fail(c)
  <2>1. /\ work' = [work EXCEPT ![Tx(c)].subject = TRUE] /\ Goes(c, "find")
        /\ UNCHANGED <<schema_initializer, initialized, closed, disposed, clock, schema, subject, entity, stored,
                       audits>>
    BY <1>3 DEF AddSubject, engine
  <2>2. PICK v \in Unit : v = work[Tx(c)] /\ v = Nothing
    BY <1>1, CallIsHeld, NothingFlushed DEF Writing
  <2>3. PICK w : w = [v EXCEPT !.subject = TRUE]
    OBVIOUS
  <2>4. w \in Unit /\ w.subject = TRUE /\ w.row = NoRow /\ w.writers = {}
    BY <2>2, <2>3, NothingIsUnit DEF Unit
  <2>5. work' = [work EXCEPT ![Tx(c)] = w]
    BY <2>1, <2>2, <2>3
  <2>6. PICK r : r = [k EXCEPT !.phase = "find"]
    OBVIOUS
  <2>7. /\ r \in CallState /\ r.phase = "find" /\ r.conn = k.conn /\ r.op = k.op
        /\ r.input = k.input /\ r.seen = k.seen /\ r.loaded = k.loaded /\ r.now = k.now
        /\ r.committed = k.committed /\ r.due = k.due /\ r.sent = k.sent
    BY <2>6 DEF CallState, Phase
  <2>8. Flushes(c, r, w)
    BY <1>1, <2>4, <2>7 DEF Held, Flushes, Outside, Writing
  <2>9. Ordered(r) /\ Reading(r) /\ Logged(c, r)
    BY <1>1, <2>7 DEF Held, Ordered, Reading, Logged, Upserting, Writing
  <2>10. Become(c, r)
    BY <1>1, <2>1, <2>6 DEF Goes
  <2>11. initialized' \in BOOLEAN /\ schema' \in BOOLEAN /\ TablesMade'
    BY <2>1 DEF Inv, Typed, TablesMade
  <2>12. k.conn = "pool" => call[c].conn = "pool"
    BY <1>1
  <2>13. QED
    BY <1>1, <2>1, <2>4, <2>5, <2>7, <2>8, <2>9, <2>10, <2>11, <2>12, CallStep DEF Held
<1>4. QED
  BY <1>2, <1>3

\* A call that has flushed no row sees the one that is committed.
LEMMA SeesCommitted ==
    ASSUME Inv, NEW c \in Call, work[Tx(c)].row = NoRow
    PROVE  SeenRow(c) = entity /\ entity \in Row \cup {NoRow}
BY OverlayIsRow, NoRowHasNone DEF SeenRow, Inv, Typed

LEMMA FindStep ==
    ASSUME OwnTransactions, Inv, NEW c \in Call, Find(c)
    PROVE  Inv'
<1>1. PICK k \in CallState : k = call[c] /\ Held(c, k, work[Tx(c)]) /\ k.phase = "find"
  BY CallIsHeld DEF Find
<1>2. work[Tx(c)].row = NoRow
  BY <1>1 DEF Held, Flushes, Writing
<1>3. PICK seen \in Row \cup {NoRow} : seen = SeenRow(c) /\ seen = entity
  BY <1>2, SeesCommitted
<1>4. PICK now \in Nat : now = clock
  BY ConstantAssumption DEF Inv, Typed
<1>5. PICK phase \in {"add", "load"} : phase = IF seen = NoRow THEN "add" ELSE "load"
  OBVIOUS
<1>6. PICK r : r = [k EXCEPT !.seen = seen, !.now = now, !.phase = phase]
  OBVIOUS
<1>7. /\ r \in CallState /\ r.phase = phase /\ r.conn = k.conn /\ r.op = k.op
      /\ r.input = k.input /\ r.seen = seen /\ r.loaded = k.loaded /\ r.now = now
      /\ r.committed = k.committed /\ r.due = k.due /\ r.sent = k.sent
  <2>1. phase \in Phase
    BY DEF Phase
  <2>2. QED
    BY <1>6, <2>1 DEF CallState
<1>8. Flushes(c, r, work[Tx(c)])
  BY <1>1, <1>7 DEF Held, Flushes, Outside, Writing
<1>9. Ordered(r) /\ Logged(c, r)
  BY <1>1, <1>7 DEF Held, Ordered, Logged, Upserting, Writing
<1>10. Reading(r)
  <2>1. entity # NoRow => entity.first_seen_at <= clock
    BY DEF Inv, Dated
  <2>2. now <= clock
    BY <1>4
  <2>3. k.loaded = NoRow
    BY <1>1 DEF Held, Reading
  <2>4. QED
    BY <1>3, <1>4, <1>5, <1>7, <2>1, <2>2, <2>3 DEF Reading
<1>11. Reads(c, r)
  BY <1>1, <1>3, <1>4, <1>5, <1>6 DEF Find
<1>12. QED
  BY <1>1, <1>7, <1>8, <1>9, <1>10, <1>11, ReadStep DEF Held

LEMMA LoadStep ==
    ASSUME OwnTransactions, Inv, NEW c \in Call, Load(c)
    PROVE  Inv'
<1>1. PICK k \in CallState : k = call[c] /\ Held(c, k, work[Tx(c)]) /\ k.phase = "load"
  BY CallIsHeld DEF Load
<1>2. work[Tx(c)].row = NoRow
  BY <1>1 DEF Held, Flushes, Writing
<1>3. PICK loaded \in Row \cup {NoRow} : loaded = SeenRow(c) /\ loaded = entity
  BY <1>2, SeesCommitted
<1>4. PICK r : r = [k EXCEPT !.phase = "update", !.loaded = loaded]
  OBVIOUS
<1>5. /\ r \in CallState /\ r.phase = "update" /\ r.conn = k.conn /\ r.op = k.op
      /\ r.input = k.input /\ r.seen = k.seen /\ r.loaded = loaded /\ r.now = k.now
      /\ r.committed = k.committed /\ r.due = k.due /\ r.sent = k.sent
  <2>1. "update" \in Phase
    BY DEF Phase
  <2>2. QED
    BY <1>4, <2>1 DEF CallState
<1>6. Flushes(c, r, work[Tx(c)])
  BY <1>1, <1>5 DEF Held, Flushes, Outside, Writing
<1>7. Ordered(r) /\ Logged(c, r)
  BY <1>1, <1>5 DEF Held, Ordered, Logged, Upserting, Writing
<1>8. Reading(r)
  BY <1>1, <1>3, <1>5 DEF Held, Reading
<1>9. Reads(c, r)
  BY <1>1, <1>3, <1>4 DEF Load
<1>10. QED
  BY <1>1, <1>5, <1>6, <1>7, <1>8, <1>9, ReadStep DEF Held

\* The row is flushed and locked.
LEMMA FlushStep ==
    ASSUME OwnTransactions, Inv, NEW c \in Call, call[c].phase \in {"add", "update"},
           NEW changes \in Changes, changes = Write(call[c]), Flushed(c, changes),
           changes = NoRow \/ ~RowHeld(c),
           call[c].phase = "add" => entity = NoRow
    PROVE  Inv'
<1>1. PICK k \in CallState :
        k = call[c] /\ Held(c, k, work[Tx(c)]) /\ k.phase \in {"add", "update"}
  BY CallIsHeld
<1>2. PICK v \in Unit : v = work[Tx(c)] /\ v.row = NoRow /\ v.writers = {}
                        /\ (subject \/ v.subject)
  BY <1>1, CallIsHeld DEF Held, Flushes, Writing
<1>3. changes = Overlay(changes, v.row)
  BY <1>2, OverlayIsRow
<1>4. PICK writers \in SUBSET Call : writers = {c} /\ writers = v.writers \cup {c}
  BY <1>2
<1>5. PICK w : w = [v EXCEPT !.row = changes, !.writers = writers]
  OBVIOUS
<1>6. w \in Unit /\ w.subject = v.subject /\ w.row = changes /\ w.writers = {c}
  BY <1>4, <1>5 DEF Unit
<1>7. work' = [work EXCEPT ![Tx(c)] = w]
  <2>1. PICK x : x = [work EXCEPT ![Tx(c)].row = changes]
    OBVIOUS
  <2>2. PICK u : u = [v EXCEPT !.row = changes]
    OBVIOUS
  <2>3. x = [work EXCEPT ![Tx(c)] = u] /\ x[Tx(c)] = u
    <3>1. x = [work EXCEPT ![Tx(c)] = u]
      BY <1>2, <2>1, <2>2
    <3>2. QED
      BY <3>1, CallIsHeld DEF Inv, Typed
  <2>4. u.writers = v.writers
    BY <2>2 DEF Unit
  <2>5. w = [u EXCEPT !.writers = writers]
    BY <1>5, <2>2, Zenon
  <2>6. work' = [x EXCEPT ![Tx(c)].writers = writers]
    <3>1. work' = [work EXCEPT ![Tx(c)].row = Overlay(changes, @),
                               ![Tx(c)].writers = @ \cup {c}]
      BY DEF Flushed
    <3>2. work' = [work EXCEPT ![Tx(c)].row = changes, ![Tx(c)].writers = writers]
      BY <1>2, <1>3, <1>4, <3>1, Zenon
    <3>3. QED
      BY <2>1, <3>2, Zenon
  <2>7. QED
    BY <2>3, <2>5, <2>6
<1>8. PICK r : r = [k EXCEPT !.phase = "commit"]
  OBVIOUS
<1>9. /\ r \in CallState /\ r.phase = "commit" /\ r.conn = k.conn /\ r.op = k.op
      /\ r.input = k.input /\ r.seen = k.seen /\ r.loaded = k.loaded /\ r.now = k.now
      /\ r.committed = k.committed /\ r.due = k.due /\ r.sent = k.sent
  <2>1. "commit" \in Phase
    BY DEF Phase
  <2>2. r \in CallState
    BY <1>8, <2>1 DEF CallState
  <2>3. QED
    BY <1>8, <2>2 DEF CallState
<1>10. Write(r) = changes
  <2>1. Write(r) = Write(k)
    BY <1>9 DEF Write, Difference, AnswerOf
  <2>2. QED
    BY <1>1, <2>1
<1>11. Flushes(c, r, w)
  BY <1>1, <1>2, <1>6, <1>9, <1>10 DEF Held, Flushes, Outside, Writing
<1>12. Ordered(r) /\ Logged(c, r)
  BY <1>1, <1>9 DEF Held, Ordered, Logged, Upserting, Writing
<1>13. Reading(r)
  BY <1>1, <1>9 DEF Held, Reading
<1>14. Become(c, r)
  BY <1>1, <1>8 DEF Flushed, Goes
<1>15. w.row = NoRow \/ \A d \in Call \ {c} : work[Tx(d)].row = NoRow
  <2>1. \A d \in Call \ {c} : Tx(d) \in Transaction \ {Tx(c)}
    BY CallIsHeld DEF OwnTransactions, Tx
  <2>2. QED
    BY <1>6, <2>1 DEF RowHeld
<1>16. /\ UNCHANGED <<schema_initializer, initialized, closed, disposed, clock, schema, subject, entity, stored,
                      audits>>
       /\ initialized' \in BOOLEAN /\ schema' \in BOOLEAN /\ TablesMade'
  BY DEF Flushed, engine, Inv, Typed, TablesMade
<1>17. r.conn = "pool" => call[c].conn = "pool"
  BY <1>1, <1>9
<1>18. QED
  BY <1>1, <1>6, <1>7, <1>9, <1>11, <1>12, <1>13, <1>14, <1>15, <1>16, <1>17, CallStep
  DEF Held

LEMMA AddStep ==
    ASSUME OwnTransactions, Inv, NEW c \in Call, Add(c)
    PROVE  Inv'
<1>1. PICK k \in CallState : k = call[c] /\ Held(c, k, work[Tx(c)]) /\ k.phase = "add"
  BY CallIsHeld DEF Add
<1>2. CASE Fail(c)
  BY <1>1, <1>2, FailStep
<1>3. CASE ~Fail(c)
  <2>1. SeenRow(c) = NoRow /\ Flushed(c, Answered(c)) /\ ~RowHeld(c)
    BY <1>3 DEF Add
  <2>2. work[Tx(c)].row = NoRow
    BY <1>1 DEF Held, Flushes, Writing
  <2>3. entity = NoRow
    BY <2>1, <2>2, SeesCommitted
  <2>4. k.input \in Input /\ k.seen = NoRow
    BY <1>1 DEF Held, Ordered, Reading, Upserting, Writing
  <2>5. Answered(c) = AnswerOf(k) /\ AnswerOf(k) \in Changes
    BY <1>1, <2>4, DifferenceIsChanges DEF Answered, AnswerOf
  <2>6. Answered(c) = Write(call[c])
    BY <1>1, <2>4, <2>5 DEF Write
  <2>7. QED
    BY <1>1, <2>1, <2>3, <2>5, <2>6, FlushStep
<1>4. QED
  BY <1>2, <1>3

LEMMA UpdateStep ==
    ASSUME OwnTransactions, Inv, NEW c \in Call, Update(c)
    PROVE  Inv'
<1>1. PICK k \in CallState : k = call[c] /\ Held(c, k, work[Tx(c)]) /\ k.phase = "update"
  BY CallIsHeld DEF Update
<1>2. k.input \in Input /\ k.seen # NoRow
  BY <1>1 DEF Held, Ordered, Reading, Upserting, Writing
<1>3. Answered(c) = AnswerOf(k)
  BY <1>1 DEF Answered, AnswerOf
<1>4. PICK changes \in Changes :
        changes = Difference(k) /\ Flushed(c, changes)
        /\ (changes = NoRow \/ ~RowHeld(c))
  <2>1. Difference(k) \in Changes
    BY <1>2, DifferenceIsChanges
  <2>2. Difference(k) = [column \in Changed(c) |-> Answered(c)[column]]
    BY <1>1, <1>3 DEF Difference, Changed
  <2>3. Changed(c) = {} => Difference(k) = NoRow
    <3>1. DOMAIN Difference(k) = Changed(c)
      BY <2>2
    <3>2. QED
      BY <2>1, <3>1, NoRowHasNone
  <2>4. Flushed(c, Difference(k)) /\ (Changed(c) = {} \/ ~RowHeld(c))
    BY <2>2 DEF Update
  <2>5. QED
    BY <2>1, <2>3, <2>4
<1>5. changes = Write(call[c])
  BY <1>1, <1>2, <1>4 DEF Write
<1>6. QED
  BY <1>1, <1>4, <1>5, FlushStep

LEMMA LeavingStep ==
    ASSUME OwnTransactions, Inv, NEW c \in Call,
           ConnectionLost(c) \/ List(c) \/ Probe(c)
    PROVE  Inv'
<1>1. PICK k \in CallState :
        /\ k = call[c] /\ Held(c, k, work[Tx(c)]) /\ k.phase # "idle"
        /\ List(c) \/ Probe(c) => k.op # "upsert_entity"
  BY CallIsHeld DEF ConnectionLost, List, Probe, Held, Flushes, Ordered, Outside
<1>2. /\ work' = [work EXCEPT ![Tx(c)] = Nothing]
      /\ UNCHANGED <<schema_initializer, initialized, closed, disposed, clock, schema, subject, entity, stored,
                     audits>>
  BY DEF ConnectionLost, List, Probe, DiscardWork, engine
<1>3. initialized' \in BOOLEAN /\ schema' \in BOOLEAN /\ TablesMade'
  BY <1>2 DEF Inv, Typed, TablesMade
<1>4. CASE ConnectionLost(c)
  <2>1. Leave(c, "failed")
    BY <1>4 DEF ConnectionLost, Leave
  <2>2. QED
    BY <1>1, <1>2, <1>3, <2>1, LeaveStep
<1>5. CASE List(c) \/ Probe(c)
  <2>1. PICK phase \in {"answered", "failed"} : Leave(c, phase)
    BY <1>5 DEF List, Probe
  <2>2. QED
    BY <1>1, <1>2, <1>3, <1>5, <2>1, LeaveStep
<1>6. QED
  BY <1>4, <1>5

\* Sequences of one and of two elements.
LEMMA ShortSequences ==
    ASSUME NEW S, NEW x \in S, NEW y \in S
    PROVE  /\ <<x>> \in Seq(S) /\ Len(<<x>>) = 1 /\ Range(<<x>>) = {x}
           /\ <<>> \o <<x>> = <<x>>
           /\ <<y>> \o <<x>> \in Seq(S) /\ Len(<<y>> \o <<x>>) = 2
           /\ Range(<<y>> \o <<x>>) = {y, x}
<1>1. \A z \in S : <<z>> \in Seq(S) /\ Len(<<z>>) = 1 /\ <<z>>[1] = z
  OBVIOUS
<1>2. Range(<<x>>) = {x}
  BY DEF Range
<1>3. <<>> \o <<x>> = <<x>>
  OBVIOUS
<1>4. ASSUME NEW s \in Seq(S), NEW t \in Seq(S), Len(s) = 1, Len(t) = 1,
             s[1] = y, t[1] = x
      PROVE  s \o t \in Seq(S) /\ Len(s \o t) = 2 /\ Range(s \o t) = {y, x}
  <2>1. PICK u : u = s \o t
    OBVIOUS
  <2>2. u \in Seq(S) /\ Len(u) = 2 /\ u[1] = y /\ u[2] = x
    <3>1. /\ s \o t \in Seq(S) /\ Len(s \o t) = 1 + 1
          /\ \A i \in 1..1 + 1 : (s \o t)[i] = IF i <= 1 THEN s[i] ELSE t[i - 1]
      <4>1. /\ s \o t \in Seq(S) /\ Len(s \o t) = Len(s) + Len(t)
            /\ \A i \in 1..Len(s) + Len(t) :
                  (s \o t)[i] = IF i <= Len(s) THEN s[i] ELSE t[i - Len(s)]
        BY ConcatProperties
      <4>2. QED
        BY <1>4, <4>1
    <3>2. (s \o t)[1] = s[1] /\ (s \o t)[2] = t[2 - 1]
      BY <3>1
    <3>3. QED
      BY <1>4, <2>1, <3>1, <3>2
  <2>3. DOMAIN u = {1, 2}
    BY <2>2, LenProperties
  <2>4. QED
    BY <2>1, <2>2, <2>3 DEF Range
<1>5. QED
  BY <1>1, <1>2, <1>3, <1>4

\* The audit events of a write.
LEMMA DueIsSequence ==
    ASSUME NEW c \in Call, NEW k \in CallState, k = call[c]
    PROVE  /\ Due(c) \in Seq(Action) /\ Len(Due(c)) > 0
           /\ "create entity" \in Range(Due(c)) => k.seen = NoRow
<1>1. PICK first \in Action : first = "create subject"
  BY DEF Action
<1>2. PICK last \in Action :
        last = IF k.seen = NoRow THEN "create entity" ELSE "update entity"
  BY DEF Action
<1>3. Due(c) = IF k.new_subject THEN <<first>> \o <<last>> ELSE <<>> \o <<last>>
  BY <1>1, <1>2 DEF Due
<1>4. /\ <<last>> \in Seq(Action) /\ Len(<<last>>) = 1 /\ Range(<<last>>) = {last}
      /\ <<>> \o <<last>> = <<last>>
  BY ShortSequences
<1>5. /\ <<first>> \o <<last>> \in Seq(Action) /\ Len(<<first>> \o <<last>>) = 2
      /\ Range(<<first>> \o <<last>>) = {first, last}
  BY ShortSequences
<1>6. PICK due : due = Due(c)
  OBVIOUS
<1>7. CASE k.new_subject
  <2>1. due = <<first>> \o <<last>>
    BY <1>3, <1>6, <1>7
  <2>2. due \in Seq(Action) /\ Len(due) = 2 /\ Range(due) = {first, last}
    BY <1>5, <2>1
  <2>3. "create entity" \in Range(due) => k.seen = NoRow
    BY <1>1, <1>2, <2>2
  <2>4. Len(due) > 0
    BY <2>2
  <2>5. QED
    BY <1>6, <2>2, <2>3, <2>4, Zenon
<1>8. CASE ~k.new_subject
  <2>1. due = <<last>>
    BY <1>3, <1>4, <1>6, <1>8
  <2>2. due \in Seq(Action) /\ Len(due) = 1 /\ Range(due) = {last}
    BY <1>4, <2>1
  <2>3. "create entity" \in Range(due) => k.seen = NoRow
    BY <1>2, <2>2
  <2>4. Len(due) > 0
    BY <2>2
  <2>5. QED
    BY <1>6, <2>2, <2>3, <2>4, Zenon
<1>9. QED
  BY <1>7, <1>8

\* What a commit makes of the entity: the row that is answered if there was
\* none, and one with the same first_seen_at if there was.
LEMMA CommitWrites ==
    ASSUME Inv, NEW c \in Call, NEW k \in CallState, k = call[c], Commit(c)
    PROVE  /\ k.phase = "commit" /\ ~k.committed /\ k.op = "upsert_entity"
           /\ k.input \in Input
           /\ work' = [work EXCEPT ![Tx(c)] = Nothing]
           /\ stored' = stored \cup {c} /\ subject' = TRUE
           /\ entity' \in Row /\ entity' = Overlay(Write(k), entity)
           /\ entity'.first_seen_at \in Nat /\ entity'.last_seen_at \in Nat
           /\ entity'.first_seen_at <= entity'.last_seen_at
           /\ entity'.first_seen_at <= clock
           /\ entity # NoRow => entity'.first_seen_at = entity.first_seen_at
           /\ k.seen = NoRow <=> entity = NoRow
           /\ work[Tx(c)].row = NoRow => entity' = entity
<1>1. /\ k.phase = "commit" /\ Held(c, k, work[Tx(c)])
      /\ entity \in Row \cup {NoRow} /\ clock \in Nat
  BY CallIsHeld, ConstantAssumption DEF Commit, Inv, Typed
<1>2. /\ k.op = "upsert_entity" /\ ~k.committed /\ k.input \in Input /\ k.now <= clock
      /\ k.now \in Nat /\ k.seen \in Row \cup {NoRow}
  BY <1>1 DEF Held, Ordered, Reading, Upserting, Writing, CallState
<1>3. PICK w : w = work[Tx(c)]
  OBVIOUS
<1>4. w.row = Write(k) /\ w.writers = {c} /\ (subject \/ w.subject)
  BY <1>1, <1>3 DEF Held, Flushes, Writing
<1>5. /\ work' = [work EXCEPT ![Tx(c)] = Nothing]
      /\ stored' = stored \cup {c} /\ subject' = TRUE
      /\ entity' = Overlay(Write(k), entity)
  <2>1. /\ subject' = (subject \/ w.subject) /\ entity' = Overlay(w.row, entity)
        /\ stored' = stored \cup w.writers /\ work' = [work EXCEPT ![Tx(c)] = Nothing]
    BY <1>3 DEF Commit, CommitWork
  <2>2. QED
    BY <1>4, <2>1
<1>6. PICK row \in Changes : row = Write(k)
  BY <1>2, DifferenceIsChanges DEF Write
<1>7. "first_seen_at" \in Columns /\ "last_seen_at" \in Columns
  BY DEF Columns
<1>8. /\ AnswerOf(k) \in Row /\ DOMAIN AnswerOf(k) = Columns
      /\ AnswerOf(k).last_seen_at = k.now
      /\ AnswerOf(k).first_seen_at = IF k.seen = NoRow THEN k.now ELSE k.seen.first_seen_at
  BY <1>2, AnswerIsRow DEF AnswerOf
<1>9. row = NoRow => entity' = entity
  BY <1>1, <1>5, <1>6, OverlayIsRow
<1>10. CASE k.seen = NoRow
  <2>1. entity = NoRow
    BY <1>1, <1>10 DEF Held, Reading
  <2>2. entity' = AnswerOf(k)
    BY <1>5, <1>6, <1>10, <2>1, OverlayIsRow DEF Write
  <2>3. QED
    BY <1>1, <1>2, <1>3, <1>4, <1>5, <1>6, <1>8, <1>9, <1>10, <2>1, <2>2
<1>11. CASE k.seen # NoRow
  <2>1. /\ entity # NoRow /\ k.seen.first_seen_at = entity.first_seen_at
        /\ entity.first_seen_at <= k.now /\ k.loaded # NoRow
        /\ k.loaded.first_seen_at = entity.first_seen_at
    BY <1>1, <1>11 DEF Held, Reading
  <2>2. /\ entity \in Row /\ DOMAIN entity = Columns
        /\ entity.first_seen_at \in Nat /\ entity.last_seen_at \in Nat
        /\ entity.first_seen_at <= entity.last_seen_at /\ entity.first_seen_at <= clock
    BY <1>1, <2>1 DEF Inv, Dated, Row
  <2>3. row = Difference(k)
    BY <1>6, <1>11 DEF Write
  <2>4. entity' \in Row
    BY <1>5, <1>6, <2>2, OverlayIsRow
  <2>5. entity'.first_seen_at = entity.first_seen_at
    <3>1. "first_seen_at" \notin DOMAIN row
      BY <1>2, <1>7, <1>8, <1>11, <2>1, <2>3, DifferenceIsChanges
    <3>2. "first_seen_at" \in DOMAIN entity \ DOMAIN row
      BY <1>7, <2>2, <3>1
    <3>3. Overlay(row, entity)["first_seen_at"] = entity["first_seen_at"]
      BY <1>1, <1>6, <3>2, OverlayIsRow
    <3>4. QED
      BY <1>5, <1>6, <3>3
  <2>6. entity'.last_seen_at \in {k.now, entity.last_seen_at}
    <3>1. CASE "last_seen_at" \in DOMAIN row
      <4>1. Overlay(row, entity)["last_seen_at"] = row["last_seen_at"]
        BY <1>1, <1>6, <3>1, OverlayIsRow
      <4>2. row["last_seen_at"] = k.now
        BY <1>2, <1>8, <2>3, <3>1, DifferenceIsChanges
      <4>3. QED
        BY <1>5, <1>6, <4>1, <4>2
    <3>2. CASE "last_seen_at" \notin DOMAIN row
      <4>1. "last_seen_at" \in DOMAIN entity \ DOMAIN row
        BY <1>7, <2>2, <3>2
      <4>2. Overlay(row, entity)["last_seen_at"] = entity["last_seen_at"]
        BY <1>1, <1>6, <4>1, OverlayIsRow
      <4>3. QED
        BY <1>5, <1>6, <4>2
    <3>3. QED
      BY <3>1, <3>2
  <2>7. QED
    BY <1>1, <1>2, <1>3, <1>4, <1>5, <1>6, <1>9, <1>11, <2>1, <2>2, <2>4, <2>5, <2>6
<1>12. QED
  BY <1>10, <1>11

\* What a commit leaves of the call: it goes on to emit what is due.
LEMMA CommitLeaves ==
    ASSUME Inv, NEW c \in Call, Commit(c)
    PROVE  \E r \in CallState :
            /\ r.phase = "connect" /\ r.op = "upsert_entity" /\ r.conn = "none"
            /\ r.seen = NoRow /\ r.loaded = NoRow
            /\ r.committed = TRUE /\ r.due = Due(c) /\ r.sent = 0
            /\ call' \in [Call -> CallState]
            /\ \A d \in Call : call'[d] = IF d = c THEN r ELSE call[d]
<1>1. PICK k \in CallState :
        /\ k = call[c] /\ k.op = "upsert_entity" /\ k.sent = 0
        /\ call \in [Call -> CallState]
  <2>1. PICK k \in CallState : k = call[c] /\ Held(c, k, work[Tx(c)])
    BY CallIsHeld
  <2>2. k.op = "upsert_entity" /\ ~k.committed
    BY <2>1, CommitWrites
  <2>3. k.sent = 0
    BY <2>1, <2>2 DEF Held, Logged
  <2>4. QED
    BY <2>1, <2>2, <2>3 DEF Inv, Typed
<1>2. PICK due \in Seq(Action) : due = Due(c)
  BY <1>1, DueIsSequence
<1>3. PICK b \in CallState :
        /\ b = Past(k) /\ b.op = k.op /\ b.conn = "none" /\ b.seen = NoRow
        /\ b.loaded = NoRow /\ b.sent = k.sent
  BY PastFields
<1>4. PICK r : r = [b EXCEPT !.phase = "connect", !.committed = TRUE, !.due = due]
  OBVIOUS
<1>5. /\ r \in CallState /\ r.phase = "connect" /\ r.op = k.op /\ r.conn = "none"
      /\ r.seen = NoRow /\ r.loaded = NoRow /\ r.committed = TRUE /\ r.due = due
      /\ r.sent = k.sent
  <2>1. "connect" \in Phase
    BY DEF Phase
  <2>2. QED
    BY <1>3, <1>4, <2>1 DEF CallState
<1>6. call' = [call EXCEPT ![c] = r]
  BY <1>1, <1>2, <1>3, <1>4 DEF Commit, Become
<1>7. QED
  BY <1>1, <1>2, <1>5, <1>6

\* A commit takes nothing from the calls beside it: the row they lock is still
\* theirs, and what they have read of first_seen_at is still so.
LEMMA CommitBeside ==
    ASSUME OwnTransactions, Inv, NEW c \in Call, Commit(c), NEW d \in Call \ {c}
    PROVE  Held(d, call[d], work[Tx(d)])'
<1>1. PICK k \in CallState : k = call[d] /\ Held(d, k, work[Tx(d)])
  BY CallIsHeld
<1>2. call'[d] = k /\ work'[Tx(d)] = work[Tx(d)]
  <2>1. Tx(d) # Tx(c) /\ Tx(d) \in Transaction
    BY CallIsHeld DEF OwnTransactions, Tx
  <2>2. work' = [work EXCEPT ![Tx(c)] = Nothing]
    BY CallIsHeld, CommitWrites
  <2>3. call'[d] = call[d]
    BY CommitLeaves
  <2>4. work'[Tx(d)] = work[Tx(d)]
    BY <2>1, <2>2 DEF Inv, Typed
  <2>5. QED
    BY <1>1, <2>3, <2>4
<1>3. /\ stored' = stored \cup {c} /\ subject' = TRUE /\ entity' \in Row
      /\ entity # NoRow => entity'.first_seen_at = entity.first_seen_at
      /\ work[Tx(c)].row = NoRow => entity' = entity
      /\ audits' = audits /\ clock' = clock
  BY CallIsHeld, CommitWrites DEF Commit
<1>4. entity' # NoRow
  BY <1>3, NoRowHasNone
<1>5. Flushes(d, call[d], work[Tx(d)])'
  BY <1>1, <1>2, <1>3 DEF Held, Flushes, Tx
<1>6. Ordered(call[d])'
  BY <1>1, <1>2, <1>3 DEF Held, Ordered
<1>7. Reading(call[d])'
  <2>1. ASSUME k.phase = "commit", k.seen = NoRow PROVE FALSE
    <3>1. k.input \in Input /\ work[Tx(d)].row = Write(k) /\ entity = NoRow
      BY <1>1, <2>1 DEF Held, Flushes, Ordered, Reading, Upserting, Writing
    <3>2. work[Tx(d)].row # NoRow
      BY <2>1, <3>1, DifferenceIsChanges, NoRowHasNone DEF Write
    <3>3. work[Tx(c)].row = NoRow
      BY <3>2 DEF Inv, OneHolder
    <3>4. QED
      BY <1>3, <1>4, <3>1, <3>3
  <2>2. k.seen # NoRow => /\ entity' # NoRow
                          /\ k.seen.first_seen_at = entity'.first_seen_at
                          /\ entity'.first_seen_at <= k.now
    BY <1>1, <1>3, <1>4 DEF Held, Reading
  <2>3. k.loaded # NoRow => k.seen # NoRow /\ k.loaded.first_seen_at = entity'.first_seen_at
    BY <1>1, <1>3 DEF Held, Reading
  <2>4. QED
    BY <1>1, <1>2, <1>3, <2>1, <2>2, <2>3 DEF Held, Reading
<1>8. Logged(d, call[d])'
  <2>1. d \in stored' <=> d \in stored
    BY <1>3
  <2>2. QED
    BY <1>1, <1>2, <1>3, <1>4, <2>1 DEF Held, Logged, LoggedOf
<1>9. QED
  BY <1>5, <1>6, <1>7, <1>8 DEF Held

LEMMA CommitStep ==
    ASSUME OwnTransactions, Inv, NEW c \in Call, Commit(c)
    PROVE  Inv'
<1>1. PICK k \in CallState : k = call[c] /\ Held(c, k, work[Tx(c)])
  BY CallIsHeld
<1>2. PICK r \in CallState :
        /\ r.phase = "connect" /\ r.op = "upsert_entity" /\ r.conn = "none"
        /\ r.seen = NoRow /\ r.loaded = NoRow
        /\ r.committed = TRUE /\ r.due = Due(c) /\ r.sent = 0
        /\ call' \in [Call -> CallState]
        /\ \A d \in Call : call'[d] = IF d = c THEN r ELSE call[d]
  BY CommitLeaves
<1>3. PICK due \in Seq(Action) :
        /\ due = Due(c) /\ Len(due) > 0
        /\ "create entity" \in Range(due) => k.seen = NoRow
  BY <1>1, DueIsSequence
<1>4. /\ work' = [work EXCEPT ![Tx(c)] = Nothing]
      /\ stored' = stored \cup {c} /\ subject' = TRUE /\ entity' \in Row
      /\ entity'.first_seen_at \in Nat /\ entity'.last_seen_at \in Nat
      /\ entity'.first_seen_at <= entity'.last_seen_at
      /\ entity'.first_seen_at <= clock /\ ~k.committed
      /\ k.seen = NoRow <=> entity = NoRow
  BY <1>1, CommitWrites
<1>5. UNCHANGED <<schema_initializer, initialized, closed, disposed, clock, schema, audits>>
  BY DEF Commit, engine
<1>6. /\ work' \in [Transaction -> Unit] /\ work'[Tx(c)] = Nothing
      /\ \A d \in Call \ {c} : work'[Tx(d)] = work[Tx(d)]
  <2>1. \A d \in Call : Tx(d) \in Transaction /\ (Tx(d) = Tx(c) => d = c)
    BY CallIsHeld DEF OwnTransactions, Tx
  <2>2. QED
    BY <1>4, <2>1, NothingIsUnit DEF Inv, Typed
<1>7. IsFiniteSet(InUse') /\ Cardinality(InUse') <= Capacity
  BY <1>2, PoolStep
<1>8. Typed'
  <2>1. stored' \subseteq Call
    BY <1>4 DEF Inv, Typed
  <2>2. QED
    BY <1>2, <1>4, <1>5, <1>6, <1>7, <2>1 DEF Inv, Typed, TablesMade
<1>9. Dated'
  BY <1>4, <1>5 DEF Dated
<1>10. OneHolder'
  BY <1>6, NothingIsUnit DEF Inv, OneHolder, Tx
<1>11. OneCreator'
  <2>1. ASSUME NEW d \in Call \ {c}, "create entity" \in Range(call[d].due)
        PROVE  entity # NoRow
    BY <2>1, CallIsHeld DEF Held, Logged
  <2>2. "create entity" \in Range(due) => entity = NoRow
    BY <1>3, <1>4
  <2>3. call'[c].due = due /\ \A d \in Call \ {c} : call'[d].due = call[d].due
    BY <1>2, <1>3
  <2>4. QED
    BY <2>1, <2>2, <2>3 DEF Inv, OneCreator
<1>12. Held(c, call[c], work[Tx(c)])'
  <2>1. Flushes(c, call[c], work[Tx(c)])'
    BY <1>2, <1>6 DEF Flushes, Outside, Writing, Tx
  <2>2. Ordered(call[c])'
    BY <1>2, <1>4 DEF Ordered, Upserting, Writing
  <2>3. Reading(call[c])'
    BY <1>2 DEF Reading
  <2>4. LoggedOf(c)' = First(due, 0)
    <3>1. \A a \in audits : a.call # c
      BY <1>1, <1>4 DEF Held, Logged
    <3>2. LoggedOf(c)' = {}
      BY <1>5, <3>1 DEF LoggedOf
    <3>3. First(due, 0) = {}
      BY DEF First
    <3>4. QED
      BY <3>2, <3>3
  <2>5. entity' # NoRow /\ c \in stored'
    BY <1>4, NoRowHasNone
  <2>6. Len(due) \in Nat /\ Len(due) > 0
    <3>1. Len(due) > 0
      BY <1>3
    <3>2. QED
      BY <3>1, LenProperties
  <2>7. PICK q \in CallState :
          /\ q = call'[c] /\ q.committed = TRUE /\ q.due = due /\ q.sent = 0
          /\ q.phase = "connect"
    BY <1>2, <1>3
  <2>8. Logged(c, call[c])'
    <3>1. /\ q.sent \in 0..Len(q.due) /\ q.sent < Len(q.due)
          /\ LoggedOf(c)' = First(q.due, q.sent)
      <4>1. 0 \in 0..Len(due) /\ 0 < Len(due)
        BY <2>6
      <4>2. QED
        BY <2>4, <2>7, <4>1, Zenon
    <3>2. QED
      BY <2>5, <2>7, <3>1, Zenon DEF Logged
  <2>9. QED
    BY <2>1, <2>2, <2>3, <2>8 DEF Held
<1>13. \A d \in Call : Held(d, call[d], work[Tx(d)])'
  BY <1>12, CommitBeside
<1>14. QED
  BY <1>8, <1>9, <1>10, <1>11, <1>13 DEF Inv

\* The next event that is due is logged: the subject of a committed write is
\* there to be seen, and the audit's session has nothing else to commit.
LEMMA AuditWrites ==
    ASSUME Inv, NEW c \in Call, NEW k \in CallState, k = call[c], Audit(c)
    PROVE  /\ k.phase = "audit" /\ k.committed /\ k.op = "upsert_entity"
           /\ k.sent + 1 \in 1..Len(k.due) /\ k.due[k.sent + 1] \in Action
           /\ audits' = audits \cup {[call |-> c, action |-> k.due[k.sent + 1]]}
           /\ UNCHANGED <<schema_initializer, initialized, closed, disposed, clock, schema, subject, entity,
                          work, stored>>
<1>1. Held(c, k, work[Tx(c)]) /\ k.phase = "audit"
  BY CallIsHeld DEF Audit
<1>2. k.committed /\ k.op = "upsert_entity" /\ subject
  BY <1>1 DEF Held, Ordered
<1>3. k.sent < Len(k.due) /\ k.sent \in Nat /\ k.due \in Seq(Action)
  BY <1>1, <1>2 DEF Held, Logged, CallState
<1>4. k.sent + 1 \in 1..Len(k.due) /\ k.due[k.sent + 1] \in Action
  <2>1. Len(k.due) \in Nat
    BY <1>3, LenProperties
  <2>2. k.sent + 1 \in 1..Len(k.due)
    BY <1>3, <2>1
  <2>3. QED
    BY <1>3, <2>2, ElementOfSeq
<1>5. PICK w \in Unit : w = work[Tx(c)] /\ w.subject = FALSE /\ w.row = NoRow /\ w.writers = {}
  BY <1>1, NothingFlushed, CallIsHeld, NothingIsUnit DEF Writing
<1>6. audits' = audits \cup {[call |-> c, action |-> k.due[k.sent + 1]]}
  BY <1>2 DEF Audit, SeesSubject
<1>7. UNCHANGED <<subject, entity, stored, work>>
  <2>1. /\ subject' = (subject \/ w.subject) /\ entity' = Overlay(w.row, entity)
        /\ stored' = stored \cup w.writers /\ work' = [work EXCEPT ![Tx(c)] = Nothing]
    BY <1>5 DEF Audit, CommitWork
  <2>2. work' = work
    BY <1>1, <2>1, NothingFlushed DEF Writing
  <2>3. entity' = entity
    <3>1. entity \in Row \cup {NoRow}
      BY DEF Inv, Typed
    <3>2. Overlay(NoRow, entity) = entity
      BY <3>1, OverlayIsRow, NoRowHasNone
    <3>3. QED
      BY <1>5, <2>1, <3>2
  <2>4. subject' = subject /\ stored' = stored
    <3>1. subject \in BOOLEAN /\ subject' = (subject \/ FALSE)
      BY <1>5, <2>1 DEF Inv, Typed
    <3>2. stored' = stored \cup {}
      BY <1>5, <2>1
    <3>3. QED
      BY <3>1, <3>2
  <2>5. QED
    BY <2>2, <2>3, <2>4
<1>8. UNCHANGED <<schema_initializer, initialized, closed, disposed, clock, schema>>
  BY DEF Audit, engine
<1>9. QED
  BY <1>1, <1>2, <1>4, <1>6, <1>7, <1>8

LEMMA AuditStep ==
    ASSUME Inv, NEW c \in Call, Audit(c)
    PROVE  Inv'
<1>1. PICK k \in CallState : k = call[c] /\ Held(c, k, work[Tx(c)])
  BY CallIsHeld
<1>2. PICK n : n = k.sent + 1
  OBVIOUS
<1>3. /\ k.phase = "audit" /\ k.committed /\ k.op = "upsert_entity"
      /\ n \in 1..Len(k.due) /\ k.due[n] \in Action
      /\ audits' = audits \cup {[call |-> c, action |-> k.due[n]]}
      /\ UNCHANGED <<schema_initializer, initialized, closed, disposed, clock, schema, subject, entity, work,
                     stored>>
  BY <1>1, <1>2, AuditWrites
<1>4. n \in Nat /\ Len(k.due) \in Nat
  <2>1. k.due \in Seq(Action)
    BY DEF CallState
  <2>2. Len(k.due) \in Nat
    BY <2>1, LenProperties
  <2>3. QED
    BY <1>3, <2>2
<1>5. PICK phase \in {"answered", "connect"} :
        phase = IF n = Len(k.due) THEN "answered" ELSE "connect"
  OBVIOUS
<1>6. PICK r : r = [k EXCEPT !.sent = n, !.conn = "none", !.phase = phase]
  OBVIOUS
<1>7. /\ r \in CallState /\ r.phase = phase /\ r.conn = "none" /\ r.op = k.op
      /\ r.input = k.input /\ r.seen = k.seen /\ r.loaded = k.loaded /\ r.now = k.now
      /\ r.committed = k.committed /\ r.due = k.due /\ r.sent = n
  <2>1. phase \in Phase
    BY DEF Phase
  <2>2. r \in CallState
    BY <1>4, <1>6, <2>1 DEF CallState
  <2>3. QED
    BY <1>6, <2>2 DEF CallState
<1>8. /\ call' \in [Call -> CallState]
      /\ \A d \in Call : call'[d] = IF d = c THEN r ELSE call[d]
  <2>1. Become(c, r)
    BY <1>1, <1>2, <1>5, <1>6 DEF Audit
  <2>2. QED
    BY <1>7, <2>1 DEF Become, Inv, Typed
<1>9. IsFiniteSet(InUse') /\ Cardinality(InUse') <= Capacity
  BY <1>7, <1>8, PoolStep
<1>10. Typed'
  <2>1. audits' \subseteq [call: Call, action: Action]
    BY <1>3 DEF Inv, Typed
  <2>2. QED
    BY <1>3, <1>8, <1>9, <2>1 DEF Inv, Typed, TablesMade
<1>11. Dated' /\ OneHolder' /\ OneCreator'
  <2>1. Dated' /\ OneHolder'
    BY <1>3 DEF Inv, Dated, OneHolder, Tx
  <2>2. \A d \in Call : call'[d].due = call[d].due
    BY <1>1, <1>7, <1>8
  <2>3. OneCreator'
    BY <2>2 DEF Inv, OneCreator
  <2>4. QED
    BY <2>1, <2>3
<1>12. ASSUME NEW d \in Call \ {c} PROVE Held(d, call[d], work[Tx(d)])'
  <2>1. PICK q \in CallState : q = call[d] /\ Held(d, q, work[Tx(d)]) /\ call'[d] = q
    BY <1>8, CallIsHeld
  <2>2. Flushes(d, call[d], work[Tx(d)])'
    BY <1>3, <2>1 DEF Held, Flushes, Tx
  <2>3. Ordered(call[d])' /\ Reading(call[d])'
    BY <1>3, <2>1 DEF Held, Ordered, Reading
  <2>4. {b \in audits' : b.call = d} = {b \in audits : b.call = d}
    BY <1>3
  <2>5. LoggedOf(d)' = LoggedOf(d)
    BY <2>4 DEF LoggedOf
  <2>6. \A a \in audits' : a.call = d => a \in audits
    BY <1>3
  <2>7. Logged(d, call[d])'
    BY <1>3, <2>1, <2>5, <2>6 DEF Held, Logged
  <2>8. QED
    BY <2>2, <2>3, <2>7 DEF Held
<1>13. Held(c, call[c], work[Tx(c)])'
  <2>1. PICK q \in CallState : q = call'[c] /\ q = r
    BY <1>7, <1>8
  <2>2. Flushes(c, call[c], work[Tx(c)])'
    BY <1>1, <1>3, <1>7, <2>1 DEF Held, Flushes, Outside, Writing, Tx
  <2>3. Ordered(call[c])'
    BY <1>1, <1>3, <1>7, <2>1 DEF Held, Ordered, Upserting, Writing
  <2>4. Reading(call[c])'
    BY <1>1, <1>3, <1>7, <2>1 DEF Held, Reading
  <2>5. LoggedOf(c)' = LoggedOf(c) \cup {k.due[n]}
    <3>1. PICK a : a = [call |-> c, action |-> k.due[n]]
      OBVIOUS
    <3>2. a.call = c /\ a.action = k.due[n] /\ audits' = audits \cup {a}
      BY <1>3, <3>1
    <3>3. {b \in audits' : b.call = c} = {b \in audits : b.call = c} \cup {a}
      BY <3>2
    <3>4. QED
      BY <3>2, <3>3 DEF LoggedOf
  <2>6. First(k.due, n) = First(k.due, k.sent) \cup {k.due[n]}
    <3>1. k.sent \in Nat
      BY DEF CallState
    <3>2. 1..n = (1..k.sent) \cup {n}
      BY <1>2, <3>1
    <3>3. QED
      BY <3>2 DEF First
  <2>7. LoggedOf(c)' = First(k.due, n)
    BY <1>1, <1>3, <2>5, <2>6 DEF Held, Logged
  <2>8. /\ n \in 0..Len(k.due)
        /\ phase = "connect" => n < Len(k.due)
        /\ phase = "answered" => n = Len(k.due)
    BY <1>3, <1>4, <1>5
  <2>9. /\ q.committed /\ q.due = k.due /\ q.sent = n /\ q.phase = phase
        /\ c \in stored' /\ ("create entity" \in Range(k.due) => entity' # NoRow)
    BY <1>1, <1>3, <1>7, <2>1 DEF Held, Logged
  <2>10. Logged(c, call[c])'
    <3>1. /\ q.sent \in 0..Len(q.due)
          /\ q.phase \in {"connect", "audit"} => q.sent < Len(q.due)
          /\ q.phase = "answered" => q.sent = Len(q.due)
          /\ LoggedOf(c)' = First(q.due, q.sent)
      BY <1>5, <2>7, <2>8, <2>9
    <3>2. QED
      BY <2>1, <2>9, <3>1, Zenon DEF Logged
  <2>11. QED
    BY <2>2, <2>3, <2>4, <2>10 DEF Held
<1>14. QED
  BY <1>10, <1>11, <1>12, <1>13 DEF Inv

-----------------------------------------------------------------------------
(* The theorems.                                                           *)

LEMMA InitHolds == Init => Inv
<1> SUFFICES ASSUME Init PROVE Inv
  OBVIOUS
<1>1. /\ initialized = FALSE /\ closed = FALSE /\ disposed = FALSE /\ clock = 1
      /\ call = [c \in Call |-> Fresh] /\ entity = NoRow /\ stored = {} /\ audits = {}
      /\ work = [t \in Transaction |-> Nothing]
      /\ schema \in BOOLEAN /\ subject \in BOOLEAN /\ schema_initializer \in BOOLEAN
  BY DEF Init
<1>2. \A c \in Call : call[c] = Fresh /\ Tx(c) \in Transaction /\ work[Tx(c)] = Nothing
  BY <1>1, ConstantAssumption DEF Tx
<1>3. InUse = {} /\ IsFiniteSet({}) /\ Cardinality({}) = 0
  BY <1>2, FreshIsState, FS_EmptySet DEF InUse
<1>4. Typed
  <2>1. call \in [Call -> CallState] /\ work \in [Transaction -> Unit]
    BY <1>1, FreshIsState, NothingIsUnit
  <2>2. clock \in 1..MaxTime
    BY <1>1, ConstantAssumption
  <2>3. IsFiniteSet(InUse) /\ Cardinality(InUse) <= Capacity
    <3>1. PICK pool : pool = InUse
      OBVIOUS
    <3>2. IsFiniteSet(pool) /\ Cardinality(pool) = 0
      BY <1>3, <3>1
    <3>3. Cardinality(pool) <= Capacity
      BY <3>2, ConstantAssumption
    <3>4. QED
      BY <3>1, <3>2, <3>3
  <2>4. QED
    BY <1>1, <2>1, <2>2, <2>3 DEF Typed, TablesMade
<1>5. Dated
  BY <1>1 DEF Dated
<1>6. OneHolder
  BY <1>2, NothingIsUnit DEF OneHolder
<1>7. OneCreator
  <2>1. Range(<<>>) = {}
    BY DEF Range
  <2>2. \A c \in Call : Range(call[c].due) = {}
    BY <1>2, <2>1, FreshIsState
  <2>3. QED
    BY <2>2 DEF OneCreator
<1>8. ASSUME NEW c \in Call PROVE Held(c, call[c], work[Tx(c)])
  <2>1. PICK k \in CallState :
          /\ k = call[c] /\ k.phase = "idle" /\ k.conn = "none" /\ k.seen = NoRow
          /\ k.loaded = NoRow /\ k.committed = FALSE /\ k.due = <<>> /\ k.sent = 0
    BY <1>2, FreshIsState
  <2>2. Flushes(c, k, work[Tx(c)])
    <3>1. PICK w : w = work[Tx(c)] /\ w = Nothing
      BY <1>2
    <3>2. k.phase \in Outside /\ k.phase \notin Writing /\ k.phase # "commit"
      BY <2>1 DEF Outside, Writing
    <3>3. Flushes(c, k, w)
      BY <2>1, <3>1, <3>2, Zenon DEF Flushes
    <3>4. QED
      BY <3>1, <3>3
  <2>3. Ordered(k) /\ Reading(k)
    BY <2>1 DEF Ordered, Reading, Upserting, Writing
  <2>4. Range(k.due) = {}
    BY <2>1 DEF Range
  <2>5. Logged(c, k)
    BY <1>1, <2>1, <2>4 DEF Logged
  <2>6. QED
    BY <2>1, <2>2, <2>3, <2>5 DEF Held
<1>9. QED
  BY <1>4, <1>5, <1>6, <1>7, <1>8 DEF Inv

LEMMA StutterKeeps ==
    ASSUME Inv, UNCHANGED vars
    PROVE  Inv'
<1>1. UNCHANGED <<schema_initializer, initialized, closed, disposed, call, clock, schema, subject, entity, work,
                  stored, audits>>
  BY DEF vars, engine, database
<1>2. InUse' = InUse
  BY <1>1 DEF InUse
<1>3. Typed' /\ Dated' /\ OneHolder' /\ OneCreator'
  BY <1>1, <1>2 DEF Inv, Typed, TablesMade, Dated, OneHolder, OneCreator, Tx
<1>4. ASSUME NEW c \in Call PROVE Held(c, call[c], work[Tx(c)])'
  <2>1. Flushes(c, call[c], work[Tx(c)])'
    BY <1>1 DEF Inv, Held, Flushes, Tx
  <2>2. Ordered(call[c])' /\ Reading(call[c])'
    BY <1>1 DEF Inv, Held, Ordered, Reading
  <2>3. Logged(c, call[c])'
    BY <1>1 DEF Inv, Held, Logged, LoggedOf
  <2>4. QED
    BY <2>1, <2>2, <2>3 DEF Held
<1>5. QED
  BY <1>3, <1>4 DEF Inv

LEMMA NextKeeps == OwnTransactions /\ Inv /\ [Next]_vars => Inv'
<1> SUFFICES ASSUME OwnTransactions, Inv, [Next]_vars PROVE Inv'
  OBVIOUS
<1>1. ASSUME NEW c \in Call, Start(c) PROVE Inv'
  BY <1>1, StartStep
<1>2. ASSUME NEW c \in Call, Step(c) PROVE Inv'
  <2>1. CASE Connect(c)
    BY <2>1, ConnectStep
  <2>2. CASE Inspect(c) \/ CreateAll(c)
    BY <2>2, InspectStep
  <2>3. CASE Lookup(c)
    BY <2>3, LookupStep
  <2>4. CASE Ensure(c)
    BY <2>4, EnsureStep
  <2>5. CASE AddSubject(c)
    BY <2>5, AddSubjectStep
  <2>6. CASE Find(c)
    BY <2>6, FindStep
  <2>7. CASE Add(c)
    BY <2>7, AddStep
  <2>8. CASE Load(c)
    BY <2>8, LoadStep
  <2>9. CASE Update(c)
    BY <2>9, UpdateStep
  <2>10. CASE Commit(c)
    BY <2>10, CommitStep
  <2>11. CASE Audit(c)
    BY <2>11, AuditStep
  <2>12. CASE List(c) \/ Probe(c)
    BY <2>12, LeavingStep
  <2>13. QED
    BY <1>2, <2>1, <2>2, <2>3, <2>4, <2>5, <2>6, <2>7, <2>8, <2>9, <2>10, <2>11, <2>12
    DEF Step
<1>3. ASSUME NEW c \in Call, PoolTimeout(c) PROVE Inv'
  BY <1>3, PoolTimeoutStep
<1>4. ASSUME NEW c \in Call, ConnectionLost(c) PROVE Inv'
  BY <1>4, LeavingStep
<1>5. CASE Close \/ Dispose \/ Tick
  BY <1>5, CloseStep, DisposeStep, TickStep
<1>6. CASE UNCHANGED vars
  BY <1>6, StutterKeeps
<1>7. QED
  BY <1>1, <1>2, <1>3, <1>4, <1>5, <1>6 DEF Next

LEMMA AtMostOne ==
    ASSUME NEW S, \A a, b \in S : a = b
    PROVE  Cardinality(S) <= 1
<1>1. CASE S = {}
  BY <1>1, FS_EmptySet
<1>2. CASE S # {}
  <2>1. PICK a \in S : TRUE
    BY <1>2
  <2>2. S = {a}
    BY <2>1
  <2>3. Cardinality({a}) = 1
    BY FS_Singleton
  <2>4. QED
    BY <2>2, <2>3
<1>3. QED
  BY <1>1, <1>2

\* The strengthening that holds in every reachable state.
THEOREM InvHolds == OwnTransactions /\ Spec => []Inv
<1> SUFFICES ASSUME OwnTransactions PROVE Spec => []Inv
  OBVIOUS
<1>1. Inv /\ [Next]_vars => Inv'
  BY NextKeeps
<1>2. QED
  BY <1>1, InitHolds, PTL DEF Spec

\* Type correctness: the pool is never larger than configured, a commit has a
\* connection to commit on, and an initialized engine has its tables.
THEOREM EngineTyped == OwnTransactions /\ Spec => []TypeOK
<1>1. Inv => TypeOK
  <2> SUFFICES ASSUME Inv PROVE TypeOK
    OBVIOUS
  <2>1. DOMAIN entity \in {{}, Columns}
    BY NoRowHasNone DEF Inv, Typed, Row
  <2>2. ASSUME NEW c \in Call
        PROVE  /\ call[c].phase \in Phase
               /\ call[c].conn \in {"none", "pool", "detached"}
               /\ call[c].phase = "commit" => call[c].conn # "none"
    BY CallIsHeld DEF Held, Flushes, Outside, CallState
  <2>3. QED
    BY <2>1, <2>2 DEF Inv, Typed, TablesMade, TypeOK, Action
<1>2. QED
  BY <1>1, InvHolds, PTL

\* A unit of work is all or nothing: exactly the upserts whose commit returned
\* are in the database.
THEOREM UnitsAreAtomic == OwnTransactions /\ Spec => []CommittedIsStored
<1>1. Inv => CommittedIsStored
  BY CallIsHeld DEF CommittedIsStored, Held, Logged
<1>2. QED
  BY <1>1, InvHolds, PTL

\* The audit log has what was committed and nothing else, all of it once the
\* write is answered, and one creation of the entity.
THEOREM AuditIsComplete == OwnTransactions /\ Spec => []AuditedAsStored
<1>1. Inv => AuditedAsStored
  <2> SUFFICES ASSUME Inv PROVE AuditedAsStored
    OBVIOUS
  <2>1. ASSUME NEW a \in audits PROVE a.call \in stored
    <3>1. a.call \in Call
      BY DEF Inv, Typed
    <3>2. QED
      BY <2>1, <3>1, CallIsHeld DEF Held, Logged
  <2>2. ASSUME NEW c \in Call, call[c].op = "upsert_entity", call[c].phase = "answered"
        PROVE  LoggedOf(c) = Range(call[c].due)
    <3>1. PICK k \in CallState : k = call[c] /\ Held(c, k, work[Tx(c)])
      BY CallIsHeld
    <3>2. k.committed /\ k.sent = Len(k.due) /\ LoggedOf(c) = First(k.due, k.sent)
      BY <2>2, <3>1 DEF Held, Ordered, Logged
    <3>3. DOMAIN k.due = 1..Len(k.due)
      BY LenProperties DEF CallState
    <3>4. First(k.due, Len(k.due)) = Range(k.due)
      BY <3>3 DEF First, Range
    <3>5. QED
      BY <3>1, <3>2, <3>4
  <2>3. ASSUME NEW a \in audits, a.action = "create entity"
        PROVE  a.call \in Call /\ "create entity" \in Range(call[a.call].due)
    <3>1. PICK c \in Call : c = a.call
      BY DEF Inv, Typed
    <3>2. PICK k \in CallState : k = call[c] /\ Held(c, k, work[Tx(c)])
      BY CallIsHeld
    <3>3. a.action \in LoggedOf(c)
      BY <3>1 DEF LoggedOf
    <3>4. k.committed /\ LoggedOf(c) = First(k.due, k.sent) /\ k.sent \in 0..Len(k.due)
      BY <3>1, <3>2 DEF Held, Logged
    <3>5. DOMAIN k.due = 1..Len(k.due) /\ Len(k.due) \in Nat
      BY LenProperties DEF CallState
    <3>6. PICK i \in 1..k.sent : k.due[i] = "create entity"
      BY <2>3, <3>3, <3>4 DEF First
    <3>7. i \in DOMAIN k.due
      BY <3>4, <3>5
    <3>8. QED
      BY <3>1, <3>2, <3>6, <3>7 DEF Range
  <2>4. ASSUME NEW a \in audits, NEW b \in audits,
               a.action = "create entity", b.action = "create entity"
        PROVE  a = b
    <3>1. a.call = b.call
      BY <2>3, <2>4 DEF Inv, OneCreator
    <3>2. a \in [call: Call, action: Action] /\ b \in [call: Call, action: Action]
      BY DEF Inv, Typed
    <3>3. /\ a = [call |-> a.call, action |-> a.action]
          /\ b = [call |-> b.call, action |-> b.action]
      BY <3>2
    <3>4. QED
      BY <2>4, <3>1, <3>3, Zenon
  <2>5. Cardinality({a \in audits : a.action = "create entity"}) <= 1
    <3>1. PICK S : S = {a \in audits : a.action = "create entity"}
      OBVIOUS
    <3>2. \A a, b \in S : a = b
      BY <2>4, <3>1
    <3>3. Cardinality(S) <= 1
      BY <3>2, AtMostOne
    <3>4. QED
      BY <3>1, <3>3, Zenon
  <2>6. QED
    BY <2>1, <2>2, <2>5 DEF AuditedAsStored, LoggedOf
<1>2. QED
  BY <1>1, InvHolds, PTL

\* Only a commit changes what is stored.
LEMMA OnlyCommits ==
    ASSUME Inv, [Next]_vars, entity' # entity \/ stored' # stored
    PROVE  \E c \in Call : Commit(c)
<1>1. ASSUME NEW c \in Call, Audit(c) PROVE FALSE
  BY <1>1, CallIsHeld, AuditWrites
<1>2. ASSUME NEW c \in Call, Start(c) PROVE FALSE
  BY <1>2 DEF Start, Begin, InitializeOnly, Reads, database
<1>3. ASSUME NEW c \in Call, Step(c), ~Commit(c) PROVE FALSE
  BY <1>1, <1>3
  DEF Step, Connect, Inspect, CreateAll, Lookup, Ensure, AddSubject, Find, Add, Load, Update,
      List, Probe, Fail, DiscardWork, Flushed, Reads, database
<1>4. ASSUME NEW c \in Call, PoolTimeout(c) \/ ConnectionLost(c) PROVE FALSE
  BY <1>4 DEF PoolTimeout, ConnectionLost, DiscardWork, Reads, database
<1>5. CASE Close \/ Dispose \/ Tick \/ UNCHANGED vars
  BY <1>5 DEF Close, Dispose, Tick, vars, database
<1>6. QED
  BY <1>2, <1>3, <1>4, <1>5 DEF Next

\* first_seen_at is set once and never lies after last_seen_at.
THEOREM EntitySeenInOrder == OwnTransactions /\ Spec => SeenInOrder
<1> SUFFICES ASSUME OwnTransactions PROVE Spec => SeenInOrder
  OBVIOUS
<1>1. ASSUME Inv, [Next]_vars, entity' # entity
      PROVE  /\ entity'.first_seen_at <= entity'.last_seen_at
             /\ entity # NoRow => entity'.first_seen_at = entity.first_seen_at
  <2>1. PICK c \in Call : Commit(c)
    BY <1>1, OnlyCommits
  <2>2. QED
    BY <1>1, <2>1, CallIsHeld, CommitWrites
<1>2. Inv /\ [Next]_vars
        => [entity' # entity =>
                /\ entity'.first_seen_at <= entity'.last_seen_at
                /\ entity # NoRow => entity'.first_seen_at = entity.first_seen_at]_vars
  BY <1>1, Zenon
<1>3. QED
  BY <1>2, InvHolds, PTL DEF Spec, SeenInOrder


\* A call is committed by its commit.
LEMMA OnlyCommitCommits ==
    ASSUME OwnTransactions, Inv, [Next]_vars,
           NEW c \in Call, call'[c].committed, ~call[c].committed
    PROVE  Commit(c)
<1>1. Inv'
  BY NextKeeps
<1>2. Held(c, call[c], work[Tx(c)])'
  BY <1>1 DEF Inv
<1>3. c \in stored' /\ c \notin stored
  BY <1>2, CallIsHeld DEF Held, Logged
<1>4. PICK d \in Call : Commit(d)
  BY <1>3, OnlyCommits
<1>5. stored' = stored \cup {d}
  BY <1>4, CallIsHeld, CommitWrites
<1>6. QED
  BY <1>3, <1>4, <1>5

\* A commit stores the answer if the row is still as it was loaded.
LEMMA CommitOfCurrent ==
    ASSUME Inv, NEW c \in Call, NEW k \in CallState, k = call[c], Commit(c),
           k.loaded = entity
    PROVE  entity' = AnswerOf(k)
<1>1. /\ entity' = Overlay(Write(k), entity) /\ k.input \in Input
      /\ k.seen = NoRow <=> entity = NoRow
      /\ entity \in Row \cup {NoRow}
  BY CommitWrites DEF Inv, Typed
<1>2. AnswerOf(k) \in Row /\ AnswerOf(k) \in Changes /\ Difference(k) \in Changes
  BY <1>1, DifferenceIsChanges
<1>3. CASE k.seen = NoRow
  BY <1>1, <1>2, <1>3, OverlayIsRow DEF Write
<1>4. CASE k.seen # NoRow
  <2>1. entity' = Overlay(Difference(k), entity) /\ entity \in Row
    BY <1>1, <1>4 DEF Write
  <2>2. entity' \in Row
    BY <1>2, <2>1, OverlayIsRow
  <2>3. ASSUME NEW x \in Columns PROVE entity'[x] = AnswerOf(k)[x]
    <3>1. CASE x \in DOMAIN Difference(k)
      <4>1. Overlay(Difference(k), entity)[x] = Difference(k)[x]
        BY <1>1, <1>2, <3>1, OverlayIsRow
      <4>2. Difference(k)[x] = AnswerOf(k)[x]
        BY <1>1, <3>1, DifferenceIsChanges
      <4>3. QED
        BY <2>1, <4>1, <4>2
    <3>2. CASE x \notin DOMAIN Difference(k)
      <4>1. AnswerOf(k)[x] = entity[x]
        BY <1>1, <3>2, DifferenceIsChanges
      <4>2. x \in DOMAIN entity \ DOMAIN Difference(k)
        BY <2>1, <3>2 DEF Row
      <4>3. Overlay(Difference(k), entity)[x] = entity[x]
        BY <1>1, <1>2, <4>2, OverlayIsRow
      <4>4. QED
        BY <2>1, <4>1, <4>3
    <3>3. QED
      BY <3>1, <3>2
  <2>4. QED
    BY <1>2, <2>2, <2>3 DEF Row
<1>5. QED
  BY <1>3, <1>4

\* What upsert_entity answers is what it stored, unless another upsert was
\* committed since it loaded the row.
THEOREM AnswersAreStored == OwnTransactions /\ Spec => AnswerIsStored
<1> SUFFICES ASSUME OwnTransactions PROVE Spec => AnswerIsStored
  OBVIOUS
<1>1. ASSUME Inv, [Next]_vars, NEW c \in Call,
             call'[c].committed, ~call[c].committed, call[c].loaded = entity
      PROVE  entity' = Answered(c)
  <2>1. Commit(c)
    BY <1>1, OnlyCommitCommits
  <2>2. PICK k \in CallState : k = call[c]
    BY <1>1, CallIsHeld
  <2>3. entity' = AnswerOf(k)
    BY <1>1, <2>1, <2>2, CommitOfCurrent
  <2>4. QED
    BY <2>2, <2>3 DEF Answered, AnswerOf
<1>2. Inv /\ [Next]_vars
        => [\A c \in Call :
                call'[c].committed /\ ~call[c].committed /\ call[c].loaded = entity
                    => entity' = Answered(c)]_vars
  BY <1>1, Zenon
<1>3. QED
  BY <1>2, InvHolds, PTL DEF Spec, AnswerIsStored
=============================================================================
