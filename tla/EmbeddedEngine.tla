--------------------------- MODULE EmbeddedEngine ---------------------------
(***************************************************************************)
(* One PersonalizationEngine (sdk/async_client.py) and the database       *)
(* connections its calls share.  Coroutines, or threads of the            *)
(* synchronous client, initialize it, upsert one entity, list and probe   *)
(* it, while it may be closed.  A session takes a connection with its     *)
(* first statement and gives it back when its transaction ends; the audit *)
(* rows of a write are emitted after its commit, in sessions of their own.*)
(***************************************************************************)
EXTENDS Naturals, Sequences, FiniteSets, Functions

Operation == {"upsert_entity", "list", "initialize", "ready"}

CONSTANTS
    Call,           \* calls made of the engine
    OperationsOf,   \* the operations each may be made for
    Transaction,    \* the database's transactions
    TransactionOf,  \* the one each call's statements run in
    Input,          \* what callers upsert: an attributes and a content_text
    Capacity,       \* pool_size + max_overflow
    MaxTime         \* bound: the clock

ASSUME ConstantAssumption ==
    /\ TransactionOf \in [Call -> Transaction]
    /\ Input \subseteq [attributes : STRING, content_text : STRING]
    /\ OperationsOf \in [Call -> SUBSET Operation]
    /\ Capacity \in Nat \ {0}
    /\ MaxTime \in Nat \ {0}

VARIABLES
    schema_initializer, \* the engine was made with one
    initialized, closed, disposed,
    call,       \* what each call is doing
    clock,
    schema,     \* the tables exist
    subject,    \* the subject's row is committed
    entity,     \* the entity's committed row
    work,       \* what each transaction has flushed
    stored,     \* history: calls whose rows were committed
    audits      \* committed audit_log rows

engine == <<schema_initializer, initialized, closed, disposed>>
database == <<schema, subject, entity, work, stored, audits>>
vars == <<engine, call, clock, database>>

\* A row is a function from its columns; without columns there is none.
NoRow == [column \in {} |-> 0]

Overlay(changes, row) ==
    [column \in DOMAIN changes \cup DOMAIN row |->
        IF column \in DOMAIN changes THEN changes[column] ELSE row[column]]

\* entity_content_digest
Digest(input) == <<input.attributes, input.content_text>>

\* build_entity for a new row, merge_entity for a row that was found: what the
\* caller is answered.
Answer(input, seen, now) ==
    [attributes |-> input.attributes, content_text |-> input.content_text,
     content_hash |-> Digest(input),
     first_seen_at |-> IF seen = NoRow THEN now ELSE seen.first_seen_at,
     last_seen_at |-> now]

\* due: the audit events of a committed write; sent: how many are emitted.
Fresh == [phase |-> "idle", op |-> "list", input |-> NoRow, conn |-> "none",
          new_subject |-> FALSE, seen |-> NoRow, loaded |-> NoRow, now |-> 0,
          committed |-> FALSE, due |-> <<>>, sent |-> 0]

\* A call that has left its unit of work needs what it read no longer.
Past(k) == [k EXCEPT !.conn = "none", !.input = NoRow, !.new_subject = FALSE,
                     !.seen = NoRow, !.loaded = NoRow, !.now = 0]

Nothing == [subject |-> FALSE, row |-> NoRow, writers |-> {}]

Become(c, k) == call' = [call EXCEPT ![c] = k]
Goes(c, phase) == Become(c, [call[c] EXCEPT !.phase = phase])

\* Mutant: one session for all calls, as with the pool of an in-memory SQLite
\* database.
TxShared(c) == CHOOSE t \in Transaction : TRUE

Tx(c) == TransactionOf[c]

InUse == {c \in Call : call[c].conn = "pool"}

SeesSubject(c) == subject \/ work[Tx(c)].subject
SeenRow(c) == Overlay(work[Tx(c)].row, entity)

\* Another transaction has flushed the unique row, or locked it.
SubjectHeld(c) == \E t \in Transaction \ {Tx(c)} : work[t].subject
RowHeld(c) == \E t \in Transaction \ {Tx(c)} : work[t].row # NoRow

\* The transaction of c is committed, or rolled back.
CommitWork(c) ==
    LET w == work[Tx(c)] IN
    /\ subject' = (subject \/ w.subject)
    /\ entity' = Overlay(w.row, entity)
    /\ stored' = stored \cup w.writers
    /\ work' = [work EXCEPT ![Tx(c)] = Nothing]

DiscardWork(c) ==
    /\ work' = [work EXCEPT ![Tx(c)] = Nothing]
    /\ UNCHANGED <<subject, entity, stored>>

\* The session is left: its connection is released.
Leave(c, phase) == Become(c, [Past(call[c]) EXCEPT !.phase = phase])

\* An exception leaves the session before its commit.
Fail(c) ==
    /\ Leave(c, "failed")
    /\ DiscardWork(c)
    /\ UNCHANGED <<engine, clock, schema, audits>>

\* A statement that changes no state but the call's.
Reads(c, k) ==
    /\ Become(c, k)
    /\ UNCHANGED <<engine, clock, database>>

-----------------------------------------------------------------------------
(* The facade: _ensure_open, then the service.                             *)

Begin(c, op, input) ==
    /\ call[c].phase = "idle"
    /\ op = "initialize" => closed \/ initialized \/ schema_initializer
    /\ Reads(c, [Fresh EXCEPT !.op = op, !.input = input, !.phase =
                    IF closed /\ op # "ready" THEN "failed"
                    ELSE IF op = "initialize" /\ initialized THEN "answered"
                    ELSE "connect"])

\* initialize without a schema initializer: the engine counts as initialized,
\* and the database was not asked for its tables.
InitializeOnly(c) ==
    /\ call[c].phase = "idle"
    /\ ~closed /\ ~initialized /\ ~schema_initializer
    /\ initialized' = TRUE
    /\ Become(c, [Fresh EXCEPT !.op = "initialize", !.phase = "answered"])
    /\ UNCHANGED <<schema_initializer, closed, disposed, clock, database>>

\* The first statement of a session takes a connection, or opens one.
Connect(c) ==
    /\ call[c].phase = "connect"
    /\ Cardinality(InUse) < Capacity
    /\ Become(c, [call[c] EXCEPT !.conn = "pool", !.phase =
                    IF call[c].committed THEN "audit"
                    ELSE CASE call[c].op = "upsert_entity" -> "lookup"
                           [] call[c].op = "list" -> "list"
                           [] call[c].op = "initialize" -> "inspect"
                           [] OTHER -> "probe"])
    /\ UNCHANGED <<engine, clock, database>>

\* pool_timeout; probe_database answers FALSE, everything else raises.
PoolTimeout(c) ==
    /\ call[c].phase = "connect"
    /\ Cardinality(InUse) = Capacity
    /\ Reads(c, [Past(call[c]) EXCEPT !.phase =
                    IF call[c].op = "ready" THEN "answered" ELSE "failed"])

-----------------------------------------------------------------------------
(* initialize and close.                                                   *)

\* Mutant: the flag is set before the initializer is awaited.
InspectInitialized(c) ==
    /\ call[c].phase = "inspect"
    /\ initialized' = TRUE
    /\ IF schema THEN Leave(c, "answered") ELSE Goes(c, "create_all")
    /\ UNCHANGED <<schema_initializer, closed, disposed, clock, database>>

\* create_all asks for the tables first.
Inspect(c) ==
    /\ call[c].phase = "inspect"
    /\ IF schema
       THEN /\ Leave(c, "answered")
            /\ initialized' = TRUE
            /\ UNCHANGED <<schema_initializer, closed, disposed, clock, database>>
       ELSE /\ Goes(c, "create_all")
            /\ UNCHANGED <<engine, clock, database>>

\* The tables may have been created since.
CreateAll(c) ==
    /\ call[c].phase = "create_all"
    /\ IF schema THEN Fail(c)
       ELSE /\ schema' = TRUE /\ initialized' = TRUE
            /\ Leave(c, "answered")
            /\ UNCHANGED <<schema_initializer, closed, disposed, clock, subject, entity, work, stored, audits>>

Close ==
    /\ ~closed
    /\ closed' = TRUE
    /\ UNCHANGED <<schema_initializer, initialized, disposed, call, clock, database>>

\* The idle connections are closed; those that are out belong to no pool from
\* now on, and a new pool takes the place of the old one.  (The pool that
\* from_components was given is its caller's to dispose of.)
Dispose ==
    /\ closed /\ ~disposed
    /\ disposed' = TRUE
    /\ call' = [c \in Call |-> IF c \in InUse THEN [call[c] EXCEPT !.conn = "detached"]
                                              ELSE call[c]]
    /\ UNCHANGED <<schema_initializer, initialized, closed, clock, database>>

-----------------------------------------------------------------------------
(* upsert_entity                                                           *)

\* subjects.get_by_ref, for the audit.
Lookup(c) ==
    /\ call[c].phase = "lookup"
    /\ IF ~schema THEN Fail(c)
       ELSE Reads(c, [call[c] EXCEPT !.phase = "ensure", !.new_subject = ~SeesSubject(c)])

\* ensure_in_uow asks again.
Ensure(c) ==
    /\ call[c].phase = "ensure"
    /\ Reads(c, [call[c] EXCEPT !.phase = IF SeesSubject(c) THEN "find" ELSE "add_subject"])

AddSubject(c) ==
    /\ call[c].phase = "add_subject"
    /\ ~SubjectHeld(c)
    /\ IF SeesSubject(c) THEN Fail(c)
       ELSE /\ work' = [work EXCEPT ![Tx(c)].subject = TRUE]
            /\ Goes(c, "find")
            /\ UNCHANGED <<engine, clock, schema, subject, entity, stored, audits>>

\* Mutant: the clock is read before the entity is looked up.
FindAfterClock(c) ==
    /\ call[c].phase = "find"
    /\ Reads(c, IF call[c].now = 0
                THEN [call[c] EXCEPT !.now = clock]
                ELSE [call[c] EXCEPT !.seen = SeenRow(c), !.phase =
                        IF SeenRow(c) = NoRow THEN "add" ELSE "load"])

\* entities.get_by_ref, then the clock.
Find(c) ==
    /\ call[c].phase = "find"
    /\ Reads(c, [call[c] EXCEPT !.seen = SeenRow(c), !.now = clock,
                                !.phase = IF SeenRow(c) = NoRow THEN "add" ELSE "load"])

Flushed(c, changes) ==
    /\ work' = [work EXCEPT ![Tx(c)].row = Overlay(changes, @),
                            ![Tx(c)].writers = @ \cup {c}]
    /\ Goes(c, "commit")
    /\ UNCHANGED <<engine, clock, schema, subject, entity, stored, audits>>

Answered(c) == Answer(call[c].input, call[c].seen, call[c].now)

\* Mutant: no unique constraint on the entity's reference.
AddTwice(c) ==
    /\ call[c].phase = "add"
    /\ ~RowHeld(c)
    /\ Flushed(c, Answered(c))

Add(c) ==
    /\ call[c].phase = "add"
    /\ ~RowHeld(c)
    /\ IF SeenRow(c) # NoRow THEN Fail(c) ELSE Flushed(c, Answered(c))

\* entities.update loads the row again.
Load(c) ==
    /\ call[c].phase = "load"
    /\ Reads(c, [call[c] EXCEPT !.phase = "update", !.loaded = SeenRow(c)])

\* Mutant: the digest is not among the columns that are written.
ChangedButHash(c) ==
    {column \in DOMAIN Answered(c) \ {"content_hash"} :
        Answered(c)[column] # call[c].loaded[column]}

\* The flush writes the columns that differ from the row as it was loaded.
Changed(c) ==
    {column \in DOMAIN Answered(c) : Answered(c)[column] # call[c].loaded[column]}

Update(c) ==
    /\ call[c].phase = "update"
    /\ Changed(c) = {} \/ ~RowHeld(c)
    /\ Flushed(c, [column \in Changed(c) |-> Answered(c)[column]])

\* The audit events of a write.
Due(c) ==
    (IF call[c].new_subject THEN <<"create subject">> ELSE <<>>)
        \o <<IF call[c].seen = NoRow THEN "create entity" ELSE "update entity">>

\* Mutant: the audit events are emitted inside the unit of work.
CommitAfterAudit(c) ==
    /\ call[c].phase = "commit"
    /\ CommitWork(c)
    /\ Become(c, [Past(call[c]) EXCEPT !.phase = "connect", !.committed = TRUE,
                                       !.due = Due(c), !.conn = call[c].conn])
    /\ UNCHANGED <<engine, clock, schema, audits>>

Commit(c) ==
    /\ call[c].phase = "commit"
    /\ CommitWork(c)
    /\ Become(c, [Past(call[c]) EXCEPT !.phase = "connect", !.committed = TRUE,
                                       !.due = Due(c)])
    /\ UNCHANGED <<engine, clock, schema, audits>>

\* SQLAlchemyAuditSink.emit
Audit(c) ==
    LET n == call[c].sent + 1 IN
    /\ call[c].phase = "audit"
    /\ audits' = IF SeesSubject(c)
                 THEN audits \cup {[call |-> c, action |-> call[c].due[n]]}
                 ELSE audits
    /\ CommitWork(c)
    /\ Become(c, [call[c] EXCEPT !.sent = n, !.conn = "none", !.phase =
                    IF n = Len(call[c].due) THEN "answered" ELSE "connect"])
    /\ UNCHANGED <<engine, clock, schema>>

-----------------------------------------------------------------------------

\* Mutant: what goes wrong after the commit is not the caller's business.
AuditLost(c) ==
    /\ call[c].conn # "none"
    /\ Become(c, [Past(call[c]) EXCEPT !.phase = IF call[c].committed THEN "answered"
                                                                     ELSE "failed"])
    /\ DiscardWork(c)
    /\ UNCHANGED <<engine, clock, schema, audits>>

\* The database drops the connection: the statement under way raises.
ConnectionLost(c) ==
    /\ call[c].conn # "none"
    /\ Become(c, [Past(call[c]) EXCEPT !.phase = "failed"])
    /\ DiscardWork(c)
    /\ UNCHANGED <<engine, clock, schema, audits>>

\* A read only unit of work ends with a rollback.
List(c) ==
    /\ call[c].phase = "list"
    /\ Leave(c, IF schema THEN "answered" ELSE "failed")
    /\ DiscardWork(c)
    /\ UNCHANGED <<engine, clock, schema, audits>>

\* probe_database
Probe(c) ==
    /\ call[c].phase = "probe"
    /\ Leave(c, "answered")
    /\ DiscardWork(c)
    /\ UNCHANGED <<engine, clock, schema, audits>>

Tick ==
    /\ clock < MaxTime
    /\ clock' = clock + 1
    /\ UNCHANGED <<engine, call, database>>

\* A database may hold the tables already, and the subject.  Only from_sqlite
\* gives the engine a schema initializer; from_database, from_postgres and
\* from_components leave the tables to the migrations.
Init ==
    /\ schema_initializer \in BOOLEAN
    /\ initialized = FALSE /\ closed = FALSE /\ disposed = FALSE
    /\ call = [c \in Call |-> Fresh]
    /\ clock = 1
    /\ schema \in BOOLEAN
    /\ subject \in BOOLEAN /\ (subject => schema)
    /\ entity = NoRow
    /\ work = [t \in Transaction |-> Nothing]
    /\ stored = {} /\ audits = {}

Step(c) ==
    \/ Connect(c) \/ Inspect(c) \/ CreateAll(c)
    \/ Lookup(c) \/ Ensure(c) \/ AddSubject(c) \/ Find(c)
    \/ Add(c) \/ Load(c) \/ Update(c) \/ Commit(c) \/ Audit(c)
    \/ List(c) \/ Probe(c)

Start(c) ==
    \/ \E op \in OperationsOf[c] :
        \E input \in IF op = "upsert_entity" THEN Input ELSE {NoRow} : Begin(c, op, input)
    \/ "initialize" \in OperationsOf[c] /\ InitializeOnly(c)

Next ==
    \/ \E c \in Call : Start(c) \/ Step(c) \/ PoolTimeout(c) \/ ConnectionLost(c)
    \/ Close \/ Dispose \/ Tick

Spec == Init /\ [][Next]_vars

\* The event loop goes on with some call that can go on.  No more is needed: a
\* call takes finitely many steps.
FairSpec == Spec /\ WF_vars(\E c \in Call : Step(c))

-----------------------------------------------------------------------------

Columns == {"attributes", "content_text", "content_hash", "first_seen_at", "last_seen_at"}
Phase == {"idle", "connect", "inspect", "create_all", "lookup", "ensure", "add_subject",
          "find", "add", "load", "update", "commit", "audit", "list", "probe",
          "answered", "failed"}

\* Every variable has its type, the pool is never larger than configured, only
\* a call with a connection has work flushed, and an engine with a schema
\* initializer that counts as initialized has its tables.
TypeOK ==
    /\ schema_initializer \in BOOLEAN
    /\ initialized \in BOOLEAN /\ closed \in BOOLEAN /\ disposed \in BOOLEAN
    /\ clock \in 1..MaxTime
    /\ Cardinality(InUse) <= Capacity
    /\ DOMAIN entity \in {{}, Columns}
    /\ \A c \in Call : /\ call[c].phase \in Phase
                       /\ call[c].conn \in {"none", "pool", "detached"}
                       /\ call[c].phase = "commit" => call[c].conn # "none"
    /\ stored \subseteq Call
    /\ audits \subseteq [call: Call, action: {"create subject", "create entity", "update entity"}]
    /\ schema_initializer /\ initialized => schema

\* A unit of work is all or nothing: an upsert whose commit returned is in the
\* database, and one that failed before left nothing of it there, whatever the
\* sessions beside it commit or roll back (sqlalchemy_uow.py:135).
CommittedIsStored ==
    \A c \in Call : call[c].op = "upsert_entity" => (call[c].committed <=> c \in stored)

\* docs/privacy.md:44: the audit log has what was done and nothing else.  No
\* row is there for a write that was not committed, an answered write has all
\* of its rows, and only one call is logged as the one that created the entity.
AuditedAsStored ==
    /\ \A a \in audits : a.call \in stored
    /\ \A c \in Call :
        call[c].op = "upsert_entity" /\ call[c].phase = "answered"
            => {a.action : a \in {b \in audits : b.call = c}} = Range(call[c].due)
    /\ Cardinality({a \in audits : a.action = "create entity"}) <= 1

\* first_seen_at is set once and never lies after last_seen_at, although calls
\* read the clock at one time and write at another.
SeenInOrder ==
    [][entity' # entity =>
        /\ entity'.first_seen_at <= entity'.last_seen_at
        /\ entity # NoRow => entity'.first_seen_at = entity.first_seen_at]_vars

\* What upsert_entity answers is what it stored, unless another upsert was
\* committed between its reading of the row and its own commit.
AnswerIsStored ==
    [][\A c \in Call :
        call'[c].committed /\ ~call[c].committed /\ call[c].loaded = entity
            => entity' = Answered(c)]_vars

\* Every call ends: a connection is never held while another one is waited
\* for, however small the pool.
CallsEnd == <>[](\A c \in Call : call[c].phase \in {"idle", "answered", "failed"})

\* plan.md:315: content_hash tells whether the content must be processed again.
HashTracksContent ==
    entity # NoRow => entity.content_hash = Digest(entity)

\* One call is logged as the one that created the subject.
SubjectCreatedOnce == Cardinality({a \in audits : a.action = "create subject"}) <= 1

\* docs/phase17.md:13: closing releases the pool, so that no connection is
\* opened in the one that takes its place, which nothing disposes of.
PoolReleased == disposed => InUse = {}
=============================================================================
