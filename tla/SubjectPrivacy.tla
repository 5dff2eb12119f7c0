--------------------------- MODULE SubjectPrivacy ---------------------------
(***************************************************************************)
(* The life of one subject: created by its first write, soft deleted,     *)
(* purged and created again, while requests of several server processes   *)
(* write, export and resolve contexts (application/subject_service.py,    *)
(* context_service.py).  The purge tokens and the full-text index live in *)
(* the memory of a process.  What was done is written to an audit log     *)
(* afterwards, in a transaction of its own.                                *)
(***************************************************************************)
EXTENDS Naturals, FiniteSets

CONSTANTS
    Process,    \* server processes
    Task,       \* requests in flight
    Home,       \* the process that serves each request
    Doc,        \* memories that callers write
    Token,      \* purge tokens that are ever issued
    MaxGen      \* bound: times the subject is created

ASSUME ConstantAssumption == Home \in [Task -> Process] /\ MaxGen \in Nat

VARIABLES
    subject,    \* its row, and which creation of it the row is
    rows,       \* committed memory rows
    purged,     \* history: rows that a purge removed
    audits,     \* audit_log: the subject row each row refers to, and that it tells of
    purge_log,  \* purge_audit_log: what the purges that left a row purged
    index,      \* the documents in the full-text index of each process
    tokens,     \* purge tokens held by each process
    issued,     \* history: tokens given out
    task        \* what each request is doing

database == <<subject, rows, purged, audits, purge_log>>
memory == <<index, tokens, issued>>
vars == <<database, memory, task>>

Gen == 0..MaxGen
Row == [doc: Doc, gen: Gen]

\* gen is the subject row that the request is about; pk the one its audit row
\* will refer to; read holds the rows read; since is what had been purged, or
\* stored, when the request began.
Request == [phase: {"idle", "insert", "commit", "mark", "check", "recheck", "select",
                    "purge", "deindex", "purged", "list", "upsert", "reload", "served",
                    "pages", "exported", "emit", "log"},
            doc: Doc \cup {"none"}, gen: Gen, new: BOOLEAN, left: SUBSET Doc,
            read: SUBSET Row, since: SUBSET Row,
            pk: Gen, answer: {"idle", "purged", "served", "exported"}]

Idle == [phase |-> "idle", doc |-> "none", gen |-> 0, new |-> FALSE, left |-> {},
         read |-> {}, since |-> {}, pk |-> 0, answer |-> "idle"]

Become(t, q) == task' = [task EXCEPT ![t] = q]
Goes(t, phase) == Become(t, [task[t] EXCEPT !.phase = phase])

\* The work is done; the caller is answered once its audit row is written.
Emits(q, answer) == [q EXCEPT !.phase = "emit", !.answer = answer]

\* The rows the repositories show: none without a live subject.
Visible == IF subject.state = "live" THEN rows ELSE {}

-----------------------------------------------------------------------------
(* A write: ensure_in_uow, the insert and the commit.                      *)

BeginWrite(t, d) ==
    LET new == subject.state = "none" IN
    /\ task[t].phase = "idle"
    /\ subject.state # "deleted"
    /\ new => subject.gen < MaxGen
    /\ Become(t, [Idle EXCEPT !.phase = IF new THEN "commit" ELSE "insert", !.doc = d,
                              !.gen = IF new THEN subject.gen + 1 ELSE subject.gen,
                              !.new = new])
    /\ UNCHANGED <<database, memory>>

\* _subject_pk finds the live row of this moment, or the write is refused.
Insert(t) ==
    /\ task[t].phase = "insert"
    /\ Become(t, IF subject.state = "live"
                 THEN [task[t] EXCEPT !.phase = "commit", !.gen = subject.gen]
                 ELSE Idle)
    /\ UNCHANGED <<database, memory>>

\* A new subject row is refused when another was committed first.  What
\* create_or_get_subject then does is read that one and return it.
CommitWrite(t) ==
    LET q == task[t] IN
    /\ q.phase = "commit"
    /\ IF q.new /\ (subject.state # "none" \/ subject.gen # q.gen - 1)
       THEN UNCHANGED <<subject, rows>> /\ Become(t, Idle)
       ELSE /\ subject' = IF q.new THEN [state |-> "live", gen |-> q.gen] ELSE subject
            /\ rows' = rows \cup {[doc |-> q.doc, gen |-> q.gen]}
            /\ Become(t, Emits([Idle EXCEPT !.gen = q.gen], "idle"))
    /\ UNCHANGED <<purged, audits, purge_log, memory>>

\* soft_delete_subject
BeginDelete(t) ==
    /\ task[t].phase = "idle"
    /\ subject.state = "live"
    /\ Become(t, [Idle EXCEPT !.phase = "mark", !.gen = subject.gen])
    /\ UNCHANGED <<database, memory>>

\* The row that was read is marked, or gone.
SoftDelete(t) ==
    /\ task[t].phase = "mark"
    /\ IF subject.state # "none" /\ subject.gen = task[t].gen
       THEN /\ subject' = [subject EXCEPT !.state = "deleted"]
            /\ Become(t, Emits(task[t], "idle"))
       ELSE UNCHANGED subject /\ Become(t, Idle)
    /\ UNCHANGED <<rows, purged, audits, purge_log, memory>>

-----------------------------------------------------------------------------
(* The purge.                                                              *)

\* Mutant: the same token is given out by another process as well.
IssueAgain(p, k) ==
    /\ subject.state = "live"
    /\ tokens' = [tokens EXCEPT ![p] = @ \cup {k}]
    /\ issued' = issued \cup {k}
    /\ UNCHANGED <<database, index, task>>

\* issue_purge_token: random, so never one given out before.
IssueToken(p, k) ==
    /\ subject.state = "live"
    /\ k \notin issued
    /\ tokens' = [tokens EXCEPT ![p] = @ \cup {k}]
    /\ issued' = issued \cup {k}
    /\ UNCHANGED <<database, index, task>>

ExpireToken(p, k) ==
    /\ k \in tokens[p]
    /\ tokens' = [tokens EXCEPT ![p] = @ \ {k}]
    /\ UNCHANGED <<database, index, issued, task>>

\* consume: the token is gone, whatever becomes of the purge.
BeginPurge(t, k) ==
    /\ task[t].phase = "idle"
    /\ k \in tokens[Home[t]]
    /\ tokens' = [tokens EXCEPT ![Home[t]] = @ \ {k}]
    /\ Become(t, [Idle EXCEPT !.phase = "check"])
    /\ UNCHANGED <<database, index, issued>>

\* The subject is looked up after the token is consumed, and again in the unit
\* of work of the purge.
CheckSubject(t) ==
    /\ task[t].phase \in {"check", "recheck"}
    /\ Become(t, IF subject.state = "none" THEN Idle
                 ELSE IF task[t].phase = "check" THEN [task[t] EXCEPT !.phase = "recheck"]
                 ELSE [task[t] EXCEPT !.phase = "select"])
    /\ UNCHANGED <<database, memory>>

\* uow.purge_subject asks for its key; without one it returns, and the request
\* goes on as after a purge.
SelectSubject(t) ==
    /\ task[t].phase = "select"
    /\ Become(t, IF subject.state = "none" THEN [task[t] EXCEPT !.phase = "deindex"]
                 ELSE [task[t] EXCEPT !.phase = "purge", !.gen = subject.gen])
    /\ UNCHANGED <<database, memory>>

\* Mutant: rows that are being inserted do not hold the subject's row.
WritersUnlocked(gen) == {}

\* Flushed rows hold the subject's row by their foreign key.
Writers(gen) == {t \in Task : task[t].phase = "commit" /\ ~task[t].new /\ task[t].gen = gen}

\* The statements of uow.purge_subject, which take effect together; those of
\* another purge may have come first.
PurgeRows(t) ==
    LET gone == task[t].gen
        mine == {r \in rows : r.gen = gone} IN
    /\ task[t].phase = "purge"
    /\ Writers(gone) = {}
    /\ subject' = IF subject.gen = gone THEN [subject EXCEPT !.state = "none"] ELSE subject
    /\ rows' = rows \ mine
    /\ purged' = purged \cup mine
    /\ audits' = {a \in audits : a.pk # gone}
    /\ Goes(t, "deindex")
    /\ UNCHANGED <<purge_log, memory>>

\* A row that refers to an event or an evidence with NO ACTION was committed
\* between the statements: the transaction rolls back, the token is used up.
PurgeRefused(t) ==
    /\ task[t].phase = "purge"
    /\ Become(t, Idle)
    /\ UNCHANGED <<database, memory>>

\* _delete_index, for the index of the process that purges.
Deindex(t) ==
    /\ task[t].phase = "deindex"
    /\ index' = [index EXCEPT ![Home[t]] = {}]
    /\ Become(t, Emits(task[t], "purged"))
    /\ UNCHANGED <<database, tokens, issued>>

\* The index or the retention hook raises: the error reaches the caller, the
\* token is used up and without a subject no other is issued.
CleanupFails(t) ==
    /\ task[t].phase = "deindex"
    /\ Become(t, Idle)
    /\ UNCHANGED <<database, memory>>

-----------------------------------------------------------------------------
(* resolve_context, as far as it touches rows and index.                   *)

BeginContext(t) ==
    /\ task[t].phase = "idle"
    /\ subject.state = "live"
    /\ Become(t, [Idle EXCEPT !.phase = "list", !.gen = subject.gen, !.since = purged])
    /\ UNCHANGED <<database, memory>>

ListMemories(t) ==
    /\ task[t].phase = "list"
    /\ Become(t, [task[t] EXCEPT !.phase = "upsert", !.read = Visible])
    /\ UNCHANGED <<database, memory>>

Upsert(t) ==
    /\ task[t].phase = "upsert"
    /\ index' = [index EXCEPT ![Home[t]] = @ \cup task[t].read]
    /\ Goes(t, "reload")
    /\ UNCHANGED <<database, tokens, issued>>

\* Mutant: what the index holds is served.
ServeIndexed(t) ==
    /\ task[t].phase = "reload"
    /\ Become(t, Emits([task[t] EXCEPT !.read = index[Home[t]]], "served"))
    /\ UNCHANGED <<database, memory>>

\* Every candidate is loaded again from its own row.
Reload(t) ==
    /\ task[t].phase = "reload"
    /\ Become(t, Emits([task[t] EXCEPT !.read = @ \cap Visible], "served"))
    /\ UNCHANGED <<database, memory>>

-----------------------------------------------------------------------------
(* export_subject: one statement after the other.                          *)

BeginExport(t) ==
    /\ task[t].phase = "idle"
    /\ subject.state = "live"
    /\ Become(t, [Idle EXCEPT !.phase = "pages", !.gen = subject.gen, !.left = Doc,
                              !.since = rows])
    /\ UNCHANGED <<database, memory>>

ReadPage(t, d) ==
    LET q == [task[t] EXCEPT !.left = @ \ {d},
                             !.read = @ \cup {r \in Visible : r.doc = d}] IN
    /\ q.phase = "pages"
    /\ d \in task[t].left
    /\ Become(t, IF q.left = {} THEN Emits(q, "exported") ELSE q)
    /\ UNCHANGED <<database, memory>>

-----------------------------------------------------------------------------
(* SQLAlchemyAuditSink.emit, in a session of its own after the commit.     *)

Answered(t) == Become(t, [task[t] EXCEPT !.phase = task[t].answer, !.pk = 0,
                                         !.gen = IF task[t].answer = "idle" THEN 0 ELSE @,
                                         !.answer = "idle"])

\* The subject is looked up, soft deleted or not.  Without one only a purge is
\* logged.
FindSubject(t) ==
    /\ task[t].phase = "emit"
    /\ IF subject.state = "none" /\ task[t].answer # "purged" THEN Answered(t)
       ELSE Become(t, [task[t] EXCEPT !.phase = "log",
                                      !.pk = IF subject.state = "none" THEN 0 ELSE subject.gen])
    /\ UNCHANGED <<database, memory>>

\* Mutant: audit rows have no foreign key to the subject.
LogAnyway(t) ==
    /\ task[t].phase = "log"
    /\ audits' = audits \cup {[pk |-> task[t].pk, of |-> task[t].gen]}
    /\ Answered(t)
    /\ UNCHANGED <<subject, rows, purged, purge_log, memory>>

\* The row of the subject is still there, or the insert is refused and the
\* caller told that it failed.
Log(t) ==
    LET q == task[t] IN
    /\ q.phase = "log" /\ q.pk # 0
    /\ IF subject.state # "none" /\ subject.gen = q.pk
       THEN audits' = audits \cup {[pk |-> q.pk, of |-> q.gen]} /\ Answered(t)
       ELSE UNCHANGED audits /\ Become(t, Idle)
    /\ UNCHANGED <<subject, rows, purged, purge_log, memory>>

LogPurge(t) ==
    /\ task[t].phase = "log" /\ task[t].pk = 0
    /\ purge_log' = purge_log \cup {task[t].gen}
    /\ Answered(t)
    /\ UNCHANGED <<subject, rows, purged, audits, memory>>

-----------------------------------------------------------------------------

Return(t) ==
    /\ task[t].phase \in {"purged", "served", "exported"}
    /\ Become(t, Idle)
    /\ UNCHANGED <<database, memory>>

\* The process stops: its requests, tokens and index are gone.
Crash(p) ==
    /\ task' = [t \in Task |-> IF Home[t] = p THEN Idle ELSE task[t]]
    /\ index' = [index EXCEPT ![p] = {}]
    /\ tokens' = [tokens EXCEPT ![p] = {}]
    /\ UNCHANGED <<database, issued>>

Init ==
    /\ subject = [state |-> "none", gen |-> 0]
    /\ rows = {} /\ purged = {}
    /\ audits = {} /\ purge_log = {}
    /\ index = [p \in Process |-> {}]
    /\ tokens = [p \in Process |-> {}]
    /\ issued = {}
    /\ task = [t \in Task |-> Idle]

Step(t) ==
    \/ Insert(t) \/ CommitWrite(t) \/ SoftDelete(t)
    \/ CheckSubject(t) \/ SelectSubject(t) \/ PurgeRows(t) \/ PurgeRefused(t)
    \/ Deindex(t) \/ CleanupFails(t)
    \/ ListMemories(t) \/ Upsert(t) \/ Reload(t)
    \/ \E d \in Doc : ReadPage(t, d)
    \/ FindSubject(t) \/ Log(t) \/ LogPurge(t)
    \/ Return(t)

Begin(t) ==
    \/ BeginDelete(t) \/ BeginContext(t) \/ BeginExport(t)
    \/ \E d \in Doc : BeginWrite(t, d)
    \/ \E k \in Token : BeginPurge(t, k)

Next ==
    \/ \E p \in Process, k \in Token : IssueToken(p, k) \/ ExpireToken(p, k)
    \/ \E t \in Task : Begin(t) \/ Step(t)
    \/ \E p \in Process : Crash(p)

Spec == Init /\ [][Next]_vars

-----------------------------------------------------------------------------

\* Every variable has its type, and a token can be used with one process only.
TypeOK ==
    /\ subject \in [state: {"none", "live", "deleted"}, gen: Gen]
    /\ rows \subseteq Row /\ purged \subseteq Row
    /\ audits \subseteq [pk: Gen, of: Gen] /\ purge_log \subseteq Gen
    /\ index \in [Process -> SUBSET Row]
    /\ tokens \in [Process -> SUBSET Token] /\ issued \subseteq Token
    /\ task \in [Task -> Request]
    /\ \A p, q \in Process : p # q => tokens[p] \cap tokens[q] = {}

\* docs/privacy.md:36: the database purge is one transaction.  No row survives
\* the subject it was written for, nor passes to one created later, whatever
\* writes were under way; and docs/privacy.md:46: nor does an audit row.
RowsBelongToSubject ==
    /\ \A r \in rows : subject.state # "none" /\ r.gen = subject.gen
    /\ \A a \in audits : subject.state # "none" /\ a.pk = subject.gen

\* Reloading protects against stale index entries: a context never shows what
\* had been purged when the request began, although the index may hold it.
PurgedNotServed ==
    \A t \in Task : task[t].phase = "served" => task[t].read \cap task[t].since = {}

\* docs/privacy.md:18: purge removes the scope from the full-text index.
NoIndexResidue ==
    (\E t \in Task : task[t].phase = "purged")
        /\ (\A t \in Task : task[t].phase \in {"idle", "purged"})
    => \A p \in Process : index[p] \cap purged = {}

\* docs/privacy.md:46: a subject's audit rows tell of that subject.
AuditsTellOfSubject == \A a \in audits : a.of = a.pk

\* docs/privacy.md:47: a purge that was answered left its row in purge_audit_log.
PurgeLeavesRecord ==
    \A t \in Task : task[t].phase = "purged" => task[t].gen \in purge_log

\* docs/privacy.md:60: an export returns what is needed to rebuild the derived
\* data, so at least all that was stored when it began.
ExportIsWhole ==
    \A t \in Task : task[t].phase = "exported" => task[t].since \subseteq task[t].read
=============================================================================
