----------------------- MODULE SubjectPrivacy_proofs -----------------------
(***************************************************************************)
(* What a purge leaves behind, for any number of processes, requests,     *)
(* memories, tokens and creations of the subject: nothing that passes to a *)
(* later subject, and nothing that a context still shows.                  *)
(***************************************************************************)
EXTENDS SubjectPrivacy, TLAPS

\* A write has flushed its row: it holds the row of its subject.
Holds(q) == q.phase = "commit" /\ ~q.new

\* A context is under way, or has reloaded its candidates.
Lists(q) == q.phase \in {"list", "upsert", "reload"}
Serves(q) ==
    \/ q.phase = "served"
    \/ q.phase \in {"emit", "log"} /\ q.answer = "served"

\* A write has its memory, and the subject that a flushed row refers to is
\* there; a context keeps what had been purged when it began, and shows none of
\* it once it has reloaded.
Fits(q) ==
    /\ q.phase \in {"insert", "commit"} => q.doc \in Doc
    /\ Holds(q) => subject.state # "none" /\ subject.gen = q.gen
    /\ Lists(q) => q.since \subseteq purged
    /\ Serves(q) => q.read \cap q.since = {}

\* What was purged belongs to a creation of the subject that is over.
PurgedIsPast ==
    \A r \in purged :
        /\ r.gen <= subject.gen
        /\ subject.state # "none" => r.gen < subject.gen

\* A token that is held was given out.
TokensIssued == \A p \in Process : tokens[p] \subseteq issued

Inv ==
    /\ TypeOK /\ TokensIssued
    /\ RowsBelongToSubject /\ PurgedIsPast
    /\ \A t \in Task : Fits(task[t])

-----------------------------------------------------------------------------

LEMMA IdleIsRequest == Idle \in Request
  BY ConstantAssumption DEF Idle, Request, Gen

LEMMA IdleFits == Fits(Idle)
  BY DEF Idle, Fits, Holds, Lists, Serves

LEMMA Initially == Init => Inv
  BY ConstantAssumption, IdleIsRequest, IdleFits
  DEF Init, Inv, TypeOK, TokensIssued, RowsBelongToSubject, PurgedIsPast, Gen

\* A step that changes nothing but one request.
LEMMA Local ==
  ASSUME Inv, UNCHANGED <<database, memory>>,
         NEW t \in Task, NEW q \in Request, Fits(q), Become(t, q)
  PROVE  Inv'
  BY DEF Inv, TypeOK, TokensIssued, RowsBelongToSubject, PurgedIsPast, Fits, Become,
         database, memory

\* A step that changes one request and the memory of a process, whose tokens
\* are still good.
LEMMA InProcess ==
  ASSUME Inv, UNCHANGED database, TypeOK', TokensIssued',
         NEW t \in Task, NEW q \in Request, Fits(q), Become(t, q)
  PROVE  Inv'
  BY DEF Inv, TypeOK, RowsBelongToSubject, PurgedIsPast, Fits, Become, database

-----------------------------------------------------------------------------
(* Writes.                                                                 *)

LEMMA BeginWriteStep ==
  ASSUME Inv, NEW t \in Task, NEW d \in Doc, BeginWrite(t, d)
  PROVE  Inv'
<1> DEFINE new == subject.state = "none"
<1>1. CASE new
  <2> DEFINE r == [Idle EXCEPT !.phase = "commit", !.doc = d, !.gen = subject.gen + 1,
                               !.new = TRUE]
  <2>1. subject.gen + 1 \in Gen
    BY <1>1, ConstantAssumption DEF Inv, TypeOK, BeginWrite, Gen
  <2>2. r \in Request /\ Fits(r)
    BY <2>1, IdleIsRequest DEF Request, Fits, Holds, Lists, Serves
  <2>3. Become(t, r)
    BY <1>1 DEF BeginWrite
  <2> QED  BY <2>2, <2>3, Local DEF BeginWrite
<1>2. CASE ~new
  <2> DEFINE r == [Idle EXCEPT !.phase = "insert", !.doc = d, !.gen = subject.gen,
                               !.new = FALSE]
  <2>1. subject.gen \in Gen
    BY DEF Inv, TypeOK
  <2>2. r \in Request /\ Fits(r)
    BY <2>1, IdleIsRequest DEF Request, Fits, Holds, Lists, Serves
  <2>3. Become(t, r)
    BY <1>2 DEF BeginWrite
  <2> QED  BY <2>2, <2>3, Local DEF BeginWrite
<1> QED  BY <1>1, <1>2

LEMMA InsertStep ==
  ASSUME Inv, NEW t \in Task, Insert(t)
  PROVE  Inv'
<1>1. CASE subject.state = "live"
  <2> DEFINE r == [task[t] EXCEPT !.phase = "commit", !.gen = subject.gen]
  <2>1. /\ task[t] \in Request /\ task[t].phase = "insert" /\ task[t].doc \in Doc
        /\ subject.gen \in Gen
    BY DEF Inv, TypeOK, Insert, Fits
  <2>2. r \in Request /\ r.phase = "commit" /\ r.gen = subject.gen /\ r.doc \in Doc
    BY <2>1 DEF Request
  <2>3. Fits(r)
    BY <2>2, <1>1 DEF Fits, Holds, Lists, Serves
  <2> QED  BY <1>1, <2>2, <2>3, Local DEF Insert
<1>2. CASE subject.state # "live"
  BY <1>2, IdleIsRequest, IdleFits, Local DEF Insert
<1> QED  BY <1>1, <1>2

LEMMA CommitWriteStep ==
  ASSUME Inv, NEW t \in Task, CommitWrite(t)
  PROVE  Inv'
<1> DEFINE q == task[t]
<1>0. q \in Request /\ q.phase = "commit"
  BY DEF Inv, TypeOK, CommitWrite
<1>1. CASE q.new /\ (subject.state # "none" \/ subject.gen # q.gen - 1)
  BY <1>1, Local, IdleIsRequest, IdleFits DEF CommitWrite, database
<1>2. CASE ~(q.new /\ (subject.state # "none" \/ subject.gen # q.gen - 1))
  <2> DEFINE e == Emits([Idle EXCEPT !.gen = q.gen], "idle")
  <2>1. /\ e \in Request
        /\ e.phase = "emit" /\ ~Holds(e) /\ ~Lists(e) /\ ~Serves(e)
    BY <1>0, IdleIsRequest DEF Emits, Request, Holds, Lists, Serves
  <2>2. /\ subject' = IF q.new THEN [state |-> "live", gen |-> q.gen] ELSE subject
        /\ rows' = rows \cup {[doc |-> q.doc, gen |-> q.gen]}
        /\ Become(t, e)
        /\ UNCHANGED <<purged, audits, purge_log, memory>>
    BY <1>2 DEF CommitWrite
  <2>3. q.new => /\ subject.state = "none" /\ subject.gen = q.gen - 1
                 /\ subject' = [state |-> "live", gen |-> q.gen]
                 /\ rows = {} /\ audits = {}
    BY <1>2, <2>2 DEF Inv, RowsBelongToSubject
  <2>4. ~q.new => UNCHANGED subject /\ subject.state # "none" /\ subject.gen = q.gen
    BY <1>0, <2>2 DEF Inv, Fits, Holds
  <2>5. q.doc \in Doc
    BY <1>0 DEF Inv, Fits
  <2>6. subject' \in [state: {"none", "live", "deleted"}, gen: Gen]
    BY <1>0, <2>2 DEF Inv, TypeOK, Request
  <2>7. RowsBelongToSubject'
    BY <2>2, <2>3, <2>4 DEF Inv, RowsBelongToSubject
  <2>8. PurgedIsPast'
    BY <2>2, <2>3, <2>4, <2>6, ConstantAssumption DEF Inv, TypeOK, PurgedIsPast, Row, Gen
  <2>9. TypeOK' /\ TokensIssued'
    <3>1. [doc |-> q.doc, gen |-> q.gen] \in Row
      BY <1>0, <2>5 DEF Row, Request
    <3>2. rows' \subseteq Row
      BY <2>2, <3>1 DEF Inv, TypeOK
    <3>3. TypeOK'
      BY <2>1, <2>2, <2>6, <3>2 DEF Inv, TypeOK, Become, memory
    <3>4. TokensIssued'
      BY <2>2 DEF Inv, TokensIssued, memory
    <3> QED  BY <3>3, <3>4
  <2>10. \A u \in Task : Fits(task[u])'
    <3>1. Fits(task[t])'
      BY <2>1, <2>2 DEF Inv, TypeOK, Become, Fits, Holds, Lists, Serves
    <3>2. ASSUME NEW u \in Task, u # t PROVE Fits(task[u])'
      <4>1. task'[u] = task[u] /\ purged' = purged /\ Fits(task[u])
        BY <3>2, <2>2 DEF Inv, TypeOK, Become
      <4>2. Holds(task[u]) => UNCHANGED subject
        BY <4>1, <2>3, <2>4 DEF Fits
      <4> QED  BY <4>1, <4>2 DEF Fits, Holds, Lists, Serves
    <3> QED  BY <3>1, <3>2
  <2> QED  BY <2>7, <2>8, <2>9, <2>10 DEF Inv
<1> QED  BY <1>1, <1>2

LEMMA BeginDeleteStep ==
  ASSUME Inv, NEW t \in Task, BeginDelete(t)
  PROVE  Inv'
<1> DEFINE r == [Idle EXCEPT !.phase = "mark", !.gen = subject.gen]
<1>1. r \in Request /\ Fits(r)
  BY IdleIsRequest DEF Inv, TypeOK, Request, Fits, Holds, Lists, Serves
<1> QED  BY <1>1, Local DEF BeginDelete

LEMMA SoftDeleteStep ==
  ASSUME Inv, NEW t \in Task, SoftDelete(t)
  PROVE  Inv'
<1> DEFINE q == task[t]
           e == Emits(q, "idle")
<1>0. q \in Request
  BY DEF Inv, TypeOK
<1>1. CASE subject.state # "none" /\ subject.gen = q.gen
  <2>1. /\ e \in Request
        /\ e.phase = "emit" /\ ~Holds(e) /\ ~Lists(e) /\ ~Serves(e)
    BY <1>0 DEF Emits, Request, Holds, Lists, Serves
  <2>2. /\ subject' = [subject EXCEPT !.state = "deleted"]
        /\ Become(t, e)
        /\ UNCHANGED <<rows, purged, audits, purge_log, memory>>
    BY <1>1 DEF SoftDelete
  <2>3. /\ subject' \in [state: {"none", "live", "deleted"}, gen: Gen]
        /\ subject'.state = "deleted" /\ subject'.gen = subject.gen
    BY <2>2 DEF Inv, TypeOK
  <2>4. TypeOK' /\ TokensIssued'
    BY <2>1, <2>2, <2>3 DEF Inv, TypeOK, TokensIssued, Become, memory
  <2>5. RowsBelongToSubject' /\ PurgedIsPast'
    BY <1>1, <2>2, <2>3 DEF Inv, RowsBelongToSubject, PurgedIsPast
  <2>6. \A u \in Task : Fits(task[u])'
    BY <1>1, <2>1, <2>2, <2>3 DEF Inv, TypeOK, Become, Fits, Holds, Lists, Serves
  <2> QED  BY <2>4, <2>5, <2>6 DEF Inv
<1>2. CASE ~(subject.state # "none" /\ subject.gen = q.gen)
  BY <1>2, Local, IdleIsRequest, IdleFits DEF SoftDelete, database
<1> QED  BY <1>1, <1>2

-----------------------------------------------------------------------------
(* The purge.                                                              *)

LEMMA IssueTokenStep ==
  ASSUME Inv, NEW p \in Process, NEW k \in Token, IssueToken(p, k)
  PROVE  Inv'
<1>1. /\ tokens' = [tokens EXCEPT ![p] = @ \cup {k}]
      /\ issued' = issued \cup {k}
      /\ k \notin issued
      /\ UNCHANGED <<database, index, task>>
  BY DEF IssueToken
<1>2. TypeOK' /\ TokensIssued'
  BY <1>1 DEF Inv, TypeOK, TokensIssued, database
<1> QED
  BY <1>1, <1>2 DEF Inv, RowsBelongToSubject, PurgedIsPast, Fits, database

LEMMA ExpireTokenStep ==
  ASSUME Inv, NEW p \in Process, NEW k \in Token, ExpireToken(p, k)
  PROVE  Inv'
<1>1. /\ tokens' = [tokens EXCEPT ![p] = @ \ {k}]
      /\ UNCHANGED <<database, index, issued, task>>
  BY DEF ExpireToken
<1>2. TypeOK' /\ TokensIssued'
  BY <1>1 DEF Inv, TypeOK, TokensIssued, database
<1> QED
  BY <1>1, <1>2 DEF Inv, RowsBelongToSubject, PurgedIsPast, Fits, database

LEMMA BeginPurgeStep ==
  ASSUME Inv, NEW t \in Task, NEW k \in Token, BeginPurge(t, k)
  PROVE  Inv'
<1> DEFINE r == [Idle EXCEPT !.phase = "check"]
<1>1. r \in Request /\ Fits(r)
  BY IdleIsRequest DEF Request, Fits, Holds, Lists, Serves
<1>2. /\ tokens' = [tokens EXCEPT ![Home[t]] = @ \ {k}]
      /\ Become(t, r)
      /\ UNCHANGED <<database, index, issued>>
  BY DEF BeginPurge
<1>3. TypeOK' /\ TokensIssued'
  BY <1>1, <1>2, ConstantAssumption DEF Inv, TypeOK, TokensIssued, Become, database
<1> QED  BY <1>1, <1>2, <1>3, InProcess

LEMMA CheckSubjectStep ==
  ASSUME Inv, NEW t \in Task, CheckSubject(t)
  PROVE  Inv'
<1> DEFINE Next1(phase) == [task[t] EXCEPT !.phase = phase]
<1>1. ASSUME NEW phase \in {"recheck", "select"}
      PROVE  Next1(phase) \in Request /\ Fits(Next1(phase))
  BY DEF Inv, TypeOK, Request, Fits, Holds, Lists, Serves
<1>2. \/ Become(t, Idle) \/ Become(t, Next1("recheck")) \/ Become(t, Next1("select"))
  BY DEF CheckSubject
<1> QED  BY <1>1, <1>2, IdleIsRequest, IdleFits, Local DEF CheckSubject

LEMMA SelectSubjectStep ==
  ASSUME Inv, NEW t \in Task, SelectSubject(t)
  PROVE  Inv'
<1> DEFINE none == [task[t] EXCEPT !.phase = "deindex"]
           found == [task[t] EXCEPT !.phase = "purge", !.gen = subject.gen]
<1>1. none \in Request /\ Fits(none)
  BY DEF Inv, TypeOK, Request, Fits, Holds, Lists, Serves
<1>2. task[t] \in Request /\ subject.gen \in Gen
  BY DEF Inv, TypeOK
<1>3. found \in Request /\ found.phase = "purge"
  BY <1>2 DEF Request
<1>4. Fits(found)
  BY <1>3 DEF Fits, Holds, Lists, Serves
<1> QED  BY <1>1, <1>3, <1>4, Local DEF SelectSubject

\* The rows of a subject that is purged belong to that creation of it, which is
\* over when its row is gone; those of a later one stay as they are.
LEMMA PurgeRowsStep ==
  ASSUME Inv, NEW t \in Task, PurgeRows(t)
  PROVE  Inv'
<1> DEFINE gone == task[t].gen
           e == [task[t] EXCEPT !.phase = "deindex"]
<1>1. /\ Writers(gone) = {}
      /\ subject' = IF subject.gen = gone THEN [subject EXCEPT !.state = "none"] ELSE subject
      /\ rows' = rows \ {r \in rows : r.gen = gone}
      /\ purged' = purged \cup {r \in rows : r.gen = gone}
      /\ audits' = {a \in audits : a.pk # gone}
      /\ Become(t, e)
      /\ UNCHANGED <<purge_log, memory>>
  BY DEF PurgeRows, Goes
<1>2. e \in Request /\ e.phase = "deindex"
  BY DEF Inv, TypeOK, Request
<1>3. subject' \in [state: {"none", "live", "deleted"}, gen: Gen] /\ subject'.gen = subject.gen
  BY <1>1 DEF Inv, TypeOK
<1>4. TypeOK' /\ TokensIssued'
  BY <1>1, <1>2, <1>3 DEF Inv, TypeOK, TokensIssued, Become, memory
<1>5. CASE subject.gen = gone
  <2>1. subject'.state = "none" /\ rows' = {} /\ audits' = {}
    BY <1>1, <1>5 DEF Inv, TypeOK, RowsBelongToSubject
  <2>2. RowsBelongToSubject'
    BY <2>1 DEF RowsBelongToSubject
  <2>3. PurgedIsPast'
    BY <1>1, <1>3, <1>5, <2>1, ConstantAssumption DEF Inv, TypeOK, PurgedIsPast, Gen
  <2>4. \A u \in Task : ~Holds(task[u])
    BY <1>1, <1>5 DEF Inv, Writers, Fits, Holds
  <2>5. \A u \in Task : Fits(task[u])'
    BY <1>1, <1>2, <2>4 DEF Inv, TypeOK, Become, Fits, Holds, Lists, Serves
  <2> QED  BY <1>4, <2>2, <2>3, <2>5 DEF Inv
<1>6. CASE subject.gen # gone
  <2>1. UNCHANGED <<subject, rows, purged, audits>>
    BY <1>1, <1>6 DEF Inv, RowsBelongToSubject
  <2>2. RowsBelongToSubject' /\ PurgedIsPast'
    BY <2>1 DEF Inv, RowsBelongToSubject, PurgedIsPast
  <2>3. \A u \in Task : Fits(task[u])'
    BY <1>1, <1>2, <2>1 DEF Inv, TypeOK, Become, Fits, Holds, Lists, Serves
  <2> QED  BY <1>4, <2>2, <2>3 DEF Inv
<1> QED  BY <1>5, <1>6

\* The transaction or the cleanup after it fails.
LEMMA PurgeEndsStep ==
  ASSUME Inv, NEW t \in Task, PurgeRefused(t) \/ CleanupFails(t)
  PROVE  Inv'
BY IdleIsRequest, IdleFits, Local DEF PurgeRefused, CleanupFails

LEMMA DeindexStep ==
  ASSUME Inv, NEW t \in Task, Deindex(t)
  PROVE  Inv'
<1> DEFINE e == Emits(task[t], "purged")
<1>0. task[t] \in Request
  BY DEF Inv, TypeOK
<1>1. e \in Request /\ Fits(e)
  <2>1. e \in Request /\ e.phase = "emit" /\ e.answer = "purged"
    BY <1>0 DEF Emits, Request
  <2> QED  BY <2>1 DEF Fits, Holds, Lists, Serves
<1>2. /\ index' = [index EXCEPT ![Home[t]] = {}]
      /\ Become(t, e)
      /\ UNCHANGED <<database, tokens, issued>>
  BY DEF Deindex
<1>3. TypeOK' /\ TokensIssued'
  BY <1>1, <1>2, ConstantAssumption DEF Inv, TypeOK, TokensIssued, Become, database
<1> QED  BY <1>1, <1>2, <1>3, InProcess

-----------------------------------------------------------------------------
(* Contexts.                                                               *)

LEMMA BeginContextStep ==
  ASSUME Inv, NEW t \in Task, BeginContext(t)
  PROVE  Inv'
<1> DEFINE r == [Idle EXCEPT !.phase = "list", !.gen = subject.gen, !.since = purged]
<1>1. r \in Request /\ r.phase = "list" /\ r.since = purged
  BY IdleIsRequest DEF Inv, TypeOK, Request
<1>2. Fits(r)
  BY <1>1 DEF Fits, Holds, Lists, Serves
<1> QED  BY <1>1, <1>2, Local DEF BeginContext

LEMMA ListMemoriesStep ==
  ASSUME Inv, NEW t \in Task, ListMemories(t)
  PROVE  Inv'
<1> DEFINE r == [task[t] EXCEPT !.phase = "upsert", !.read = Visible]
<1>1. task[t] \in Request /\ task[t].since \subseteq purged /\ Visible \in SUBSET Row
  BY DEF Inv, TypeOK, ListMemories, Fits, Lists, Visible
<1>2. r \in Request /\ r.phase = "upsert" /\ r.since = task[t].since
  BY <1>1 DEF Request
<1>3. Fits(r)
  BY <1>1, <1>2 DEF Fits, Holds, Lists, Serves
<1> QED  BY <1>2, <1>3, Local DEF ListMemories

LEMMA UpsertStep ==
  ASSUME Inv, NEW t \in Task, Upsert(t)
  PROVE  Inv'
<1> DEFINE r == [task[t] EXCEPT !.phase = "reload"]
<1>1. task[t] \in Request /\ task[t].since \subseteq purged
  BY DEF Inv, TypeOK, Upsert, Fits, Lists
<1>2. r \in Request /\ r.phase = "reload" /\ r.since = task[t].since
  BY <1>1 DEF Request
<1>3. Fits(r)
  BY <1>1, <1>2 DEF Fits, Holds, Lists, Serves
<1>4. /\ index' = [index EXCEPT ![Home[t]] = @ \cup task[t].read]
      /\ Become(t, r)
      /\ UNCHANGED <<database, tokens, issued>>
  BY DEF Upsert, Goes
<1>5. index' \in [Process -> SUBSET Row]
  BY <1>1, <1>4, ConstantAssumption DEF Inv, TypeOK, Request
<1>6. TypeOK' /\ TokensIssued'
  BY <1>2, <1>4, <1>5 DEF Inv, TypeOK, TokensIssued, Become, database
<1> QED  BY <1>2, <1>3, <1>4, <1>6, InProcess

\* What the repositories show belongs to the subject that is there, and what was
\* purged to one that is not.
LEMMA VisibleIsNotPurged ==
  ASSUME Inv
  PROVE  Visible \cap purged = {}
<1> SUFFICES ASSUME NEW r \in rows, r \in purged, subject.state = "live"
             PROVE  FALSE
  BY DEF Visible
<1>1. r.gen = subject.gen
  BY DEF Inv, RowsBelongToSubject
<1>2. r.gen < subject.gen
  BY DEF Inv, PurgedIsPast
<1>3. subject.gen \in Nat
  BY DEF Inv, TypeOK, Gen
<1> QED  BY <1>1, <1>2, <1>3

LEMMA ReloadStep ==
  ASSUME Inv, NEW t \in Task, Reload(t)
  PROVE  Inv'
<1> DEFINE q == task[t]
           e == Emits([q EXCEPT !.read = @ \cap Visible], "served")
<1>1. q \in Request /\ q.since \subseteq purged
  BY DEF Inv, TypeOK, Reload, Fits, Lists
<1>2. /\ e \in Request /\ e.phase = "emit"
      /\ e.read = q.read \cap Visible /\ e.since = q.since
  BY <1>1 DEF Emits, Request
<1>3. Fits(e)
  BY <1>1, <1>2, VisibleIsNotPurged DEF Fits, Holds, Lists, Serves
<1> QED  BY <1>2, <1>3, Local DEF Reload

-----------------------------------------------------------------------------
(* Exports.                                                                *)

LEMMA BeginExportStep ==
  ASSUME Inv, NEW t \in Task, BeginExport(t)
  PROVE  Inv'
<1> DEFINE r == [Idle EXCEPT !.phase = "pages", !.gen = subject.gen, !.left = Doc,
                             !.since = rows]
<1>1. r \in Request /\ r.phase = "pages"
  BY IdleIsRequest DEF Inv, TypeOK, Request
<1>2. Fits(r)
  BY <1>1 DEF Fits, Holds, Lists, Serves
<1> QED  BY <1>1, <1>2, Local DEF BeginExport

LEMMA ReadPageStep ==
  ASSUME Inv, NEW t \in Task, NEW d \in Doc, ReadPage(t, d)
  PROVE  Inv'
<1> DEFINE q == [task[t] EXCEPT !.left = @ \ {d},
                                !.read = @ \cup {r \in Visible : r.doc = d}]
           e == Emits(q, "exported")
<1>1. task[t] \in Request /\ Visible \in SUBSET Row
  BY DEF Inv, TypeOK, Visible
<1>2. q \in Request /\ q.phase = task[t].phase
  BY <1>1 DEF Request
<1>3. e \in Request /\ e.phase = "emit" /\ e.answer = "exported"
  <2> HIDE DEF q
  <2> QED  BY <1>2 DEF Emits, Request
<1>4. Fits(q) /\ Fits(e)
  <2>1. q.phase = "pages"
    BY DEF ReadPage
  <2> HIDE DEF q, e
  <2> QED  BY <1>3, <2>1 DEF Fits, Holds, Lists, Serves
<1>5. Become(t, q) \/ Become(t, e)
  BY DEF ReadPage
<1>6. UNCHANGED <<database, memory>>
  BY DEF ReadPage
<1> HIDE DEF q, e
<1> QED  BY <1>2, <1>3, <1>4, <1>5, <1>6, Local

-----------------------------------------------------------------------------
(* Audit rows.                                                             *)

\* The request that is answered, as Answered leaves it.
LEMMA AnsweredFits ==
  ASSUME Inv, NEW t \in Task, task[t].phase \in {"emit", "log"}, Answered(t)
  PROVE  \E q \in Request : Fits(q) /\ Become(t, q)
<1> DEFINE gen == IF task[t].answer = "idle" THEN 0 ELSE task[t].gen
           r == [task[t] EXCEPT !.phase = task[t].answer, !.pk = 0,
                                !.gen = gen, !.answer = "idle"]
<1>1. task[t] \in Request /\ Fits(task[t])
  BY DEF Inv, TypeOK
<1>2. 0 \in Gen /\ gen \in Gen
  BY <1>1, ConstantAssumption DEF Request, Gen
<1>3. /\ r \in Request /\ r.phase = task[t].answer /\ r.answer = "idle"
      /\ r.read = task[t].read /\ r.since = task[t].since
  <2> HIDE DEF gen
  <2> QED  BY <1>1, <1>2 DEF Request
<1>4. r.phase \in {"idle", "purged", "served", "exported"}
  BY <1>1, <1>3 DEF Request
<1>5. Fits(r)
  <2> HIDE DEF r
  <2> QED  BY <1>1, <1>3, <1>4 DEF Fits, Holds, Lists, Serves
<1>6. Become(t, r)
  BY DEF Answered
<1> QED  BY <1>3, <1>5, <1>6

LEMMA FindSubjectStep ==
  ASSUME Inv, NEW t \in Task, FindSubject(t)
  PROVE  Inv'
<1> DEFINE pk == IF subject.state = "none" THEN 0 ELSE subject.gen
           r == [task[t] EXCEPT !.phase = "log", !.pk = pk]
<1>1. CASE subject.state = "none" /\ task[t].answer # "purged"
  <2>1. task[t].phase \in {"emit", "log"} /\ Answered(t) /\ UNCHANGED <<database, memory>>
    BY <1>1 DEF FindSubject
  <2> QED  BY <2>1, AnsweredFits, Local
<1>2. CASE ~(subject.state = "none" /\ task[t].answer # "purged")
  <2>1. task[t] \in Request /\ Fits(task[t]) /\ task[t].phase = "emit"
    BY DEF Inv, TypeOK, FindSubject
  <2>2. pk \in Gen
    BY ConstantAssumption DEF Inv, TypeOK, Gen
  <2>3. Become(t, r) /\ UNCHANGED <<database, memory>>
    BY <1>2 DEF FindSubject
  <2> HIDE DEF pk
  <2>4. /\ r \in Request /\ r.phase = "log" /\ r.answer = task[t].answer
        /\ r.read = task[t].read /\ r.since = task[t].since
    BY <2>1, <2>2 DEF Request
  <2> HIDE DEF r
  <2>5. Fits(r)
    BY <2>1, <2>4 DEF Fits, Holds, Lists, Serves
  <2> QED  BY <2>3, <2>4, <2>5, Local
<1> QED  BY <1>1, <1>2

LEMMA LogStep ==
  ASSUME Inv, NEW t \in Task, Log(t)
  PROVE  Inv'
<1> DEFINE q == task[t]
<1>1. CASE subject.state # "none" /\ subject.gen = q.pk
  <2>1. /\ audits' = audits \cup {[pk |-> q.pk, of |-> q.gen]}
        /\ Answered(t) /\ q.phase = "log"
        /\ UNCHANGED <<subject, rows, purged, purge_log, memory>>
    BY <1>1 DEF Log
  <2>2. PICK r \in Request : Fits(r) /\ Become(t, r)
    BY <2>1, AnsweredFits
  <2>3. q \in Request
    BY DEF Inv, TypeOK
  <2>4. TypeOK' /\ TokensIssued'
    BY <2>1, <2>2, <2>3 DEF Inv, TypeOK, TokensIssued, Become, Request, memory
  <2>5. RowsBelongToSubject' /\ PurgedIsPast'
    BY <1>1, <2>1 DEF Inv, RowsBelongToSubject, PurgedIsPast
  <2>6. \A u \in Task : Fits(task[u])'
    BY <2>1, <2>2 DEF Inv, TypeOK, Become, Fits
  <2> QED  BY <2>4, <2>5, <2>6 DEF Inv
<1>2. CASE ~(subject.state # "none" /\ subject.gen = q.pk)
  BY <1>2, Local, IdleIsRequest, IdleFits DEF Log, database
<1> QED  BY <1>1, <1>2

LEMMA LogPurgeStep ==
  ASSUME Inv, NEW t \in Task, LogPurge(t)
  PROVE  Inv'
<1>1. /\ purge_log' = purge_log \cup {task[t].gen}
      /\ Answered(t) /\ task[t].phase = "log"
      /\ UNCHANGED <<subject, rows, purged, audits, memory>>
  BY DEF LogPurge
<1>2. PICK r \in Request : Fits(r) /\ Become(t, r)
  BY <1>1, AnsweredFits
<1>3. task[t] \in Request
  BY DEF Inv, TypeOK
<1>4. TypeOK' /\ TokensIssued'
  BY <1>1, <1>2, <1>3 DEF Inv, TypeOK, TokensIssued, Become, Request, memory
<1>5. RowsBelongToSubject' /\ PurgedIsPast'
  BY <1>1 DEF Inv, RowsBelongToSubject, PurgedIsPast
<1>6. \A u \in Task : Fits(task[u])'
  BY <1>1, <1>2 DEF Inv, TypeOK, Become, Fits
<1> QED  BY <1>4, <1>5, <1>6 DEF Inv

-----------------------------------------------------------------------------

LEMMA ReturnStep ==
  ASSUME Inv, NEW t \in Task, Return(t)
  PROVE  Inv'
BY IdleIsRequest, IdleFits, Local DEF Return

LEMMA CrashStep ==
  ASSUME Inv, NEW p \in Process, Crash(p)
  PROVE  Inv'
<1>1. /\ task' = [t \in Task |-> IF Home[t] = p THEN Idle ELSE task[t]]
      /\ index' = [index EXCEPT ![p] = {}]
      /\ tokens' = [tokens EXCEPT ![p] = {}]
      /\ UNCHANGED <<database, issued>>
  BY DEF Crash
<1>2. task' \in [Task -> Request]
  BY <1>1, IdleIsRequest DEF Inv, TypeOK
<1>3. TypeOK' /\ TokensIssued'
  BY <1>1, <1>2 DEF Inv, TypeOK, TokensIssued, database
<1>4. \A t \in Task : Fits(task'[t])
  BY <1>1, IdleFits DEF Inv
<1> QED
  BY <1>1, <1>3, <1>4 DEF Inv, RowsBelongToSubject, PurgedIsPast, Fits, database

LEMMA StepOfTask ==
  ASSUME Inv, NEW t \in Task, Begin(t) \/ Step(t)
  PROVE  Inv'
<1>1. CASE Begin(t)
  BY <1>1, BeginDeleteStep, BeginContextStep, BeginExportStep, BeginWriteStep,
     BeginPurgeStep DEF Begin
<1>2. CASE Step(t)
  BY <1>2, InsertStep, CommitWriteStep, SoftDeleteStep, CheckSubjectStep, SelectSubjectStep,
     PurgeRowsStep, PurgeEndsStep, DeindexStep, ListMemoriesStep, UpsertStep, ReloadStep,
     ReadPageStep, FindSubjectStep, LogStep, LogPurgeStep, ReturnStep DEF Step
<1> QED  BY <1>1, <1>2

LEMMA NextStep == Inv /\ [Next]_vars => Inv'
<1> SUFFICES ASSUME Inv, [Next]_vars PROVE Inv'
  OBVIOUS
<1>1. CASE Next
  BY <1>1, StepOfTask, IssueTokenStep, ExpireTokenStep, CrashStep DEF Next
<1>2. CASE UNCHANGED vars
  BY <1>2 DEF vars, database, memory, Inv, TypeOK, TokensIssued, RowsBelongToSubject,
     PurgedIsPast, Fits
<1> QED  BY <1>1, <1>2

LEMMA Invariance == Spec => []Inv
  BY Initially, NextStep, PTL DEF Spec

\* Every variable keeps its type, and a token can be used with the process that
\* gave it out only: tokens are random and held in the memory of a process
\* (ports/purge_tokens.py).
THEOREM TypeCorrect == Spec => []TypeOK
<1>1. Inv => TypeOK
  BY DEF Inv
<1> QED  BY <1>1, Invariance, PTL

\* No memory and no audit row survives the subject it was written for, whatever
\* was under way when uow.purge_subject deleted it: a row that is being written
\* holds the subject's row by its foreign key.
THEOREM NothingInherited == Spec => []RowsBelongToSubject
<1>1. Inv => RowsBelongToSubject
  BY DEF Inv
<1> QED  BY <1>1, Invariance, PTL

\* A context shows nothing of what had been purged when the request began,
\* whatever its process still has in the index: resolve_context reads every
\* candidate again, and no purged row comes back.
THEOREM PurgedIsNotServed == Spec => []PurgedNotServed
<1>1. Inv => PurgedNotServed
  BY DEF Inv, Fits, Serves, PurgedNotServed
<1> QED  BY <1>1, Invariance, PTL
=============================================================================
