------------------------ MODULE MemoryService_proofs ------------------------
(***************************************************************************)
(* What TLAPS proves about MemoryService for every set of requests, ids,  *)
(* slots, texts and evidence and every bound on the revision: its         *)
(* properties, and that it implements MemoryLedger.                        *)
(***************************************************************************)
EXTENDS MemoryService, FiniteSetTheorems, TLAPS

USE DEF History

(* A step of the store is one of five kinds.                               *)

StoreUnchanged == UNCHANGED <<memories, revisions>>

\* A deleted memory gets the state of the snapshot before its last one.
Restores(m, v, w) ==
    /\ v.revision > 1
    /\ v.state = "deleted"
    /\ revisions[m][v.revision - 1] # NoRecord
    /\ w.state = revisions[m][v.revision - 1].state
    /\ w.state # "deleted"
    /\ w.authority = v.authority
    /\ ~(w.state = "active" /\ w.authority = "inferred")

\* The lifecycle lets version v of memory m become w.
Lawful(m, v, w) ==
    /\ Ledger!Keeps(v, w)
    /\ \/ Ledger!Edit(v, w) \/ Ledger!Confirm(v, w) \/ Ledger!Delete(v, w)
       \/ Restores(m, v, w)

Updates(m, w) ==
    /\ m \in Stored
    /\ w \in MemoryRecord
    /\ Lawful(m, memories[m], w)
    /\ w.revision = memories[m].revision + 1
    /\ SlotFree(w, Memory \ {m})
    /\ memories' = [memories EXCEPT ![m] = w]
    /\ revisions' = [revisions EXCEPT ![m][w.revision] = w]

Inserts(m, w) ==
    /\ m \in Memory \ Stored
    /\ w \in MemoryRecord
    /\ w.revision = 1 /\ Ledger!Stated(w)
    /\ SlotFree(w, Memory)
    /\ memories' = [memories EXCEPT ![m] = w]
    /\ revisions' = [revisions EXCEPT ![m][1] = w]

Replaces(m, v, n, w) ==
    /\ m \in Stored /\ n \in Memory \ Stored
    /\ v \in MemoryRecord /\ w \in MemoryRecord
    /\ v = [memories[m] EXCEPT !.state = "superseded", !.revision = @ + 1]
    /\ memories[m].state = "active"
    /\ w.revision = 1 /\ w.authority = "explicit" /\ w.state = "active"
    /\ SameSlot(memories[m], w) /\ memories[m].content # w.content
    /\ SlotFree(w, Memory \ {m})
    /\ memories' = [memories EXCEPT ![m] = v, ![n] = w]
    /\ revisions' = [revisions EXCEPT ![m][v.revision] = v, ![n][1] = w]

\* HistoryComplete and SnapshotsNumbered, memory by memory.
HistoryAt(row, snapshots) ==
    /\ \A r \in 1..MaxRevision :
        /\ snapshots[r] # NoRecord <=> row # NoRecord /\ r <= row.revision
        /\ snapshots[r] # NoRecord => snapshots[r].revision = r
    /\ row # NoRecord => snapshots[row.revision] = row

Stays(x) == memories'[x] = memories[x] /\ revisions'[x] = revisions[x]

\* The revision a memory has before the step, 0 when there is none.
Found(m) == IF m \in Stored THEN memories[m].revision ELSE 0

\* Memory m gains one version or more, all of them learned.
Gains(m) ==
    LET row == memories'[m]
        log == revisions'[m]
    IN
    /\ row \in MemoryRecord /\ log \in History
    /\ HistoryAt(row, log)
    /\ Found(m) < row.revision
    /\ \A r \in 1..MaxRevision : r <= Found(m) => log[r] = revisions[m][r]
    /\ m \notin Stored => /\ row.authority = "inferred" /\ row.state = "candidate"
                          /\ log[1].evidence_count = 1
    /\ \A q, r \in 1..MaxRevision :
        Found(m) <= q /\ q < r /\ r <= row.revision =>
            /\ Merged(log[q], log[r])
            /\ r = q + 1 => log[r].evidence_count <= log[q].evidence_count + 1

\* The commit of an extraction.
Learns ==
    /\ memories' = [m \in Memory |-> memories'[m]]
    /\ revisions' = [m \in Memory |-> revisions'[m]]
    /\ \A m \in Memory : Stays(m) \/ Gains(m)

StoreStep ==
    \/ StoreUnchanged
    \/ Learns
    \/ \E m \in Memory, w \in MemoryRecord : Updates(m, w)
    \/ \E m \in Memory, w \in MemoryRecord : Inserts(m, w)
    \/ \E m, n \in Memory, v, w \in MemoryRecord : Replaces(m, v, n, w)

\* When the row still has the revision a request read, it is what it read.
LEMMA ReadingCurrent ==
    ASSUME StoreInv, NEW c \in Client,
           request[c].phase = "read", request[c].seen # NoRecord,
           RevisionUnchanged(request[c].memory, request[c].seen.revision)
    PROVE  /\ request[c].memory \in Stored
           /\ request[c].seen \in MemoryRecord
           /\ request[c].seen = memories[request[c].memory]
BY DEF StoreInv, TypeOK, Request, HistoryComplete, ReadingsAreVersions,
       RevisionUnchanged, Stored

\* Save on what a request read is an update of the row.
LEMMA SaveUpdates ==
    ASSUME StoreInv, NEW c \in Client,
           request[c].phase = "read", request[c].seen # NoRecord,
           NEW w, w \in [key: Key, scope: Scope, content: Content,
                         authority: Authority, state: State,
                         confidence: Confidence, evidence_count: Nat,
                         revision: Nat],
           w.revision = request[c].seen.revision + 1,
           Lawful(request[c].memory, request[c].seen, w),
           Save(request[c].memory, request[c].seen, w)
    PROVE  Updates(request[c].memory, w)
<1>1. /\ request[c].memory \in Stored
      /\ request[c].seen \in MemoryRecord
      /\ request[c].seen = memories[request[c].memory]
  BY ReadingCurrent DEF Save
<1>2. w.revision \in 1..MaxRevision
  BY <1>1, BoundsAssumption DEF Save, MemoryRecord
<1>3. w \in MemoryRecord
  BY <1>2 DEF MemoryRecord
<1>4. QED
  BY <1>1, <1>3 DEF Save, Updates


\* A record derived from the one that was read, the revision moved by one.
Derived ==
    [key: Key, scope: Scope, content: Content, authority: Authority,
     state: State, confidence: Confidence, evidence_count: Nat, revision: Nat]

LEMMA ReadDerived ==
    ASSUME NEW r \in MemoryRecord
    PROVE  r \in Derived /\ r.revision + 1 \in Nat /\ r.evidence_count + 1 \in Nat
BY BoundsAssumption DEF MemoryRecord, Derived

LEMMA MovedDerived ==
    ASSUME NEW r \in MemoryRecord, NEW state \in State
    PROVE  /\ Moved(r, state) \in Derived /\ Moved(r, state).revision = r.revision + 1
           /\ Moved(r, state).state = state /\ Moved(r, state).authority = r.authority
           /\ Ledger!Keeps(r, Moved(r, state))
<1>1. PICK n \in Nat : n = r.revision + 1
  BY ReadDerived
<1>2. [r EXCEPT !.state = state, !.revision = n] \in Derived
  BY ReadDerived DEF Derived
<1>3. QED
  BY <1>1, <1>2 DEF Moved, MemoryRecord, Ledger!Keeps

LEMMA PatchedDerived ==
    ASSUME NEW r \in MemoryRecord, NEW in \in Input
    PROVE  /\ Patched(r, in) \in Derived /\ Patched(r, in).revision = r.revision + 1
           /\ Ledger!Keeps(r, Patched(r, in)) /\ Ledger!Edit(r, Patched(r, in))
<1>1. PICK n \in Nat : n = r.revision + 1
  BY ReadDerived
<1>2. [r EXCEPT !.scope = in.scope, !.content = in.content,
                !.confidence = in.confidence, !.revision = n] \in Derived
  BY ReadDerived DEF Derived, Input
<1>3. QED
  BY <1>1, <1>2 DEF Patched, MemoryRecord, Ledger!Keeps, Ledger!Edit

LEMMA CountedDerived ==
    ASSUME NEW m \in Memory, NEW r \in MemoryRecord,
           NEW confidence \in Confidence, NEW count \in Nat
    PROVE  /\ Counted(r, confidence, count) \in Derived
           /\ Counted(r, confidence, count).revision = r.revision + 1
           /\ Counted(r, confidence, count).evidence_count = count
           /\ count \in {r.evidence_count, r.evidence_count + 1} =>
                Lawful(m, r, Counted(r, confidence, count))
<1>1. PICK n \in Nat : n = r.revision + 1
  BY ReadDerived
<1>2. [r EXCEPT !.confidence = confidence, !.evidence_count = count,
                !.revision = n] \in Derived
  BY ReadDerived DEF Derived
<1>3. QED
  BY <1>1, <1>2 DEF Counted, MemoryRecord, Lawful, Ledger!Keeps, Ledger!Edit

LEMMA ConfirmedDerived ==
    ASSUME NEW r \in MemoryRecord
    PROVE  /\ Confirmed(r) \in Derived /\ Confirmed(r).revision = r.revision + 1
           /\ Ledger!Keeps(r, Confirmed(r))
           /\ Confirmable(r) => Ledger!Confirm(r, Confirmed(r))
<1>1. /\ Moved(r, "active") \in Derived
      /\ Moved(r, "active").revision = r.revision + 1
      /\ Moved(r, "active").state = "active"
      /\ Ledger!Keeps(r, Moved(r, "active"))
  BY MovedDerived DEF State
<1>2. QED
  BY <1>1 DEF Confirmed, Confirmable, Derived, Authority, Ledger!Keeps, Ledger!Confirm

\* The write steps of the requests, sorted into the kinds.
LEMMA WriteStore ==
    ASSUME StoreInv, NEW c \in Client, Write(c)
    PROVE  StoreStep
<1> DEFINE q == request[c]
<1> USE DEF StoreStep, Reading
<1>1. q \in Request
  BY DEF StoreInv, TypeOK
<1>2. ASSUME q.phase = "read", q.seen # NoRecord
      PROVE  q.memory \in Memory /\ q.seen \in MemoryRecord
  BY <1>1, <1>2 DEF Request, StoreInv, ReadingsAreVersions, Stored
<1>3. ASSUME q.phase = "read", q.op \in {"add", "patch"}
      PROVE  q.input \in Input
  BY <1>3 DEF StoreInv, ReadingsAreVersions
<1>4. ASSUME q.phase = "read", q.op \in {"patch", "confirm", "delete", "restore"}
      PROVE  q.seen # NoRecord
  BY <1>4 DEF StoreInv, ReadingsAreVersions
<1>5. ASSUME NEW w \in Derived, q.phase = "read", q.seen # NoRecord,
             w.revision = q.seen.revision + 1, Lawful(q.memory, q.seen, w),
             Save(q.memory, q.seen, w)
      PROVE  StoreStep
  <2>1. Updates(q.memory, w)
    BY <1>5, SaveUpdates DEF Derived
  <2>2. w \in MemoryRecord /\ q.memory \in Memory
    BY <2>1 DEF Updates, Stored
  <2>3. QED
    BY <2>1, <2>2
<1>6. CASE AddReuse(c)
  BY <1>6 DEF AddReuse, store, StoreUnchanged
<1>7. CASE AddBind(c)
  <2> DEFINE w == Counted(q.seen, q.seen.confidence, q.seen.evidence_count + 1)
  <2>1. q.phase = "read" /\ q.seen # NoRecord /\ Save(q.memory, q.seen, w)
    BY <1>7 DEF AddBind, SameContent
  <2>2. q.memory \in Memory /\ q.seen \in MemoryRecord
    BY <1>2, <2>1
  <2>3. w \in Derived /\ w.revision = q.seen.revision + 1 /\ Lawful(q.memory, q.seen, w)
    BY <2>2, ReadDerived, CountedDerived DEF MemoryRecord
  <2>4. QED
    BY <1>5, <2>1, <2>3
<1>8. CASE AddCreate(c)
  <2>1. PICK m \in Memory : Insert(m, ExplicitMemory(q.input), q.input.evidence)
    BY <1>8 DEF AddCreate
  <2>2. ExplicitMemory(q.input) \in MemoryRecord
    BY <1>3, <1>8, BoundsAssumption
    DEF AddCreate, ExplicitMemory, MemoryRecord, Input, Evidenced, State, Authority
  <2>3. Inserts(m, ExplicitMemory(q.input))
    BY <2>1, <2>2 DEF Insert, Inserts, ExplicitMemory, Ledger!Stated
  <2>4. QED
    BY <2>2, <2>3
<1>10. CASE AddSupersede(c)
  <2> DEFINE old == Moved(q.seen, "superseded")
             new == ExplicitMemory(q.input)
  <2>1. /\ q.phase = "read" /\ q.op = "add" /\ q.seen # NoRecord
        /\ ~SameContent(q)
        /\ Supersedable(q.seen, new)
        /\ q.seen.revision < MaxRevision
        /\ RevisionUnchanged(q.memory, q.seen.revision)
    BY <1>10 DEF AddSupersede
  <2>2. PICK m \in Memory \ Stored :
          /\ SlotFree(new, Memory \ {q.memory})
          /\ memories' = [memories EXCEPT ![q.memory] = old, ![m] = new]
          /\ revisions' = [revisions EXCEPT ![q.memory][old.revision] = old,
                                            ![m][1] = new]
    BY <1>10 DEF AddSupersede
  <2>3. /\ q.memory \in Stored
        /\ q.seen \in MemoryRecord
        /\ q.seen = memories[q.memory]
    BY <2>1, ReadingCurrent
  <2>4. new \in MemoryRecord
    BY <1>3, <2>1, BoundsAssumption
    DEF ExplicitMemory, MemoryRecord, Input, Evidenced, State, Authority
  <2>5. old \in MemoryRecord
    <3>1. old \in Derived /\ old.revision = q.seen.revision + 1
      BY <2>3, MovedDerived DEF State
    <3>2. old.revision \in 1..MaxRevision
      BY <2>1, <2>3, <3>1, BoundsAssumption DEF MemoryRecord
    <3>3. QED
      BY <3>1, <3>2 DEF Derived, MemoryRecord
  <2>6. Replaces(q.memory, old, m, new)
    BY <2>1, <2>2, <2>3, <2>4, <2>5
    DEF Replaces, Supersedable, Moved, ExplicitMemory, SameContent
  <2>7. QED
    BY <2>3, <2>4, <2>5, <2>6 DEF Stored
<1>11. CASE PatchCommit(c)
  <2>1. q.phase = "read" /\ q.seen # NoRecord /\ Save(q.memory, q.seen, Patched(q.seen, q.input))
    BY <1>4, <1>11 DEF PatchCommit
  <2>2. q.seen \in MemoryRecord
    BY <1>2, <2>1
  <2>3. /\ Patched(q.seen, q.input) \in Derived
        /\ Patched(q.seen, q.input).revision = q.seen.revision + 1
        /\ Lawful(q.memory, q.seen, Patched(q.seen, q.input))
    BY <1>3, <1>11, <2>2, PatchedDerived DEF PatchCommit, Lawful
  <2>4. QED
    BY <1>5, <2>1, <2>3
<1>12. CASE ConfirmCommit(c)
  <2>1. q.phase = "read" /\ q.seen # NoRecord /\ Save(q.memory, q.seen, Confirmed(q.seen))
    BY <1>4, <1>12 DEF ConfirmCommit
  <2>2. q.seen \in MemoryRecord
    BY <1>2, <2>1
  <2>3. /\ Confirmed(q.seen) \in Derived
        /\ Confirmed(q.seen).revision = q.seen.revision + 1
        /\ Lawful(q.memory, q.seen, Confirmed(q.seen))
    BY <1>12, <2>2, ConfirmedDerived DEF ConfirmCommit, Lawful
  <2>4. QED
    BY <1>5, <2>1, <2>3
<1>13. CASE DeleteCommit(c)
  <2>1. q.phase = "read" /\ q.seen # NoRecord /\ Save(q.memory, q.seen, Moved(q.seen, "deleted"))
    BY <1>4, <1>13 DEF DeleteCommit
  <2>2. q.seen \in MemoryRecord
    BY <1>2, <2>1
  <2>3. /\ Moved(q.seen, "deleted") \in Derived
        /\ Moved(q.seen, "deleted").revision = q.seen.revision + 1
        /\ Lawful(q.memory, q.seen, Moved(q.seen, "deleted"))
    BY <1>13, <2>2, MovedDerived DEF State, DeleteCommit, Lawful, Ledger!Delete
  <2>4. QED
    BY <1>5, <2>1, <2>3
<1>14. CASE RestoreCommit(c)
  <2> DEFINE previous == revisions[q.memory][q.seen.revision - 1]
             w == Moved(q.seen, previous.state)
  <2>1. /\ q.phase = "read" /\ q.seen # NoRecord
        /\ Save(q.memory, q.seen, w)
        /\ q.seen.revision > 1 /\ previous # NoRecord
        /\ Restorable(q.seen, previous.state)
    BY <1>4, <1>14 DEF RestoreCommit
  <2>2. q.seen \in MemoryRecord
    BY <1>2, <2>1
  <2>3. /\ w \in Derived /\ w.revision = q.seen.revision + 1
        /\ Lawful(q.memory, q.seen, w)
    <3>1. previous.state \in State
      BY <2>1, <2>2 DEF Restorable, State
    <3>2. /\ w \in Derived /\ w.revision = q.seen.revision + 1
          /\ w.state = previous.state /\ w.authority = q.seen.authority
          /\ Ledger!Keeps(q.seen, w)
      BY <2>2, <3>1, MovedDerived
    <3>3. Restores(q.memory, q.seen, w)
      BY <2>1, <3>2 DEF Restorable, Restores
    <3>4. QED
      BY <3>2, <3>3 DEF Lawful
  <2>4. QED
    BY <1>5, <2>1, <2>3
<1>16. QED
  BY <1>6, <1>7, <1>8, <1>10, <1>11, <1>12, <1>13, <1>14 DEF Write

-----------------------------------------------------------------------------
(* Extractions.                                                            *)

\* What a proposal makes of a record is a merge of it.
LEMMA LearnedMerges ==
    ASSUME NEW r \in MemoryRecord, NEW in \in Input, NEW linked \in BOOLEAN
    PROVE  /\ Learned(r, in, linked) \in Derived
           /\ Learned(r, in, linked).revision = r.revision + 1
           /\ Learned(r, in, linked).evidence_count =
                IF linked THEN r.evidence_count ELSE r.evidence_count + 1
           /\ Merged(r, Learned(r, in, linked))
<1>1. PICK n \in Nat : n = r.revision + 1
  BY ReadDerived
<1>2. PICK count \in Nat :
        count = IF linked THEN r.evidence_count ELSE r.evidence_count + 1
  BY ReadDerived DEF Derived
<1>3. PICK confidence \in Confidence :
        confidence = IF RaisesConfidence(r, in) THEN in.confidence ELSE r.confidence
  BY DEF Input, MemoryRecord
<1>4. [r EXCEPT !.confidence = confidence, !.evidence_count = count,
                !.revision = n] \in Derived
  BY ReadDerived DEF Derived
<1>5. Learned(r, in, linked) = [r EXCEPT !.confidence = confidence,
                                         !.evidence_count = count, !.revision = n]
  BY <1>1, <1>2, <1>3 DEF Learned, Counted
<1>6. /\ confidence >= r.confidence
      /\ confidence # r.confidence => r.authority = "inferred" /\ r.state = "candidate"
  <2>1. in.confidence \in Nat /\ r.confidence \in Nat
    BY BoundsAssumption DEF Input, MemoryRecord
  <2>2. CASE RaisesConfidence(r, in)
    BY <1>3, <2>1, <2>2 DEF RaisesConfidence
  <2>3. CASE ~RaisesConfidence(r, in)
    BY <1>3, <2>1, <2>3
  <2>4. QED
    BY <2>2, <2>3
<1>7. count >= r.evidence_count
  BY <1>2 DEF MemoryRecord
<1>8. QED
  BY <1>1, <1>2, <1>4, <1>5, <1>6, <1>7 DEF Merged, SameSlot, MemoryRecord

LEMMA MergedTransitive ==
    ASSUME NEW u \in MemoryRecord, NEW v \in MemoryRecord, NEW w \in MemoryRecord,
           Merged(u, v), Merged(v, w)
    PROVE  Merged(u, w)
<1>1. /\ u.confidence \in Nat /\ v.confidence \in Nat /\ w.confidence \in Nat
      /\ u.evidence_count \in Nat /\ v.evidence_count \in Nat
      /\ w.evidence_count \in Nat
  BY BoundsAssumption DEF MemoryRecord
<1>2. QED
  BY <1>1 DEF Merged, SameSlot

\* A session that holds nothing.
LEMMA NothingHeld ==
    /\ NoExtraction \in Extraction
    /\ Answerable(NoExtraction)
    /\ \A m \in Memory : FlushedAt(NoExtraction, m)
<1>1. NoHistory \in History
  BY DEF NoHistory
<1>2. NoExtraction \in Extraction
  BY <1>1, BoundsAssumption DEF NoExtraction, Extraction
<1>3. QED
  BY <1>2 DEF NoExtraction, Answerable, FlushedAt

\* What a session has flushed of a memory is in four of its fields.
LEMMA FlushedAlike ==
    ASSUME NEW x, NEW y, NEW m \in Memory, FlushedAt(x, m),
           y.rows[m] = x.rows[m], y.snapshots[m] = x.snapshots[m],
           y.base[m] = x.base[m], y.links[m] = x.links[m]
    PROVE  FlushedAt(y, m)
<1>1. \A r \in 1..MaxRevision : Version(y, m, r) = Version(x, m, r)
  BY DEF Version
<1>2. QED
  BY <1>1 DEF FlushedAt

\* What a session holds.
LEMMA SessionTyped ==
    ASSUME StoreInv, NEW c \in Client
    PROVE  /\ extraction[c] \in Extraction
           /\ Answerable(extraction[c])
           /\ \A m \in Memory : FlushedAt(extraction[c], m)
BY DEF StoreInv, TypeOK, FlushesAreVersions, ProposalsAreStored

\* What a session sees of a memory.
LEMMA ViewTyped ==
    ASSUME StoreInv, NEW c \in Client, NEW m \in Memory
    PROVE  /\ View(c)[m] \in MemoryRecord \cup {NoRecord}
           /\ View(c)[m] = IF extraction[c].rows[m] = NoRecord
                           THEN memories[m] ELSE extraction[c].rows[m]
           /\ m \in Stored => View(c)[m] # NoRecord
<1>1. /\ extraction[c].rows \in [Memory -> MemoryRecord \cup {NoRecord}]
      /\ memories \in [Memory -> MemoryRecord \cup {NoRecord}]
  BY SessionTyped DEF Extraction, StoreInv, TypeOK
<1>2. QED
  BY <1>1 DEF View, Stored

\* The proposal that is next.
LEMMA ProposedTyped ==
    ASSUME StoreInv, NEW c \in Client, Writing(c)
    PROVE  /\ Proposed(c) \in Proposal
           /\ Proposed(c).input \in Input
           /\ Proposed(c).input.evidence \in Evidence
           /\ Proposed(c).chosen \in Stored \cup {NoMemory}
           /\ Tail(extraction[c].items) \in Seq(Proposal)
<1> DEFINE items == extraction[c].items
<1>1. items \in Seq(Proposal) /\ items # << >>
  BY SessionTyped DEF Extraction, Writing
<1>2. /\ Head(items) = items[1] /\ 1 \in 1..Len(items)
      /\ Head(items) \in Proposal /\ Tail(items) \in Seq(Proposal)
  BY <1>1
<1>3. /\ items[1].input.evidence # NoEvidence
      /\ items[1].chosen \in Stored \cup {NoMemory}
  BY <1>2, SessionTyped DEF Answerable
<1>4. QED
  BY <1>2, <1>3 DEF Proposed, Proposal, Input

\* What a proposal is merged into is a memory that the session sees.
LEMMA TargetTyped ==
    ASSUME StoreInv, NEW c \in Client, Writing(c), NEW m \in Target(c) \ {NoMemory}
    PROVE  m \in Memory /\ View(c)[m] # NoRecord
<1>1. PICK exact \in FindExactSlot(View(c), Proposed(c).input, {"active", "candidate"}) :
        m = IF exact = NoMemory THEN Proposed(c).chosen ELSE exact
  BY DEF Target
<1>2. CASE exact = NoMemory
  <2>1. m \in Stored
    BY <1>1, <1>2, ProposedTyped
  <2>2. QED
    BY <2>1, ViewTyped DEF Stored
<1>3. CASE exact # NoMemory
  BY <1>1, <1>3 DEF FindExactSlot
<1>4. QED
  BY <1>2, <1>3

\* Record is a new candidate, or a merge of what the session sees of m.
Follows(c, m, record) ==
    \/ /\ View(c)[m] = NoRecord
       /\ record.revision = 1 /\ record.evidence_count = 1
       /\ record.authority = "inferred" /\ record.state = "candidate"
    \/ LET seen == View(c)[m] IN
       /\ seen # NoRecord
       /\ record.revision = seen.revision + 1
       /\ record.evidence_count =
            IF Linked(BoundView(c), m, Proposed(c).input.evidence)
            THEN seen.evidence_count ELSE seen.evidence_count + 1
       /\ Merged(seen, record)

\* A flush has one form, whether it creates or merges.
Flushes(c, m, record) ==
    /\ Writing(c)
    /\ Follows(c, m, record)
    /\ Flush(c, m, record)

LEMMA CreateFlushes ==
    ASSUME StoreInv, NEW c \in Client, ExtractCreate(c)
    PROVE  \E m \in Memory, record \in MemoryRecord : Flushes(c, m, record)
<1>1. PICK m \in Memory : /\ View(c)[m] = NoRecord
                          /\ Flush(c, m, InferredMemory(Proposed(c).input))
  BY DEF ExtractCreate
<1>2. Writing(c) /\ Proposed(c).input \in Input
  BY ProposedTyped DEF ExtractCreate
<1>3. InferredMemory(Proposed(c).input) \in MemoryRecord
  BY <1>2, BoundsAssumption DEF InferredMemory, MemoryRecord, Input, State, Authority
<1>4. Follows(c, m, InferredMemory(Proposed(c).input))
  BY <1>1 DEF Follows, InferredMemory
<1>5. QED
  BY <1>1, <1>2, <1>3, <1>4 DEF Flushes

LEMMA MergeFlushes ==
    ASSUME StoreInv, NEW c \in Client, ExtractMerge(c)
    PROVE  \E m \in Memory, record \in MemoryRecord : Flushes(c, m, record)
<1> DEFINE in == Proposed(c).input
<1>1. PICK m \in Target(c) \ {NoMemory} :
        Flush(c, m, Learned(View(c)[m], in, Linked(BoundView(c), m, in.evidence)))
  BY DEF ExtractMerge
<1>2. Writing(c) /\ in \in Input
  BY ProposedTyped DEF ExtractMerge
<1>3. m \in Memory /\ View(c)[m] \in MemoryRecord /\ View(c)[m] # NoRecord
  BY <1>1, <1>2, TargetTyped, ViewTyped
<1>4. PICK seen \in MemoryRecord : seen = View(c)[m]
  BY <1>3
<1>5. PICK linked \in BOOLEAN : linked = Linked(BoundView(c), m, in.evidence)
  <2>1. Linked(BoundView(c), m, in.evidence) \in BOOLEAN
    BY DEF Linked
  <2>2. QED
    BY <2>1, Zenon
<1>6. PICK record : record = Learned(seen, in, linked)
  OBVIOUS
<1>7. /\ record \in Derived /\ record.revision = seen.revision + 1
      /\ record.evidence_count =
            IF linked THEN seen.evidence_count ELSE seen.evidence_count + 1
      /\ Merged(seen, record)
  BY <1>2, <1>6, LearnedMerges
<1>8. Flush(c, m, record)
  BY <1>1, <1>4, <1>5, <1>6
<1>9. record \in MemoryRecord
  <2>1. record.revision \in 1..MaxRevision
    BY <1>7, <1>8, BoundsAssumption DEF Flush, MemoryRecord
  <2>2. QED
    BY <1>7, <2>1 DEF Derived, MemoryRecord
<1>10. Follows(c, m, record)
  BY <1>3, <1>4, <1>5, <1>7 DEF Follows
<1>11. QED
  BY <1>2, <1>3, <1>8, <1>9, <1>10 DEF Flushes

\* What a flush of memory m leaves the session with, field by field.
LEMMA FlushFields ==
    ASSUME StoreInv, NEW c \in Client, NEW m \in Memory, NEW record \in MemoryRecord,
           Flushes(c, m, record)
    PROVE  \E y \in Extraction :
             LET x == extraction[c]
                 e == Proposed(c).input.evidence
             IN
             /\ extraction' = [extraction EXCEPT ![c] = y]
             /\ y.items = Tail(x.items)
             /\ y.rows[m] = record
             /\ y.snapshots[m] = [x.snapshots[m] EXCEPT ![record.revision] = record]
             /\ y.base[m] = IF x.rows[m] = NoRecord THEN record.revision - 1
                                                    ELSE x.base[m]
             /\ y.links[m] = x.links[m] \cup {e}
             /\ y.added = x.added \cup ({e} \ evidence)
             /\ \A n \in Memory \ {m} :
                  /\ y.rows[n] = x.rows[n] /\ y.snapshots[n] = x.snapshots[n]
                  /\ y.base[n] = x.base[n] /\ y.links[n] = x.links[n]
<1> DEFINE x == extraction[c]
           e == Proposed(c).input.evidence
           base == IF x.rows[m] = NoRecord THEN record.revision - 1 ELSE x.base[m]
           history == [x.snapshots[m] EXCEPT ![record.revision] = record]
           y == [phase |-> "write", items |-> Tail(x.items),
                 rows |-> [x.rows EXCEPT ![m] = record],
                 snapshots |-> [x.snapshots EXCEPT ![m] = history],
                 base |-> [x.base EXCEPT ![m] = base],
                 links |-> [x.links EXCEPT ![m] = x.links[m] \cup {e}],
                 added |-> x.added \cup ({e} \ evidence)]
<1>1. /\ x.rows \in [Memory -> MemoryRecord \cup {NoRecord}]
      /\ x.snapshots \in [Memory -> History]
      /\ x.base \in [Memory -> 0..MaxRevision]
      /\ x.links \in [Memory -> SUBSET Evidence] /\ x.added \in SUBSET Evidence
  BY SessionTyped DEF Extraction
<1>2. e \in Evidence /\ Tail(x.items) \in Seq(Proposal)
  BY ProposedTyped DEF Flushes
<1>3. base \in 0..MaxRevision
  BY <1>1, BoundsAssumption DEF MemoryRecord
<1>4. history \in History
  BY <1>1
<1>5. y \in Extraction
  BY <1>1, <1>2, <1>3, <1>4 DEF Extraction
<1>6. extraction' = [extraction EXCEPT ![c] = y]
  BY <1>1 DEF Flushes, Flush
<1>7. QED
  BY <1>1, <1>5, <1>6

\* The first version of a memory that a session flushes.
LEMMA FlushFirst ==
    ASSUME StoreInv, NEW c \in Client, NEW m \in Memory, NEW record \in MemoryRecord,
           Follows(c, m, record), extraction[c].rows[m] = NoRecord,
           NEW y \in Extraction, y.rows[m] = record,
           y.snapshots[m] = [extraction[c].snapshots[m] EXCEPT ![record.revision] = record],
           y.base[m] = record.revision - 1
    PROVE  FlushedAt(y, m)
<1> USE BoundsAssumption, RecordAssumption
<1>1. extraction[c].snapshots[m] = NoHistory
  BY SessionTyped DEF FlushedAt
<1>2. record # NoRecord /\ record.revision \in 1..MaxRevision
  BY DEF MemoryRecord
<1>3. y.snapshots[m] = [r \in 1..MaxRevision |->
                          IF r = record.revision THEN record ELSE NoRecord]
  BY <1>1, <1>2 DEF NoHistory
<1>4. View(c)[m] = memories[m] /\ memories[m] \in MemoryRecord \cup {NoRecord}
  BY ViewTyped DEF StoreInv, TypeOK
<1>5. CASE memories[m] = NoRecord
  <2>1. /\ record.revision = 1 /\ record.evidence_count = 1
        /\ record.authority = "inferred" /\ record.state = "candidate"
    BY <1>4, <1>5 DEF Follows
  <2>2. QED
    BY <1>2, <1>3, <2>1 DEF FlushedAt
<1>6. CASE memories[m] # NoRecord
  <2>1. /\ record.revision = memories[m].revision + 1
        /\ record.evidence_count \in {memories[m].evidence_count,
                                      memories[m].evidence_count + 1}
        /\ Merged(memories[m], record)
    BY <1>4, <1>6 DEF Follows
  <2>2. /\ m \in Stored /\ memories[m] \in MemoryRecord
        /\ memories[m].revision \in 1..MaxRevision
        /\ memories[m].evidence_count \in Nat
        /\ revisions[m][memories[m].revision] = memories[m]
    BY <1>4, <1>6 DEF Stored, MemoryRecord, StoreInv, HistoryComplete
  <2>3. y.base[m] = memories[m].revision
    BY <2>1, <2>2
  <2>4. Version(y, m, memories[m].revision) = memories[m]
    BY <1>3, <2>1, <2>2 DEF Version
  <2>5. Version(y, m, record.revision) = record
    BY <1>2, <1>3 DEF Version
  <2>6. record.evidence_count <= memories[m].evidence_count + 1
    BY <2>1, <2>2
  <2>7. ASSUME NEW q \in 1..MaxRevision, NEW r \in 1..MaxRevision,
               y.base[m] <= q, q < r, r <= record.revision
        PROVE  q = memories[m].revision /\ r = record.revision
    BY <2>1, <2>2, <2>3, <2>7
  <2>8. QED
    <3>1. y.rows[m] = record /\ y.base[m] < record.revision /\ y.base[m] > 0
      BY <2>1, <2>2, <2>3
    <3>2. m \in Stored /\ y.base[m] <= memories[m].revision
      BY <2>2, <2>3
    <3>3. ASSUME NEW r \in 1..MaxRevision
          PROVE  /\ y.snapshots[m][r] # NoRecord <=> y.base[m] < r /\ r <= record.revision
                 /\ y.snapshots[m][r] # NoRecord => y.snapshots[m][r].revision = r
      BY <1>2, <1>3, <2>1, <2>2, <2>3
    <3>4. y.snapshots[m][record.revision] = record
      BY <1>2, <1>3
    <3>5. ASSUME NEW q \in 1..MaxRevision, NEW r \in 1..MaxRevision,
                 y.base[m] <= q, q < r, r <= record.revision
          PROVE  /\ Merged(Version(y, m, q), Version(y, m, r))
                 /\ r = q + 1 => Version(y, m, r).evidence_count
                                   <= Version(y, m, q).evidence_count + 1
      <4>1. Version(y, m, q) = memories[m] /\ Version(y, m, r) = record
        BY <2>4, <2>5, <2>7, <3>5
      <4>2. QED
        BY <2>1, <2>6, <4>1
    <3>6. QED
      BY <1>2, <3>1, <3>2, <3>3, <3>4, <3>5 DEF FlushedAt
<1>7. QED
  BY <1>5, <1>6

\* What a session has of a memory that it has flushed: the versions from the
\* one found to the row.
LEMMA VersionTyped ==
    ASSUME StoreInv, NEW x \in Extraction, NEW m \in Memory, FlushedAt(x, m),
           x.rows[m] # NoRecord, NEW r \in 1..MaxRevision,
           x.base[m] <= r, r <= x.rows[m].revision
    PROVE  /\ Version(x, m, r) \in MemoryRecord
           /\ r > x.base[m] => Version(x, m, r) = x.snapshots[m][r]
           /\ r = x.base[m] => /\ Version(x, m, r) = revisions[m][r]
                               /\ revisions[m][r] # NoRecord
<1> USE BoundsAssumption
<1>1. /\ x.snapshots[m] \in History /\ x.base[m] \in 0..MaxRevision
      /\ x.rows[m] \in MemoryRecord /\ x.rows[m].revision \in 1..MaxRevision
      /\ revisions[m] \in History
  BY DEF Extraction, StoreInv, TypeOK, MemoryRecord
<1>2. CASE r > x.base[m]
  <2>1. x.snapshots[m][r] # NoRecord
    BY <1>1, <1>2 DEF FlushedAt
  <2>2. QED
    BY <1>1, <1>2, <2>1 DEF Version
<1>3. CASE r = x.base[m]
  <2>1. x.snapshots[m][r] = NoRecord
    BY <1>1, <1>3 DEF FlushedAt
  <2>2. m \in Stored /\ r <= memories[m].revision
    BY <1>1, <1>3 DEF FlushedAt
  <2>3. revisions[m][r] # NoRecord
    BY <2>2 DEF StoreInv, HistoryComplete
  <2>4. QED
    BY <1>1, <1>3, <2>1, <2>3 DEF Version
<1>4. QED
  BY <1>1, <1>2, <1>3

LEMMA FlushedBase ==
    ASSUME NEW x, NEW m, FlushedAt(x, m), x.rows[m] # NoRecord
    PROVE  x.base[m] < x.rows[m].revision
BY DEF FlushedAt

\* One more version of a memory that the session has flushed before.
LEMMA FlushNext ==
    ASSUME StoreInv, NEW c \in Client, NEW m \in Memory, NEW record \in MemoryRecord,
           Follows(c, m, record), extraction[c].rows[m] # NoRecord,
           NEW y \in Extraction, y.rows[m] = record,
           y.snapshots[m] = [extraction[c].snapshots[m] EXCEPT ![record.revision] = record],
           y.base[m] = extraction[c].base[m]
    PROVE  FlushedAt(y, m)
<1>0. MaxRevision \in Nat /\ NoRecord \notin MemoryRecord
  BY BoundsAssumption, RecordAssumption
<1> DEFINE x == extraction[c]
           last == x.rows[m]
           base == x.base[m]
<1>1. /\ x \in Extraction /\ FlushedAt(x, m)
      /\ x.snapshots[m] \in History /\ base \in 0..MaxRevision
      /\ last \in MemoryRecord /\ last.revision \in 1..MaxRevision
      /\ last.evidence_count \in Nat /\ last # NoRecord
  BY <1>0, SessionTyped DEF Extraction, MemoryRecord
<1>2. record # NoRecord /\ record.revision \in 1..MaxRevision
  BY <1>0 DEF MemoryRecord
<1>3. /\ record.revision = last.revision + 1 /\ Merged(last, record)
      /\ record.evidence_count \in {last.evidence_count, last.evidence_count + 1}
  BY ViewTyped DEF Follows
<1>4. base < last.revision /\ base < record.revision
  <2>1. base < last.revision
    BY <1>1, FlushedBase
  <2>2. QED
    BY <1>0, <1>1, <1>3, <2>1
<1>5. \A r \in 1..MaxRevision :
            /\ x.snapshots[m][r] # NoRecord <=> base < r /\ r <= last.revision
            /\ x.snapshots[m][r] # NoRecord => x.snapshots[m][r].revision = r
  BY <1>1 DEF FlushedAt
<1>6. /\ base > 0 => m \in Stored /\ base <= memories[m].revision
      /\ base = 0 => /\ last.authority = "inferred" /\ last.state = "candidate"
                     /\ x.snapshots[m][1].evidence_count = 1
      /\ x.snapshots[m][last.revision] = last
  BY <1>1 DEF FlushedAt
<1>7. ASSUME NEW q \in 1..MaxRevision, NEW r \in 1..MaxRevision,
             base <= q, q < r, r <= last.revision
      PROVE  /\ Merged(Version(x, m, q), Version(x, m, r))
             /\ r = q + 1 => Version(x, m, r).evidence_count
                               <= Version(x, m, q).evidence_count + 1
  BY <1>1, <1>7 DEF FlushedAt
<1>8. \A r \in 1..MaxRevision :
        y.snapshots[m][r] = IF r = record.revision THEN record ELSE x.snapshots[m][r]
  BY <1>1
<1>9. ASSUME NEW r \in 1..MaxRevision, r <= last.revision
      PROVE  Version(y, m, r) = Version(x, m, r)
  <2>1. r # record.revision
    BY <1>0, <1>1, <1>3, <1>9
  <2>2. y.snapshots[m][r] = x.snapshots[m][r]
    BY <1>8, <2>1
  <2>3. QED
    BY <2>2 DEF Version
<1>10. Version(y, m, record.revision) = record
  BY <1>2, <1>8 DEF Version
<1>11. Version(x, m, last.revision) = last
  BY <1>1, <1>6 DEF Version
<1>12. /\ base \in Int /\ last.revision \in Int /\ record.revision \in Int
       /\ \A r \in 1..MaxRevision : r \in Int
  BY <1>0, <1>1, <1>2
<1> HIDE DEF x, last, base
<1>13. ASSUME NEW q \in 1..MaxRevision, NEW r \in 1..MaxRevision,
             base <= q, q < r, r <= record.revision
      PROVE  /\ Merged(Version(y, m, q), Version(y, m, r))
             /\ r = q + 1 => Version(y, m, r).evidence_count
                               <= Version(y, m, q).evidence_count + 1
  <2>0. q \in Int /\ r \in Int
    BY <1>12
  <2>1. CASE r <= last.revision
    <3>1. q <= last.revision
      BY <1>12, <1>13, <2>0, <2>1
    <3>2. Version(y, m, q) = Version(x, m, q) /\ Version(y, m, r) = Version(x, m, r)
      BY <1>9, <2>1, <3>1
    <3>3. QED
      BY <1>7, <1>13, <2>1, <3>2
  <2>2. CASE r > last.revision /\ q = last.revision
    <3>1. r = record.revision
      BY <1>3, <1>12, <1>13, <2>0, <2>2
    <3>2. Version(y, m, r) = record /\ Version(y, m, q) = last
      BY <1>9, <1>10, <1>11, <1>12, <2>2, <3>1
    <3>3. record.evidence_count <= last.evidence_count + 1
      BY <1>1, <1>3
    <3>4. QED
      BY <1>3, <3>2, <3>3
  <2>3. CASE r > last.revision /\ q # last.revision
    <3>1. r = record.revision /\ q < last.revision /\ r # q + 1
      BY <1>3, <1>12, <1>13, <2>0, <2>3
    <3>2. q <= last.revision
      BY <1>12, <2>0, <3>1
    <3>3. Version(x, m, q) \in MemoryRecord
      BY <1>1, <1>13, <3>2, VersionTyped DEF x, last, base
    <3>4. last.revision \in 1..MaxRevision /\ last.revision <= last.revision
      BY <1>1, <1>12
    <3>5. Merged(Version(x, m, q), last)
      BY <1>7, <1>11, <1>13, <3>1, <3>4
    <3>6. Merged(Version(x, m, q), record)
      BY <1>1, <1>3, <3>3, <3>5, MergedTransitive
    <3>7. Version(y, m, q) = Version(x, m, q) /\ Version(y, m, r) = record
      BY <1>9, <1>10, <3>1, <3>2
    <3>8. QED
      BY <3>1, <3>6, <3>7
  <2>4. QED
    BY <1>12, <2>0, <2>1, <2>2, <2>3
<1>14. base = 0 => record.authority = "inferred" /\ record.state = "candidate"
  BY <1>3, <1>6 DEF Merged
<1>15. base = 0 => y.snapshots[m][1].evidence_count = 1
  <2>1. 1 \in 1..MaxRevision /\ (base = 0 => 1 # record.revision)
    BY <1>0, <1>1, <1>3, <1>4, <1>12
  <2>2. QED
    BY <1>6, <1>8, <2>1
<1>16. ASSUME NEW r \in 1..MaxRevision
       PROVE  /\ y.snapshots[m][r] # NoRecord <=> base < r /\ r <= record.revision
              /\ y.snapshots[m][r] # NoRecord => y.snapshots[m][r].revision = r
  <2>0. r \in Int
    BY <1>12
  <2>1. CASE r = record.revision
    BY <1>2, <1>4, <1>8, <1>12, <2>1
  <2>2. CASE r # record.revision
    <3>1. y.snapshots[m][r] = x.snapshots[m][r]
      BY <1>8, <2>2
    <3>2. r <= last.revision <=> r <= record.revision
      BY <1>3, <1>12, <2>0, <2>2
    <3>3. QED
      BY <1>5, <3>1, <3>2
  <2>3. QED
    BY <2>1, <2>2
<1>17. y.snapshots[m][record.revision] = record
  BY <1>2, <1>8
<1>18. y.rows[m] = record /\ y.base[m] = base
  BY DEF base, x
<1>19. QED
  BY <1>2, <1>4, <1>6, <1>13, <1>14, <1>15, <1>16, <1>17, <1>18 DEF FlushedAt

\* The proposals that are left are as good as those before.
LEMMA AnswerableTail ==
    ASSUME StoreInv, NEW c \in Client, Writing(c),
           NEW y, y.items = Tail(extraction[c].items)
    PROVE  Answerable(y)
<1> DEFINE items == extraction[c].items
<1>1. items \in Seq(Proposal) /\ items # << >> /\ Answerable(extraction[c])
  BY SessionTyped DEF Extraction, Writing
<1>2. \A i \in 1..Len(Tail(items)) :
        i + 1 \in 1..Len(items) /\ Tail(items)[i] = items[i + 1]
  BY <1>1
<1>3. QED
  BY <1>1, <1>2 DEF Answerable

\* Whatever a session flushes, it holds versions that it can commit.
LEMMA FlushHeld ==
    ASSUME StoreInv, NEW c \in Client, NEW m \in Memory, NEW record \in MemoryRecord,
           Flushes(c, m, record)
    PROVE  \E y \in Extraction :
             /\ extraction' = [extraction EXCEPT ![c] = y]
             /\ Answerable(y) /\ \A n \in Memory : FlushedAt(y, n)
<1> DEFINE x == extraction[c]
<1>1. PICK y \in Extraction :
             /\ extraction' = [extraction EXCEPT ![c] = y]
             /\ y.items = Tail(x.items)
             /\ y.rows[m] = record
             /\ y.snapshots[m] = [x.snapshots[m] EXCEPT ![record.revision] = record]
             /\ y.base[m] = IF x.rows[m] = NoRecord THEN record.revision - 1
                                                    ELSE x.base[m]
             /\ \A n \in Memory \ {m} :
                  /\ y.rows[n] = x.rows[n] /\ y.snapshots[n] = x.snapshots[n]
                  /\ y.base[n] = x.base[n] /\ y.links[n] = x.links[n]
  BY FlushFields
<1>2. FlushedAt(y, m)
  <2>1. Follows(c, m, record)
    BY DEF Flushes
  <2>2. /\ y.rows[m] = record
        /\ y.snapshots[m] = [extraction[c].snapshots[m] EXCEPT ![record.revision] = record]
    BY <1>1
  <2>3. CASE x.rows[m] = NoRecord
    <3>1. extraction[c].rows[m] = NoRecord /\ y.base[m] = record.revision - 1
      BY <1>1, <2>3
    <3>2. QED
      BY <2>1, <2>2, <3>1, FlushFirst
  <2>4. CASE x.rows[m] # NoRecord
    <3>1. extraction[c].rows[m] # NoRecord /\ y.base[m] = extraction[c].base[m]
      BY <1>1, <2>4
    <3>2. QED
      BY <2>1, <2>2, <3>1, FlushNext
  <2>5. QED
    BY <2>3, <2>4
<1>3. ASSUME NEW n \in Memory \ {m}
      PROVE  FlushedAt(y, n)
  <2>1. FlushedAt(x, n)
    BY SessionTyped
  <2>2. /\ y.rows[n] = x.rows[n] /\ y.snapshots[n] = x.snapshots[n]
        /\ y.base[n] = x.base[n] /\ y.links[n] = x.links[n]
    BY <1>1
  <2>3. QED
    BY <2>1, <2>2, FlushedAlike
<1>4. Answerable(y)
  BY <1>1, AnswerableTail DEF Flushes
<1>5. \A n \in Memory : FlushedAt(y, n)
  BY <1>2, <1>3
<1>6. QED
  BY <1>1, <1>4, <1>5

\* An extraction after a step of its own.
LEMMA ExtractionHeld ==
    ASSUME StoreInv, NEW c \in Client, Extract(c) \/ Rollback(c)
    PROVE  \E y \in Extraction :
             /\ extraction' = [extraction EXCEPT ![c] = y]
             /\ Answerable(y) /\ \A n \in Memory : FlushedAt(y, n)
<1> DEFINE x == extraction[c]
           Goal == \E y \in Extraction :
             /\ extraction' = [extraction EXCEPT ![c] = y]
             /\ Answerable(y) /\ \A n \in Memory : FlushedAt(y, n)
<1>0. /\ x \in Extraction /\ Answerable(x)
      /\ \A n \in Memory : FlushedAt(x, n)
  BY SessionTyped
<1>1. CASE ExtractCommit(c) \/ Rollback(c)
  BY <1>1, NothingHeld DEF ExtractCommit, Rollback
<1>2. CASE ExtractCreate(c) \/ ExtractMerge(c)
  BY <1>2, CreateFlushes, MergeFlushes, FlushHeld
<1>3. ASSUME NEW in \in Input, ExtractMatch(c, in)
      PROVE  Goal
  <2>1. PICK chosen \in Stored \cup {NoMemory} :
          extraction' = [extraction EXCEPT ![c] =
            [x EXCEPT !.phase = "match",
                      !.items = Append(@, [input |-> in, chosen |-> chosen])]]
    BY <1>3 DEF ExtractMatch
  <2>2. PICK p : p = [input |-> in, chosen |-> chosen]
    OBVIOUS
  <2>3. p \in Proposal /\ p.input.evidence # NoEvidence
        /\ p.chosen \in Stored \cup {NoMemory}
    BY <1>3, <2>2 DEF Proposal, Stored, ExtractMatch
  <2>4. PICK items : items = Append(x.items, p)
    OBVIOUS
  <2>5. x.items \in Seq(Proposal)
    BY <1>0 DEF Extraction
  <2>6. items \in Seq(Proposal)
    BY <2>3, <2>4, <2>5
  <2>7. \A i \in 1..Len(items) :
          (i \in 1..Len(x.items) /\ items[i] = x.items[i]) \/ items[i] = p
    BY <2>3, <2>4, <2>5
  <2>8. PICK y : y = [x EXCEPT !.phase = "match", !.items = items]
    OBVIOUS
  <2>9. /\ y \in Extraction /\ y.items = items
        /\ \A n \in Memory : /\ y.rows = x.rows /\ y.snapshots = x.snapshots
                             /\ y.base = x.base /\ y.links = x.links
    BY <1>0, <2>6, <2>8 DEF Extraction
  <2>10. extraction' = [extraction EXCEPT ![c] = y]
    BY <1>0, <2>1, <2>2, <2>4, <2>8
  <2>11. Answerable(y)
    BY <1>0, <2>3, <2>7, <2>9 DEF Answerable
  <2>12. \A n \in Memory : FlushedAt(y, n)
    BY <1>0, <2>9, FlushedAlike
  <2>13. QED
    BY <2>9, <2>10, <2>11, <2>12
<1>4. CASE ExtractReuse(c)
  <2>1. PICK items : items = Tail(x.items)
    OBVIOUS
  <2>2. /\ items \in Seq(Proposal)
        /\ \A i \in 1..Len(items) : i + 1 \in 1..Len(x.items) /\ items[i] = x.items[i + 1]
    BY <1>0, <1>4, <2>1 DEF Extraction, ExtractReuse, Writing
  <2>3. PICK y : y = [x EXCEPT !.phase = "write", !.items = items]
    OBVIOUS
  <2>4. /\ y \in Extraction /\ y.items = items
        /\ \A n \in Memory : /\ y.rows = x.rows /\ y.snapshots = x.snapshots
                             /\ y.base = x.base /\ y.links = x.links
    BY <1>0, <2>2, <2>3 DEF Extraction
  <2>5. extraction' = [extraction EXCEPT ![c] = y]
    BY <1>0, <1>4, <2>1, <2>3 DEF ExtractReuse
  <2>6. Answerable(y)
    BY <1>0, <2>2, <2>4 DEF Answerable
  <2>7. \A n \in Memory : FlushedAt(y, n)
    BY <1>0, <2>4, FlushedAlike
  <2>8. QED
    BY <2>4, <2>5, <2>6, <2>7
<1>5. QED
  BY <1>1, <1>2, <1>3, <1>4 DEF Extract

\* What one memory gains when an extraction commits.
LEMMA CommitGains ==
    ASSUME StoreInv, NEW c \in Client, ExtractCommit(c), NEW m \in Memory,
           extraction[c].rows[m] # NoRecord
    PROVE  Gains(m)
<1>0. MaxRevision \in Nat /\ NoRecord \notin MemoryRecord
  BY BoundsAssumption, RecordAssumption
<1> DEFINE x == extraction[c]
           row == x.rows[m]
           base == x.base[m]
           log == revisions'[m]
<1>1. /\ x \in Extraction /\ FlushedAt(x, m)
      /\ x.snapshots[m] \in History /\ base \in 0..MaxRevision
      /\ row \in MemoryRecord /\ row.revision \in 1..MaxRevision
      /\ revisions[m] \in History /\ row # NoRecord
      /\ memories[m] \in MemoryRecord \cup {NoRecord}
  BY <1>0, SessionTyped DEF Extraction, MemoryRecord, StoreInv, TypeOK
<1>2. base < row.revision
  BY <1>1 DEF FlushedAt
<1>3. \A r \in 1..MaxRevision :
            /\ x.snapshots[m][r] # NoRecord <=> base < r /\ r <= row.revision
            /\ x.snapshots[m][r] # NoRecord => x.snapshots[m][r].revision = r
  BY <1>1 DEF FlushedAt
<1>4. /\ base = 0 => /\ row.authority = "inferred" /\ row.state = "candidate"
                     /\ x.snapshots[m][1].evidence_count = 1
      /\ x.snapshots[m][row.revision] = row
  BY <1>1 DEF FlushedAt
<1>5. ASSUME NEW q \in 1..MaxRevision, NEW r \in 1..MaxRevision,
             base <= q, q < r, r <= row.revision
      PROVE  /\ Merged(Version(x, m, q), Version(x, m, r))
             /\ r = q + 1 => Version(x, m, r).evidence_count
                               <= Version(x, m, q).evidence_count + 1
  BY <1>1, <1>5 DEF FlushedAt
<1>6. IF base = 0 THEN m \notin Stored ELSE m \in Stored /\ memories[m].revision = base
  BY DEF ExtractCommit, RevisionUnchanged
<1>7. Found(m) = base
  BY <1>6 DEF Found
<1>8. memories'[m] = row
  BY DEF ExtractCommit, View
<1>9. log \in History /\ \A r \in 1..MaxRevision : log[r] = Version(x, m, r)
  <2>1. log = [r \in 1..MaxRevision |-> Version(x, m, r)]
    BY DEF ExtractCommit, Version
  <2>2. \A r \in 1..MaxRevision : Version(x, m, r) \in MemoryRecord \cup {NoRecord}
    BY <1>1 DEF Version
  <2>3. QED
    BY <2>1, <2>2
<1>10. \A r \in 1..MaxRevision :
        /\ revisions[m][r] # NoRecord <=> r <= base
        /\ revisions[m][r] # NoRecord => revisions[m][r].revision = r
  BY <1>0, <1>1, <1>6 DEF StoreInv, HistoryComplete, SnapshotsNumbered
<1>11. base \in Int /\ row.revision \in Int /\ \A r \in 1..MaxRevision : r \in Int
  BY <1>0, <1>1
<1> HIDE DEF x, row, base, log
<1>12. ASSUME NEW r \in 1..MaxRevision
       PROVE  /\ r <= base => log[r] = revisions[m][r]
              /\ base < r /\ r <= row.revision => log[r] = x.snapshots[m][r]
              /\ row.revision < r => log[r] = NoRecord
  <2>0. r \in Int
    BY <1>11
  <2>1. CASE r <= base
    <3>1. x.snapshots[m][r] = NoRecord
      BY <1>3, <1>11, <2>0, <2>1
    <3>2. log[r] = revisions[m][r]
      BY <1>9, <3>1 DEF Version
    <3>3. QED
      BY <1>2, <1>11, <2>0, <2>1, <3>2
  <2>2. CASE base < r /\ r <= row.revision
    <3>1. x.snapshots[m][r] # NoRecord
      BY <1>3, <2>2
    <3>2. log[r] = x.snapshots[m][r]
      BY <1>9, <3>1 DEF Version
    <3>3. QED
      BY <1>11, <2>0, <2>2, <3>2
  <2>3. CASE row.revision < r
    <3>1. x.snapshots[m][r] = NoRecord
      BY <1>3, <1>11, <2>0, <2>3
    <3>2. revisions[m][r] = NoRecord
      BY <1>2, <1>10, <1>11, <2>0, <2>3
    <3>3. log[r] = NoRecord
      BY <1>9, <3>1, <3>2 DEF Version
    <3>4. QED
      BY <1>2, <1>11, <2>0, <2>3, <3>3
  <2>4. QED
    BY <1>11, <2>0, <2>1, <2>2, <2>3
<1>13. log[row.revision] = row
  BY <1>1, <1>2, <1>4, <1>11, <1>12
<1>14. HistoryAt(row, log)
  <2>1. ASSUME NEW r \in 1..MaxRevision
        PROVE  /\ log[r] # NoRecord <=> r <= row.revision
               /\ log[r] # NoRecord => log[r].revision = r
    <3>0. r \in Int
      BY <1>11
    <3>1. CASE r <= base
      BY <1>2, <1>10, <1>11, <1>12, <3>0, <3>1
    <3>2. CASE base < r /\ r <= row.revision
      BY <1>3, <1>12, <3>2
    <3>3. CASE row.revision < r
      BY <1>11, <1>12, <3>0, <3>3
    <3>4. QED
      BY <1>11, <3>0, <3>1, <3>2, <3>3
  <2>2. QED
    BY <1>1, <1>13, <2>1 DEF HistoryAt
<1>15. m \notin Stored => /\ row.authority = "inferred" /\ row.state = "candidate"
                          /\ log[1].evidence_count = 1
  <2>1. SUFFICES ASSUME m \notin Stored
                 PROVE  /\ row.authority = "inferred" /\ row.state = "candidate"
                        /\ log[1].evidence_count = 1
    OBVIOUS
  <2>2. base = 0 /\ 1 \in 1..MaxRevision /\ base < 1 /\ 1 <= row.revision
    BY <1>0, <1>1, <1>6, <2>1
  <2>3. log[1] = x.snapshots[m][1]
    BY <1>12, <2>2
  <2>4. QED
    BY <1>4, <2>2, <2>3
<1>16. ASSUME NEW q \in 1..MaxRevision, NEW r \in 1..MaxRevision,
              base <= q, q < r, r <= row.revision
       PROVE  /\ Merged(log[q], log[r])
              /\ r = q + 1 => log[r].evidence_count <= log[q].evidence_count + 1
  BY <1>5, <1>9, <1>16
<1>17. \A r \in 1..MaxRevision : r <= base => log[r] = revisions[m][r]
  BY <1>12
<1>18. QED
  BY <1>1, <1>2, <1>7, <1>8, <1>9, <1>14, <1>15, <1>16, <1>17 DEF Gains, log

LEMMA CommitLearns ==
    ASSUME StoreInv, NEW c \in Client, ExtractCommit(c)
    PROVE  Learns
<1> DEFINE x == extraction[c]
<1>1. /\ memories' = View(c)
      /\ revisions' = [m \in Memory |-> [r \in 1..MaxRevision |->
            IF x.snapshots[m][r] = NoRecord THEN revisions[m][r] ELSE x.snapshots[m][r]]]
  BY DEF ExtractCommit
<1>2. ASSUME NEW m \in Memory, x.rows[m] = NoRecord
      PROVE  Stays(m)
  <2>1. x.snapshots[m] = NoHistory /\ revisions[m] \in History
    BY <1>2, SessionTyped DEF FlushedAt, StoreInv, TypeOK
  <2>2. revisions'[m] = [r \in 1..MaxRevision |-> revisions[m][r]]
    BY <1>1, <2>1 DEF NoHistory
  <2>3. revisions'[m] = revisions[m]
    BY <2>1, <2>2
  <2>4. QED
    BY <1>1, <1>2, <2>3 DEF View, Stays
<1>3. /\ memories' = [m \in Memory |-> memories'[m]]
      /\ revisions' = [m \in Memory |-> revisions'[m]]
  BY <1>1 DEF View
<1>4. QED
  BY <1>2, <1>3, CommitGains DEF Learns

LEMMA NextStore == StoreInv /\ [Next]_vars => StoreStep
<1> SUFFICES ASSUME StoreInv, [Next]_vars PROVE StoreStep
  OBVIOUS
<1>1. CASE UNCHANGED vars
  BY <1>1 DEF vars, StoreStep, StoreUnchanged
<1>2. ASSUME NEW c \in Client, Start(c) \/ Rollback(c)
      PROVE  StoreStep
  BY <1>2 DEF Start, AddRead, LoadRead, Rollback, store, StoreStep, StoreUnchanged
<1>3. ASSUME NEW c \in Client, Extract(c)
      PROVE  StoreStep
  <2>1. CASE ExtractCommit(c)
    BY <2>1, CommitLearns DEF StoreStep
  <2>2. CASE ~ExtractCommit(c)
    <3>1. UNCHANGED store
      BY <1>3, <2>2 DEF Extract, ExtractMatch, ExtractCreate, ExtractMerge,
                        ExtractReuse, Flush
    <3>2. QED
      BY <3>1 DEF store, StoreStep, StoreUnchanged
  <2>3. QED
    BY <2>1, <2>2
<1>4. QED
  BY <1>1, <1>2, <1>3, WriteStore DEF Next


\* A replacement, row by row.
LEMMA ReplacesAt ==
    ASSUME TypeOK, NEW m \in Memory, NEW n \in Memory,
           NEW v \in MemoryRecord, NEW w \in MemoryRecord, Replaces(m, v, n, w)
    PROVE  /\ m # n /\ memories[m] # NoRecord /\ memories[n] = NoRecord
           /\ memories[m] \in MemoryRecord
           /\ v.revision = memories[m].revision + 1 /\ w.revision = 1
           /\ memories' = [x \in Memory |-> IF x = n THEN w
                                            ELSE IF x = m THEN v ELSE memories[x]]
           /\ revisions' = [x \in Memory |-> [r \in 1..MaxRevision |->
                 IF x = n /\ r = 1 THEN w
                 ELSE IF x = m /\ r = v.revision THEN v ELSE revisions[x][r]]]
<1>1. /\ m # n /\ memories[m] # NoRecord /\ memories[n] = NoRecord
      /\ memories[m] \in MemoryRecord
  BY DEF Replaces, Stored, TypeOK
<1>2. v.revision = memories[m].revision + 1 /\ w.revision = 1
  BY <1>1 DEF Replaces, MemoryRecord
<1>3. memories' = [x \in Memory |-> IF x = n THEN w
                                    ELSE IF x = m THEN v ELSE memories[x]]
  BY <1>1 DEF Replaces, TypeOK
<1>4. revisions' = [x \in Memory |-> [r \in 1..MaxRevision |->
                 IF x = n /\ r = 1 THEN w
                 ELSE IF x = m /\ r = v.revision THEN v ELSE revisions[x][r]]]
  <2>1. revisions' = [revisions EXCEPT ![m][v.revision] = v, ![n][1] = w]
    BY DEF Replaces
  <2>2. revisions \in [Memory -> [1..MaxRevision -> MemoryRecord \cup {NoRecord}]]
    BY DEF TypeOK
  <2>3. QED
    BY <1>1, <2>1, <2>2
<1>5. QED
  BY <1>1, <1>2, <1>3, <1>4

\* The rows and the snapshots keep their types and stay in step.
LEMMA StoreTyped ==
    ASSUME TypeOK, StoreStep
    PROVE  /\ memories' \in [Memory -> MemoryRecord \cup {NoRecord}]
           /\ revisions' \in
                [Memory -> [1..MaxRevision -> MemoryRecord \cup {NoRecord}]]
<1> DEFINE Rows == [Memory -> MemoryRecord \cup {NoRecord}]
           Snapshots == [1..MaxRevision -> MemoryRecord \cup {NoRecord}]
<1>0. memories \in Rows /\ revisions \in [Memory -> Snapshots]
  BY DEF TypeOK
<1>1. ASSUME NEW m \in Memory, NEW w \in MemoryRecord,
             Updates(m, w) \/ Inserts(m, w)
      PROVE  memories' \in Rows /\ revisions' \in [Memory -> Snapshots]
  <2>1. memories' = [memories EXCEPT ![m] = w]
    BY <1>1 DEF Updates, Inserts
  <2>2. revisions' = [revisions EXCEPT ![m] = [@ EXCEPT ![w.revision] = w]]
    BY <1>1 DEF Updates, Inserts
  <2>3. [revisions[m] EXCEPT ![w.revision] = w] \in Snapshots
    BY <1>0
  <2>4. QED
    BY <1>0, <2>1, <2>2, <2>3
<1>2. ASSUME NEW m \in Memory, NEW n \in Memory,
             NEW v \in MemoryRecord, NEW w \in MemoryRecord, Replaces(m, v, n, w)
      PROVE  memories' \in Rows /\ revisions' \in [Memory -> Snapshots]
  <2>1. \A x \in Memory : /\ memories[x] \in MemoryRecord \cup {NoRecord}
                          /\ revisions[x] \in Snapshots
    BY <1>0
  <2>2. memories' \in Rows
    BY <1>2, <2>1, ReplacesAt
  <2>3. ASSUME NEW x \in Memory
        PROVE  [r \in 1..MaxRevision |->
                 IF x = n /\ r = 1 THEN w
                 ELSE IF x = m /\ r = v.revision THEN v ELSE revisions[x][r]]
               \in Snapshots
    BY <2>1
  <2>4. revisions' \in [Memory -> Snapshots]
    BY <1>2, <2>3, ReplacesAt
  <2>5. QED
    BY <2>2, <2>4
<1>3. CASE Learns
  <2>1. \A m \in Memory : /\ memories'[m] \in MemoryRecord \cup {NoRecord}
                          /\ revisions'[m] \in Snapshots
    BY <1>0, <1>3 DEF Learns, Stays, Gains
  <2>2. QED
    BY <1>3, <2>1 DEF Learns
<1>4. QED
  BY <1>0, <1>1, <1>2, <1>3 DEF StoreStep, StoreUnchanged

LEMMA HistoryPointwise ==
    (HistoryComplete /\ SnapshotsNumbered) <=>
        \A m \in Memory : HistoryAt(memories[m], revisions[m])
BY DEF HistoryComplete, SnapshotsNumbered, HistoryAt, Stored

\* The history of a memory stays complete when its next snapshot is written.
LEMMA HistoryAppend ==
    ASSUME NEW row \in MemoryRecord,
           NEW snapshots \in [1..MaxRevision -> MemoryRecord \cup {NoRecord}],
           HistoryAt(row, snapshots),
           NEW w \in MemoryRecord, w.revision = row.revision + 1
    PROVE  HistoryAt(w, [snapshots EXCEPT ![w.revision] = w])
BY RecordAssumption, BoundsAssumption DEF HistoryAt, MemoryRecord

LEMMA HistoryFirst ==
    ASSUME NEW snapshots \in [1..MaxRevision -> MemoryRecord \cup {NoRecord}],
           HistoryAt(NoRecord, snapshots),
           NEW w \in MemoryRecord, w.revision = 1
    PROVE  HistoryAt(w, [snapshots EXCEPT ![1] = w])
BY RecordAssumption, BoundsAssumption DEF HistoryAt, MemoryRecord

LEMMA HistoryStep ==
    ASSUME StoreInv, StoreStep
    PROVE  HistoryComplete' /\ SnapshotsNumbered'
<1>0. \A x \in Memory : HistoryAt(memories[x], revisions[x])
  BY HistoryPointwise DEF StoreInv
<1>t. \A x \in Memory :
        /\ memories[x] \in MemoryRecord \cup {NoRecord}
        /\ revisions[x] \in [1..MaxRevision -> MemoryRecord \cup {NoRecord}]
  BY DEF StoreInv, TypeOK
<1>d. /\ memories = [x \in Memory |-> memories[x]]
      /\ revisions = [x \in Memory |-> revisions[x]]
  BY DEF StoreInv, TypeOK
<1> SUFFICES ASSUME NEW x \in Memory
             PROVE  HistoryAt(memories'[x], revisions'[x])
  BY DEF HistoryComplete, SnapshotsNumbered, HistoryAt, Stored
<1>1. CASE StoreUnchanged
  BY <1>0, <1>1 DEF StoreUnchanged
<1>2. ASSUME NEW m \in Memory, NEW w \in MemoryRecord, Updates(m, w)
      PROVE  HistoryAt(memories'[x], revisions'[x])
  <2>1. memories[m] \in MemoryRecord /\ w.revision = memories[m].revision + 1
    BY <1>2, <1>t DEF Updates, Stored
  <2>2. /\ memories' = [memories EXCEPT ![m] = w]
        /\ revisions' = [revisions EXCEPT ![m] = [@ EXCEPT ![w.revision] = w]]
    BY <1>2 DEF Updates
  <2>3. CASE x = m
    BY <1>0, <1>t, <1>d, <2>1, <2>2, <2>3, HistoryAppend
  <2>4. CASE x # m
    BY <1>0, <1>d, <2>2, <2>4
  <2>5. QED
    BY <2>3, <2>4
<1>3. ASSUME NEW m \in Memory, NEW w \in MemoryRecord, Inserts(m, w)
      PROVE  HistoryAt(memories'[x], revisions'[x])
  <2>1. memories[m] = NoRecord /\ w.revision = 1
    BY <1>3, <1>t DEF Inserts, Stored
  <2>2. /\ memories' = [memories EXCEPT ![m] = w]
        /\ revisions' = [revisions EXCEPT ![m] = [@ EXCEPT ![1] = w]]
    BY <1>3 DEF Inserts
  <2>3. CASE x = m
    BY <1>0, <1>t, <1>d, <2>1, <2>2, <2>3, HistoryFirst
  <2>4. CASE x # m
    BY <1>0, <1>d, <2>2, <2>4
  <2>5. QED
    BY <2>3, <2>4
<1>4. ASSUME NEW m \in Memory, NEW n \in Memory,
             NEW v \in MemoryRecord, NEW w \in MemoryRecord, Replaces(m, v, n, w)
      PROVE  HistoryAt(memories'[x], revisions'[x])
  <2>1. /\ m # n /\ memories[m] # NoRecord /\ memories[n] = NoRecord
        /\ memories[m] \in MemoryRecord
        /\ v.revision = memories[m].revision + 1 /\ w.revision = 1
        /\ memories' = [y \in Memory |-> IF y = n THEN w
                                         ELSE IF y = m THEN v ELSE memories[y]]
        /\ revisions' = [y \in Memory |-> [r \in 1..MaxRevision |->
              IF y = n /\ r = 1 THEN w
              ELSE IF y = m /\ r = v.revision THEN v ELSE revisions[y][r]]]
    BY <1>4, ReplacesAt DEF StoreInv
  <2>2. CASE x = m
    <3>1. memories'[x] = v
      BY <2>1, <2>2
    <3>2. revisions'[x] = [revisions[x] EXCEPT ![v.revision] = v]
      BY <1>t, <2>1, <2>2
    <3>3. QED
      BY <1>0, <1>t, <2>1, <2>2, <3>1, <3>2, HistoryAppend
  <2>3. CASE x = n
    <3>1. memories'[x] = w
      BY <2>1, <2>3
    <3>2. revisions'[x] = [revisions[x] EXCEPT ![1] = w]
      BY <1>t, <2>1, <2>3
    <3>3. QED
      BY <1>0, <1>t, <2>1, <2>3, <3>1, <3>2, HistoryFirst
  <2>4. CASE x # m /\ x # n
    <3>1. memories'[x] = memories[x]
      BY <2>1, <2>4
    <3>2. revisions'[x] = revisions[x]
      BY <1>t, <2>1, <2>4
    <3>3. QED
      BY <1>0, <3>1, <3>2
  <2>5. QED
    BY <2>2, <2>3, <2>4
<1>5. CASE Learns
  BY <1>0, <1>5 DEF Learns, Stays, Gains
<1>6. QED
  BY <1>1, <1>2, <1>3, <1>4, <1>5 DEF StoreStep

\* Rows are never removed, revisions never go back, snapshots never change.
LEMMA HistoryGrows ==
    ASSUME StoreInv, StoreStep
    PROVE  /\ \A m \in Stored : /\ m \in Stored'
                                /\ memories'[m].revision >= memories[m].revision
           /\ \A m \in Memory, r \in 1..MaxRevision :
                revisions[m][r] # NoRecord => revisions'[m][r] = revisions[m][r]
<1> USE RecordAssumption, BoundsAssumption
    DEF StoreInv, TypeOK, HistoryComplete, SnapshotsNumbered, Stored
<1>0. \A w \in MemoryRecord : w # NoRecord /\ w.revision \in 1..MaxRevision
  BY DEF MemoryRecord
<1> DEFINE Goal ==
      /\ \A m \in Stored : /\ m \in Stored'
                           /\ memories'[m].revision >= memories[m].revision
      /\ \A m \in Memory, r \in 1..MaxRevision :
           revisions[m][r] # NoRecord => revisions'[m][r] = revisions[m][r]
<1>1. CASE StoreUnchanged
  BY <1>0, <1>1 DEF StoreUnchanged
<1>2. ASSUME NEW m \in Memory, NEW w \in MemoryRecord, Updates(m, w)
      PROVE  Goal
  BY <1>0, <1>2 DEF Updates
<1>3. ASSUME NEW m \in Memory, NEW w \in MemoryRecord, Inserts(m, w)
      PROVE  Goal
  BY <1>0, <1>3 DEF Inserts
<1>4. ASSUME NEW m \in Memory, NEW n \in Memory,
             NEW v \in MemoryRecord, NEW w \in MemoryRecord, Replaces(m, v, n, w)
      PROVE  Goal
  <2>1. /\ m # n /\ memories[m] # NoRecord /\ memories[n] = NoRecord
        /\ memories[m] \in MemoryRecord
        /\ v.revision = memories[m].revision + 1 /\ w.revision = 1
    BY <1>4, ReplacesAt
  <2>2. ASSUME NEW x \in Stored
        PROVE  x \in Stored' /\ memories'[x].revision >= memories[x].revision
    <3>1. memories'[x] = IF x = n THEN w ELSE IF x = m THEN v ELSE memories[x]
      BY <1>4, ReplacesAt
    <3>2. memories[x] \in MemoryRecord
      OBVIOUS
    <3>3. QED
      BY <1>0, <2>1, <3>1, <3>2
  <2>3. ASSUME NEW x \in Memory, NEW r \in 1..MaxRevision,
               revisions[x][r] # NoRecord
        PROVE  revisions'[x][r] = revisions[x][r]
    <3>1. revisions'[x][r] =
                 IF x = n /\ r = 1 THEN w
                 ELSE IF x = m /\ r = v.revision THEN v ELSE revisions[x][r]
      BY <1>4, ReplacesAt
    <3>2. x \in Stored /\ r <= memories[x].revision
      BY <2>3
    <3>3. QED
      BY <1>0, <2>1, <3>1, <3>2
  <2>4. QED
    BY <2>2, <2>3
<1>5. CASE Learns
  <2>1. ASSUME NEW x \in Stored
        PROVE  x \in Stored' /\ memories'[x].revision >= memories[x].revision
    <3>1. memories[x] \in MemoryRecord /\ x \in Memory
      OBVIOUS
    <3>2. CASE Stays(x)
      BY <1>0, <3>1, <3>2 DEF Stays
    <3>3. CASE Gains(x)
      BY <1>0, <3>1, <3>3 DEF Gains, Found
    <3>4. QED
      BY <1>5, <3>1, <3>2, <3>3 DEF Learns
  <2>2. ASSUME NEW x \in Memory, NEW r \in 1..MaxRevision,
               revisions[x][r] # NoRecord
        PROVE  revisions'[x][r] = revisions[x][r]
    <3>1. x \in Stored /\ r <= memories[x].revision
      BY <2>2
    <3>2. r <= Found(x)
      BY <3>1 DEF Found
    <3>3. QED
      BY <1>5, <3>2 DEF Learns, Stays, Gains
  <2>3. QED
    BY <2>1, <2>2
<1>6. QED
  BY <1>1, <1>2, <1>3, <1>4, <1>5 DEF StoreStep


\* What a request holds: an input where its operation has one, a memory that
\* is stored, and of that memory a version.
Held(q) ==
    /\ q.memory \in Stored \cup {NoMemory}
    /\ q.phase # "idle" /\ q.op \in {"add", "patch"} => q.input \in Input
    /\ q.phase = "read" /\ q.op \in {"patch", "confirm", "delete", "restore"} =>
           q.seen # NoRecord
    /\ q.phase = "read" /\ q.seen # NoRecord =>
           /\ q.memory \in Stored
           /\ q.seen.revision <= memories[q.memory].revision
           /\ q.seen = revisions[q.memory][q.seen.revision]

LEMMA IdleHeld == Idle \in Request /\ Held(Idle)
BY DEF Idle, Request, Held, Ops

LEMMA RequestTyped ==
    ASSUME NEW phase \in {"idle", "read"}, NEW op \in Ops,
           NEW in \in Input \cup {NoRecord}, NEW m \in Memory \cup {NoMemory},
           NEW r \in MemoryRecord \cup {NoRecord},
           NEW known \in BOOLEAN, NEW linked \in BOOLEAN
    PROVE  [phase |-> phase, op |-> op, input |-> in, memory |-> m, seen |-> r,
            known |-> known, linked |-> linked] \in Request
BY DEF Request

LEMMA RowTyped ==
    ASSUME StoreInv, NEW m \in Stored \cup {NoMemory}
    PROVE  /\ Row(m) \in MemoryRecord \cup {NoRecord}
           /\ m \in Memory \cup {NoMemory}
           /\ Row(m) # NoRecord =>
                /\ m \in Stored
                /\ Row(m).revision <= memories[m].revision
                /\ Row(m) = revisions[m][Row(m).revision]
<1>1. CASE m = NoMemory
  BY <1>1 DEF Row
<1>2. CASE m # NoMemory
  <2>1. m \in Stored /\ m \in Memory /\ Row(m) = memories[m]
    BY <1>2 DEF Row, Stored
  <2>2. memories[m] \in MemoryRecord
    BY <2>1 DEF StoreInv, TypeOK, Stored
  <2>3. memories[m].revision \in Int
    BY <2>2, BoundsAssumption DEF MemoryRecord
  <2>4. revisions[m][memories[m].revision] = memories[m]
    BY <2>1 DEF StoreInv, HistoryComplete
  <2>5. QED
    BY <2>1, <2>2, <2>3, <2>4
<1>3. QED
  BY <1>1, <1>2

LEMMA FindTyped ==
    ASSUME NEW in, NEW states, NEW m \in FindExactSlot(memories, in, states)
    PROVE  m \in Stored \cup {NoMemory}
BY DEF FindExactSlot, Stored

\* A request that has just read a memory and its evidence.
LEMMA FreshReading ==
    ASSUME StoreInv, NEW op \in Ops, NEW in \in Input \cup {NoRecord},
           op \in {"add", "patch"} => in \in Input,
           NEW m \in Stored \cup {NoMemory},
           op \in {"patch", "confirm", "delete", "restore"} => Row(m) # NoRecord,
           NEW known \in BOOLEAN, NEW linked \in BOOLEAN
    PROVE  /\ Loaded(op, in, m, known, linked) \in Request
           /\ Held(Loaded(op, in, m, known, linked))
<1>1. /\ Row(m) \in MemoryRecord \cup {NoRecord}
      /\ m \in Memory \cup {NoMemory}
      /\ Row(m) # NoRecord =>
           /\ m \in Stored
           /\ Row(m).revision <= memories[m].revision
           /\ Row(m) = revisions[m][Row(m).revision]
  BY RowTyped
<1>2. Loaded(op, in, m, known, linked) \in Request
  BY <1>1, RequestTyped DEF Loaded
<1>3. Held(Loaded(op, in, m, known, linked))
  BY <1>1 DEF Held, Loaded
<1>4. QED
  BY <1>2, <1>3

\* A request after a step, whichever step and whichever request.
LEMMA RequestStep ==
    ASSUME StoreInv, Next, NEW d \in Client
    PROVE  \/ request'[d] = request[d]
           \/ request'[d] \in Request /\ Held(request'[d])
<1> DEFINE Goal == \/ request'[d] = request[d]
                   \/ request'[d] \in Request /\ Held(request'[d])
<1>0. request \in [Client -> Request]
  BY DEF StoreInv, TypeOK
<1>a. ASSUME NEW c \in Client, NEW q, request' = [request EXCEPT ![c] = q],
             q \in Request, Held(q)
      PROVE  Goal
  BY <1>0, <1>a
<1>1. ASSUME NEW c \in Client, Done(c)
      PROVE  Goal
  BY <1>1, <1>a, IdleHeld DEF Done
<1>2. ASSUME NEW c \in Client, NEW in \in Input, AddRead(c, in)
      PROVE  Goal
  <2>1. PICK m \in FindExactSlot(memories, in, {"active"}) :
          request' = [request EXCEPT ![c] =
            Loaded("add", in, m, in.evidence \in evidence, Linked(bound, m, in.evidence))]
    BY <1>2 DEF AddRead
  <2>2. PICK known \in BOOLEAN : known = (in.evidence \in evidence)
    <3>1. (in.evidence \in evidence) \in BOOLEAN
      OBVIOUS
    <3>2. QED
      BY <3>1, Zenon
  <2>3. PICK linked \in BOOLEAN : linked = Linked(bound, m, in.evidence)
    <3>1. Linked(bound, m, in.evidence) \in BOOLEAN
      BY DEF Linked
    <3>2. QED
      BY <3>1, Zenon
  <2>4. m \in Stored \cup {NoMemory}
    BY <2>1, FindTyped
  <2>5. PICK q : q = Loaded("add", in, m, known, linked)
    OBVIOUS
  <2>6. q \in Request /\ Held(q)
    BY <2>4, <2>5, FreshReading DEF Ops
  <2>7. request' = [request EXCEPT ![c] = q]
    BY <2>1, <2>2, <2>3, <2>5
  <2>8. QED
    BY <2>6, <2>7, <1>a
<1>3. ASSUME NEW c \in Client, NEW m \in Stored, NEW expected,
             NEW op \in {"patch", "confirm", "delete", "restore"},
             NEW in \in Input \cup {NoRecord}, op = "patch" => in \in Input,
             LoadRead(c, op, m, in, expected)
      PROVE  Goal
  <2>1. PICK q : q = Loaded(op, in, m, FALSE, FALSE)
    OBVIOUS
  <2>2. Row(m) # NoRecord /\ op \in Ops
    BY NoneAssumption DEF Row, Stored, Ops
  <2>3. q \in Request /\ Held(q)
    BY <1>3, <2>1, <2>2, FreshReading
  <2>4. request' = [request EXCEPT ![c] = q]
    BY <1>3, <2>1 DEF LoadRead
  <2>5. QED
    BY <2>3, <2>4, <1>a
<1>6. ASSUME NEW c \in Client, Start(c)
      PROVE  Goal
  <2>1. CASE \E in \in Input : AddRead(c, in)
    BY <2>1, <1>2
  <2>2. CASE \E m \in Stored, expected \in 1..MaxRevision :
               \/ \E in \in PatchInput(m) : LoadRead(c, "patch", m, in, expected)
               \/ \E op \in {"confirm", "delete", "restore"} :
                     LoadRead(c, op, m, NoRecord, expected)
    BY <2>2, <1>3 DEF PatchInput
  <2>3. QED
    BY <1>6, <2>1, <2>2 DEF Start
<1>7. ASSUME NEW c \in Client, Write(c) \/ Rollback(c)
      PROVE  Goal
  <2>1. Done(c)
    BY <1>7 DEF Write, Rollback, AddReuse, AddBind, AddCreate, AddSupersede,
                PatchCommit, ConfirmCommit, DeleteCommit, RestoreCommit
  <2>2. QED
    BY <2>1, <1>1
<1>8. ASSUME NEW c \in Client, Extract(c)
      PROVE  Goal
  BY <1>8 DEF Extract, ExtractMatch, ExtractCreate, ExtractMerge, ExtractReuse,
              ExtractCommit, Flush
<1>9. QED
  BY <1>6, <1>7, <1>8 DEF Next


LEMMA EvidenceTyped ==
    ASSUME StoreInv, Next
    PROVE  evidence' \subseteq Evidence /\ bound' \in [Memory -> SUBSET Evidence]
<1> DEFINE Typed == evidence' \subseteq Evidence /\ bound' \in [Memory -> SUBSET Evidence]
<1>0. evidence \subseteq Evidence /\ bound \in [Memory -> SUBSET Evidence]
  BY DEF StoreInv, TypeOK
<1>1. ASSUME UNCHANGED <<evidence, bound>>
      PROVE  Typed
  BY <1>0, <1>1
<1>2. ASSUME NEW c \in Client, Start(c) \/ Rollback(c)
      PROVE  Typed
  <2>1. UNCHANGED <<evidence, bound>>
    BY <1>2 DEF Start, AddRead, LoadRead, Rollback, store
  <2>2. QED
    BY <1>1, <2>1
<1>3. ASSUME NEW c \in Client, Write(c)
      PROVE  Typed
  <2> DEFINE q == request[c]
  <2>1. CASE UNCHANGED <<evidence, bound>>
    BY <1>1, <2>1
  <2>2. CASE AddBind(c) \/ AddCreate(c) \/ AddSupersede(c)
    <3>1. q.phase = "read" /\ q.op = "add"
      BY <2>2 DEF Reading, AddBind, AddCreate, AddSupersede
    <3>2. q.input.evidence \in Evidence \cup {NoEvidence}
      BY <3>1 DEF StoreInv, ReadingsAreVersions, Input
    <3>3. {q.input.evidence} \ {NoEvidence} \subseteq Evidence
      BY <3>2
    <3>4. ASSUME NEW m \in Memory, NEW w, Insert(m, w, q.input.evidence)
          PROVE  bound' = [bound EXCEPT ![m] = {q.input.evidence} \ {NoEvidence}]
      BY <3>4 DEF Insert
    <3>5. /\ StoreEvidence(q.input.evidence)
          /\ \/ \E m \in Memory :
                  bound' = [bound EXCEPT ![m] = {q.input.evidence} \ {NoEvidence}]
             \/ /\ q.input.evidence # NoEvidence
                /\ bound' = [bound EXCEPT ![q.memory] = @ \cup {q.input.evidence}]
      BY <2>2, <3>4 DEF AddBind, AddCreate, AddSupersede
    <3>6. QED
      BY <1>0, <3>2, <3>3, <3>5 DEF StoreEvidence
  <2>3. QED
    BY <1>3, <2>1, <2>2 DEF Write, AddReuse, PatchCommit, ConfirmCommit,
                            DeleteCommit, RestoreCommit, store
<1>4. ASSUME NEW c \in Client, Extract(c)
      PROVE  Typed
  <2>1. CASE ExtractCommit(c)
    <3>1. /\ extraction[c].links \in [Memory -> SUBSET Evidence]
          /\ extraction[c].added \in SUBSET Evidence
      BY SessionTyped DEF Extraction
    <3>2. QED
      BY <1>0, <2>1, <3>1 DEF ExtractCommit, BoundView
  <2>2. CASE ~ExtractCommit(c)
    <3>1. UNCHANGED <<evidence, bound>>
      BY <1>4, <2>2 DEF Extract, ExtractMatch, ExtractCreate, ExtractMerge,
                        ExtractReuse, Flush, store
    <3>2. QED
      BY <1>1, <3>1
  <2>3. QED
    BY <2>1, <2>2
<1>5. QED
  BY <1>2, <1>3, <1>4 DEF Next

\* An extraction after a step, whichever step and whichever client.
LEMMA ExtractionStep ==
    ASSUME StoreInv, Next
    PROVE  /\ extraction' \in [Client -> Extraction]
           /\ \A d \in Client :
                Answerable(extraction'[d]) /\ \A m \in Memory : FlushedAt(extraction'[d], m)
<1>0. extraction \in [Client -> Extraction]
  BY DEF StoreInv, TypeOK
<1>1. CASE UNCHANGED extraction
  BY <1>0, <1>1, SessionTyped
<1>2. ASSUME NEW c \in Client, Extract(c) \/ Rollback(c)
      PROVE  /\ extraction' \in [Client -> Extraction]
             /\ \A d \in Client :
                  Answerable(extraction'[d]) /\ \A m \in Memory : FlushedAt(extraction'[d], m)
  <2>1. PICK y \in Extraction :
          /\ extraction' = [extraction EXCEPT ![c] = y]
          /\ Answerable(y) /\ \A m \in Memory : FlushedAt(y, m)
    BY <1>2, ExtractionHeld
  <2>2. ASSUME NEW d \in Client
        PROVE  Answerable(extraction'[d]) /\ \A m \in Memory : FlushedAt(extraction'[d], m)
    <3>1. CASE d = c
      <4>1. extraction'[d] = y
        BY <1>0, <2>1, <3>1
      <4>2. QED
        BY <2>1, <4>1
    <3>2. CASE d # c
      <4>1. extraction'[d] = extraction[d]
        BY <1>0, <2>1, <3>2
      <4>2. QED
        BY <4>1, SessionTyped
    <3>3. QED
      BY <3>1, <3>2
  <2>3. QED
    BY <1>0, <2>1, <2>2
<1>3. QED
  BY <1>1, <1>2 DEF Next

\* What a session holds stays good whatever is committed beside it.
LEMMA FlushedStays ==
    ASSUME StoreInv, StoreStep, NEW x \in Extraction, NEW m \in Memory,
           FlushedAt(x, m)
    PROVE  FlushedAt(x, m)'
<1> USE BoundsAssumption
<1>1. CASE x.rows[m] = NoRecord
  BY <1>1 DEF FlushedAt
<1>2. CASE x.rows[m] # NoRecord
  <2>1. /\ x.base[m] \in 0..MaxRevision
        /\ x.rows[m] \in MemoryRecord /\ x.rows[m].revision \in 1..MaxRevision
    BY <1>2 DEF Extraction, MemoryRecord
  <2>2. x.base[m] > 0 => m \in Stored' /\ x.base[m] <= memories'[m].revision
    <3>1. SUFFICES ASSUME x.base[m] > 0
                   PROVE  m \in Stored' /\ x.base[m] <= memories'[m].revision
      OBVIOUS
    <3>2. m \in Stored /\ x.base[m] <= memories[m].revision
      BY <1>2, <3>1 DEF FlushedAt
    <3>3. m \in Stored' /\ memories'[m].revision >= memories[m].revision
      BY <3>2, HistoryGrows
    <3>4. memories[m] \in MemoryRecord /\ memories'[m] \in MemoryRecord
      BY <3>2, <3>3, StoreTyped DEF StoreInv, TypeOK, Stored
    <3>5. QED
      BY <2>1, <3>2, <3>3, <3>4 DEF MemoryRecord
  <2>3. ASSUME NEW r \in 1..MaxRevision, x.base[m] <= r, r <= x.rows[m].revision
        PROVE  Version(x, m, r)' = Version(x, m, r)
    <3>1. CASE x.snapshots[m][r] # NoRecord
      BY <3>1 DEF Version
    <3>2. CASE x.snapshots[m][r] = NoRecord
      <4>1. r = x.base[m]
        BY <1>2, <2>1, <2>3, <3>2 DEF FlushedAt
      <4>2. revisions[m][r] # NoRecord
        BY <1>2, <2>3, <4>1, VersionTyped
      <4>3. QED
        BY <3>2, <4>2, HistoryGrows DEF Version
    <3>3. QED
      BY <3>1, <3>2
  <2>4. ASSUME NEW q \in 1..MaxRevision, NEW r \in 1..MaxRevision,
               x.base[m] <= q, q < r, r <= x.rows[m].revision
        PROVE  /\ Merged(Version(x, m, q), Version(x, m, r))'
               /\ r = q + 1 => Version(x, m, r)'.evidence_count
                                 <= Version(x, m, q)'.evidence_count + 1
    <3>1. Version(x, m, q)' = Version(x, m, q) /\ Version(x, m, r)' = Version(x, m, r)
      BY <2>1, <2>3, <2>4
    <3>2. QED
      BY <1>2, <2>4, <3>1 DEF FlushedAt, Merged, SameSlot
  <2>5. QED
    BY <1>2, <2>2, <2>4 DEF FlushedAt
<1>3. QED
  BY <1>1, <1>2

\* A session is named by what it holds.
LEMMA FlushedCarried ==
    ASSUME NEW d \in Client, NEW m \in Memory, NEW x, x = extraction'[d],
           FlushedAt(x, m)'
    PROVE  FlushedAt(extraction[d], m)'
BY Zenon DEF FlushedAt

LEMMA AnswerableStays ==
    ASSUME StoreInv, StoreStep, NEW x, Answerable(x)
    PROVE  Answerable(x)'
BY HistoryGrows DEF Answerable

LEMMA StoreInvInit == Init => StoreInv
<1> SUFFICES ASSUME Init PROVE StoreInv
  OBVIOUS
<1>1. TypeOK
  BY IdleHeld, NothingHeld DEF Init, TypeOK, NoHistory
<1>2. HistoryComplete /\ SnapshotsNumbered
  BY DEF Init, HistoryComplete, SnapshotsNumbered, Stored, NoHistory
<1>3. ReadingsAreVersions
  BY DEF Init, ReadingsAreVersions, Idle
<1>4. FlushesAreVersions /\ ProposalsAreStored
  BY NothingHeld DEF Init, FlushesAreVersions, ProposalsAreStored
<1>5. QED
  BY <1>1, <1>2, <1>3, <1>4 DEF StoreInv

LEMMA StoreInvStep == StoreInv /\ [Next]_vars => StoreInv'
<1> SUFFICES ASSUME StoreInv, [Next]_vars PROVE StoreInv'
  OBVIOUS
<1>1. CASE UNCHANGED vars
  <2>1. TypeOK' /\ HistoryComplete' /\ SnapshotsNumbered' /\ ReadingsAreVersions'
    BY <1>1 DEF vars, StoreInv, TypeOK, HistoryComplete, SnapshotsNumbered,
                ReadingsAreVersions, Stored
  <2>2. FlushesAreVersions'
    <3>1. UNCHANGED extraction /\ StoreStep
      BY <1>1, NextStore DEF vars
    <3>2. ASSUME NEW d \in Client, NEW m \in Memory
          PROVE  FlushedAt(extraction[d], m)'
      <4>1. PICK x \in Extraction : x = extraction[d]
        BY SessionTyped
      <4>2. FlushedAt(x, m)'
        BY <3>1, <4>1, SessionTyped, FlushedStays
      <4>3. x = extraction'[d]
        BY <3>1, <4>1
      <4>4. QED
        BY <4>2, <4>3, FlushedCarried
    <3>3. QED
      BY <3>2 DEF FlushesAreVersions
  <2>3. ProposalsAreStored'
    BY <1>1 DEF vars, StoreInv, ProposalsAreStored, Answerable, Stored
  <2>4. QED
    BY <2>1, <2>2, <2>3 DEF StoreInv
<1>2. CASE Next
  <2>1. StoreStep
    BY NextStore
  <2>2. HistoryComplete' /\ SnapshotsNumbered'
    BY <2>1, HistoryStep
  <2>3. \A d \in Client : \/ request'[d] = request[d]
                          \/ request'[d] \in Request /\ Held(request'[d])
    BY <1>2, RequestStep
  <2>4. TypeOK'
    <3>1. request' \in [Client -> Request]
      <4>1. \A d \in Client : request'[d] \in Request
        BY <2>3 DEF StoreInv, TypeOK
      <4>2. \E c \in Client : \E q : request' = [request EXCEPT ![c] = q]
        <5>1. ASSUME NEW c \in Client, Start(c)
              PROVE  \E q : request' = [request EXCEPT ![c] = q]
          BY <5>1 DEF Start, AddRead, LoadRead
        <5>2. ASSUME NEW c \in Client, Extract(c)
              PROVE  \E q : request' = [request EXCEPT ![c] = q]
          <6>1. request' = request
            BY <5>2 DEF Extract, ExtractMatch, ExtractCreate, ExtractMerge,
                        ExtractReuse, ExtractCommit, Flush
          <6>2. request' = [request EXCEPT ![c] = request[c]]
            BY <6>1 DEF StoreInv, TypeOK
          <6>3. QED
            BY <6>2
        <5>3. ASSUME NEW c \in Client, Rollback(c)
              PROVE  \E q : request' = [request EXCEPT ![c] = q]
          BY <5>3 DEF Rollback, Done
        <5>4. ASSUME NEW c \in Client, Write(c)
              PROVE  \E q : request' = [request EXCEPT ![c] = q]
          BY <5>4 DEF Write, Done, AddReuse, AddBind, AddCreate, AddSupersede,
              PatchCommit, ConfirmCommit, DeleteCommit, RestoreCommit
        <5>5. QED
          BY <1>2, <5>1, <5>2, <5>3, <5>4 DEF Next
      <4>3. request' = [d \in Client |-> request'[d]]
        BY <4>2 DEF StoreInv, TypeOK
      <4>4. QED
        BY <4>1, <4>3
    <3>2. evidence' \subseteq Evidence /\ bound' \in [Memory -> SUBSET Evidence]
      BY <1>2, EvidenceTyped
    <3>3. extraction' \in [Client -> Extraction]
      BY <1>2, ExtractionStep
    <3>4. QED
      BY <2>1, <3>1, <3>2, <3>3, StoreTyped DEF StoreInv, TypeOK
  <2>5. ReadingsAreVersions'
    <3>1. ASSUME NEW d \in Client
          PROVE  Held(request[d]) /\ request[d] \in Request
      BY DEF StoreInv, TypeOK, ReadingsAreVersions, Held
    <3>2. ASSUME NEW q \in Request, Held(q)
          PROVE  /\ q.memory \in Stored' \cup {NoMemory}
                 /\ q.phase = "read" /\ q.seen # NoRecord =>
                      /\ q.memory \in Stored'
                      /\ q.seen.revision <= memories'[q.memory].revision
                      /\ q.seen = revisions'[q.memory][q.seen.revision]
      <4>1. q.memory \in Stored' \cup {NoMemory}
        BY <2>1, <3>2, HistoryGrows DEF Held
      <4>2. ASSUME q.phase = "read", q.seen # NoRecord
            PROVE  /\ q.memory \in Stored'
                   /\ q.seen.revision <= memories'[q.memory].revision
                   /\ q.seen = revisions'[q.memory][q.seen.revision]
        <5>1. /\ q.memory \in Stored /\ q.memory \in Memory
              /\ q.seen.revision <= memories[q.memory].revision
              /\ q.seen = revisions[q.memory][q.seen.revision]
              /\ q.seen \in MemoryRecord
          BY <3>2, <4>2 DEF Held, Stored, Request
        <5>2. q.memory \in Stored'
          BY <2>1, <5>1, HistoryGrows
        <5>3. memories'[q.memory].revision >= memories[q.memory].revision
          BY <2>1, <5>1, HistoryGrows
        <5>4. /\ memories[q.memory] \in MemoryRecord
              /\ memories'[q.memory] \in MemoryRecord
          BY <2>4, <5>1, <5>2 DEF StoreInv, TypeOK, Stored
        <5>5. q.seen.revision <= memories'[q.memory].revision
          BY <5>1, <5>3, <5>4 DEF MemoryRecord
        <5>6. q.seen = revisions'[q.memory][q.seen.revision]
          BY <2>1, <4>2, <5>1, HistoryGrows DEF MemoryRecord
        <5>7. QED
          BY <5>2, <5>5, <5>6
      <4>3. QED
        BY <4>1, <4>2
    <3>3. ASSUME NEW d \in Client
          PROVE  /\ Held(request'[d])
                 /\ request'[d] \in Request
      <4>1. CASE request'[d] = request[d]
        BY <4>1, <3>1
      <4>2. CASE request'[d] # request[d]
        BY <4>2, <2>3
      <4>3. QED
        BY <4>1, <4>2
    <3>4. ASSUME NEW d \in Client
          PROVE  LET q == request'[d] IN
                 /\ q.phase # "idle" /\ q.op \in {"add", "patch"} =>
                        q.input \in Input
                 /\ q.phase = "read" /\ q.op \in {"patch", "confirm", "delete", "restore"} =>
                        q.seen # NoRecord
      BY <3>3 DEF Held
    <3>5. QED
      BY <3>2, <3>3, <3>4 DEF ReadingsAreVersions
  <2>6. FlushesAreVersions' /\ ProposalsAreStored'
    <3>1. ASSUME NEW d \in Client
          PROVE  /\ Answerable(extraction[d])'
                 /\ \A m \in Memory : FlushedAt(extraction[d], m)'
      <4>1. PICK x \in Extraction : x = extraction'[d]
        BY <1>2, ExtractionStep
      <4>2. Answerable(x) /\ \A m \in Memory : FlushedAt(x, m)
        BY <1>2, <4>1, ExtractionStep
      <4>3. Answerable(x)' /\ \A m \in Memory : FlushedAt(x, m)'
        BY <2>1, <4>2, FlushedStays, AnswerableStays
      <4>4. Answerable(extraction[d])'
        BY <4>1, <4>3 DEF Answerable
      <4>5. ASSUME NEW m \in Memory
            PROVE  FlushedAt(extraction[d], m)'
        <5>1. FlushedAt(x, m)'
          BY <4>3
        <5>2. QED
          BY <4>1, <5>1, FlushedCarried
      <4>6. QED
        BY <4>4, <4>5
    <3>2. QED
      BY <3>1 DEF FlushesAreVersions, ProposalsAreStored
  <2>7. QED
    BY <2>2, <2>4, <2>5, <2>6 DEF StoreInv
<1>3. QED
  BY <1>1, <1>2

-----------------------------------------------------------------------------

\* The inductive invariant: the rows have their types, the history in
\* memory_revisions is complete and numbered, and every request in flight
\* holds committed versions.
THEOREM StoreInvariant == Spec => []StoreInv
<1>1. QED
  BY StoreInvInit, StoreInvStep, PTL DEF Spec

\* Every variable of the memory service keeps its type.
THEOREM TypeCorrect == Spec => []TypeOK
<1>1. StoreInv => TypeOK
  BY DEF StoreInv
<1>2. QED
  BY <1>1, StoreInvariant, PTL

\* The audit trail of every memory is complete: memory_revisions holds every
\* revision up to the current one, and the last snapshot is the row.
THEOREM HistoryIsComplete == Spec => []HistoryComplete
<1>1. StoreInv => HistoryComplete
  BY DEF StoreInv
<1>2. QED
  BY <1>1, StoreInvariant, PTL

\* A snapshot, once committed, is never changed or removed.
THEOREM HistoryIsImmutable == Spec => HistoryImmutable
<1>1. StoreInv /\ [Next]_vars =>
        [\A m \in Memory, r \in 1..MaxRevision :
            revisions[m][r] # NoRecord => revisions'[m][r] = revisions[m][r]]_vars
  BY NextStore, HistoryGrows
<1>2. QED
  BY <1>1, StoreInvariant, PTL DEF Spec, HistoryImmutable

\* What a memory gains by learning keeps what it was, and is not in force
\* when the memory is new.
LEMMA GainsKeeps ==
    ASSUME StoreInv, NEW x \in Memory, Gains(x)
    PROVE  /\ memories'[x] \in MemoryRecord
           /\ x \in Stored =>
                /\ memories[x] \in MemoryRecord
                /\ Merged(memories[x], memories'[x])
                /\ memories'[x].revision > memories[x].revision
                /\ revisions'[x][memories[x].revision] = memories[x]
           /\ x \notin Stored =>
                memories'[x].state = "candidate" /\ memories'[x].authority = "inferred"
<1> USE BoundsAssumption, RecordAssumption
<1> DEFINE row == memories'[x]
           log == revisions'[x]
<1>1. row \in MemoryRecord /\ row.revision \in 1..MaxRevision /\ log[row.revision] = row
  BY DEF Gains, HistoryAt, MemoryRecord
<1>2. ASSUME x \in Stored
      PROVE  /\ memories[x] \in MemoryRecord
             /\ Merged(memories[x], row)
             /\ row.revision > memories[x].revision
             /\ log[memories[x].revision] = memories[x]
  <2>1. /\ memories[x] \in MemoryRecord /\ memories[x].revision \in 1..MaxRevision
        /\ revisions[x][memories[x].revision] = memories[x]
        /\ Found(x) = memories[x].revision
    BY <1>2 DEF StoreInv, TypeOK, HistoryComplete, MemoryRecord, Stored, Found
  <2>2. Found(x) < row.revision /\ log[Found(x)] = memories[x]
    BY <2>1 DEF Gains
  <2>3. Merged(log[Found(x)], log[row.revision])
    BY <1>1, <2>1, <2>2 DEF Gains
  <2>4. QED
    BY <1>1, <2>1, <2>2, <2>3
<1>3. x \notin Stored => row.state = "candidate" /\ row.authority = "inferred"
  BY DEF Gains
<1>4. QED
  BY <1>1, <1>2, <1>3

LEMMA OneActiveStep ==
    ASSUME StoreInv, OneActivePerSlot, StoreStep
    PROVE  OneActivePerSlot'
<1> SUFFICES ASSUME NEW x \in Stored', NEW y \in Stored', x # y,
                    memories'[x].state = "active", memories'[y].state = "active",
                    SameSlot(memories'[x], memories'[y])
             PROVE  FALSE
  BY DEF OneActivePerSlot
<1>0. memories \in [Memory -> MemoryRecord \cup {NoRecord}]
  BY DEF StoreInv, TypeOK
<1>1. CASE StoreUnchanged
  BY <1>1 DEF StoreUnchanged, OneActivePerSlot, Stored
<1>2. ASSUME NEW m \in Memory, NEW w \in MemoryRecord, NEW others,
             memories' = [memories EXCEPT ![m] = w],
             Memory \ {m} \subseteq others, SlotFree(w, others)
      PROVE  FALSE
  BY <1>0, <1>2 DEF OneActivePerSlot, SlotFree, SameSlot, Stored
<1>3. ASSUME NEW m \in Memory, NEW n \in Memory,
             NEW v \in MemoryRecord, NEW w \in MemoryRecord, Replaces(m, v, n, w)
      PROVE  FALSE
  <2>1. /\ m # n
        /\ memories' = [z \in Memory |-> IF z = n THEN w
                                         ELSE IF z = m THEN v ELSE memories[z]]
    BY <1>3, ReplacesAt DEF StoreInv
  <2>2. v.state = "superseded" /\ SlotFree(w, Memory \ {m}) /\ w.state = "active"
    BY <1>0, <1>3 DEF Replaces, Stored, MemoryRecord
  <2>3. x # m /\ y # m
    BY <2>1, <2>2
  <2>4. QED
    BY <2>1, <2>2, <2>3 DEF OneActivePerSlot, SlotFree, SameSlot, Stored
<1>4. CASE Learns
  <2>1. ASSUME NEW z \in Stored', memories'[z].state = "active"
        PROVE  /\ z \in Stored /\ memories[z].state = "active"
               /\ SameSlot(memories[z], memories'[z])
    <3>1. CASE Stays(z)
      BY <2>1, <3>1 DEF Stays, Stored, SameSlot
    <3>2. CASE Gains(z)
      <4>1. z \in Memory
        BY <2>1 DEF Stored
      <4>2. z \in Stored
        BY <2>1, <3>2, <4>1, GainsKeeps
      <4>3. Merged(memories[z], memories'[z])
        BY <3>2, <4>1, <4>2, GainsKeeps
      <4>4. QED
        BY <2>1, <4>2, <4>3 DEF Merged
    <3>3. QED
      BY <1>4, <3>1, <3>2 DEF Learns, Stored
  <2>2. QED
    BY <2>1 DEF OneActivePerSlot, SameSlot
<1>5. QED
  BY <1>1, <1>2, <1>3, <1>4 DEF StoreStep, Updates, Inserts

\* Whatever adds, confirmations, restores and patches interleave, a slot has
\* at most one active memory.
THEOREM OneActive == Spec => []OneActivePerSlot
<1>1. Init => OneActivePerSlot
  BY DEF Init, OneActivePerSlot, Stored
<1>2. StoreInv /\ OneActivePerSlot /\ [Next]_vars => OneActivePerSlot'
  BY NextStore, OneActiveStep
<1>3. QED
  BY <1>1, <1>2, StoreInvariant, PTL DEF Spec

-----------------------------------------------------------------------------
(* What a write makes of one memory.                                       *)

\* An active memory that gives way keeps everything but its state.
GivesWay(v, w) ==
    /\ v.state = "active" /\ w.state = "superseded"
    /\ w.authority = v.authority
    /\ Ledger!Keeps(v, w)

\* Memory x gets its first version w.
Begins(x, w) ==
    /\ x \notin Stored
    /\ w.revision = 1 /\ Ledger!Stated(w)
    /\ memories'[x] = w
    /\ revisions'[x] = [revisions[x] EXCEPT ![1] = w]

\* Memory x gets version w after the one it has.
Continues(x, w) ==
    /\ x \in Stored
    /\ w.revision = memories[x].revision + 1
    /\ Lawful(x, memories[x], w) \/ GivesWay(memories[x], w)
    /\ memories'[x] = w
    /\ revisions'[x] = [revisions[x] EXCEPT ![w.revision] = w]

\* A step leaves a memory alone, begins it, or adds one lawful version, if
\* it does not commit what was learned of it.
LEMMA OneVersion ==
    ASSUME StoreInv, StoreStep, NEW x \in Memory
    PROVE  \/ Stays(x) \/ Gains(x)
           \/ \E w \in MemoryRecord : Begins(x, w) \/ Continues(x, w)
<1> DEFINE Goal == Stays(x) \/ Gains(x) \/ \E w \in MemoryRecord : Begins(x, w) \/ Continues(x, w)
<1>t. /\ memories \in [Memory -> MemoryRecord \cup {NoRecord}]
      /\ revisions \in [Memory -> [1..MaxRevision -> MemoryRecord \cup {NoRecord}]]
  BY DEF StoreInv, TypeOK
<1>1. CASE StoreUnchanged
  BY <1>1 DEF StoreUnchanged, Stays
<1>2. ASSUME NEW m \in Memory, NEW w \in MemoryRecord, Updates(m, w)
      PROVE  Goal
  <2>1. CASE x = m
    BY <1>t, <1>2, <2>1 DEF Updates, Continues
  <2>2. CASE x # m
    BY <1>t, <1>2, <2>2 DEF Updates, Stays
  <2>3. QED
    BY <2>1, <2>2
<1>3. ASSUME NEW m \in Memory, NEW w \in MemoryRecord, Inserts(m, w)
      PROVE  Goal
  <2>1. CASE x = m
    BY <1>t, <1>3, <2>1 DEF Inserts, Begins
  <2>2. CASE x # m
    BY <1>t, <1>3, <2>2 DEF Inserts, Stays
  <2>3. QED
    BY <2>1, <2>2
<1>4. ASSUME NEW m \in Memory, NEW n \in Memory,
             NEW v \in MemoryRecord, NEW w \in MemoryRecord, Replaces(m, v, n, w)
      PROVE  Goal
  <2>1. /\ m # n /\ memories[m] # NoRecord /\ memories[n] = NoRecord
        /\ memories[m] \in MemoryRecord
        /\ v.revision = memories[m].revision + 1 /\ w.revision = 1
        /\ memories' = [y \in Memory |-> IF y = n THEN w
                                         ELSE IF y = m THEN v ELSE memories[y]]
        /\ revisions' = [y \in Memory |-> [r \in 1..MaxRevision |->
              IF y = n /\ r = 1 THEN w
              ELSE IF y = m /\ r = v.revision THEN v ELSE revisions[y][r]]]
    BY <1>4, ReplacesAt DEF StoreInv
  <2>2. CASE x = m
    <3>1. GivesWay(memories[x], v)
      <4>1. PICK k \in Nat : k = memories[m].revision + 1
        BY <2>1, ReadDerived
      <4>2. v = [memories[m] EXCEPT !.state = "superseded", !.revision = k]
        BY <1>4, <4>1 DEF Replaces
      <4>3. memories[m].state = "active"
        BY <1>4 DEF Replaces
      <4>4. QED
        BY <2>1, <2>2, <4>2, <4>3 DEF GivesWay, Ledger!Keeps, MemoryRecord
    <3>2. revisions'[x] = [revisions[x] EXCEPT ![v.revision] = v]
      BY <1>t, <2>1, <2>2
    <3>3. QED
      BY <2>1, <2>2, <3>1, <3>2 DEF Continues, Stored
  <2>3. CASE x = n
    <3>1. revisions'[x] = [revisions[x] EXCEPT ![1] = w]
      BY <1>t, <2>1, <2>3
    <3>2. Ledger!Stated(w)
      BY <1>4 DEF Replaces, Ledger!Stated
    <3>3. QED
      BY <2>1, <2>3, <3>1, <3>2 DEF Begins, Stored
  <2>4. CASE x # m /\ x # n
    BY <1>t, <2>1, <2>4 DEF Stays
  <2>5. QED
    BY <2>2, <2>3, <2>4
<1>5. CASE Learns
  BY <1>5 DEF Learns
<1>6. QED
  BY <1>1, <1>2, <1>3, <1>4, <1>5 DEF StoreStep

\* The store as one memory sees it.
LEMMA MemoryAt ==
    ASSUME StoreInv, NEW x \in Memory
    PROVE  /\ HistoryAt(memories[x], revisions[x])
           /\ memories[x] \in MemoryRecord \cup {NoRecord}
           /\ revisions[x] \in [1..MaxRevision -> MemoryRecord \cup {NoRecord}]
BY HistoryPointwise DEF StoreInv, TypeOK

-----------------------------------------------------------------------------
(* Inferences are never in force.                                          *)

\* A memory that was inferred has always been.
InferredBefore ==
    \A m \in Memory, r \in 1..MaxRevision :
        /\ r > 1
        /\ revisions[m][r] # NoRecord
        /\ revisions[m][r].authority = "inferred"
        => revisions[m][r - 1].authority = "inferred"

LEMMA InferenceStep ==
    ASSUME StoreInv, StoreStep, InferenceNeverActive, InferredBefore
    PROVE  InferenceNeverActive' /\ InferredBefore'
<1> SUFFICES ASSUME NEW x \in Memory, NEW r \in 1..MaxRevision,
                    revisions'[x][r] # NoRecord,
                    revisions'[x][r].authority = "inferred"
             PROVE  /\ revisions'[x][r].state \notin {"active", "superseded"}
                    /\ r > 1 => revisions'[x][r - 1].authority = "inferred"
  BY DEF InferenceNeverActive, InferredBefore
<1> USE BoundsAssumption, RecordAssumption
<1>t. /\ HistoryAt(memories[x], revisions[x])
      /\ memories[x] \in MemoryRecord \cup {NoRecord}
      /\ revisions[x] \in [1..MaxRevision -> MemoryRecord \cup {NoRecord}]
  BY MemoryAt
<1>1. CASE Stays(x)
  BY <1>1 DEF Stays, InferenceNeverActive, InferredBefore
<1>2. ASSUME NEW w \in MemoryRecord, Begins(x, w)
      PROVE  /\ revisions'[x][r].state \notin {"active", "superseded"}
             /\ r > 1 => revisions'[x][r - 1].authority = "inferred"
  <2>1. memories[x] = NoRecord
    BY <1>2 DEF Begins, Stored
  <2>2. r = 1 /\ revisions'[x][r] = w
    BY <1>t, <1>2, <2>1 DEF Begins, HistoryAt
  <2>3. QED
    BY <1>2, <2>2 DEF Begins, Ledger!Stated
<1>3. ASSUME NEW w \in MemoryRecord, Continues(x, w)
      PROVE  /\ revisions'[x][r].state \notin {"active", "superseded"}
             /\ r > 1 => revisions'[x][r - 1].authority = "inferred"
  <2> DEFINE v == memories[x]
  <2>1. /\ v \in MemoryRecord /\ v = revisions[x][v.revision]
        /\ w.revision = v.revision + 1
        /\ v.revision \in 1..MaxRevision /\ w.revision \in 1..MaxRevision
    BY <1>t, <1>3 DEF Continues, Stored, HistoryAt, MemoryRecord
  <2>2. CASE r # w.revision
    <3>1. revisions'[x][r] = revisions[x][r]
      BY <1>t, <1>3, <2>2 DEF Continues
    <3>2. r <= v.revision
      BY <1>t, <3>1 DEF HistoryAt
    <3>3. r > 1 => revisions'[x][r - 1] = revisions[x][r - 1]
      BY <1>t, <1>3, <2>1, <3>2 DEF Continues
    <3>4. QED
      BY <3>1, <3>3 DEF InferenceNeverActive, InferredBefore
  <2>3. CASE r = w.revision
    <3>1. revisions'[x][r] = w
      BY <1>t, <1>3, <2>1, <2>3 DEF Continues
    <3>2. r - 1 = v.revision /\ revisions'[x][r - 1] = v
      BY <1>t, <1>3, <2>1, <2>3 DEF Continues
    <3>3. v.authority = "inferred"
      BY <1>3, <3>1 DEF Continues, Lawful, GivesWay, Restores, Ledger!Edit,
          Ledger!Confirm, Ledger!Delete
    <3>4. v.state \notin {"active", "superseded"}
      BY <2>1, <3>3 DEF InferenceNeverActive
    <3>5. w.state \notin {"active", "superseded"}
      <4>1. CASE Restores(x, v, w)
        <5>1. /\ v.revision > 1
              /\ w.state = revisions[x][v.revision - 1].state
              /\ revisions[x][v.revision - 1] # NoRecord
          BY <4>1 DEF Restores
        <5>2. revisions[x][v.revision - 1].authority = "inferred"
          BY <2>1, <3>3, <5>1 DEF InferredBefore
        <5>3. QED
          BY <2>1, <5>1, <5>2 DEF InferenceNeverActive
      <4>2. CASE ~Restores(x, v, w)
        BY <1>3, <3>1, <3>4, <4>2 DEF Continues, Lawful, GivesWay, Ledger!Edit,
            Ledger!Confirm, Ledger!Delete
      <4>3. QED
        BY <4>1, <4>2
    <3>6. QED
      BY <3>1, <3>2, <3>3, <3>5
  <2>4. QED
    BY <2>2, <2>3
<1>4. CASE Gains(x)
  <2> DEFINE row == memories'[x]
             log == revisions'[x]
  <2>1. /\ row \in MemoryRecord /\ row.revision \in 1..MaxRevision
        /\ log[row.revision] = row /\ r <= row.revision
        /\ Found(x) < row.revision
        /\ \A q \in 1..MaxRevision : q <= Found(x) => log[q] = revisions[x][q]
    BY <1>4 DEF Gains, HistoryAt, MemoryRecord
  <2>2. Found(x) \in 0..MaxRevision
    BY <1>t DEF Found, Stored, MemoryRecord
  <2>3. \A q, k \in 1..MaxRevision :
          Found(x) <= q /\ q < k /\ k <= row.revision =>
            log[q].authority = log[k].authority /\ log[q].state = log[k].state
    BY <1>4 DEF Gains, Merged
  <2>4. CASE r <= Found(x)
    <3>1. log[r] = revisions[x][r] /\ (r > 1 => log[r - 1] = revisions[x][r - 1])
      BY <2>1, <2>2, <2>4
    <3>2. QED
      BY <3>1 DEF InferenceNeverActive, InferredBefore
  <2>5. CASE r > Found(x) /\ x \in Stored
    <3>1. /\ memories[x] \in MemoryRecord /\ Found(x) = memories[x].revision
          /\ Found(x) \in 1..MaxRevision
          /\ revisions[x][Found(x)] # NoRecord
      BY <1>t, <2>5 DEF Found, Stored, MemoryRecord, HistoryAt
    <3>2. log[Found(x)] = revisions[x][Found(x)]
      BY <2>1, <3>1
    <3>3. log[Found(x)].authority = log[r].authority /\ log[Found(x)].state = log[r].state
      BY <2>1, <2>3, <2>5, <3>1
    <3>4. log[r].state \notin {"active", "superseded"}
      BY <3>1, <3>2, <3>3 DEF InferenceNeverActive
    <3>5. r > 1 => log[r - 1].authority = log[r].authority
      BY <2>1, <2>3, <2>5, <3>1
    <3>6. QED
      BY <3>4, <3>5
  <2>6. CASE r > Found(x) /\ x \notin Stored
    <3>1. row.state = "candidate" /\ Found(x) = 0
      BY <1>4, <2>6 DEF Gains, Found
    <3>2. log[r].state = "candidate"
      <4>1. CASE r = row.revision
        BY <2>1, <3>1, <4>1
      <4>2. CASE r # row.revision
        BY <2>1, <2>3, <3>1, <4>2
      <4>3. QED
        BY <4>1, <4>2
    <3>3. r > 1 => log[r - 1].authority = log[r].authority
      BY <2>1, <2>3, <3>1
    <3>4. QED
      BY <3>2, <3>3
  <2>7. QED
    BY <2>2, <2>4, <2>5, <2>6
<1>5. QED
  BY <1>1, <1>2, <1>3, <1>4, OneVersion

\* No version of a memory was ever in force as long as it was only inferred,
\* whatever confirmations, patches, deletions and restores interleave.
THEOREM InferenceIsNeverActive == Spec => []InferenceNeverActive
<1> DEFINE Inv == InferenceNeverActive /\ InferredBefore
<1>1. Init => Inv
  BY DEF Init, NoHistory, InferenceNeverActive, InferredBefore
<1>2. StoreInv /\ Inv /\ [Next]_vars => Inv'
  BY NextStore, InferenceStep
<1>3. QED
  BY <1>1, <1>2, StoreInvariant, PTL DEF Spec

-----------------------------------------------------------------------------
(* Updates build on each other.                                            *)

\* Each committed update of a memory builds on the one before, which stays in
\* the history: no evidence that was counted and no confirmation is lost.
THEOREM NoUpdateIsLost == Spec => NoLostUpdate
<1> DEFINE Builds ==
      \A m \in Stored : memories'[m] # memories[m] =>
        /\ memories'[m].revision > memories[m].revision
        /\ revisions'[m][memories[m].revision] = memories[m]
        /\ memories'[m].evidence_count >= memories[m].evidence_count
        /\ \/ memories'[m].authority = memories[m].authority
           \/ /\ memories[m].authority = "inferred"
              /\ memories'[m].authority = "confirmed"
<1>1. ASSUME StoreInv, StoreStep
      PROVE  Builds
  <2> SUFFICES ASSUME NEW m \in Memory, m \in Stored, memories'[m] # memories[m]
               PROVE  /\ memories'[m].revision > memories[m].revision
                      /\ revisions'[m][memories[m].revision] = memories[m]
                      /\ memories'[m].evidence_count >= memories[m].evidence_count
                      /\ \/ memories'[m].authority = memories[m].authority
                         \/ /\ memories[m].authority = "inferred"
                            /\ memories'[m].authority = "confirmed"
    BY DEF Stored
  <2>1. Gains(m) \/ \E w \in MemoryRecord : Continues(m, w)
    BY <1>1, OneVersion DEF Stays, Begins
  <2>2. /\ memories[m] \in MemoryRecord /\ memories[m].revision \in 1..MaxRevision
        /\ revisions[m] \in [1..MaxRevision -> MemoryRecord \cup {NoRecord}]
        /\ revisions[m][memories[m].revision] = memories[m]
    BY <1>1, MemoryAt DEF Stored, HistoryAt, MemoryRecord
  <2>3. CASE Gains(m)
    <3>1. /\ Merged(memories[m], memories'[m])
          /\ memories'[m].revision > memories[m].revision
          /\ revisions'[m][memories[m].revision] = memories[m]
      BY <1>1, <2>3, GainsKeeps
    <3>2. QED
      BY <3>1 DEF Merged
  <2>4. ASSUME NEW w \in MemoryRecord, Continues(m, w)
        PROVE  /\ memories'[m].revision > memories[m].revision
               /\ revisions'[m][memories[m].revision] = memories[m]
               /\ memories'[m].evidence_count >= memories[m].evidence_count
               /\ \/ memories'[m].authority = memories[m].authority
                  \/ /\ memories[m].authority = "inferred"
                     /\ memories'[m].authority = "confirmed"
    <3>1. Ledger!Keeps(memories[m], w) /\ memories[m].evidence_count \in Nat
      BY <2>2, <2>4 DEF Continues, Lawful, GivesWay, MemoryRecord
    <3>2. w.evidence_count >= memories[m].evidence_count
      BY <3>1 DEF Ledger!Keeps
    <3>3. \/ w.authority = memories[m].authority
          \/ memories[m].authority = "inferred" /\ w.authority = "confirmed"
      BY <2>4 DEF Continues, Lawful, GivesWay, Restores, Ledger!Edit, Ledger!Confirm,
          Ledger!Delete
    <3>4. w.revision > memories[m].revision
      BY <2>2, <2>4, BoundsAssumption DEF Continues
    <3>5. revisions'[m][memories[m].revision] = memories[m]
      BY <2>2, <2>4, <3>4 DEF Continues
    <3>6. QED
      BY <2>4, <3>2, <3>3, <3>4, <3>5 DEF Continues
  <2>5. QED
    BY <2>1, <2>3, <2>4
<1>2. StoreInv /\ [Next]_vars => [Builds]_vars
  BY <1>1, NextStore
<1>3. QED
  BY <1>2, StoreInvariant, PTL DEF Spec, NoLostUpdate

\* The snapshot that a restore goes back to is the last one before the
\* deletion.
LEMMA RestoresLastLive ==
    ASSUME StoreInv, NEW x \in Memory, x \in Stored, NEW w,
           Restores(x, memories[x], w)
    PROVE  LET live == {r \in 1..MaxRevision : /\ revisions[x][r] # NoRecord
                                               /\ revisions[x][r].state # "deleted"}
           IN  /\ (CHOOSE r \in live : \A q \in live : q <= r) = memories[x].revision - 1
               /\ w.state = LastLive(x)
<1> DEFINE v == memories[x]
           p == v.revision - 1
           live == {r \in 1..MaxRevision : /\ revisions[x][r] # NoRecord
                                           /\ revisions[x][r].state # "deleted"}
<1>1. /\ HistoryAt(v, revisions[x])
      /\ v \in MemoryRecord
  BY MemoryAt DEF Stored
<1>2. v.revision \in 1..MaxRevision /\ v.revision > 1 /\ v.state = "deleted"
      /\ revisions[x][v.revision] = v /\ v # NoRecord
  BY <1>1, RecordAssumption DEF Restores, HistoryAt, MemoryRecord
<1>3. p \in live
  BY <1>2, BoundsAssumption DEF Restores
<1>4. \A q \in live : q <= p
  <2>1. ASSUME NEW q \in live
        PROVE  q <= p
    <3>1. q \in Int /\ q <= v.revision
      BY <1>1 DEF HistoryAt
    <3>2. q # v.revision
      BY <1>2
    <3>3. QED
      BY <1>2, <3>1, <3>2, BoundsAssumption
  <2>2. QED
    BY <2>1
<1>5. \A r \in live : (\A q \in live : q <= r) => r = p
  BY <1>2, <1>3, <1>4, BoundsAssumption
<1>6. p = CHOOSE r \in live : \A q \in live : q <= r
  BY <1>3, <1>4, <1>5
<1>7. QED
  BY <1>6 DEF LastLive, Restores

\* A memory that is deleted comes back only to the state it was deleted from.
THEOREM RestoreIsUndo == Spec => RestoreUndoesDelete
<1> DEFINE Undoes ==
      \A m \in Stored :
        memories[m].state = "deleted" /\ memories'[m].state # "deleted" =>
            memories'[m].state = LastLive(m)
<1>1. ASSUME StoreInv, StoreStep
      PROVE  Undoes
  <2> SUFFICES ASSUME NEW m \in Memory, m \in Stored,
                      memories[m].state = "deleted", memories'[m].state # "deleted"
               PROVE  memories'[m].state = LastLive(m)
    BY DEF Stored
  <2>0. ~Gains(m)
    BY <1>1, GainsKeeps DEF Merged
  <2>1. PICK w \in MemoryRecord : Continues(m, w)
    BY <1>1, <2>0, OneVersion DEF Stays, Begins
  <2>2. Restores(m, memories[m], w)
    BY <2>1 DEF Continues, Lawful, GivesWay, Ledger!Edit, Ledger!Confirm, Ledger!Delete
  <2>3. QED
    BY <1>1, <2>1, <2>2, RestoresLastLive DEF Continues
<1>2. StoreInv /\ [Next]_vars => [Undoes]_vars
  BY <1>1, NextStore
<1>3. QED
  BY <1>2, StoreInvariant, PTL DEF Spec, RestoreUndoesDelete

-----------------------------------------------------------------------------
(* The count of the evidence.                                              *)

\* While the row has the revision a request read, what the request found out
\* about the binding is true.
LinksCurrent ==
    \A c \in Client :
        LET q == request[c] IN
        /\ q.phase = "read" /\ q.op = "add" /\ q.seen # NoRecord
        /\ memories[q.memory].revision = q.seen.revision
        => (q.linked <=> q.input.evidence \in bound[q.memory])

\* A memory without a row has no evidence.
Unbound == \A m \in Memory \ Stored : bound[m] = {}

\* Nobody has changed memory m since the session of x flushed it first.
StillFound(x, m) ==
    IF x.base[m] = 0 THEN m \notin Stored ELSE RevisionUnchanged(m, x.base[m])

\* While the session of x can still commit its row of m, the row counts what
\* will be bound to m.
CountHeld(x, m) ==
    x.rows[m] # NoRecord /\ StillFound(x, m) =>
        x.rows[m].evidence_count = Cardinality(bound[m] \cup x.links[m])

\* The session of x has bound the evidence that it adds.
AddedHeld(x) ==
    \A e \in x.added : \E m \in Memory : x.rows[m] # NoRecord /\ e \in x.links[m]

SessionsCount ==
    \A c \in Client : /\ AddedHeld(extraction[c])
                      /\ \A m \in Memory : CountHeld(extraction[c], m)

CountsAt(m) == memories'[m].evidence_count = memories[m].evidence_count

\* No evidence is bound, and no memory begins.
BindsNothing ==
    /\ UNCHANGED <<evidence, bound>>
    /\ \A n \in Memory : /\ n \in Stored <=> n \in Stored'
                         /\ n \in Stored => CountsAt(n)

\* Evidence e is bound to memory m.
Binds(m, e) ==
    /\ m \in Stored /\ e \in Evidence
    /\ bound' = [bound EXCEPT ![m] = @ \cup {e}]
    /\ evidence' = evidence \cup {e}
    /\ memories'[m] \in MemoryRecord
    /\ memories'[m].revision = memories[m].revision + 1
    /\ memories'[m].evidence_count =
          IF e \in bound[m] THEN memories[m].evidence_count
                            ELSE memories[m].evidence_count + 1
    /\ \A n \in Memory \ {m} : memories'[n] = memories[n]

\* Memory m begins with evidence e, if any.
Brings(m, e) ==
    /\ m \in Memory \ Stored /\ e \in Evidence \cup {NoEvidence}
    /\ bound' = [bound EXCEPT ![m] = {e} \ {NoEvidence}]
    /\ evidence' = evidence \cup ({e} \ {NoEvidence})
    /\ memories'[m] \in MemoryRecord
    /\ memories'[m].evidence_count = Evidenced(e)
    /\ \A n \in Memory \ {m} : /\ n \in Stored <=> n \in Stored'
                               /\ n \in Stored => CountsAt(n)

\* Memory m begins or is merged, and counts all that is bound to it then.
Taught(m) ==
    /\ m \in Stored'
    /\ bound'[m] \in SUBSET Evidence /\ bound[m] \subseteq bound'[m]
    /\ memories'[m].evidence_count = Cardinality(bound'[m])
    /\ m \in Stored => memories'[m].revision > memories[m].revision

\* An extraction binds what it has learned.
Teaches ==
    /\ \A m \in Memory :
        \/ memories'[m] = memories[m] /\ bound'[m] = bound[m]
        \/ Taught(m)
    /\ \A e \in evidence' \ evidence : \E m \in Stored' : e \in bound'[m]

EvidenceStep ==
    \/ BindsNothing
    \/ Teaches
    \/ \E m \in Memory, e \in Evidence : Binds(m, e)
    \/ \E m \in Memory, e \in Evidence \cup {NoEvidence} : Brings(m, e)

\* What a Save writes, row by row.
LEMMA SaveRows ==
    ASSUME StoreInv, NEW c \in Client,
           request[c].phase = "read", request[c].seen # NoRecord,
           NEW w \in Derived, Save(request[c].memory, request[c].seen, w)
    PROVE  /\ request[c].memory \in Stored /\ request[c].memory \in Memory
           /\ request[c].seen = memories[request[c].memory]
           /\ request[c].seen \in MemoryRecord
           /\ memories'[request[c].memory] = w
           /\ \A n \in Memory \ {request[c].memory} : memories'[n] = memories[n]
<1>1. /\ request[c].memory \in Stored
      /\ request[c].seen \in MemoryRecord
      /\ request[c].seen = memories[request[c].memory]
  BY ReadingCurrent DEF Save
<1>2. memories \in [Memory -> MemoryRecord \cup {NoRecord}]
  BY DEF StoreInv, TypeOK
<1>3. QED
  BY <1>1, <1>2 DEF Save, Stored

\* A save that leaves the count and the evidence alone.
LEMMA SaveBindsNothing ==
    ASSUME StoreInv, NEW c \in Client,
           request[c].phase = "read", request[c].seen # NoRecord,
           NEW w \in Derived, w.evidence_count = request[c].seen.evidence_count,
           w # NoRecord,
           Save(request[c].memory, request[c].seen, w),
           UNCHANGED <<evidence, bound>>
    PROVE  BindsNothing
BY SaveRows DEF BindsNothing, CountsAt, Stored

\* A save that binds the request's evidence, counted unless it was linked.
LEMMA SaveBinds ==
    ASSUME StoreInv, LinksCurrent, NEW c \in Client,
           request[c].phase = "read", request[c].op = "add",
           request[c].seen # NoRecord,
           request[c].input.evidence # NoEvidence,
           NEW w \in MemoryRecord, w.revision = request[c].seen.revision + 1,
           w.evidence_count = IF request[c].linked
                              THEN request[c].seen.evidence_count
                              ELSE request[c].seen.evidence_count + 1,
           Save(request[c].memory, request[c].seen, w),
           bound' = [bound EXCEPT ![request[c].memory] =
                        @ \cup {request[c].input.evidence}],
           StoreEvidence(request[c].input.evidence)
    PROVE  Binds(request[c].memory, request[c].input.evidence)
<1> DEFINE q == request[c]
<1>1. w \in Derived
  BY ReadDerived
<1>2. /\ q.memory \in Stored /\ q.memory \in Memory
      /\ q.seen = memories[q.memory]
      /\ memories'[q.memory] = w
      /\ \A n \in Memory \ {q.memory} : memories'[n] = memories[n]
  BY <1>1, SaveRows
<1>3. q.linked <=> q.input.evidence \in bound[q.memory]
  BY <1>2 DEF LinksCurrent
<1>4. q.input.evidence \in Evidence
  BY DEF StoreInv, ReadingsAreVersions, Input
<1>5. evidence' = evidence \cup {q.input.evidence}
  BY <1>4 DEF StoreEvidence
<1>6. w.evidence_count = IF q.input.evidence \in bound[q.memory]
                         THEN memories[q.memory].evidence_count
                         ELSE memories[q.memory].evidence_count + 1
  BY <1>2, <1>3
<1>7. QED
  BY <1>2, <1>4, <1>5, <1>6 DEF Binds

\* A new memory, on its own or in place of another one.
LEMMA InsertBrings ==
    ASSUME StoreInv, NEW m \in Memory, NEW w \in MemoryRecord,
           NEW e \in Evidence \cup {NoEvidence},
           Insert(m, w, e), StoreEvidence(e), w.evidence_count = Evidenced(e)
    PROVE  Brings(m, e)
<1>1. memories \in [Memory -> MemoryRecord \cup {NoRecord}]
  BY DEF StoreInv, TypeOK
<1>2. QED
  BY <1>1 DEF Insert, Brings, StoreEvidence, CountsAt, Stored

LEMMA WriteEvidence ==
    ASSUME StoreInv, LinksCurrent, NEW c \in Client, Write(c)
    PROVE  EvidenceStep
<1> DEFINE q == request[c]
<1> USE DEF EvidenceStep, Reading
<1>1. q \in Request
  BY DEF StoreInv, TypeOK
<1>2. ASSUME q.phase = "read", q.seen # NoRecord
      PROVE  q.memory \in Memory /\ q.seen \in MemoryRecord
  BY <1>1, <1>2 DEF Request, StoreInv, ReadingsAreVersions, Stored
<1>3. ASSUME q.phase = "read", q.op \in {"add", "patch"}
      PROVE  q.input \in Input
  BY <1>3 DEF StoreInv, ReadingsAreVersions
<1>4. ASSUME q.phase = "read", q.op \in {"patch", "confirm", "delete", "restore"}
      PROVE  q.seen # NoRecord
  BY <1>4 DEF StoreInv, ReadingsAreVersions
<1>5. ASSUME NEW w \in Derived, w.evidence_count = q.seen.evidence_count,
             w.revision = q.seen.revision + 1,
             q.phase = "read", q.seen # NoRecord, Lawful(q.memory, q.seen, w),
             Save(q.memory, q.seen, w), UNCHANGED <<evidence, bound>>
      PROVE  EvidenceStep
  <2>1. w # NoRecord
    BY <1>5, SaveUpdates, RecordAssumption DEF Updates, Derived
  <2>2. QED
    BY <1>5, <2>1, SaveBindsNothing
<1>6. CASE AddReuse(c)
  BY <1>6 DEF AddReuse, store, BindsNothing, CountsAt, Stored
<1>7. CASE AddBind(c)
  <2> DEFINE w == Counted(q.seen, q.seen.confidence, q.seen.evidence_count + 1)
  <2>1. /\ q.phase = "read" /\ q.op = "add" /\ q.seen # NoRecord
        /\ q.input.evidence # NoEvidence /\ ~q.linked
        /\ Save(q.memory, q.seen, w)
        /\ bound' = [bound EXCEPT ![q.memory] = @ \cup {q.input.evidence}]
        /\ StoreEvidence(q.input.evidence)
    BY <1>7 DEF AddBind, SameContent
  <2>2. q.memory \in Memory /\ q.seen \in MemoryRecord
    BY <1>2, <2>1
  <2>3. /\ w \in Derived /\ w.revision = q.seen.revision + 1
        /\ w.evidence_count = q.seen.evidence_count + 1
        /\ Lawful(q.memory, q.seen, w)
    BY <2>2, ReadDerived, CountedDerived DEF MemoryRecord
  <2>4. w \in MemoryRecord
    BY <2>1, <2>3, SaveUpdates DEF Updates, Derived
  <2>5. w.evidence_count = IF q.linked THEN q.seen.evidence_count
                                       ELSE q.seen.evidence_count + 1
    BY <2>1, <2>3
  <2> HIDE DEF w
  <2>6. Binds(q.memory, q.input.evidence)
    BY <2>1, <2>3, <2>4, <2>5, SaveBinds
  <2>7. QED
    BY <2>2, <2>6 DEF Binds
<1>8. CASE AddCreate(c)
  <2>1. PICK m \in Memory : Insert(m, ExplicitMemory(q.input), q.input.evidence)
    BY <1>8 DEF AddCreate
  <2>2. /\ ExplicitMemory(q.input) \in MemoryRecord
        /\ ExplicitMemory(q.input).evidence_count = Evidenced(q.input.evidence)
        /\ q.input.evidence \in Evidence \cup {NoEvidence}
    BY <1>3, <1>8, BoundsAssumption
    DEF AddCreate, ExplicitMemory, MemoryRecord, Input, Evidenced, State, Authority
  <2>3. Brings(m, q.input.evidence)
    BY <1>8, <2>1, <2>2, InsertBrings DEF AddCreate
  <2>4. QED
    BY <2>2, <2>3
<1>9. CASE AddSupersede(c)
  <2> DEFINE old == Moved(q.seen, "superseded")
             new == ExplicitMemory(q.input)
  <2>1. /\ q.phase = "read" /\ q.op = "add" /\ q.seen # NoRecord
        /\ q.seen.revision < MaxRevision
        /\ RevisionUnchanged(q.memory, q.seen.revision)
        /\ StoreEvidence(q.input.evidence)
    BY <1>9 DEF AddSupersede
  <2>2. PICK m \in Memory \ Stored :
          /\ memories' = [memories EXCEPT ![q.memory] = old, ![m] = new]
          /\ bound' = [bound EXCEPT ![m] = {q.input.evidence} \ {NoEvidence}]
    BY <1>9 DEF AddSupersede
  <2>3. /\ q.memory \in Stored
        /\ q.seen \in MemoryRecord
        /\ q.seen = memories[q.memory]
    BY <2>1, ReadingCurrent
  <2>4. /\ new \in MemoryRecord
        /\ new.evidence_count = Evidenced(q.input.evidence)
        /\ q.input.evidence \in Evidence \cup {NoEvidence}
    BY <1>3, <2>1, BoundsAssumption
    DEF ExplicitMemory, MemoryRecord, Input, Evidenced, State, Authority
  <2>5. /\ old \in MemoryRecord
        /\ old.evidence_count = q.seen.evidence_count
    <3>1. /\ old \in Derived /\ old.revision = q.seen.revision + 1
          /\ old.evidence_count = q.seen.evidence_count
      <4>1. PICK k \in Nat : k = q.seen.revision + 1
        BY <2>3, ReadDerived
      <4>2. old = [q.seen EXCEPT !.state = "superseded", !.revision = k]
        BY <2>3, <4>1 DEF Moved, MemoryRecord
      <4>3. old.evidence_count = q.seen.evidence_count
        BY <2>3, <4>2 DEF MemoryRecord
      <4>4. QED
        BY <2>3, <4>3, MovedDerived DEF State
    <3>2. old.revision \in 1..MaxRevision
      BY <2>1, <2>3, <3>1, BoundsAssumption DEF MemoryRecord
    <3>3. QED
      BY <3>1, <3>2 DEF Derived, MemoryRecord
  <2> HIDE DEF old, new
  <2>6. Brings(m, q.input.evidence)
    <3>1. memories \in [Memory -> MemoryRecord \cup {NoRecord}]
      BY DEF StoreInv, TypeOK
    <3>2. memories'[m] = new /\ m # q.memory
      BY <2>2, <2>3, <3>1
    <3>3. \A n \in Memory \ {m} : memories'[n] = IF n = q.memory THEN old ELSE memories[n]
      BY <2>2, <2>3, <3>1 DEF Stored
    <3>4. ASSUME NEW n \in Memory \ {m}
          PROVE  /\ n \in Stored <=> n \in Stored'
                 /\ n \in Stored => CountsAt(n)
      BY <2>3, <2>5, <3>3, RecordAssumption DEF Stored, CountsAt
    <3>5. QED
      BY <2>1, <2>2, <2>4, <3>2, <3>4 DEF Brings, StoreEvidence, Stored
  <2>7. QED
    BY <2>4, <2>6 DEF Brings
<1>10. CASE PatchCommit(c)
  <2>1. q.phase = "read" /\ q.seen # NoRecord /\ Save(q.memory, q.seen, Patched(q.seen, q.input))
    BY <1>4, <1>10 DEF PatchCommit
  <2>2. q.seen \in MemoryRecord
    BY <1>2, <2>1
  <2>3. /\ Patched(q.seen, q.input) \in Derived
        /\ Patched(q.seen, q.input).revision = q.seen.revision + 1
        /\ Lawful(q.memory, q.seen, Patched(q.seen, q.input))
    BY <1>3, <1>10, <2>2, PatchedDerived DEF PatchCommit, Lawful
  <2>4. Patched(q.seen, q.input).evidence_count = q.seen.evidence_count
    BY <2>2 DEF Patched, MemoryRecord
  <2>5. QED
    BY <1>5, <1>10, <2>1, <2>3, <2>4 DEF PatchCommit
<1>11. CASE ConfirmCommit(c)
  <2>1. q.phase = "read" /\ q.seen # NoRecord /\ Save(q.memory, q.seen, Confirmed(q.seen))
    BY <1>4, <1>11 DEF ConfirmCommit
  <2>2. q.seen \in MemoryRecord
    BY <1>2, <2>1
  <2>3. /\ Confirmed(q.seen) \in Derived
        /\ Confirmed(q.seen).revision = q.seen.revision + 1
        /\ Lawful(q.memory, q.seen, Confirmed(q.seen))
    BY <1>11, <2>2, ConfirmedDerived DEF ConfirmCommit, Lawful
  <2>4. Confirmed(q.seen).evidence_count = q.seen.evidence_count
    BY <2>2 DEF Confirmed, Moved, MemoryRecord
  <2>5. QED
    BY <1>5, <1>11, <2>1, <2>3, <2>4 DEF ConfirmCommit
<1>12. CASE DeleteCommit(c)
  <2>1. q.phase = "read" /\ q.seen # NoRecord /\ Save(q.memory, q.seen, Moved(q.seen, "deleted"))
    BY <1>4, <1>12 DEF DeleteCommit
  <2>2. q.seen \in MemoryRecord
    BY <1>2, <2>1
  <2>3. /\ Moved(q.seen, "deleted") \in Derived
        /\ Moved(q.seen, "deleted").revision = q.seen.revision + 1
        /\ Lawful(q.memory, q.seen, Moved(q.seen, "deleted"))
    BY <1>12, <2>2, MovedDerived DEF State, DeleteCommit, Lawful, Ledger!Delete
  <2>4. Moved(q.seen, "deleted").evidence_count = q.seen.evidence_count
    BY <2>2 DEF Moved, MemoryRecord
  <2>5. QED
    BY <1>5, <1>12, <2>1, <2>3, <2>4 DEF DeleteCommit
<1>13. CASE RestoreCommit(c)
  <2> DEFINE previous == revisions[q.memory][q.seen.revision - 1]
             w == Moved(q.seen, previous.state)
  <2>1. /\ q.phase = "read" /\ q.seen # NoRecord
        /\ Save(q.memory, q.seen, w)
        /\ q.seen.revision > 1 /\ previous # NoRecord
        /\ Restorable(q.seen, previous.state)
        /\ UNCHANGED <<evidence, bound>>
    BY <1>4, <1>13 DEF RestoreCommit
  <2>2. q.seen \in MemoryRecord
    BY <1>2, <2>1
  <2>3. /\ w \in Derived /\ w.revision = q.seen.revision + 1
        /\ Lawful(q.memory, q.seen, w)
    <3>1. previous.state \in State
      BY <2>1, <2>2 DEF Restorable, State
    <3>2. /\ w \in Derived /\ w.revision = q.seen.revision + 1
          /\ w.state = previous.state /\ w.authority = q.seen.authority
          /\ Ledger!Keeps(q.seen, w)
      BY <2>2, <3>1, MovedDerived
    <3>3. Restores(q.memory, q.seen, w)
      BY <2>1, <3>2 DEF Restorable, Restores
    <3>4. QED
      BY <3>2, <3>3 DEF Lawful
  <2>4. w.evidence_count = q.seen.evidence_count
    BY <2>2 DEF Moved, MemoryRecord
  <2>5. QED
    BY <1>5, <2>1, <2>3, <2>4
<1>14. QED
  BY <1>6, <1>7, <1>8, <1>9, <1>10, <1>11, <1>12, <1>13 DEF Write

\* The commit of an extraction.
LEMMA CommitTeaches ==
    ASSUME StoreInv, SessionsCount, NEW c \in Client, ExtractCommit(c)
    PROVE  Teaches
<1> DEFINE x == extraction[c]
<1>1. /\ memories' = View(c) /\ bound' = BoundView(c)
      /\ evidence' = evidence \cup x.added
  BY DEF ExtractCommit
<1>2. x \in Extraction /\ AddedHeld(x) /\ bound \in [Memory -> SUBSET Evidence]
  BY SessionTyped DEF SessionsCount, StoreInv, TypeOK
<1>3. ASSUME NEW m \in Memory, x.rows[m] = NoRecord
      PROVE  memories'[m] = memories[m] /\ bound'[m] = bound[m]
  <2>1. x.links[m] = {}
    BY <1>3, SessionTyped DEF FlushedAt
  <2>2. QED
    BY <1>1, <1>3, <2>1 DEF View, BoundView
<1>4. ASSUME NEW m \in Memory, x.rows[m] # NoRecord
      PROVE  Taught(m) /\ m \in Stored' /\ bound'[m] = bound[m] \cup x.links[m]
  <2>1. memories'[m] = x.rows[m] /\ bound'[m] = bound[m] \cup x.links[m]
    BY <1>1, <1>4 DEF View, BoundView
  <2>2. StillFound(x, m)
    BY <1>4 DEF ExtractCommit, StillFound
  <2>3. x.rows[m].evidence_count = Cardinality(bound'[m])
    BY <1>4, <2>1, <2>2 DEF SessionsCount, CountHeld
  <2>4. Gains(m)
    BY <1>4, CommitGains
  <2>5. m \in Stored => memories'[m].revision > memories[m].revision
    BY <2>4, BoundsAssumption
    DEF Gains, Found, StoreInv, TypeOK, Stored, MemoryRecord
  <2>6. x.links[m] \subseteq Evidence
    BY <1>2 DEF Extraction
  <2>7. QED
    BY <1>2, <1>4, <2>1, <2>3, <2>5, <2>6 DEF Taught, Stored
<1>5. ASSUME NEW e \in evidence', e \notin evidence
      PROVE  \E m \in Stored' : e \in bound'[m]
  <2>1. PICK m \in Memory : x.rows[m] # NoRecord /\ e \in x.links[m]
    BY <1>1, <1>2, <1>5 DEF AddedHeld
  <2>2. QED
    BY <1>4, <2>1
<1>6. QED
  BY <1>1, <1>3, <1>4, <1>5 DEF Teaches

LEMMA NextEvidence ==
    StoreInv /\ LinksCurrent /\ SessionsCount /\ [Next]_vars => EvidenceStep
<1> SUFFICES ASSUME StoreInv, LinksCurrent, SessionsCount, [Next]_vars
             PROVE  EvidenceStep
  OBVIOUS
<1>1. UNCHANGED <<memories, evidence, bound>> => EvidenceStep
  BY DEF EvidenceStep, BindsNothing, CountsAt, Stored
<1>2. ASSUME NEW c \in Client, Start(c) \/ Rollback(c)
      PROVE  UNCHANGED <<memories, evidence, bound>>
  BY <1>2 DEF Start, AddRead, LoadRead, Rollback, store
<1>3. ASSUME NEW c \in Client, Extract(c)
      PROVE  EvidenceStep
  <2>1. CASE ExtractCommit(c)
    BY <2>1, CommitTeaches DEF EvidenceStep
  <2>2. CASE ~ExtractCommit(c)
    <3>1. UNCHANGED store
      BY <1>3, <2>2 DEF Extract, ExtractMatch, ExtractCreate, ExtractMerge,
                        ExtractReuse, Flush
    <3>2. QED
      BY <1>1, <3>1 DEF store
  <2>3. QED
    BY <2>1, <2>2
<1>4. QED
  BY <1>1, <1>2, <1>3, WriteEvidence DEF Next, vars

\* A request after a step holds what it held, or answers just read, or none.
LEMMA FreshLinks ==
    ASSUME StoreInv, [Next]_vars, NEW d \in Client
    PROVE  LET q == request'[d] IN
           \/ q = request[d]
           \/ ~(q.phase = "read" /\ q.op = "add")
           \/ /\ UNCHANGED <<memories, bound>>
              /\ q.seen = Row(q.memory)
              /\ q.linked <=> Linked(bound, q.memory, q.input.evidence)
<1> DEFINE Goal ==
      LET q == request'[d] IN
      \/ q = request[d]
      \/ ~(q.phase = "read" /\ q.op = "add")
      \/ /\ UNCHANGED <<memories, bound>>
         /\ q.seen = Row(q.memory)
         /\ q.linked <=> Linked(bound, q.memory, q.input.evidence)
<1>0. request \in [Client -> Request]
  BY DEF StoreInv, TypeOK
<1>1. ASSUME NEW c \in Client, NEW q, request' = [request EXCEPT ![c] = q],
             \/ ~(q.phase = "read" /\ q.op = "add")
             \/ /\ UNCHANGED <<memories, bound>>
                /\ q.seen = Row(q.memory)
                /\ q.linked <=> Linked(bound, q.memory, q.input.evidence)
      PROVE  Goal
  <2>1. CASE d = c
    BY <1>0, <1>1, <2>1
  <2>2. CASE d # c
    BY <1>0, <1>1, <2>2
  <2>3. QED
    BY <2>1, <2>2
<1>2. ASSUME NEW op, NEW in, NEW m, NEW known, NEW linked,
             linked = Linked(bound, m, in.evidence) \/ op # "add",
             UNCHANGED <<memories, bound>>
      PROVE  LET q == Loaded(op, in, m, known, linked) IN
             \/ ~(q.phase = "read" /\ q.op = "add")
             \/ /\ UNCHANGED <<memories, bound>>
                /\ q.seen = Row(q.memory)
                /\ q.linked <=> Linked(bound, q.memory, q.input.evidence)
  BY <1>2 DEF Loaded
<1>3. ASSUME NEW c \in Client, NEW in \in Input, AddRead(c, in)
      PROVE  Goal
  BY <1>1, <1>2, <1>3 DEF AddRead, store
<1>4. ASSUME NEW c \in Client, NEW m, NEW expected, NEW in,
             NEW op \in {"patch", "confirm", "delete", "restore"},
             LoadRead(c, op, m, in, expected)
      PROVE  Goal
  <2>1. request' = [request EXCEPT ![c] = Loaded(op, in, m, FALSE, FALSE)]
    BY <1>4 DEF LoadRead
  <2>2. Loaded(op, in, m, FALSE, FALSE).op # "add"
    BY DEF Loaded
  <2>3. QED
    BY <1>1, <2>1, <2>2
<1>5. ASSUME NEW c \in Client, Extract(c)
      PROVE  Goal
  BY <1>5 DEF Extract, ExtractMatch, ExtractCreate, ExtractMerge, ExtractReuse,
              ExtractCommit, Flush
<1>6. ASSUME NEW c \in Client, Write(c) \/ Rollback(c)
      PROVE  Goal
  <2>1. Done(c)
    BY <1>6 DEF Write, Rollback, AddReuse, AddBind, AddCreate, AddSupersede,
                PatchCommit, ConfirmCommit, DeleteCommit, RestoreCommit
  <2>2. QED
    BY <1>1, <2>1 DEF Done, Idle
<1>7. CASE UNCHANGED vars
  BY <1>7 DEF vars
<1>8. QED
  BY <1>3, <1>4, <1>5, <1>6, <1>7 DEF Next, Start

\* What is bound to a memory changes only with its revision.
LEMMA BoundByRevision ==
    ASSUME StoreInv, StoreStep, EvidenceStep, NEW m \in Stored
    PROVE  \/ memories'[m].revision > memories[m].revision
           \/ bound'[m] = bound[m]
<1>1. /\ m \in Memory /\ memories[m] \in MemoryRecord
      /\ memories[m].revision \in Nat
      /\ bound \in [Memory -> SUBSET Evidence]
  BY BoundsAssumption DEF StoreInv, TypeOK, Stored, MemoryRecord
<1>2. QED
  BY <1>1 DEF EvidenceStep, BindsNothing, Binds, Brings, Teaches, Taught

LEMMA LinksStep ==
    ASSUME StoreInv, LinksCurrent, SessionsCount, [Next]_vars
    PROVE  LinksCurrent'
<1>1. StoreStep /\ EvidenceStep
  BY NextStore, NextEvidence
<1>i. StoreInv'
  BY StoreInvStep
<1> SUFFICES ASSUME NEW d \in Client,
                    request'[d].phase = "read", request'[d].op = "add",
                    request'[d].seen # NoRecord,
                    memories'[request'[d].memory].revision = request'[d].seen.revision
             PROVE  request'[d].linked <=>
                        request'[d].input.evidence \in bound'[request'[d].memory]
  BY DEF LinksCurrent
<1> DEFINE q == request'[d]
<1>2. CASE q = request[d]
  <2>1. /\ q.memory \in Stored /\ q.memory \in Memory
        /\ q.seen.revision <= memories[q.memory].revision
    BY <1>2 DEF StoreInv, ReadingsAreVersions, Stored
  <2>2. memories'[q.memory].revision >= memories[q.memory].revision
    BY <1>1, <2>1, HistoryGrows
  <2>3. /\ q.memory \in Stored'
        /\ memories[q.memory].revision \in Int /\ memories'[q.memory].revision \in Int
    BY <1>1, <1>i, <2>1, HistoryGrows, BoundsAssumption
    DEF StoreInv, TypeOK, Stored, MemoryRecord
  <2>4. /\ memories[q.memory].revision = q.seen.revision
        /\ ~(memories'[q.memory].revision > memories[q.memory].revision)
    BY <2>1, <2>2, <2>3
  <2>5. bound'[q.memory] = bound[q.memory]
    BY <1>1, <2>1, <2>4, BoundByRevision
  <2>6. q.linked <=> q.input.evidence \in bound[q.memory]
    BY <1>2, <2>4 DEF LinksCurrent
  <2>7. QED
    BY <2>5, <2>6
<1>3. CASE /\ UNCHANGED <<memories, bound>>
           /\ q.seen = Row(q.memory)
           /\ q.linked <=> Linked(bound, q.memory, q.input.evidence)
  BY <1>3 DEF Linked, Row
<1>4. QED
  BY <1>2, <1>3, FreshLinks

\* A set of evidence is finite, and one more source is one more.
LEMMA OneMore ==
    ASSUME NEW old \in SUBSET Evidence, NEW e, NEW with, with = old \cup {e}
    PROVE  /\ Cardinality(old) \in Nat
           /\ Cardinality(with) = IF e \in old THEN Cardinality(old)
                                               ELSE Cardinality(old) + 1
<1>1. IsFiniteSet(old)
  BY FiniteAssumption, FS_Subset
<1>2. QED
  BY <1>1, FS_AddElement, FS_CardinalityType

LEMMA CountedStep ==
    ASSUME StoreInv, EvidenceCounted, EvidenceStep
    PROVE  EvidenceCounted'
<1>0. bound \in [Memory -> SUBSET Evidence]
  BY DEF StoreInv, TypeOK
<1>1. CASE BindsNothing
  BY <1>1 DEF BindsNothing, CountsAt, EvidenceCounted, Stored
<1>2. ASSUME NEW m \in Memory, NEW e \in Evidence, Binds(m, e)
      PROVE  EvidenceCounted'
  <2>1. ASSUME NEW n \in Memory, n \in Stored'
        PROVE  memories'[n].evidence_count = Cardinality(bound'[n])
    <3>1. CASE n = m
      <4>1. bound'[n] = bound[m] \cup {e} /\ bound[m] \in SUBSET Evidence
        BY <1>0, <1>2, <3>1 DEF Binds
      <4>2. memories[m].evidence_count = Cardinality(bound[m])
        BY <1>2 DEF Binds, EvidenceCounted
      <4>3. QED
        BY <1>2, <3>1, <4>1, <4>2, OneMore DEF Binds
    <3>2. CASE n # m
      BY <1>0, <1>2, <2>1, <3>2 DEF Binds, EvidenceCounted, Stored
    <3>3. QED
      BY <3>1, <3>2
  <2>2. ASSUME NEW f \in evidence'
        PROVE  \E n \in Stored' : f \in bound'[n]
    <3>1. m \in Stored'
      BY <1>2, RecordAssumption DEF Binds, Stored
    <3>2. CASE f = e
      BY <1>0, <1>2, <3>1, <3>2 DEF Binds
    <3>3. CASE f # e
      <4>1. PICK n \in Stored : f \in bound[n]
        BY <1>2, <2>2, <3>3 DEF Binds, EvidenceCounted
      <4>2. n \in Memory /\ n \in Stored'
        BY <1>2, <3>1 DEF Binds, Stored
      <4>3. f \in bound'[n]
        BY <1>0, <1>2, <4>1, <4>2 DEF Binds
      <4>4. QED
        BY <4>2, <4>3
    <3>4. QED
      BY <3>2, <3>3
  <2>3. QED
    BY <2>1, <2>2 DEF EvidenceCounted, Stored
<1>3. ASSUME NEW m \in Memory, NEW e \in Evidence \cup {NoEvidence}, Brings(m, e)
      PROVE  EvidenceCounted'
  <2>1. m \in Stored' /\ bound'[m] = {e} \ {NoEvidence}
    BY <1>0, <1>3, RecordAssumption DEF Brings, Stored
  <2>2. Cardinality({e} \ {NoEvidence}) = Evidenced(e)
    <3>1. CASE e = NoEvidence
      <4>1. {e} \ {NoEvidence} = {}
        BY <3>1
      <4>2. QED
        BY <3>1, <4>1, FS_EmptySet DEF Evidenced
    <3>2. CASE e # NoEvidence
      <4>1. {e} \ {NoEvidence} = {e}
        BY <3>2
      <4>2. QED
        BY <3>2, <4>1, FS_Singleton DEF Evidenced
    <3>3. QED
      BY <3>1, <3>2
  <2>3. ASSUME NEW n \in Memory, n \in Stored'
        PROVE  memories'[n].evidence_count = Cardinality(bound'[n])
    <3>1. CASE n = m
      BY <1>3, <2>1, <2>2, <3>1 DEF Brings
    <3>2. CASE n # m
      BY <1>0, <1>3, <2>3, <3>2 DEF Brings, CountsAt, EvidenceCounted
    <3>3. QED
      BY <3>1, <3>2
  <2>4. ASSUME NEW f \in evidence'
        PROVE  \E n \in Stored' : f \in bound'[n]
    <3>1. CASE f \in {e} \ {NoEvidence}
      BY <2>1, <3>1
    <3>2. CASE f \notin {e} \ {NoEvidence}
      <4>1. PICK n \in Stored : f \in bound[n]
        BY <1>3, <2>4, <3>2 DEF Brings, EvidenceCounted
      <4>2. n \in Memory /\ n # m /\ n \in Stored'
        BY <1>3, <4>1 DEF Brings, Stored
      <4>3. f \in bound'[n]
        BY <1>0, <1>3, <4>1, <4>2 DEF Brings
      <4>4. QED
        BY <4>2, <4>3
    <3>3. QED
      BY <3>1, <3>2
  <2>5. QED
    BY <2>3, <2>4 DEF EvidenceCounted, Stored
<1>4. CASE Teaches
  <2>1. ASSUME NEW n \in Memory, n \in Stored'
        PROVE  memories'[n].evidence_count = Cardinality(bound'[n])
    BY <1>4, <2>1 DEF Teaches, Taught, EvidenceCounted, Stored
  <2>2. \A n \in Stored : n \in Stored' /\ bound[n] \subseteq bound'[n]
    BY <1>4 DEF Teaches, Taught, Stored
  <2>3. ASSUME NEW f \in evidence'
        PROVE  \E n \in Stored' : f \in bound'[n]
    BY <1>4, <2>2, <2>3 DEF Teaches, EvidenceCounted
  <2>4. QED
    BY <2>1, <2>3 DEF EvidenceCounted, Stored
<1>5. QED
  BY <1>1, <1>2, <1>3, <1>4 DEF EvidenceStep

\* No evidence is bound to what has no row.
LEMMA UnboundStep ==
    ASSUME StoreInv, Unbound, EvidenceStep
    PROVE  Unbound'
<1>1. bound \in [Memory -> SUBSET Evidence]
  BY DEF StoreInv, TypeOK
<1>2. CASE BindsNothing
  BY <1>2 DEF BindsNothing, Unbound
<1>3. ASSUME NEW m \in Memory, NEW e \in Evidence, Binds(m, e)
      PROVE  Unbound'
  BY <1>1, <1>3, RecordAssumption DEF Binds, Unbound, Stored
<1>4. ASSUME NEW m \in Memory, NEW e \in Evidence \cup {NoEvidence}, Brings(m, e)
      PROVE  Unbound'
  BY <1>1, <1>4, RecordAssumption DEF Brings, Unbound, Stored
<1>5. CASE Teaches
  BY <1>5 DEF Teaches, Taught, Unbound, Stored
<1>6. QED
  BY <1>2, <1>3, <1>4, <1>5 DEF EvidenceStep

\* A row that was flushed counts right whatever is committed beside it.
LEMMA CountStays ==
    ASSUME StoreInv, Unbound, StoreStep, EvidenceStep,
           NEW x \in Extraction, NEW m \in Memory, FlushedAt(x, m), CountHeld(x, m)
    PROVE  CountHeld(x, m)'
<1> SUFFICES ASSUME x.rows[m] # NoRecord, StillFound(x, m)'
             PROVE  x.rows[m].evidence_count = Cardinality(bound'[m] \cup x.links[m])
  BY DEF CountHeld
<1>1. StillFound(x, m) /\ bound'[m] = bound[m]
  <2>1. CASE x.base[m] = 0
    <3>1. m \notin Stored'
      BY <2>1 DEF StillFound
    <3>2. m \notin Stored
      BY <3>1, HistoryGrows
    <3>3. bound[m] = {} /\ bound'[m] = {}
      BY <3>1, <3>2, UnboundStep DEF Unbound
    <3>4. QED
      BY <2>1, <3>2, <3>3 DEF StillFound
  <2>2. CASE x.base[m] # 0
    <3>1. m \in Stored' /\ memories'[m].revision = x.base[m]
      BY <2>2 DEF StillFound, RevisionUnchanged
    <3>2. x.base[m] \in 0..MaxRevision
      BY DEF Extraction
    <3>3. m \in Stored /\ x.base[m] <= memories[m].revision
      BY <2>2, <3>2, BoundsAssumption DEF FlushedAt
    <3>4. memories[m].revision \in Int /\ memories'[m].revision \in Int
      BY <3>1, <3>2, <3>3, BoundsAssumption DEF StoreInv, TypeOK, Stored, MemoryRecord
    <3>5. memories'[m].revision >= memories[m].revision
      BY <3>3, HistoryGrows
    <3>6. /\ memories[m].revision = x.base[m]
          /\ ~(memories'[m].revision > memories[m].revision)
      BY <3>1, <3>2, <3>3, <3>4, <3>5, BoundsAssumption
    <3>7. bound'[m] = bound[m]
      BY <3>3, <3>6, BoundByRevision
    <3>8. QED
      BY <2>2, <3>3, <3>6, <3>7 DEF StillFound, RevisionUnchanged
  <2>3. QED
    BY <2>1, <2>2
<1>2. QED
  BY <1>1 DEF CountHeld

\* A flush counts the evidence it binds.
LEMMA FlushCounts ==
    ASSUME StoreInv, EvidenceCounted, Unbound, SessionsCount,
           NEW c \in Client, NEW m \in Memory, NEW record \in MemoryRecord,
           Flushes(c, m, record)
    PROVE  \E y :
             /\ extraction' = [extraction EXCEPT ![c] = y]
             /\ AddedHeld(y) /\ \A n \in Memory : CountHeld(y, n)
<1> USE RecordAssumption
<1> DEFINE x == extraction[c]
           e == Proposed(c).input.evidence
<1>1. PICK y \in Extraction :
             /\ extraction' = [extraction EXCEPT ![c] = y]
             /\ y.items = Tail(x.items)
             /\ y.rows[m] = record
             /\ y.snapshots[m] = [x.snapshots[m] EXCEPT ![record.revision] = record]
             /\ y.base[m] = IF x.rows[m] = NoRecord THEN record.revision - 1
                                                    ELSE x.base[m]
             /\ y.links[m] = x.links[m] \cup {e}
             /\ y.added = x.added \cup ({e} \ evidence)
             /\ \A n \in Memory \ {m} :
                  /\ y.rows[n] = x.rows[n] /\ y.snapshots[n] = x.snapshots[n]
                  /\ y.base[n] = x.base[n] /\ y.links[n] = x.links[n]
  BY FlushFields
<1>2. /\ AddedHeld(x) /\ \A n \in Memory : CountHeld(x, n)
      /\ x \in Extraction /\ FlushedAt(x, m)
  BY SessionTyped DEF SessionsCount
<1>3. AddedHeld(y)
  <2> SUFFICES ASSUME NEW f \in y.added
               PROVE  \E n \in Memory : y.rows[n] # NoRecord /\ f \in y.links[n]
    BY DEF AddedHeld
  <2>1. CASE f = e
    BY <1>1, <2>1
  <2>2. CASE f # e
    <3>1. PICK n \in Memory : x.rows[n] # NoRecord /\ f \in x.links[n]
      BY <1>1, <1>2, <2>2 DEF AddedHeld
    <3>2. CASE n = m
      BY <1>1, <3>1, <3>2
    <3>3. CASE n # m
      BY <1>1, <3>1, <3>3
    <3>4. QED
      BY <3>2, <3>3
  <2>3. QED
    BY <2>1, <2>2
<1>4. ASSUME NEW n \in Memory \ {m}
      PROVE  CountHeld(y, n)
  BY <1>1, <1>2 DEF CountHeld, StillFound
<1>5. CountHeld(y, m)
  <2> SUFFICES ASSUME StillFound(y, m)
               PROVE  record.evidence_count = Cardinality(bound[m] \cup y.links[m])
    BY <1>1 DEF CountHeld
  <2>1. PICK old : old = bound[m] \cup x.links[m]
    OBVIOUS
  <2>2. PICK with : with = old \cup {e}
    OBVIOUS
  <2>3. bound[m] \cup y.links[m] = with /\ old \in SUBSET Evidence
    BY <1>1, <1>2, <2>1, <2>2 DEF Extraction, StoreInv, TypeOK
  <2>4. /\ Cardinality(old) \in Nat
        /\ Cardinality(with) = IF e \in old THEN Cardinality(old)
                                            ELSE Cardinality(old) + 1
    <3>1. PICK source : source = e
      OBVIOUS
    <3>2. with = old \cup {source}
      BY <2>2, <3>1
    <3> HIDE DEF e
    <3>3. QED
      BY <2>3, <3>1, <3>2, OneMore
  <2>5. Linked(BoundView(c), m, e) <=> e \in old
    BY <2>1, NoneAssumption DEF Linked, BoundView
  <2>6. /\ View(c)[m] \in MemoryRecord \cup {NoRecord}
        /\ View(c)[m] = IF x.rows[m] = NoRecord THEN memories[m] ELSE x.rows[m]
    BY ViewTyped
  <2>7. CASE View(c)[m] = NoRecord
    <3>1. record.revision = 1 /\ record.evidence_count = 1
      BY <2>7 DEF Flushes, Follows
    <3>2. m \notin Stored /\ x.rows[m] = NoRecord
      BY <2>6, <2>7 DEF Stored
    <3>3. bound[m] = {} /\ x.links[m] = {}
      BY <1>2, <3>2 DEF Unbound, FlushedAt
    <3>4. with = {e}
      BY <2>1, <2>2, <3>3
    <3>5. QED
      BY <2>3, <3>1, <3>4, FS_Singleton
  <2>8. CASE View(c)[m] # NoRecord
    <3>1. /\ record.revision = View(c)[m].revision + 1
          /\ record.evidence_count =
                IF e \in old THEN View(c)[m].evidence_count
                             ELSE View(c)[m].evidence_count + 1
      BY <2>5, <2>8 DEF Flushes, Follows
    <3>2. View(c)[m].evidence_count = Cardinality(old)
      <4>1. CASE x.rows[m] = NoRecord
        <5>1. m \in Stored /\ View(c)[m] = memories[m]
          BY <2>6, <2>8, <4>1 DEF Stored
        <5>2. x.links[m] = {}
          BY <1>2, <4>1 DEF FlushedAt
        <5>3. QED
          BY <2>1, <5>1, <5>2 DEF EvidenceCounted
      <4>2. CASE x.rows[m] # NoRecord
        <5>1. StillFound(x, m)
          BY <1>1, <4>2 DEF StillFound
        <5>2. QED
          BY <1>2, <2>1, <2>6, <4>2, <5>1 DEF CountHeld
      <4>3. QED
        BY <4>1, <4>2
    <3>3. QED
      BY <2>3, <2>4, <3>1, <3>2
  <2>9. QED
    BY <2>7, <2>8
<1>6. \A n \in Memory : CountHeld(y, n)
  BY <1>4, <1>5
<1>7. QED
  BY <1>1, <1>3, <1>6

\* An extraction counts right after a step of its own.
LEMMA ExtractionCounts ==
    ASSUME StoreInv, EvidenceCounted, Unbound, SessionsCount,
           NEW c \in Client, Extract(c) \/ Rollback(c)
    PROVE  \E y :
             /\ extraction' = [extraction EXCEPT ![c] = y]
             /\ AddedHeld(y) /\ \A n \in Memory : CountHeld(y, n)
<1> DEFINE x == extraction[c]
           Goal == \E y :
             /\ extraction' = [extraction EXCEPT ![c] = y]
             /\ AddedHeld(y) /\ \A n \in Memory : CountHeld(y, n)
<1>0. /\ x \in Extraction /\ AddedHeld(x)
      /\ \A n \in Memory : CountHeld(x, n)
  BY SessionTyped DEF SessionsCount
<1>1. CASE ExtractCommit(c) \/ Rollback(c)
  <2>1. AddedHeld(NoExtraction) /\ \A n \in Memory : CountHeld(NoExtraction, n)
    BY DEF NoExtraction, AddedHeld, CountHeld
  <2>2. QED
    BY <1>1, <2>1 DEF ExtractCommit, Rollback
<1>2. CASE ExtractCreate(c) \/ ExtractMerge(c)
  BY <1>2, CreateFlushes, MergeFlushes, FlushCounts
<1>3. ASSUME NEW y, extraction' = [extraction EXCEPT ![c] = y],
             y.rows = x.rows, y.base = x.base, y.links = x.links, y.added = x.added
      PROVE  Goal
  <2>1. AddedHeld(y) /\ \A n \in Memory : CountHeld(y, n)
    BY <1>0, <1>3 DEF AddedHeld, CountHeld, StillFound
  <2>2. QED
    BY <1>3, <2>1
<1>4. ASSUME NEW in \in Input, ExtractMatch(c, in)
      PROVE  Goal
  <2>1. PICK chosen :
          extraction' = [extraction EXCEPT ![c] =
            [x EXCEPT !.phase = "match",
                      !.items = Append(@, [input |-> in, chosen |-> chosen])]]
    BY <1>4 DEF ExtractMatch
  <2>2. PICK items : items = Append(x.items, [input |-> in, chosen |-> chosen])
    OBVIOUS
  <2>3. PICK y : y = [x EXCEPT !.phase = "match", !.items = items]
    OBVIOUS
  <2>4. /\ y.rows = x.rows /\ y.base = x.base /\ y.links = x.links
        /\ y.added = x.added
    BY <1>0, <2>3 DEF Extraction
  <2>5. extraction' = [extraction EXCEPT ![c] = y]
    BY <1>0, <2>1, <2>2, <2>3 DEF Extraction
  <2>6. QED
    BY <1>3, <2>4, <2>5
<1>5. CASE ExtractReuse(c)
  <2>1. PICK y : y = [x EXCEPT !.phase = "write", !.items = Tail(@)]
    OBVIOUS
  <2>2. /\ y.rows = x.rows /\ y.base = x.base /\ y.links = x.links
        /\ y.added = x.added
    BY <1>0, <2>1 DEF Extraction
  <2>3. extraction' = [extraction EXCEPT ![c] = y]
    BY <1>5, <2>1 DEF ExtractReuse
  <2>4. QED
    BY <1>3, <2>2, <2>3
<1>6. QED
  BY <1>1, <1>2, <1>4, <1>5 DEF Extract

LEMMA SessionsStep ==
    ASSUME StoreInv, LinksCurrent, EvidenceCounted, Unbound, SessionsCount, [Next]_vars
    PROVE  SessionsCount'
<1>0. extraction \in [Client -> Extraction]
  BY DEF StoreInv, TypeOK
<1>1. StoreStep /\ EvidenceStep /\ StoreInv'
  BY NextStore, NextEvidence, StoreInvStep
<1>2. ASSUME NEW d \in Client, extraction'[d] = extraction[d]
      PROVE  /\ AddedHeld(extraction[d])'
             /\ \A m \in Memory : CountHeld(extraction[d], m)'
  <2>1. PICK x \in Extraction : x = extraction[d]
    BY <1>0
  <2>2. AddedHeld(x) /\ \A m \in Memory : CountHeld(x, m) /\ FlushedAt(x, m)
    BY <2>1, SessionTyped DEF SessionsCount
  <2>3. \A m \in Memory : CountHeld(x, m)'
    BY <1>1, <2>2, CountStays
  <2>4. QED
    BY <1>2, <2>1, <2>2, <2>3 DEF CountHeld, StillFound
<1>3. CASE UNCHANGED extraction
  BY <1>2, <1>3 DEF SessionsCount, AddedHeld
<1>4. ASSUME NEW c \in Client, Extract(c) \/ Rollback(c)
      PROVE  SessionsCount'
  <2>1. PICK y : /\ extraction' = [extraction EXCEPT ![c] = y]
                 /\ AddedHeld(y) /\ \A n \in Memory : CountHeld(y, n)
    BY <1>4, ExtractionCounts
  <2>2. PICK z \in Extraction :
          /\ extraction' = [extraction EXCEPT ![c] = z]
          /\ \A n \in Memory : FlushedAt(z, n)
    BY <1>4, ExtractionHeld
  <2>3. y = z /\ extraction'[c] = z
    BY <1>0, <2>1, <2>2
  <2>4. \A m \in Memory : CountHeld(z, m)'
    BY <1>1, <2>1, <2>2, <2>3, CountStays
  <2>5. ASSUME NEW d \in Client
        PROVE  AddedHeld(extraction[d])' /\ \A m \in Memory : CountHeld(extraction[d], m)'
    <3>1. CASE d = c
      BY <2>1, <2>3, <2>4, <3>1 DEF CountHeld, StillFound
    <3>2. CASE d # c
      BY <1>0, <1>2, <2>1, <3>2
    <3>3. QED
      BY <3>1, <3>2
  <2>6. QED
    BY <2>5 DEF SessionsCount, AddedHeld
<1>5. QED
  BY <1>3, <1>4 DEF Next, vars

\* The evidence count that confirmations trust is the number of evidence rows
\* bound to the memory, and no evidence row is without a memory.
THEOREM EvidenceIsCounted == Spec => []EvidenceCounted
<1> DEFINE Inv == LinksCurrent /\ EvidenceCounted /\ Unbound /\ SessionsCount
<1>1. Init => Inv
  BY DEF Init, Idle, NoExtraction, LinksCurrent, EvidenceCounted, Unbound,
         SessionsCount, AddedHeld, CountHeld, Stored
<1>2. StoreInv /\ Inv /\ [Next]_vars => Inv'
  BY NextEvidence, LinksStep, CountedStep, UnboundStep, SessionsStep
<1>3. QED
  BY <1>1, <1>2, StoreInvariant, PTL DEF Spec

-----------------------------------------------------------------------------
(* The memory service implements the ledger.                               *)

\* The refinement mapping for one memory: its snapshots as a log.
LogOf(snapshots) ==
    [r \in {i \in 1..MaxRevision : snapshots[i] # NoRecord} |-> snapshots[r]]

\* A memory without a row has an empty log.
LEMMA LogEmpty ==
    ASSUME NEW snapshots, HistoryAt(NoRecord, snapshots)
    PROVE  LogOf(snapshots) = << >>
<1>1. {i \in 1..MaxRevision : snapshots[i] # NoRecord} = {}
  BY DEF HistoryAt
<1>2. QED
  BY <1>1 DEF LogOf

\* The log of a stored memory has the versions up to that of the row.
LEMMA LogStored ==
    ASSUME NEW row \in MemoryRecord,
           NEW snapshots \in [1..MaxRevision -> MemoryRecord \cup {NoRecord}],
           HistoryAt(row, snapshots)
    PROVE  /\ LogOf(snapshots) = [r \in 1..row.revision |-> snapshots[r]]
           /\ LogOf(snapshots) \in Seq(MemoryRecord)
           /\ Len(LogOf(snapshots)) = row.revision
           /\ LogOf(snapshots) # << >>
           /\ Ledger!Newest(LogOf(snapshots)) = row
<1>1. row # NoRecord /\ row.revision \in 1..MaxRevision /\ row.revision \in Nat
  BY RecordAssumption, BoundsAssumption DEF MemoryRecord
<1>2. {i \in 1..MaxRevision : snapshots[i] # NoRecord} = 1..row.revision
  BY <1>1, BoundsAssumption DEF HistoryAt
<1>3. LogOf(snapshots) = [r \in 1..row.revision |-> snapshots[r]]
  BY <1>2 DEF LogOf
<1>4. \A r \in 1..row.revision : snapshots[r] \in MemoryRecord
  BY <1>1, <1>2
<1>5. LogOf(snapshots) \in Seq(MemoryRecord) /\ Len(LogOf(snapshots)) = row.revision
  BY <1>1, <1>3, <1>4
<1>6. Ledger!Newest(LogOf(snapshots)) = row
  BY <1>1, <1>3, <1>5 DEF Ledger!Newest, HistoryAt
<1>7. LogOf(snapshots) # << >>
  BY <1>1, <1>5
<1>8. QED
  BY <1>3, <1>5, <1>6, <1>7

\* The next snapshot extends the log by one version.
LEMMA LogGrows ==
    ASSUME NEW row \in MemoryRecord,
           NEW snapshots \in [1..MaxRevision -> MemoryRecord \cup {NoRecord}],
           HistoryAt(row, snapshots),
           NEW w \in MemoryRecord, w.revision = row.revision + 1,
           NEW next, next = [snapshots EXCEPT ![w.revision] = w]
    PROVE  /\ Ledger!Grows(LogOf(snapshots), LogOf(next))
           /\ Ledger!Newest(LogOf(next)) = w
<1> DEFINE old == LogOf(snapshots)
           new == LogOf(next)
<1>1. HistoryAt(w, next)
  BY HistoryAppend
<1>2. next \in [1..MaxRevision -> MemoryRecord \cup {NoRecord}]
  OBVIOUS
<1>3. /\ old = [r \in 1..row.revision |-> snapshots[r]]
      /\ old \in Seq(MemoryRecord) /\ Len(old) = row.revision
  BY LogStored
<1>4. /\ new = [r \in 1..w.revision |-> next[r]]
      /\ new \in Seq(MemoryRecord) /\ Len(new) = w.revision
      /\ Ledger!Newest(new) = w
  BY <1>1, <1>2, LogStored
<1>5. row.revision \in Nat /\ w.revision \in 1..MaxRevision /\ MaxRevision \in Nat
  BY BoundsAssumption DEF MemoryRecord
<1>6. \A r \in 1..row.revision : new[r] = old[r]
  BY <1>3, <1>4, <1>5
<1> HIDE DEF old, new
<1>7. SubSeq(new, 1, Len(old)) = old
  <2>1. SubSeq(new, 1, row.revision) = [r \in 1..row.revision |-> new[r]]
    BY <1>4, <1>5
  <2>2. QED
    BY <1>3, <1>6, <2>1
<1>8. QED
  BY <1>3, <1>4, <1>5, <1>7 DEF Ledger!Grows, old, new

\* The first snapshot begins the log.
LEMMA LogBegins ==
    ASSUME NEW snapshots \in [1..MaxRevision -> MemoryRecord \cup {NoRecord}],
           HistoryAt(NoRecord, snapshots),
           NEW w \in MemoryRecord, w.revision = 1
    PROVE  LET next == [snapshots EXCEPT ![1] = w] IN
           /\ Ledger!Grows(LogOf(snapshots), LogOf(next))
           /\ Ledger!Newest(LogOf(next)) = w
<1> DEFINE next == [snapshots EXCEPT ![1] = w]
           new == LogOf(next)
<1>1. HistoryAt(w, next)
  BY HistoryFirst
<1>2. next \in [1..MaxRevision -> MemoryRecord \cup {NoRecord}]
  BY BoundsAssumption
<1>3. /\ new \in Seq(MemoryRecord) /\ Len(new) = 1
      /\ Ledger!Newest(new) = w
  BY <1>1, <1>2, LogStored
<1>4. LogOf(snapshots) = << >>
  BY LogEmpty
<1> HIDE DEF next, new
<1>5. SubSeq(new, 1, 0) = << >>
  BY <1>3
<1>6. Len(<< >>) = 0
  OBVIOUS
<1>7. Ledger!Grows(<< >>, new)
  BY <1>3, <1>5, <1>6 DEF Ledger!Grows
<1>8. QED
  BY <1>3, <1>4, <1>7 DEF next, new

Log(x) == LogOf(revisions[x])

\* The actions of the ledger, in terms of the logs.
LEMMA LedgerCreates ==
    ASSUME NEW m \in Memory, Log(m) = << >>,
           Ledger!Grows(Log(m), Log(m)'), Ledger!Stated(Ledger!Newest(Log(m)')),
           \A n \in Memory \ {m} : Log(n)' = Log(n)
    PROVE  Ledger!Create(m)
BY DEF Ledger!Create, Ledger!Written, Ledger!Others, Log, LogOf

LEMMA LedgerRevises ==
    ASSUME NEW m \in Memory, Log(m) # << >>,
           Ledger!Grows(Log(m), Log(m)'),
           Ledger!Keeps(Ledger!Newest(Log(m)), Ledger!Newest(Log(m)')),
           \/ Ledger!Edit(Ledger!Newest(Log(m)), Ledger!Newest(Log(m)'))
           \/ Ledger!Confirm(Ledger!Newest(Log(m)), Ledger!Newest(Log(m)'))
           \/ Ledger!Delete(Ledger!Newest(Log(m)), Ledger!Newest(Log(m)'))
           \/ Ledger!Restore(Log(m), Ledger!Newest(Log(m)')),
           \A n \in Memory \ {m} : Log(n)' = Log(n)
    PROVE  Ledger!Revise(m)
BY DEF Ledger!Revise, Ledger!Written, Ledger!Others, Log, LogOf

\* A replaced version: nothing but the state and the revision changes.
Superseded(v, w) == w = [v EXCEPT !.state = "superseded", !.revision = @ + 1]

LEMMA LedgerReplaces ==
    ASSUME NEW m \in Memory, NEW n \in Memory,
           Log(m) # << >>, Log(n) = << >>,
           Ledger!Grows(Log(m), Log(m)'), Ledger!Grows(Log(n), Log(n)'),
           Ledger!Newest(Log(m)).state = "active",
           Superseded(Ledger!Newest(Log(m)), Ledger!Newest(Log(m)')),
           Ledger!Newest(Log(n)').authority = "explicit",
           Ledger!Newest(Log(n)').state = "active",
           Ledger!Newest(Log(n)').key = Ledger!Newest(Log(m)).key,
           Ledger!Newest(Log(n)').scope = Ledger!Newest(Log(m)).scope,
           Ledger!Newest(Log(n)').content # Ledger!Newest(Log(m)).content,
           \A x \in Memory \ {m, n} : Log(x)' = Log(x)
    PROVE  Ledger!Replace(m, n)
BY DEF Ledger!Replace, Ledger!Written, Ledger!Others, Log, LogOf, Superseded

LEMMA LedgerUnchanged ==
    ASSUME \A x \in Memory : Log(x)' = Log(x)
    PROVE  UNCHANGED [m \in Memory |->
                [r \in {i \in 1..MaxRevision : revisions[m][i] # NoRecord} |->
                    revisions[m][r]]]
BY DEF Log, LogOf

\* The log of a memory, when the memory changes.
LEMMA LogStays == ASSUME NEW x, Stays(x) PROVE Log(x)' = Log(x)
BY DEF Stays, Log, LogOf

LEMMA LogBegun ==
    ASSUME StoreInv, NEW x \in Memory, NEW w \in MemoryRecord, Begins(x, w)
    PROVE  /\ Log(x) = << >>
           /\ Ledger!Grows(Log(x), Log(x)')
           /\ Ledger!Newest(Log(x)') = w
<1>1. memories[x] = NoRecord
  BY DEF Begins, Stored
<1>2. /\ HistoryAt(NoRecord, revisions[x])
      /\ revisions[x] \in [1..MaxRevision -> MemoryRecord \cup {NoRecord}]
  BY <1>1, MemoryAt
<1>3. w.revision = 1 /\ revisions'[x] = [revisions[x] EXCEPT ![1] = w]
  BY DEF Begins
<1>4. Log(x)' = LogOf([revisions[x] EXCEPT ![1] = w])
  BY <1>3 DEF Log, LogOf
<1>5. QED
  BY <1>2, <1>3, <1>4, LogEmpty, LogBegins DEF Log

LEMMA LogContinued ==
    ASSUME StoreInv, NEW x \in Memory, NEW w \in MemoryRecord, Continues(x, w)
    PROVE  /\ Log(x) # << >>
           /\ Ledger!Newest(Log(x)) = memories[x]
           /\ Ledger!Grows(Log(x), Log(x)')
           /\ Ledger!Newest(Log(x)') = w
<1>1. memories[x] \in MemoryRecord
  BY MemoryAt DEF Continues, Stored
<1>2. /\ HistoryAt(memories[x], revisions[x])
      /\ revisions[x] \in [1..MaxRevision -> MemoryRecord \cup {NoRecord}]
  BY MemoryAt
<1>3. /\ w.revision = memories[x].revision + 1
      /\ revisions'[x] = [revisions[x] EXCEPT ![w.revision] = w]
  BY DEF Continues
<1>4. PICK next : /\ next = [revisions[x] EXCEPT ![w.revision] = w]
                  /\ Log(x)' = LogOf(next)
  BY <1>3 DEF Log, LogOf
<1>5. /\ Log(x) = LogOf(revisions[x])
      /\ Log(x) # << >> /\ Ledger!Newest(Log(x)) = memories[x]
  BY <1>1, <1>2, LogStored DEF Log
<1>6. /\ Ledger!Grows(LogOf(revisions[x]), LogOf(next))
      /\ Ledger!Newest(LogOf(next)) = w
  BY <1>1, <1>2, <1>3, <1>4, LogGrows
<1>7. QED
  BY <1>4, <1>5, <1>6

\* The log of a memory that gains versions, when an extraction commits.
LEMMA LogLearned ==
    ASSUME StoreInv, NEW x \in Memory, Gains(x)
    PROVE  /\ Ledger!GrowsBy(Log(x), Log(x)')
           /\ \A i \in Len(Log(x)) + 1..Len(Log(x)') :
                IF i = 1 THEN Ledger!Inferred(Log(x)'[i])
                         ELSE Ledger!Merge(Log(x)'[i - 1], Log(x)'[i])
<1> USE BoundsAssumption
<1> DEFINE row == memories'[x]
           log == revisions'[x]
           found == Found(x)
<1>1. /\ row \in MemoryRecord /\ log \in History /\ HistoryAt(row, log)
      /\ found < row.revision
      /\ \A r \in 1..MaxRevision : r <= found => log[r] = revisions[x][r]
      /\ x \notin Stored => /\ row.authority = "inferred" /\ row.state = "candidate"
                            /\ log[1].evidence_count = 1
      /\ \A q, r \in 1..MaxRevision :
            found <= q /\ q < r /\ r <= row.revision =>
                /\ Merged(log[q], log[r])
                /\ r = q + 1 => log[r].evidence_count <= log[q].evidence_count + 1
  BY DEF Gains
<1>2. row # NoRecord /\ row.revision \in 1..MaxRevision
  BY <1>1, RecordAssumption DEF MemoryRecord
<1>3. PICK new : new = LogOf(log)
  OBVIOUS
<1>4. /\ new = [r \in 1..row.revision |-> log[r]]
      /\ new \in Seq(MemoryRecord) /\ Len(new) = row.revision
  BY <1>1, <1>3, LogStored
<1>5. Log(x)' = new
  BY <1>3 DEF Log, LogOf
<1>6. PICK old : old = Log(x)
  OBVIOUS
<1>7. /\ old \in Seq(MemoryRecord) /\ Len(old) = found
      /\ found \in 0..MaxRevision
      /\ \A r \in 1..found : old[r] = revisions[x][r]
  <2>1. /\ HistoryAt(memories[x], revisions[x])
        /\ memories[x] \in MemoryRecord \cup {NoRecord}
        /\ revisions[x] \in [1..MaxRevision -> MemoryRecord \cup {NoRecord}]
    BY MemoryAt
  <2>2. CASE x \in Stored
    <3>1. memories[x] \in MemoryRecord /\ found = memories[x].revision
      BY <2>1, <2>2 DEF Stored, Found
    <3>2. /\ old = [r \in 1..found |-> revisions[x][r]]
          /\ old \in Seq(MemoryRecord) /\ Len(old) = found
      BY <1>6, <2>1, <3>1, LogStored DEF Log
    <3>3. QED
      BY <3>1, <3>2 DEF MemoryRecord
  <2>3. CASE x \notin Stored
    <3>1. memories[x] = NoRecord /\ found = 0
      BY <2>3 DEF Stored, Found
    <3>2. old = << >>
      BY <1>6, <2>1, <3>1, LogEmpty DEF Log
    <3>3. QED
      BY <3>1, <3>2
  <2>4. QED
    BY <2>2, <2>3
<1> HIDE DEF row, log, found
<1>8. \A i \in 1..row.revision : new[i] = log[i] /\ i \in 1..MaxRevision /\ log[i] \in MemoryRecord
  BY <1>2, <1>4
<1>9. Ledger!GrowsBy(old, new)
  <2>1. SubSeq(new, 1, Len(old)) = old
    <3>1. SubSeq(new, 1, found) = [r \in 1..found |-> new[r]]
      BY <1>1, <1>2, <1>4, <1>7
    <3>2. \A r \in 1..found : new[r] = old[r]
      BY <1>1, <1>2, <1>7, <1>8
    <3>3. old = [r \in 1..found |-> old[r]]
      BY <1>7
    <3>4. QED
      BY <1>7, <3>1, <3>2, <3>3
  <2>2. \A i \in Len(old) + 1..Len(new) : new[i].revision = i
    BY <1>1, <1>2, <1>4, <1>7, <1>8 DEF HistoryAt
  <2>3. QED
    <3>1. Len(new) >= Len(old)
      BY <1>1, <1>2, <1>4, <1>7
    <3>2. QED
      BY <2>1, <2>2, <3>1 DEF Ledger!GrowsBy
<1>10. ASSUME NEW i \in Len(old) + 1..Len(new)
       PROVE  IF i = 1 THEN Ledger!Inferred(new[i]) ELSE Ledger!Merge(new[i - 1], new[i])
  <2>1. i \in Nat /\ found < i /\ i <= row.revision /\ i \in 1..row.revision
    BY <1>2, <1>4, <1>7
  <2>2. CASE i = 1
    <3>1. x \notin Stored
      BY <1>7, <2>1, <2>2 DEF found, Found, StoreInv, TypeOK, Stored, MemoryRecord
    <3>2. /\ log[1].evidence_count = 1
          /\ row.authority = "inferred" /\ row.state = "candidate"
      BY <1>1, <3>1
    <3>3. log[1].authority = "inferred" /\ log[1].state = "candidate"
      <4>1. CASE row.revision = 1
        BY <1>1, <1>2, <3>2, <4>1 DEF HistoryAt
      <4>2. CASE row.revision # 1
        <5>1. Merged(log[1], log[row.revision])
          BY <1>1, <1>2, <1>7, <2>1, <2>2, <4>2
        <5>2. log[row.revision] = row
          BY <1>1, <1>2 DEF HistoryAt
        <5>3. QED
          BY <3>2, <5>1, <5>2 DEF Merged
      <4>3. QED
        BY <4>1, <4>2
    <3>4. QED
      BY <1>8, <2>1, <2>2, <3>2, <3>3 DEF Ledger!Inferred
  <2>3. CASE i # 1
    <3>1. PICK j \in 1..MaxRevision : j = i - 1
      BY <1>2, <2>1, <2>3
    <3>2. /\ j \in 1..row.revision /\ i \in 1..MaxRevision
          /\ found <= j /\ j < i /\ i = j + 1
      BY <1>2, <1>7, <2>1, <2>3, <3>1
    <3>3. /\ Merged(log[j], log[i])
          /\ log[i].evidence_count <= log[j].evidence_count + 1
      BY <1>1, <2>1, <3>2
    <3>4. log[j] \in MemoryRecord /\ log[i] \in MemoryRecord
      BY <1>8, <2>1, <3>2
    <3>5. log[i].evidence_count \in {log[j].evidence_count, log[j].evidence_count + 1}
      <4>1. log[j].evidence_count \in Nat /\ log[i].evidence_count \in Nat
        BY <3>4 DEF MemoryRecord
      <4>2. log[i].evidence_count >= log[j].evidence_count
        BY <3>3 DEF Merged
      <4>3. QED
        BY <3>3, <4>1, <4>2
    <3>6. Ledger!Merge(log[j], log[i])
      BY <3>3, <3>5 DEF Ledger!Merge, Ledger!Keeps, Ledger!Edit, Merged, SameSlot
    <3>7. QED
      BY <1>8, <2>1, <2>3, <3>1, <3>2, <3>6
  <2>4. QED
    BY <2>2, <2>3
<1>11. QED
  BY <1>5, <1>6, <1>9, <1>10

\* A log that stays has grown by nothing.
LEMMA LogKept ==
    ASSUME StoreInv, NEW x \in Memory, Stays(x)
    PROVE  /\ Ledger!GrowsBy(Log(x), Log(x)')
           /\ \A i \in Len(Log(x)) + 1..Len(Log(x)') :
                IF i = 1 THEN Ledger!Inferred(Log(x)'[i])
                         ELSE Ledger!Merge(Log(x)'[i - 1], Log(x)'[i])
<1>1. PICK old : old = Log(x)
  OBVIOUS
<1>2. Log(x)' = old
  BY <1>1, LogStays
<1>3. old \in Seq(MemoryRecord)
  <2>1. /\ HistoryAt(memories[x], revisions[x])
        /\ memories[x] \in MemoryRecord \cup {NoRecord}
        /\ revisions[x] \in [1..MaxRevision -> MemoryRecord \cup {NoRecord}]
    BY MemoryAt
  <2>2. CASE memories[x] = NoRecord
    <3>1. old = << >>
      BY <1>1, <2>1, <2>2, LogEmpty DEF Log
    <3>2. QED
      BY <3>1
  <2>3. CASE memories[x] # NoRecord
    BY <1>1, <2>1, <2>3, LogStored DEF Log
  <2>4. QED
    BY <2>2, <2>3
<1>4. SubSeq(old, 1, Len(old)) = old /\ Len(old) + 1..Len(old) = {}
  BY <1>3
<1>5. QED
  BY <1>1, <1>2, <1>3, <1>4 DEF Ledger!GrowsBy

\* What an extraction commits is one move of the ledger.
LEMMA LedgerLearns ==
    ASSUME \A m \in Memory :
            /\ Ledger!GrowsBy(Log(m), Log(m)')
            /\ \A i \in Len(Log(m)) + 1..Len(Log(m)') :
                IF i = 1 THEN Ledger!Inferred(Log(m)'[i])
                         ELSE Ledger!Merge(Log(m)'[i - 1], Log(m)'[i])
    PROVE  Ledger!Learn
BY DEF Ledger!Learn, Log, LogOf

\* What a restore goes back to, as the ledger sees it.
LEMMA LogRestores ==
    ASSUME StoreInv, NEW x \in Memory, x \in Stored, NEW w,
           Restores(x, memories[x], w), Ledger!Newest(Log(x)) = memories[x]
    PROVE  Ledger!Restore(Log(x), w)
<1> DEFINE v == memories[x]
           live == {i \in 1..Len(Log(x)) : Log(x)[i].state # "deleted"}
           lives == {r \in 1..MaxRevision : /\ revisions[x][r] # NoRecord
                                            /\ revisions[x][r].state # "deleted"}
<1>1. /\ HistoryAt(v, revisions[x])
      /\ v \in MemoryRecord
      /\ revisions[x] \in [1..MaxRevision -> MemoryRecord \cup {NoRecord}]
  BY MemoryAt DEF Stored
<1>2. /\ Log(x) = [r \in 1..v.revision |-> revisions[x][r]]
      /\ Len(Log(x)) = v.revision
      /\ v.revision \in 1..MaxRevision
  BY <1>1, LogStored DEF Log, MemoryRecord
<1>3. live = lives
  <2>1. \A r \in 1..v.revision : r \in 1..MaxRevision /\ Log(x)[r] = revisions[x][r]
    BY <1>2, BoundsAssumption
  <2>2. \A r \in 1..MaxRevision : revisions[x][r] # NoRecord <=> r \in 1..v.revision
    BY <1>1, <1>2, RecordAssumption, BoundsAssumption DEF HistoryAt
  <2>3. QED
    BY <1>2, <2>1, <2>2
<1>4. Ledger!StateBeforeDeletion(Log(x)) =
        Log(x)[CHOOSE r \in lives : \A q \in lives : q <= r].state
  BY <1>3 DEF Ledger!StateBeforeDeletion
<1>5. (CHOOSE r \in lives : \A q \in lives : q <= r) = v.revision - 1
  BY RestoresLastLive
<1>6. v.revision - 1 \in 1..v.revision
  BY <1>2, BoundsAssumption DEF Restores
<1>7. Ledger!StateBeforeDeletion(Log(x)) = revisions[x][v.revision - 1].state
  BY <1>2, <1>4, <1>5, <1>6
<1>8. QED
  BY <1>7 DEF Ledger!Restore, Restores

\* What the ledger asks of every step: a slot has one active memory.
LEMMA LedgerOneActive ==
    ASSUME StoreInv, OneActivePerSlot
    PROVE  Ledger!OneActive([m \in Memory |-> Log(m)])
<1>1. ASSUME NEW m \in Memory, Log(m) # << >>
      PROVE  m \in Stored /\ Ledger!Newest(Log(m)) = memories[m]
  <2>1. /\ HistoryAt(memories[m], revisions[m])
        /\ memories[m] \in MemoryRecord \cup {NoRecord}
        /\ revisions[m] \in [1..MaxRevision -> MemoryRecord \cup {NoRecord}]
    BY MemoryAt
  <2>2. memories[m] # NoRecord
    BY <1>1, <2>1, LogEmpty DEF Log
  <2>3. QED
    BY <2>1, <2>2, LogStored DEF Log, Stored
<1> HIDE DEF Log
<1>2. QED
  BY <1>1 DEF Ledger!OneActive, OneActivePerSlot, SameSlot

\* One step of the store is one step of the ledger, or none.
LEMMA LedgerMoves ==
    ASSUME StoreInv, StoreStep
    PROVE  \/ \A x \in Memory : Log(x)' = Log(x)
           \/ \E m \in Memory : Ledger!Create(m) \/ Ledger!Revise(m)
           \/ \E m, n \in Memory : Ledger!Replace(m, n)
           \/ Ledger!Learn
<1>t. /\ memories \in [Memory -> MemoryRecord \cup {NoRecord}]
      /\ revisions \in [Memory -> [1..MaxRevision -> MemoryRecord \cup {NoRecord}]]
  BY DEF StoreInv, TypeOK
<1>1. CASE StoreUnchanged
  BY <1>1, LogStays DEF StoreUnchanged, Stays
<1>2. ASSUME NEW m \in Memory, NEW w \in MemoryRecord, Updates(m, w)
      PROVE  Ledger!Revise(m)
  <2>1. Continues(m, w)
    BY <1>t, <1>2 DEF Updates, Continues
  <2>2. \A n \in Memory \ {m} : Log(n)' = Log(n)
    <3>1. \A n \in Memory \ {m} : Stays(n)
      BY <1>t, <1>2 DEF Updates, Stays
    <3>2. QED
      BY <3>1, LogStays
  <2>3. /\ Log(m) # << >>
        /\ Ledger!Newest(Log(m)) = memories[m]
        /\ Ledger!Grows(Log(m), Log(m)')
        /\ Ledger!Newest(Log(m)') = w
    BY <2>1, LogContinued
  <2>4. m \in Stored /\ Lawful(m, memories[m], w)
    BY <1>2 DEF Updates
  <2>5. Restores(m, memories[m], w) => Ledger!Restore(Log(m), w)
    BY <2>3, <2>4, LogRestores
  <2>6. QED
    BY <2>2, <2>3, <2>4, <2>5, LedgerRevises DEF Lawful
<1>3. ASSUME NEW m \in Memory, NEW w \in MemoryRecord, Inserts(m, w)
      PROVE  Ledger!Create(m)
  <2>1. Begins(m, w) /\ \A n \in Memory \ {m} : Stays(n)
    BY <1>t, <1>3 DEF Inserts, Begins, Stays
  <2>2. \A n \in Memory \ {m} : Log(n)' = Log(n)
    BY <2>1, LogStays
  <2>3. /\ Log(m) = << >>
        /\ Ledger!Grows(Log(m), Log(m)')
        /\ Ledger!Newest(Log(m)') = w
    BY <2>1, LogBegun
  <2>4. QED
    BY <2>1, <2>2, <2>3, LedgerCreates DEF Begins
<1>4. ASSUME NEW m \in Memory, NEW n \in Memory,
             NEW v \in MemoryRecord, NEW w \in MemoryRecord, Replaces(m, v, n, w)
      PROVE  Ledger!Replace(m, n)
  <2>1. /\ m # n /\ memories[m] # NoRecord /\ memories[n] = NoRecord
        /\ memories' = [y \in Memory |-> IF y = n THEN w
                                         ELSE IF y = m THEN v ELSE memories[y]]
        /\ revisions' = [y \in Memory |-> [r \in 1..MaxRevision |->
              IF y = n /\ r = 1 THEN w
              ELSE IF y = m /\ r = v.revision THEN v ELSE revisions[y][r]]]
    BY <1>4, ReplacesAt DEF StoreInv
  <2>2. v \in MemoryRecord /\ w \in MemoryRecord /\ v # NoRecord /\ w # NoRecord
    BY RecordAssumption
  <2>3. \A x \in Memory \ {m, n} : Log(x)' = Log(x)
    <3>1. ASSUME NEW x \in Memory \ {m, n}
          PROVE  Stays(x)
      <4>1. memories'[x] = memories[x]
        BY <2>1
      <4>2. revisions'[x] = revisions[x]
        BY <1>t, <2>1
      <4>3. QED
        BY <4>1, <4>2 DEF Stays
    <3>2. QED
      BY <3>1, LogStays
  <2>4. Continues(m, v)
    <3>1. memories'[m] = v
      BY <2>1
    <3>2. /\ ~Stays(m) /\ ~Gains(m)
          /\ \A x : ~Begins(m, x)
      <4>1. v.revision # memories[m].revision
        BY <1>4, <2>1, ReplacesAt, BoundsAssumption DEF StoreInv, MemoryRecord
      <4>2. v.state = "superseded" /\ memories[m].state = "active" /\ m \in Stored
        BY <1>4, <1>t, <2>1 DEF Replaces, MemoryRecord, Stored
      <4>3. ~Gains(m)
        BY <3>1, <4>2, GainsKeeps DEF Merged
      <4>4. QED
        BY <2>1, <3>1, <4>1, <4>3 DEF Stays, Begins, Stored
    <3>3. PICK x \in MemoryRecord : Continues(m, x)
      BY <3>2, OneVersion
    <3>4. QED
      BY <3>1, <3>3 DEF Continues
  <2>5. Begins(n, w)
    <3>1. memories'[n] = w
      BY <2>1
    <3>2. /\ ~Stays(n) /\ ~Gains(n)
          /\ \A x : ~Continues(n, x)
      <4>1. ~Gains(n)
        BY <1>4, <2>1, <3>1, GainsKeeps DEF Replaces
      <4>2. QED
        BY <2>1, <2>2, <3>1, <4>1 DEF Stays, Continues, Stored
    <3>3. PICK x \in MemoryRecord : Begins(n, x)
      BY <3>2, OneVersion
    <3>4. QED
      BY <3>1, <3>3 DEF Begins
  <2>6. /\ Log(m) # << >>
        /\ Ledger!Newest(Log(m)) = memories[m]
        /\ Ledger!Grows(Log(m), Log(m)')
        /\ Ledger!Newest(Log(m)') = v
    BY <2>4, LogContinued
  <2>7. /\ Log(n) = << >>
        /\ Ledger!Grows(Log(n), Log(n)')
        /\ Ledger!Newest(Log(n)') = w
    BY <2>5, LogBegun
  <2>8. /\ memories[m].state = "active"
        /\ Superseded(memories[m], v)
        /\ w.authority = "explicit" /\ w.state = "active"
        /\ w.key = memories[m].key /\ w.scope = memories[m].scope
        /\ w.content # memories[m].content
    BY <1>4 DEF Replaces, SameSlot, Superseded
  <2>9. QED
    BY <2>3, <2>6, <2>7, <2>8, LedgerReplaces
<1>5. CASE Learns
  BY <1>5, LogKept, LogLearned, LedgerLearns DEF Learns
<1>6. QED
  BY <1>1, <1>2, <1>3, <1>4, <1>5 DEF StoreStep

\* The memory service implements the ledger: every memory is a log that only
\* grows, by the steps of the lifecycle, and a slot has one active memory.  The
\* commit of a request is one move, whatever rows it writes, and so is the one
\* commit of an extraction, which may make several memories and several
\* versions of each; what is read, flushed or rolled back never shows.
THEOREM ServiceImplementsLedger == Spec => ImplementsLedger
<1> DEFINE logs == [m \in Memory |->
                [r \in {i \in 1..MaxRevision : revisions[m][i] # NoRecord} |->
                    revisions[m][r]]]
<1>1. Init => Ledger!Init
  <2> SUFFICES ASSUME Init PROVE Ledger!Init
    OBVIOUS
  <2>1. \A m \in Memory : HistoryAt(NoRecord, revisions[m])
    BY DEF Init, NoHistory, HistoryAt
  <2>2. \A m \in Memory : LogOf(revisions[m]) = << >>
    BY <2>1, LogEmpty
  <2>3. QED
    BY <2>2 DEF Ledger!Init, LogOf
<1>2. ASSUME StoreInv, StoreInv', OneActivePerSlot', [Next]_vars
      PROVE  [Ledger!Next]_logs
  <2>1. Ledger!OneActive([m \in Memory |-> Log(m)])'
    BY <1>2, LedgerOneActive, PTL
  <2>2. Ledger!OneActive(logs')
    BY <2>1 DEF Log, LogOf
  <2>3. QED
    BY <1>2, <2>2, NextStore, LedgerMoves, LedgerUnchanged DEF Ledger!Next
<1>3. QED
  BY <1>1, <1>2, StoreInvariant, OneActive, PTL DEF Spec, ImplementsLedger, Ledger!Spec

=============================================================================
