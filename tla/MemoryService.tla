--------------------------- MODULE MemoryService ---------------------------
(***************************************************************************)
(* The memory service of one live subject: application/memory_service.py  *)
(* over domain/memory.py and the SQLAlchemy repositories.  Several        *)
(* requests run at once.  Each one reads in its unit of work, and later   *)
(* writes and commits; what another request commits in between is what    *)
(* the revision check, the partial unique index on active slots and the   *)
(* unique evidence source are there for.                                  *)
(*                                                                         *)
(* A write phase and its commit are one step: under READ COMMITTED the    *)
(* rows and index entries it touches stay locked until the commit, and    *)
(* every check it makes reads them under those locks.  An extraction      *)
(* writes a whole list of proposals in one unit of work: its rows are     *)
(* flushed one after the other, seen by its own later queries only, and   *)
(* reach the store together, in its commit.                                *)
(***************************************************************************)
EXTENDS Integers, FiniteSets, Sequences

CONSTANTS
    Client,          \* requests that can be in flight at once
    Extractor,       \* those whose service has a MemoryExtractor configured
    Memory,          \* memory ids (uuid4 values that can be drawn)
    Key, Scope,      \* a slot is a key and a (scope, scope_value) pair
    Content,         \* memory texts; only their equality is tested
    Evidence,        \* evidence sources; a source has at most one row
    Confidence,      \* confidence levels
    MinConfidence,   \* the confirmation policy's threshold
    MaxRevision,     \* bound: updates of one memory that are explored
    MaxProposals,    \* bound: proposals of one extraction
    NoMemory, NoRecord, NoEvidence   \* "None"

ASSUME BoundsAssumption == /\ Confidence \subseteq Nat
                           /\ MinConfidence \in Nat
                           /\ MaxRevision \in Nat \ {0}
                           /\ MaxProposals \in Nat
ASSUME FiniteAssumption == IsFiniteSet(Evidence)
ASSUME NoneAssumption == /\ NoMemory \notin Memory
                         /\ NoEvidence \notin Evidence

State == {"candidate", "active", "superseded", "expired", "deleted"}
Authority == {"explicit", "confirmed", "inferred"}

\* The columns of a memory row that the service reads back and decides on.
MemoryRecord ==
    [key: Key, scope: Scope, content: Content, authority: Authority,
     state: State, confidence: Confidence, evidence_count: Nat,
     revision: 1..MaxRevision]

ASSUME RecordAssumption == NoRecord \notin MemoryRecord

\* What a caller (or an extraction) supplies.
Input == [key: Key, scope: Scope, content: Content, confidence: Confidence,
          evidence: Evidence \cup {NoEvidence}]

VARIABLES
    memories,    \* memory row of each id, NoRecord when there is none
    revisions,   \* revisions[m][r]: the snapshot in memory_revisions
    evidence,    \* evidence sources that have a row
    bound,       \* memory_evidence rows: the evidence bound to each memory
    request,     \* what each request has read so far
    extraction   \* what each extraction has read and flushed so far

store == <<memories, revisions, evidence, bound>>
vars == <<memories, revisions, evidence, bound, request, extraction>>

Ops == {"add", "patch", "confirm", "delete", "restore"}

\* A request: the records it holds in memory between two of its steps.
\* seen is the record of memory as read; known and linked are the answers
\* to "does the evidence row exist" and "is it bound to that memory".
Request ==
    [phase: {"idle", "read"},
     op: Ops, input: Input \cup {NoRecord},
     memory: Memory \cup {NoMemory}, seen: MemoryRecord \cup {NoRecord},
     known: BOOLEAN, linked: BOOLEAN]

Idle == [phase |-> "idle", op |-> "add", input |-> NoRecord,
         memory |-> NoMemory, seen |-> NoRecord,
         known |-> FALSE, linked |-> FALSE]

\* What the provider proposed, and the memory its merge strategy chose.
Proposal == [input: Input, chosen: Memory \cup {NoMemory}]

\* The snapshots of one memory, by revision.
History == [1..MaxRevision -> MemoryRecord \cup {NoRecord}]
NoHistory == [r \in 1..MaxRevision |-> NoRecord]

\* extract_memories between two of its awaits: the proposals still to write
\* and what its session has flushed.  base is the revision of a memory that
\* its first UPDATE was conditioned on, 0 for a memory that it inserted.
Extraction ==
    [phase: {"idle", "match", "write"}, items: Seq(Proposal),
     rows: [Memory -> MemoryRecord \cup {NoRecord}],
     snapshots: [Memory -> History],
     base: [Memory -> 0..MaxRevision],
     links: [Memory -> SUBSET Evidence], added: SUBSET Evidence]

NoExtraction ==
    [phase |-> "idle", items |-> <<>>,
     rows |-> [m \in Memory |-> NoRecord],
     snapshots |-> [m \in Memory |-> NoHistory],
     base |-> [m \in Memory |-> 0],
     links |-> [m \in Memory |-> {}], added |-> {}]

\* A client waits for one call at a time.
Free(c) == request[c].phase = "idle" /\ extraction[c].phase = "idle"

Stored == {m \in Memory : memories[m] # NoRecord}

SameSlot(r, s) == r.key = s.key /\ r.scope = s.scope

\* _find_exact_slot over the rows that the session sees: the active memory of
\* the slot when states has one, else one of the others.  The query orders
\* by updated_at, which clocks of different workers set: any of the others
\* may come first.
FindExactSlot(rows, input, states) ==
    LET found == {m \in Memory : /\ rows[m] # NoRecord
                                 /\ rows[m].state \in states
                                 /\ SameSlot(rows[m], input)}
        active == {m \in found : rows[m].state = "active"}
    IN  CASE active # {} -> active
          [] active = {} /\ found # {} -> found
          [] OTHER -> {NoMemory}

Row(m) == IF m = NoMemory THEN NoRecord ELSE memories[m]
\* Mutant: the existing bindings are not looked up.
LinksUnread(links, m, e) == FALSE

Linked(links, m, e) == m # NoMemory /\ e \in links[m]

\* What a request holds after it has read memory m (if any).
Loaded(op, in, m, known, linked) ==
    [phase |-> "read", op |-> op, input |-> in, memory |-> m, seen |-> Row(m),
     known |-> known, linked |-> linked]

-----------------------------------------------------------------------------
(* What the repositories check when a row is written.                      *)

\* Mutant: no partial unique index on active slots.
SlotUnguarded(r, others) == TRUE

\* uq_memories_active_slot: no other active memory in the slot of r.
SlotFree(r, others) ==
    r.state = "active" =>
        \A n \in others \cap Stored :
            ~(memories[n].state = "active" /\ SameSlot(memories[n], r))

\* Mutant: UPDATE without the revision in its WHERE clause.
RevisionIgnored(m, expected) == m \in Stored

\* UPDATE ... WHERE revision = expected, and one row hit.
RevisionUnchanged(m, expected) ==
    /\ m \in Stored
    /\ memories[m].revision = expected

\* The source of a new evidence row must still be unused.
EvidenceStorable(q) ==
    q.input.evidence # NoEvidence /\ ~q.known => q.input.evidence \notin evidence

StoreEvidence(e) == evidence' = evidence \cup ({e} \ {NoEvidence})

\* Mutant: an update that writes no snapshot.
SaveUnrecorded(m, seen, updated) ==
    /\ seen.revision < MaxRevision
    /\ RevisionUnchanged(m, seen.revision)
    /\ SlotFree(updated, Memory \ {m})
    /\ memories' = [memories EXCEPT ![m] = updated]
    /\ UNCHANGED revisions

\* memories.update and memory_revisions.add of a record derived from the one
\* that was read: the revision moves by one, a snapshot row is written.
Save(m, seen, updated) ==
    /\ seen.revision < MaxRevision
    /\ RevisionUnchanged(m, seen.revision)
    /\ SlotFree(updated, Memory \ {m})
    /\ memories' = [memories EXCEPT ![m] = updated]
    /\ revisions' = [revisions EXCEPT ![m][updated.revision] = updated]

\* memories.add, bind_evidence and memory_revisions.add of a new record.
Insert(m, record, e) ==
    /\ m \in Memory \ Stored
    /\ SlotFree(record, Memory)
    /\ memories' = [memories EXCEPT ![m] = record]
    /\ revisions' = [revisions EXCEPT ![m][1] = record]
    /\ bound' = [bound EXCEPT ![m] = {e} \ {NoEvidence}]

\* The request is answered and keeps nothing.  The audit sink and
\* the retention hook called after that read and write nothing of this state.
Done(c) == request' = [request EXCEPT ![c] = Idle]

-----------------------------------------------------------------------------
(* The domain transitions of domain/memory.py.                             *)

Evidenced(e) == IF e = NoEvidence THEN 0 ELSE 1

ExplicitMemory(in) ==
    [key |-> in.key, scope |-> in.scope, content |-> in.content,
     authority |-> "explicit", state |-> "active",
     confidence |-> in.confidence, evidence_count |-> Evidenced(in.evidence),
     revision |-> 1]

InferredMemory(in) ==
    [key |-> in.key, scope |-> in.scope, content |-> in.content,
     authority |-> "inferred", state |-> "candidate",
     confidence |-> in.confidence, evidence_count |-> 1, revision |-> 1]

Confirmable(r) ==
    /\ r.evidence_count >= 1 /\ r.confidence >= MinConfidence
    /\ r.state = "candidate"
    /\ r.authority = "inferred"

Supersedable(r, replacement) ==
    /\ r.state = "active" /\ replacement.state = "active"
    /\ SameSlot(r, replacement)
    /\ r.authority = "explicit" => replacement.authority = "explicit"
    /\ replacement.authority # "inferred"

Restorable(r, restoreTo) ==
    /\ r.state = "deleted"
    /\ restoreTo \in {"candidate", "active", "superseded", "expired"}
    /\ restoreTo = "active" => r.authority # "inferred"

Moved(r, state) == [r EXCEPT !.state = state, !.revision = @ + 1]

\* Mutant: a confirmed memory stays marked as inferred.
ConfirmedStillInferred(r) == Moved(r, "active")

Confirmed(r) == [Moved(r, "active") EXCEPT !.authority = "confirmed"]

Patched(r, in) ==
    [r EXCEPT !.scope = in.scope, !.content = in.content,
              !.confidence = in.confidence, !.revision = @ + 1]

Counted(r, confidence, count) ==
    [r EXCEPT !.confidence = confidence, !.evidence_count = count,
              !.revision = @ + 1]

-----------------------------------------------------------------------------
(* Handlers.  The first step of each reads, in the request's unit of work. *)

\* add_memory up to its branch: evidence looked up by source, then the
\* active memory of the slot.
AddRead(c, in) ==
    /\ Free(c)
    /\ \E m \in FindExactSlot(memories, in, {"active"}) :
        request' = [request EXCEPT ![c] =
            Loaded("add", in, m, in.evidence \in evidence,
                   Linked(bound, m, in.evidence))]
    /\ UNCHANGED store

\* patch, confirm, delete and restore load the memory by id; the caller's
\* expected_revision must be the revision loaded.
LoadRead(c, op, m, in, expected) ==
    /\ Free(c)
    /\ RevisionUnchanged(m, expected)
    /\ request' = [request EXCEPT ![c] = Loaded(op, in, m, FALSE, FALSE)]
    /\ UNCHANGED store

-----------------------------------------------------------------------------
(* Handlers, the write phase and commit.                                   *)

Reading(c, op) == request[c].phase = "read" /\ request[c].op = op

\* Same content in the slot: the existing memory gains the evidence.
SameContent(q) == q.seen # NoRecord /\ q.seen.content = q.input.content

AddReuse(c) ==
    LET q == request[c] IN
    /\ Reading(c, "add")
    /\ SameContent(q)
    /\ q.input.evidence = NoEvidence \/ q.linked
    /\ Done(c)
    /\ UNCHANGED store

AddBind(c) ==
    LET q == request[c] IN
    /\ Reading(c, "add")
    /\ SameContent(q)
    /\ q.input.evidence # NoEvidence /\ ~q.linked
    /\ EvidenceStorable(q)
    /\ Save(q.memory, q.seen,
            Counted(q.seen, q.seen.confidence, q.seen.evidence_count + 1))
    /\ bound' = [bound EXCEPT ![q.memory] = @ \cup {q.input.evidence}]
    /\ StoreEvidence(q.input.evidence)
    /\ Done(c)

AddCreate(c) ==
    LET q == request[c] IN
    /\ Reading(c, "add")
    /\ q.seen = NoRecord
    /\ EvidenceStorable(q)
    /\ StoreEvidence(q.input.evidence)
    /\ \E m \in Memory : Insert(m, ExplicitMemory(q.input), q.input.evidence)
    /\ Done(c)

\* Mutant: the old memory's update is committed on its own.
SupersedeFirst(c) ==
    LET q == request[c] IN
    /\ Reading(c, "add")
    /\ q.seen # NoRecord /\ ~SameContent(q)
    /\ Supersedable(q.seen, ExplicitMemory(q.input))
    /\ Save(q.memory, q.seen, Moved(q.seen, "superseded"))
    /\ Done(c)
    /\ UNCHANGED <<evidence, bound>>

\* The old row is updated before the new one is inserted, so that the index
\* sees the slot free.
AddSupersede(c) ==
    LET q == request[c]
        old == Moved(q.seen, "superseded")
        new == ExplicitMemory(q.input)
    IN
    /\ Reading(c, "add")
    /\ q.seen # NoRecord /\ ~SameContent(q)
    /\ Supersedable(q.seen, new)
    /\ q.seen.revision < MaxRevision
    /\ RevisionUnchanged(q.memory, q.seen.revision)
    /\ EvidenceStorable(q)
    /\ StoreEvidence(q.input.evidence)
    /\ \E m \in Memory \ Stored :
        /\ SlotFree(new, Memory \ {q.memory})
        /\ memories' = [memories EXCEPT ![q.memory] = old, ![m] = new]
        /\ revisions' = [revisions EXCEPT ![q.memory][old.revision] = old,
                                          ![m][1] = new]
        /\ bound' = [bound EXCEPT ![m] = {q.input.evidence} \ {NoEvidence}]
    /\ Done(c)

\* patch_memory: the caller's fields over the record read, in any state.
PatchCommit(c) ==
    LET q == request[c] IN
    /\ Reading(c, "patch")
    /\ Save(q.memory, q.seen, Patched(q.seen, q.input))
    /\ Done(c)
    /\ UNCHANGED <<evidence, bound>>

ConfirmCommit(c) ==
    LET q == request[c] IN
    /\ Reading(c, "confirm")
    /\ Confirmable(q.seen)
    /\ Save(q.memory, q.seen, Confirmed(q.seen))
    /\ Done(c)
    /\ UNCHANGED <<evidence, bound>>

DeleteCommit(c) ==
    LET q == request[c] IN
    /\ Reading(c, "delete")
    /\ q.seen.state # "deleted"
    /\ Save(q.memory, q.seen, Moved(q.seen, "deleted"))
    /\ Done(c)
    /\ UNCHANGED <<evidence, bound>>

\* Mutant: back to the state of the first revision.
RestoreToFirst(c) ==
    LET q == request[c]
        first == revisions[q.memory][1]
    IN
    /\ Reading(c, "restore")
    /\ Restorable(q.seen, first.state)
    /\ Save(q.memory, q.seen, Moved(q.seen, first.state))
    /\ Done(c)
    /\ UNCHANGED <<evidence, bound>>

\* restore_memory: back to the state of the revision before the current one.
RestoreCommit(c) ==
    LET q == request[c]
        previous == revisions[q.memory][q.seen.revision - 1]
    IN
    /\ Reading(c, "restore")
    /\ q.seen.revision > 1
    /\ previous # NoRecord
    /\ Restorable(q.seen, previous.state)
    /\ Save(q.memory, q.seen, Moved(q.seen, previous.state))
    /\ Done(c)
    /\ UNCHANGED <<evidence, bound>>

-----------------------------------------------------------------------------
(* extract_memories: one unit of work that matches, one that writes.       *)

\* _read_exact_matches, one proposal: only when its exact slot is empty is
\* the merge strategy asked, and a strategy may name any memory.
ExtractMatch(c, in) ==
    LET x == extraction[c] IN
    /\ c \in Extractor
    /\ request[c].phase = "idle"
    /\ x.phase \in {"idle", "match"}
    /\ Len(x.items) < MaxProposals
    /\ in.evidence # NoEvidence
    /\ \E exact \in FindExactSlot(memories, in, {"active", "candidate"}) :
       \E chosen \in IF exact = NoMemory THEN Stored \cup {NoMemory}
                                         ELSE {NoMemory} :
        extraction' = [extraction EXCEPT ![c] =
            [x EXCEPT !.phase = "match",
                      !.items = Append(@, [input |-> in, chosen |-> chosen])]]
    /\ UNCHANGED <<store, request>>

\* What the queries of the session return: its own rows over the committed.
View(c) ==
    [m \in Memory |-> IF extraction[c].rows[m] = NoRecord
                      THEN memories[m] ELSE extraction[c].rows[m]]
BoundView(c) == [m \in Memory |-> bound[m] \cup extraction[c].links[m]]

Writing(c) == extraction[c].phase # "idle" /\ extraction[c].items # <<>>
Proposed(c) == Head(extraction[c].items)

\* The slot is looked up again, and the strategy's choice only stands when
\* the slot is still empty.
Target(c) ==
    {IF exact = NoMemory THEN Proposed(c).chosen ELSE exact :
        exact \in FindExactSlot(View(c), Proposed(c).input,
                                {"active", "candidate"})}

\* The session flushes a row with its snapshot, its binding and, when the
\* source has no row yet, its evidence.  What the database checks then stays
\* locked, so that the checks of all flushes stand in the commit.
Flush(c, m, record) ==
    LET x == extraction[c]
        e == Proposed(c).input.evidence
    IN
    /\ record.revision <= MaxRevision
    /\ extraction' = [extraction EXCEPT ![c] =
        [phase |-> "write", items |-> Tail(x.items),
         rows |-> [x.rows EXCEPT ![m] = record],
         snapshots |-> [x.snapshots EXCEPT ![m][record.revision] = record],
         base |-> [x.base EXCEPT ![m] = IF x.rows[m] = NoRecord
                                        THEN record.revision - 1 ELSE @],
         links |-> [x.links EXCEPT ![m] = @ \cup {e}],
         added |-> x.added \cup ({e} \ evidence)]]
    /\ UNCHANGED <<store, request>>

ExtractCreate(c) ==
    /\ Writing(c)
    /\ NoMemory \in Target(c)
    /\ \E m \in Memory :
        /\ View(c)[m] = NoRecord
        /\ Flush(c, m, InferredMemory(Proposed(c).input))

\* _merge_existing_extraction: only a still inferred candidate may have its
\* confidence raised; any memory gains the evidence.
RaisesConfidence(seen, in) ==
    /\ seen.authority = "inferred" /\ seen.state = "candidate"
    /\ in.confidence > seen.confidence

\* The record that the proposal in makes of the memory seen.
Learned(seen, in, linked) ==
    Counted(seen,
            IF RaisesConfidence(seen, in) THEN in.confidence ELSE seen.confidence,
            IF linked THEN seen.evidence_count ELSE seen.evidence_count + 1)

ExtractMerge(c) ==
    LET in == Proposed(c).input IN
    /\ Writing(c)
    /\ \E m \in Target(c) \ {NoMemory} :
        LET seen == View(c)[m]
            linked == Linked(BoundView(c), m, in.evidence)
        IN
        /\ RaisesConfidence(seen, in) \/ ~linked
        /\ Flush(c, m, Learned(seen, in, linked))

ExtractReuse(c) ==
    LET x == extraction[c]
        in == Proposed(c).input
    IN
    /\ Writing(c)
    /\ \E m \in Target(c) \ {NoMemory} :
        /\ Linked(BoundView(c), m, in.evidence)
        /\ ~RaisesConfidence(View(c)[m], in)
    /\ extraction' = [extraction EXCEPT ![c] =
                        [x EXCEPT !.phase = "write", !.items = Tail(@)]]
    /\ UNCHANGED <<store, request>>

\* The commit of the whole list.  The conditions of the flushes still hold:
\* every row updated had the revision found, every row inserted was new, no
\* evidence row was there.  No slot is taken: a merge keeps the state and
\* the slot of its memory, and what is created is a candidate.
ExtractCommit(c) ==
    LET x == extraction[c]
        flushed == {m \in Memory : x.rows[m] # NoRecord}
    IN
    /\ x.phase = "write" /\ x.items = <<>>
    /\ x.added \cap evidence = {}
    /\ \A m \in flushed : IF x.base[m] = 0 THEN m \notin Stored
                                           ELSE RevisionUnchanged(m, x.base[m])
    /\ memories' = View(c)
    /\ revisions' = [m \in Memory |-> [r \in 1..MaxRevision |->
                        IF x.snapshots[m][r] = NoRecord THEN revisions[m][r]
                                                       ELSE x.snapshots[m][r]]]
    /\ bound' = BoundView(c)
    /\ evidence' = evidence \cup x.added
    /\ extraction' = [extraction EXCEPT ![c] = NoExtraction]
    /\ UNCHANGED request

-----------------------------------------------------------------------------

\* The unit of work rolls back: a check above failed, the database was lost,
\* or the process died.  Nothing of the request or the extraction is kept.
Rollback(c) ==
    /\ ~Free(c)
    /\ Done(c)
    /\ extraction' = [extraction EXCEPT ![c] = NoExtraction]
    /\ UNCHANGED store

Init ==
    /\ memories = [m \in Memory |-> NoRecord]
    /\ revisions = [m \in Memory |-> NoHistory]
    /\ evidence = {}
    /\ bound = [m \in Memory |-> {}]
    /\ request = [c \in Client |-> Idle]
    /\ extraction = [c \in Client |-> NoExtraction]

\* What a patch can carry: the memory keeps its key and gains no evidence.
PatchInput(m) ==
    {in \in Input : in.evidence = NoEvidence /\ in.key = memories[m].key}

Start(c) ==
    \/ \E in \in Input : AddRead(c, in)
    \/ \E m \in Stored, expected \in 1..MaxRevision :
        \/ \E in \in PatchInput(m) : LoadRead(c, "patch", m, in, expected)
        \/ \E op \in {"confirm", "delete", "restore"} :
              LoadRead(c, op, m, NoRecord, expected)

Write(c) ==
    \/ AddReuse(c) \/ AddBind(c) \/ AddCreate(c) \/ AddSupersede(c)
    \/ PatchCommit(c) \/ ConfirmCommit(c) \/ DeleteCommit(c)
    \/ RestoreCommit(c)

Extract(c) ==
    \/ \E in \in Input : ExtractMatch(c, in)
    \/ ExtractCreate(c) \/ ExtractMerge(c) \/ ExtractReuse(c)
    \/ ExtractCommit(c)

Next == \E c \in Client :
    \/ (Start(c) \/ Write(c)) /\ UNCHANGED extraction
    \/ Extract(c)
    \/ Rollback(c)

Spec == Init /\ [][Next]_vars

-----------------------------------------------------------------------------
(* Properties.                                                             *)

TypeOK ==
    /\ memories \in [Memory -> MemoryRecord \cup {NoRecord}]
    /\ revisions \in [Memory -> History]
    /\ evidence \subseteq Evidence
    /\ bound \in [Memory -> SUBSET Evidence]
    /\ request \in [Client -> Request]
    /\ extraction \in [Client -> Extraction]

\* At most one active memory holds a slot, whatever adds, confirmations,
\* restores and patches of the scope interleave (plan.md: one active memory
\* per subject, key, scope and scope_value).
OneActivePerSlot ==
    \A m, n \in Stored :
        /\ memories[m].state = "active" /\ memories[n].state = "active"
        /\ SameSlot(memories[m], memories[n])
        => m = n

\* memory_revisions is a complete audit trail: the snapshots of a memory are
\* those of revisions 1 up to the current one, without a gap, and the last
\* is the row itself.
HistoryComplete ==
    \A m \in Memory :
        /\ \A r \in 1..MaxRevision :
            revisions[m][r] # NoRecord <=> m \in Stored /\ r <= memories[m].revision
        /\ m \in Stored => revisions[m][memories[m].revision] = memories[m]

\* A row carries the number of its snapshot.
SnapshotsNumbered ==
    \A m \in Memory, r \in 1..MaxRevision :
        revisions[m][r] # NoRecord => revisions[m][r].revision = r

\* What a request holds between two steps is a version that was committed,
\* and so, when the revision of the row is still the one it read, the row.
ReadingsAreVersions ==
    \A c \in Client :
        LET q == request[c] IN
        /\ q.memory \in Stored \cup {NoMemory}
        /\ q.phase # "idle" /\ q.op \in {"add", "patch"} =>
               q.input \in Input
        /\ q.phase = "read" /\ q.op \in {"patch", "confirm", "delete", "restore"} =>
               q.seen # NoRecord
        /\ q.phase = "read" /\ q.seen # NoRecord =>
               /\ q.memory \in Stored
               /\ q.seen.revision <= memories[q.memory].revision
               /\ q.seen = revisions[q.memory][q.seen.revision]

\* A merge of a memory changes what was learned about it, and nothing else:
\* over any number of merges it only gains evidence and confidence.
Merged(v, w) ==
    /\ SameSlot(v, w) /\ w.content = v.content
    /\ w.state = v.state /\ w.authority = v.authority
    /\ w.evidence_count >= v.evidence_count
    /\ w.confidence >= v.confidence
    /\ w.confidence # v.confidence =>
           v.authority = "inferred" /\ v.state = "candidate"

\* Revision r of memory m as the session of x has it.
Version(x, m, r) ==
    IF x.snapshots[m][r] = NoRecord THEN revisions[m][r] ELSE x.snapshots[m][r]

\* What the session of x has flushed of memory m is what one commit can add
\* to it: the versions after the one it found, without a gap, the last being
\* the row, each a merge of every one before; a new memory begins as an
\* inferred candidate.
FlushedAt(x, m) ==
    LET base == x.base[m]
        row == x.rows[m]
    IN
    /\ row = NoRecord => x.snapshots[m] = NoHistory /\ x.links[m] = {}
    /\ row # NoRecord =>
        /\ base < row.revision
        /\ base > 0 => m \in Stored /\ base <= memories[m].revision
        /\ \A r \in 1..MaxRevision :
            /\ x.snapshots[m][r] # NoRecord <=> base < r /\ r <= row.revision
            /\ x.snapshots[m][r] # NoRecord => x.snapshots[m][r].revision = r
        /\ x.snapshots[m][row.revision] = row
        /\ base = 0 => /\ row.authority = "inferred" /\ row.state = "candidate"
                       /\ x.snapshots[m][1].evidence_count = 1
        /\ \A q, r \in 1..MaxRevision :
            base <= q /\ q < r /\ r <= row.revision =>
                /\ Merged(Version(x, m, q), Version(x, m, r))
                /\ r = q + 1 => Version(x, m, r).evidence_count
                                  <= Version(x, m, q).evidence_count + 1

FlushesAreVersions ==
    \A c \in Client, m \in Memory : FlushedAt(extraction[c], m)

\* The proposals of x name evidence, and memories that are stored.
Answerable(x) ==
    \A i \in 1..Len(x.items) :
        /\ x.items[i].input.evidence # NoEvidence
        /\ x.items[i].chosen \in Stored \cup {NoMemory}

ProposalsAreStored == \A c \in Client : Answerable(extraction[c])

\* The inductive invariant of the proofs.
StoreInv ==
    /\ TypeOK /\ HistoryComplete /\ SnapshotsNumbered /\ ReadingsAreVersions
    /\ FlushesAreVersions /\ ProposalsAreStored

\* evidence_count, which the confirmation policy and the profile trust, is
\* the number of evidence rows bound to the memory, although it is computed
\* from a record and a list read before the write; and no evidence row stays
\* without a memory: a rolled back add or extraction takes its evidence back.
EvidenceCounted ==
    /\ \A m \in Stored : memories[m].evidence_count = Cardinality(bound[m])
    /\ \A e \in evidence : \E m \in Stored : e \in bound[m]

\* What was only inferred has never been in force: no snapshot of a memory
\* shows it inferred and active or superseded.
InferenceNeverActive ==
    \A m \in Memory, r \in 1..MaxRevision :
        /\ revisions[m][r] # NoRecord
        /\ revisions[m][r].authority = "inferred"
        => revisions[m][r].state \notin {"active", "superseded"}

\* No committed change of a memory is overwritten by one computed from an
\* older reading of it: the row that is replaced stays in the history, below
\* the new one, the evidence already counted is kept, and an authority is
\* never taken back.
NoLostUpdate ==
    [][\A m \in Stored : memories'[m] # memories[m] =>
        /\ memories'[m].revision > memories[m].revision
        /\ revisions'[m][memories[m].revision] = memories[m]
        /\ memories'[m].evidence_count >= memories[m].evidence_count
        /\ \/ memories'[m].authority = memories[m].authority
           \/ /\ memories[m].authority = "inferred"
              /\ memories'[m].authority = "confirmed"]_vars

\* A snapshot that was written is never changed or removed.
HistoryImmutable ==
    [][\A m \in Memory, r \in 1..MaxRevision :
        revisions[m][r] # NoRecord => revisions'[m][r] = revisions[m][r]]_vars

LastLive(m) ==
    LET live == {r \in 1..MaxRevision : /\ revisions[m][r] # NoRecord
                                        /\ revisions[m][r].state # "deleted"}
    IN  revisions[m][CHOOSE r \in live : \A q \in live : q <= r].state

\* A deleted memory only ever comes back to the state it was deleted from.
RestoreUndoesDelete ==
    [][\A m \in Stored :
        memories[m].state = "deleted" /\ memories'[m].state # "deleted" =>
            memories'[m].state = LastLive(m)]_vars

\* domain/memory.py, restore_memory: the application service can read the
\* state before the deletion from memory_revisions.  The revision it reads
\* is the one before the current revision of the deleted memory.
DeletedStateReadable ==
    \A m \in Stored : memories[m].state = "deleted" =>
        /\ memories[m].revision > 1
        /\ revisions[m][memories[m].revision - 1].state # "deleted"

\* The history in memory_revisions behaves as the ledger: the service's
\* readings, retries and roll backs never show in it.
Ledger == INSTANCE MemoryLedger WITH
    ledger <- [m \in Memory |->
        [r \in {i \in 1..MaxRevision : revisions[m][i] # NoRecord} |->
            revisions[m][r]]]

ImplementsLedger == Ledger!Spec
=============================================================================
