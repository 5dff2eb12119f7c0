--------------------------- MODULE ProfileRefresh ---------------------------
(***************************************************************************)
(* Profile snapshots of one subject: application/profile_service.py over  *)
(* the profile repository.  A refresh reads the memories, the events, the *)
(* processing runs, the feature states and the latest snapshot with one   *)
(* statement each, so every one of them shows a later moment, and adds    *)
(* the next version unless nothing changed.  What the preferences say is  *)
(* left out: a snapshot keeps what it was computed from.                   *)
(***************************************************************************)
EXTENDS Naturals, FiniteSets, FiniteSetsExt

CONSTANTS
    Client,         \* callers of refresh_profile
    MaxEvents,      \* bound: events stored
    MaxRuns,        \* bound: processing runs recorded
    MaxChanges,     \* bound: changes of the effective memories
    MaxVersions     \* bound: snapshots stored

ASSUME ConstantAssumption ==
    {MaxEvents, MaxRuns, MaxChanges, MaxVersions} \subseteq Nat

VARIABLES
    events,         \* events 1..events are stored, the last is the newest
    runs,           \* what the runs recorded: events done and failed
    features,       \* the events that the feature states were built from
    memories,       \* how often the effective memories changed
    snapshots,      \* committed snapshot rows
    refresh         \* what each caller's refresh has read

vars == <<events, runs, features, memories, snapshots, refresh>>
environment == <<events, runs, features, memories>>

Event == 1..MaxEvents
Count == 0..MaxRuns * MaxEvents

\* What a snapshot says, apart from its version and time: the digest.
Content == [status: {"empty", "complete", "partial"}, total: 0..MaxEvents,
            processed: 0..MaxEvents, failed: 0..MaxEvents,
            features: SUBSET Event, memories: 0..MaxChanges]

Snapshot == [version: Nat \ {0}, content: Content, forced: BOOLEAN]

\* since is what was committed when the refresh began; base the latest
\* version it found; written its flushed row.
Refresh == [phase: {"idle", "memories", "events", "runs", "features", "latest", "add",
                    "insert", "commit", "returned", "refused"},
            forced: BOOLEAN, read: Content, base: Nat, written: SUBSET Snapshot,
            since: [events: 0..MaxEvents, features: SUBSET Event,
                    memories: 0..MaxChanges]]

Nothing == [status |-> "empty", total |-> 0, processed |-> 0, failed |-> 0,
            features |-> {}, memories |-> 0]
Start == [events |-> 0, features |-> {}, memories |-> 0]
Idle == [phase |-> "idle", forced |-> FALSE, read |-> Nothing, base |-> 0,
         written |-> {}, since |-> Start]

Become(c, r) == refresh' = [refresh EXCEPT ![c] = r]
Goes(c, phase) == Become(c, [refresh[c] EXCEPT !.phase = phase])
Kept == UNCHANGED <<environment, snapshots>>

-----------------------------------------------------------------------------
(* What the other services commit meanwhile.                               *)

Ingest ==
    /\ events < MaxEvents
    /\ events' = events + 1
    /\ UNCHANGED <<runs, features, memories, snapshots, refresh>>

\* A run over the events in batch; it counts them whether or not an earlier
\* run has counted them.
Recorded(batch) ==
    /\ runs.recorded < MaxRuns
    /\ batch # {}
    /\ runs' = [runs EXCEPT !.recorded = @ + 1, !.done = @ + Cardinality(batch)]
    /\ features' = features \cup batch
    /\ UNCHANGED <<events, memories, snapshots, refresh>>

ProcessEvent == \E e \in 1..events : Recorded({e})

ProcessPending(limit) == Recorded({e \in 1..events : e + limit > events})

ProcessingFailed ==
    /\ events > 0
    /\ runs.recorded < MaxRuns
    /\ runs' = [runs EXCEPT !.recorded = @ + 1, !.failed = @ + 1]
    /\ UNCHANGED <<events, features, memories, snapshots, refresh>>

ChangeMemories ==
    /\ memories < MaxChanges
    /\ memories' = memories + 1
    /\ UNCHANGED <<events, runs, features, snapshots, refresh>>

-----------------------------------------------------------------------------

Versions == {s.version : s \in snapshots}
LatestVersion == Max(Versions \cup {0})
Latest == CHOOSE s \in snapshots : s.version = LatestVersion

\* refresh_profile
Submit(c, forced) ==
    /\ refresh[c].phase = "idle"
    /\ Become(c, [Idle EXCEPT !.phase = "memories", !.forced = forced,
                    !.since = [events |-> events, features |-> features,
                               memories |-> memories]])
    /\ Kept

ReadMemories(c) ==
    /\ refresh[c].phase = "memories"
    /\ Become(c, [refresh[c] EXCEPT !.phase = "events", !.read.memories = memories])
    /\ Kept

ReadEvents(c) ==
    /\ refresh[c].phase = "events"
    /\ Become(c, [refresh[c] EXCEPT !.phase = "runs", !.read.total = events])
    /\ Kept

\* Mutant: the counts are not limited to the events there are.
CoverageUnlimited(total) == [processed |-> runs.done, failed |-> runs.failed]

\* _coverage_from_runs
Coverage(total) ==
    LET processed == Min({runs.done, total}) IN
    [processed |-> processed, failed |-> Min({runs.failed, total - processed})]

ReadRuns(c) ==
    LET coverage == Coverage(refresh[c].read.total) IN
    /\ refresh[c].phase = "runs"
    /\ Become(c, [refresh[c] EXCEPT !.phase = "features",
                                    !.read.processed = coverage.processed,
                                    !.read.failed = coverage.failed])
    /\ Kept

ReadFeatures(c) ==
    /\ refresh[c].phase = "features"
    /\ Become(c, [refresh[c] EXCEPT !.phase = "latest", !.read.features = features])
    /\ Kept

\* _build_snapshot
Status(read) ==
    IF read.total = 0 /\ read.memories = 0 /\ read.features = {} THEN "empty"
    ELSE IF read.processed = read.total THEN "complete" ELSE "partial"

\* Mutant: an existing snapshot over the same events is returned.
UnchangedTotal(latest, read) == latest.content.total = read.total

\* Mutant: the digest takes in the time of the snapshot, which is always new.
UnchangedInTime(latest, read) == FALSE

\* profile_content_digest agrees.
Unchanged(latest, read) == latest.content = read

ReadLatest(c) ==
    LET read == [refresh[c].read EXCEPT !.status = Status(refresh[c].read)]
        r == [refresh[c] EXCEPT !.read = read, !.base = LatestVersion] IN
    /\ refresh[c].phase = "latest"
    /\ \/ /\ snapshots # {} /\ ~r.forced /\ Unchanged(Latest, read)
          /\ Become(c, [r EXCEPT !.phase = "returned"])
       \/ /\ ~(snapshots # {} /\ ~r.forced /\ Unchanged(Latest, read))
          /\ Become(c, [r EXCEPT !.phase = "add"])
    /\ Kept

\* profiles.add: the version must still be above the latest one.
Add(c) ==
    /\ refresh[c].phase = "add"
    /\ Goes(c, IF refresh[c].base + 1 > LatestVersion THEN "insert" ELSE "refused")
    /\ Kept

Row(c) == [version |-> refresh[c].base + 1, content |-> refresh[c].read,
           forced |-> refresh[c].forced]

\* Those who have flushed a row of the same version: the insert waits.
Holders(c) ==
    {d \in Client \ {c} : \E s \in refresh[d].written : s.version = Row(c).version}

Insert(c) ==
    /\ refresh[c].phase = "insert"
    /\ Row(c).version <= MaxVersions
    /\ Holders(c) = {} /\ Row(c).version \notin Versions
    /\ Become(c, [refresh[c] EXCEPT !.phase = "commit", !.written = {Row(c)}])
    /\ Kept

\* The version was committed in between: InvalidArgumentError.
InsertLost(c) ==
    /\ refresh[c].phase = "insert"
    /\ Holders(c) = {} /\ Row(c).version \in Versions
    /\ Goes(c, "refused")
    /\ Kept

\* Mutant: the new snapshot replaces the one it was computed after.
CommitReplacing(c) ==
    /\ refresh[c].phase = "commit"
    /\ snapshots' = {s \in snapshots : s.version # refresh[c].base} \cup refresh[c].written
    /\ Become(c, [refresh[c] EXCEPT !.phase = "returned", !.written = {}])
    /\ UNCHANGED environment

Commit(c) ==
    /\ refresh[c].phase = "commit"
    /\ snapshots' = snapshots \cup refresh[c].written
    /\ Become(c, [refresh[c] EXCEPT !.phase = "returned", !.written = {}])
    /\ UNCHANGED environment

\* The caller has its answer; after a refusal it may refresh again.
Return(c) ==
    /\ refresh[c].phase \in {"returned", "refused"}
    /\ Become(c, Idle)
    /\ Kept

Crash(c) ==
    /\ refresh[c].phase \notin {"idle", "returned", "refused"}
    /\ Become(c, Idle)
    /\ Kept

Init ==
    /\ events = 0
    /\ runs = [recorded |-> 0, done |-> 0, failed |-> 0]
    /\ features = {}
    /\ memories = 0
    /\ snapshots = {}
    /\ refresh = [c \in Client |-> Idle]

Others ==
    \/ Ingest \/ ProcessEvent \/ ProcessingFailed \/ ChangeMemories
    \/ \E limit \in 1..MaxEvents : ProcessPending(limit)

Step(c) ==
    \/ ReadMemories(c) \/ ReadEvents(c) \/ ReadRuns(c) \/ ReadFeatures(c)
    \/ ReadLatest(c) \/ Add(c) \/ Insert(c) \/ InsertLost(c) \/ Commit(c) \/ Return(c)

Next ==
    \/ Others
    \/ \E c \in Client : Crash(c) \/ Step(c) \/ \E forced \in BOOLEAN : Submit(c, forced)

Spec == Init /\ [][Next]_vars

-----------------------------------------------------------------------------

\* Every variable has its type; what a snapshot covers adds up.
TypeOK ==
    /\ events \in 0..MaxEvents
    /\ runs \in [recorded: 0..MaxRuns, done: Count, failed: Count]
    /\ features \subseteq 1..events
    /\ memories \in 0..MaxChanges
    /\ snapshots \subseteq Snapshot
    /\ refresh \in [Client -> Refresh]
    /\ \A s \in snapshots : s.content.processed + s.content.failed <= s.content.total

\* plan.md:592: versions are unique and only grow, and a snapshot that was
\* published is never changed or removed.
VersionsGrow ==
    [][/\ snapshots \subseteq snapshots'
       /\ \A s \in snapshots' \ snapshots :
            /\ s.version = LatestVersion + 1
            /\ \A t \in snapshots' : t.version = s.version => t = s]_vars

\* plan.md:1098: a refresh that finds no change makes no new version, however
\* many run at the same time.
NoMeaninglessVersion ==
    \A s, t \in snapshots : t.version = s.version + 1 /\ ~t.forced => t.content # s.content

\* A refresh answers with everything that was committed before it began, even
\* when it returns a snapshot it did not make.
SeesEarlierWrites ==
    \A c \in Client : refresh[c].phase = "returned" =>
        \E s \in snapshots :
            /\ s.content = refresh[c].read
            /\ s.content.total >= refresh[c].since.events
            /\ refresh[c].since.features \subseteq s.content.features
            /\ s.content.memories >= refresh[c].since.memories

\* plan.md:594: "complete" means that processing covers all events.
CompleteIsCovered ==
    \A s \in snapshots :
        s.content.status = "complete" => 1..s.content.total \subseteq s.content.features
=============================================================================
