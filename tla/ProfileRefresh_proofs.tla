------------------------ MODULE ProfileRefresh_proofs ------------------------
(***************************************************************************)
(* What TLAPS proves about ProfileRefresh for every set of callers and    *)
(* every bound.  Versions are dense and unique, so the latest is how many *)
(* there are; a row that was flushed is the next version until its        *)
(* transaction ends, and so at most one is flushed at a time.             *)
(***************************************************************************)
EXTENDS ProfileRefresh, FiniteSetTheorems, TLAPS

\* The versions 1 to LatestVersion are there, each once.
Dense ==
    /\ LatestVersion \in Nat
    /\ Versions = 1..LatestVersion
    /\ \A s, t \in snapshots : s.version = t.version => s = t

\* The runs have counted no more than they could.
CountsBounded ==
    /\ runs.done <= runs.recorded * MaxEvents
    /\ runs.failed <= runs.recorded * MaxEvents

\* What a refresh has read so far is not older than its beginning.
NotOlder(r) ==
    /\ r.since.events <= events
    /\ r.since.features \subseteq features
    /\ r.since.memories <= memories
    /\ r.phase \notin {"idle", "memories"} => r.since.memories <= r.read.memories
    /\ r.phase \notin {"idle", "memories", "events"} => r.since.events <= r.read.total
    /\ r.phase \in {"latest", "add", "insert", "commit", "returned"} =>
            r.since.features \subseteq r.read.features

\* Its coverage adds up.
AddsUp(r) ==
    /\ r.read.processed + r.read.failed <= r.read.total
    /\ r.phase \in {"idle", "memories", "events", "runs"} =>
            r.read.processed = 0 /\ r.read.failed = 0

RowOf(r) == [version |-> r.base + 1, content |-> r.read, forced |-> r.forced]

\* Its row is flushed and the next version, or not flushed.
Flushed(r) ==
    /\ r.base <= LatestVersion
    /\ r.phase = "commit" => r.written = {RowOf(r)} /\ r.base = LatestVersion
    /\ r.phase # "commit" => r.written = {}

\* A new version has something new, and what was returned is a snapshot.
Answers(r) ==
    /\ r.phase \in {"add", "insert", "commit"} /\ ~r.forced =>
            \A s \in snapshots : s.version = r.base => s.content # r.read
    /\ r.phase = "returned" => \E s \in snapshots : s.content = r.read

Held(r) == NotOlder(r) /\ AddsUp(r) /\ Flushed(r) /\ Answers(r)

OneFlushed ==
    \A c, d \in Client :
        refresh[c].phase = "commit" /\ refresh[d].phase = "commit" => c = d

\* The inductive invariant.
Inv ==
    /\ TypeOK /\ CountsBounded
    /\ Dense /\ OneFlushed /\ NoMeaninglessVersion
    /\ \A c \in Client : Held(refresh[c])

-----------------------------------------------------------------------------
(* The operators the model is built from.                                  *)

\* The greatest of 0 to n is n.
LEMMA GreatestVersion ==
    ASSUME NEW n \in Nat
    PROVE  Max(1..n \cup {0}) = n
<1>1. n \in 1..n \cup {0} /\ \A y \in 1..n \cup {0} : n >= y
  BY SMT
<1>2. \A x \in 1..n \cup {0} : (\A y \in 1..n \cup {0} : x >= y) => x = n
  BY SMT
<1> QED
  BY <1>1, <1>2 DEF Max

\* The lesser of two numbers is one of them, and above neither.
LEMMA LesserOfTwo ==
    ASSUME NEW a \in Nat, NEW b \in Nat
    PROVE  Min({a, b}) \in Nat /\ Min({a, b}) <= a /\ Min({a, b}) <= b
<1>1. \E x \in {a, b} : \A y \in {a, b} : x <= y
  BY SMT
<1> QED
  BY <1>1 DEF Min

\* One run more counts one batch more.
LEMMA OneMoreRun ==
    ASSUME NEW k \in Nat, NEW m \in Nat, NEW d \in Nat, NEW b \in 0..m, d <= k * m
    PROVE  d + b <= (k + 1) * m /\ d <= (k + 1) * m
<1>1. (k + 1) * m = k * m + m /\ k * m \in Nat
  BY SMT
<1> QED
  BY <1>1, SMT

\* Fewer runs count no more than more runs could.
LEMMA MoreRunsMoreCounts ==
    ASSUME NEW k \in Nat, NEW n \in Nat, NEW m \in Nat, k <= n
    PROVE  k * m <= n * m
<1>1. PICK j \in Nat : n = k + j
  BY SMT
<1>2. (k + j) * m = k * m + j * m /\ j * m \in Nat /\ k * m \in Nat
  BY SMT
<1> QED
  BY <1>1, <1>2, SMT

\* A batch of the stored events is no larger than their bound.
LEMMA BatchIsBounded ==
    ASSUME NEW n \in 0..MaxEvents, NEW batch \in SUBSET (1..n)
    PROVE  Cardinality(batch) \in 0..MaxEvents
<1>1. MaxEvents \in Nat
  BY ConstantAssumption
<1>2. IsFiniteSet(1..n) /\ Cardinality(1..n) = n
  <2>1. 1 \in Int /\ n \in Int
    BY <1>1
  <2>2. Cardinality(1..n) = IF 1 > n THEN 0 ELSE n - 1 + 1
    BY <2>1, FS_Interval
  <2> QED
    BY <1>1, <2>1, <2>2, FS_Interval
<1>3. IsFiniteSet(batch) /\ Cardinality(batch) <= n
  BY <1>2, FS_Subset
<1>4. Cardinality(batch) \in Nat
  BY <1>3, FS_CardinalityType
<1> QED
  BY <1>1, <1>3, <1>4

\* The counts of the runs stay in their type.
LEMMA CountsTyped ==
    ASSUME NEW k \in 0..MaxRuns, NEW d \in Nat, d <= k * MaxEvents
    PROVE  d \in Count
<1>1. MaxEvents \in Nat /\ MaxRuns \in Nat
  BY ConstantAssumption
<1>2. k * MaxEvents <= MaxRuns * MaxEvents
  BY <1>1, MoreRunsMoreCounts
<1>3. MaxRuns * MaxEvents \in Nat /\ k * MaxEvents \in Nat
  BY <1>1, SMT
<1> QED
  BY <1>2, <1>3 DEF Count

\* The coverage of a number of events is within them.
LEMMA CoverageIsBounded ==
    ASSUME TypeOK, NEW total \in 0..MaxEvents
    PROVE  /\ Coverage(total).processed \in 0..MaxEvents
           /\ Coverage(total).failed \in 0..MaxEvents
           /\ Coverage(total).processed + Coverage(total).failed <= total
<1> DEFINE p == Min({runs.done, total})
           f == Min({runs.failed, total - p})
<1>1. MaxEvents \in Nat /\ MaxRuns \in Nat
  BY ConstantAssumption
<1>2. runs.done \in Nat /\ runs.failed \in Nat
  <2>1. MaxRuns * MaxEvents \in Nat
    BY <1>1, SMT
  <2> QED
    BY <2>1 DEF TypeOK, Count
<1>3. p \in Nat /\ p <= total
  BY <1>1, <1>2, LesserOfTwo
<1>4. total - p \in Nat
  BY <1>1, <1>3
<1>5. f \in Nat /\ f <= total - p
  BY <1>2, <1>4, LesserOfTwo
<1>6. Coverage(total).processed = p /\ Coverage(total).failed = f
  BY DEF Coverage
<1> HIDE DEF p, f
<1> QED
  BY <1>1, <1>3, <1>4, <1>5, <1>6

-----------------------------------------------------------------------------
(* Two frames: a step of the other services, and a step of one refresh    *)
(* that leaves the snapshots alone.                                        *)

\* The other services only add, so what was read is still not older.
LEMMA EnvironmentStep ==
    ASSUME Inv, TypeOK', CountsBounded', UNCHANGED <<snapshots, refresh>>,
           events <= events', features \subseteq features', memories <= memories'
    PROVE  Inv'
<1>1. Dense' /\ OneFlushed' /\ NoMeaninglessVersion' /\ LatestVersion' = LatestVersion
  BY DEF Inv, Dense, OneFlushed, NoMeaninglessVersion, LatestVersion, Versions
<1>2. ASSUME NEW c \in Client PROVE Held(refresh[c])'
  <2>1. Held(refresh[c])
    BY DEF Inv
  <2>2. NotOlder(refresh[c])'
    <3>1. events \in Nat /\ events' \in Nat /\ memories \in Nat /\ memories' \in Nat
      BY ConstantAssumption DEF Inv, TypeOK
    <3>2. refresh[c].since.events \in Nat /\ refresh[c].since.memories \in Nat
      BY ConstantAssumption DEF Inv, TypeOK, Refresh
    <3> QED
      BY <2>1, <3>1, <3>2 DEF Held, NotOlder
  <2>3. AddsUp(refresh[c])' /\ Answers(refresh[c])'
    BY <2>1 DEF Held, AddsUp, Answers
  <2>4. Flushed(refresh[c])'
    BY <1>1, <2>1 DEF Held, Flushed, RowOf
  <2> QED
    BY <2>2, <2>3, <2>4 DEF Held
<1> QED
  BY <1>1, <1>2 DEF Inv

\* A refresh that goes on to r, typed and held, keeps everything.
LEMMA RefreshStep ==
    ASSUME Inv, Kept, NEW c \in Client, NEW r \in Refresh, Become(c, r), Held(r),
           r.phase = "commit" =>
               \A d \in Client \ {c} : refresh[d].phase # "commit"
    PROVE  Inv'
<1>1. refresh' = [refresh EXCEPT ![c] = r] /\ UNCHANGED <<environment, snapshots>>
  BY DEF Become, Kept
<1>2. refresh \in [Client -> Refresh]
  BY DEF Inv, TypeOK
<1>3. refresh' \in [Client -> Refresh]
  BY <1>1, <1>2
<1>4. TypeOK' /\ CountsBounded'
  BY <1>1, <1>3 DEF Inv, TypeOK, CountsBounded, environment
<1>5. Dense' /\ NoMeaninglessVersion' /\ LatestVersion' = LatestVersion
  BY <1>1 DEF Inv, Dense, NoMeaninglessVersion, LatestVersion, Versions
<1>6. \A d \in Client : refresh'[d] = IF d = c THEN r ELSE refresh[d]
  BY <1>1, <1>2
<1>7. OneFlushed'
  BY <1>6 DEF Inv, OneFlushed
<1>8. ASSUME NEW d \in Client PROVE Held(refresh[d])'
  <2>1. Held(refresh'[d])
    BY <1>6 DEF Inv
  <2> QED
    BY <1>1, <1>5, <2>1
    DEF Held, NotOlder, AddsUp, Flushed, Answers, RowOf, environment
<1> QED
  BY <1>4, <1>5, <1>7, <1>8 DEF Inv

-----------------------------------------------------------------------------
(* The steps of the other services.                                        *)

LEMMA IngestStep == Inv /\ Ingest => Inv'
<1> SUFFICES ASSUME Inv, Ingest PROVE Inv'
  OBVIOUS
<1>1. MaxEvents \in Nat
  BY ConstantAssumption
<1>2. /\ events \in Nat /\ events' = events + 1 /\ events' \in 0..MaxEvents
      /\ UNCHANGED <<runs, features, memories, snapshots, refresh>>
  BY <1>1 DEF Inv, TypeOK, Ingest
<1>3. 1..events \subseteq 1..events'
  BY <1>2
<1>4. TypeOK' /\ CountsBounded'
  BY <1>2, <1>3 DEF Inv, TypeOK, CountsBounded
<1>5. memories <= memories'
  BY <1>2, ConstantAssumption DEF Inv, TypeOK
<1> QED
  BY <1>2, <1>4, <1>5, EnvironmentStep

LEMMA ChangeMemoriesStep == Inv /\ ChangeMemories => Inv'
<1> SUFFICES ASSUME Inv, ChangeMemories PROVE Inv'
  OBVIOUS
<1>1. MaxChanges \in Nat /\ MaxEvents \in Nat
  BY ConstantAssumption
<1>2. /\ memories \in Nat /\ memories' = memories + 1 /\ memories' \in 0..MaxChanges
      /\ UNCHANGED <<events, runs, features, snapshots, refresh>>
  BY <1>1 DEF Inv, TypeOK, ChangeMemories
<1>3. TypeOK' /\ CountsBounded'
  BY <1>2 DEF Inv, TypeOK, CountsBounded
<1>4. events <= events'
  BY <1>1, <1>2 DEF Inv, TypeOK
<1> QED
  BY <1>2, <1>3, <1>4, EnvironmentStep

\* A run that was recorded: b events are done and f have failed.
LEMMA RunsStep ==
    ASSUME Inv, runs.recorded < MaxRuns, NEW b \in 0..MaxEvents, NEW f \in 0..MaxEvents,
           runs' \in [recorded: Nat, done: Nat, failed: Nat],
           runs'.recorded = runs.recorded + 1,
           runs'.done = runs.done + b, runs'.failed = runs.failed + f,
           features \subseteq features', features' \subseteq 1..events,
           UNCHANGED <<events, memories, snapshots, refresh>>
    PROVE  Inv'
<1>1. MaxEvents \in Nat /\ MaxRuns \in Nat /\ MaxChanges \in Nat
  BY ConstantAssumption
<1>2. MaxRuns * MaxEvents \in Nat
  BY <1>1, SMT
<1>3. runs.recorded \in Nat /\ runs.done \in Nat /\ runs.failed \in Nat
  BY <1>1, <1>2 DEF Inv, TypeOK, Count
<1>4. runs'.recorded \in 0..MaxRuns
  BY <1>1, <1>3
<1>5. /\ runs.done + b <= (runs.recorded + 1) * MaxEvents
      /\ runs.failed + f <= (runs.recorded + 1) * MaxEvents
  BY <1>1, <1>3, OneMoreRun DEF Inv, CountsBounded
<1>6. CountsBounded'
  BY <1>5 DEF CountsBounded
<1>7. runs'.done \in Count /\ runs'.failed \in Count
  <2>1. runs.recorded + 1 \in 0..MaxRuns
    BY <1>4
  <2>2. runs.done + b \in Nat /\ runs.failed + f \in Nat
    BY <1>1, <1>3
  <2> QED
    BY <1>5, <2>1, <2>2, CountsTyped
<1>8. TypeOK'
  <2>1. runs' \in [recorded: 0..MaxRuns, done: Count, failed: Count]
    BY <1>4, <1>7
  <2> QED
    BY <2>1 DEF Inv, TypeOK
<1>9. events <= events' /\ memories <= memories'
  BY <1>1 DEF Inv, TypeOK
<1> QED
  BY <1>6, <1>8, <1>9, EnvironmentStep

LEMMA RecordedStep ==
    ASSUME Inv, NEW batch \in SUBSET (1..events), Recorded(batch)
    PROVE  Inv'
<1>1. MaxEvents \in Nat /\ MaxRuns \in Nat
  BY ConstantAssumption
<1>2. Cardinality(batch) \in 0..MaxEvents
  BY BatchIsBounded DEF Inv, TypeOK
<1> DEFINE b == Cardinality(batch)
<1>3. MaxRuns * MaxEvents \in Nat
  BY <1>1, SMT
<1>4. runs \in [recorded: Nat, done: Nat, failed: Nat]
  BY <1>1, <1>3 DEF Inv, TypeOK, Count
<1> HIDE DEF b
<1>5. PICK k \in Nat, n \in Nat : k = runs.recorded + 1 /\ n = runs.done + b
  BY <1>1, <1>2, <1>4 DEF b
<1>6. runs' = [runs EXCEPT !.recorded = k, !.done = n]
  BY <1>5 DEF Recorded, b
<1>7. b \in 0..MaxEvents /\ 0 \in 0..MaxEvents
  BY <1>1, <1>2 DEF b
<1>8. features \subseteq features' /\ features' \subseteq 1..events
  BY DEF Recorded, Inv, TypeOK
<1>9. runs.recorded < MaxRuns /\ UNCHANGED <<events, memories, snapshots, refresh>>
  BY DEF Recorded
<1> QED
  <2>1. /\ runs' \in [recorded: Nat, done: Nat, failed: Nat]
        /\ runs'.recorded = k /\ runs'.done = n /\ runs'.failed = runs.failed
    BY <1>4, <1>6
  <2>2. runs'.failed = runs.failed + 0
    BY <1>4, <2>1
  <2> QED
    BY <1>5, <1>7, <1>8, <1>9, <2>1, <2>2, RunsStep

LEMMA ProcessingFailedStep == Inv /\ ProcessingFailed => Inv'
<1> SUFFICES ASSUME Inv, ProcessingFailed PROVE Inv'
  OBVIOUS
<1>1. MaxEvents \in Nat /\ MaxRuns \in Nat
  BY ConstantAssumption
<1>2. 1 \in 0..MaxEvents /\ 0 \in 0..MaxEvents
  BY <1>1 DEF Inv, TypeOK, ProcessingFailed
<1>3. MaxRuns * MaxEvents \in Nat
  BY <1>1, SMT
<1>4. runs \in [recorded: Nat, done: Nat, failed: Nat]
  BY <1>1, <1>3 DEF Inv, TypeOK, Count
<1>5. PICK k \in Nat, n \in Nat : k = runs.recorded + 1 /\ n = runs.failed + 1
  BY <1>4
<1>6. runs' = [runs EXCEPT !.recorded = k, !.failed = n]
  BY <1>5 DEF ProcessingFailed
<1>7. /\ runs.recorded < MaxRuns /\ UNCHANGED <<events, memories, snapshots, refresh>>
      /\ features \subseteq features' /\ features' \subseteq 1..events
  BY DEF ProcessingFailed, Inv, TypeOK
<1> QED
  <2>1. /\ runs' \in [recorded: Nat, done: Nat, failed: Nat]
        /\ runs'.recorded = k /\ runs'.done = runs.done /\ runs'.failed = n
    BY <1>4, <1>6
  <2>2. runs'.done = runs.done + 0
    BY <1>4, <2>1
  <2> QED
    BY <1>2, <1>5, <1>7, <2>1, <2>2, RunsStep

LEMMA OthersStep == Inv /\ Others => Inv'
<1> SUFFICES ASSUME Inv, Others PROVE Inv'
  OBVIOUS
<1>1. CASE Ingest
  BY <1>1, IngestStep
<1>2. CASE ProcessEvent
  <2>1. PICK e \in 1..events : Recorded({e})
    BY <1>2 DEF ProcessEvent
  <2>2. {e} \in SUBSET (1..events)
    OBVIOUS
  <2> QED
    BY <2>1, <2>2, RecordedStep
<1>3. CASE ProcessingFailed
  BY <1>3, ProcessingFailedStep
<1>4. CASE ChangeMemories
  BY <1>4, ChangeMemoriesStep
<1>5. ASSUME NEW limit \in 1..MaxEvents, ProcessPending(limit) PROVE Inv'
  <2>1. {e \in 1..events : e + limit > events} \in SUBSET (1..events)
    OBVIOUS
  <2> QED
    BY <1>5, <2>1, RecordedStep DEF ProcessPending
<1> QED
  BY <1>1, <1>2, <1>3, <1>4, <1>5 DEF Others

-----------------------------------------------------------------------------
(* The steps of one refresh that leave the snapshots alone.                *)

LEMMA IdleIsHeld ==
    ASSUME Inv
    PROVE  Idle \in Refresh /\ Held(Idle) /\ Idle.phase = "idle"
<1>1. MaxEvents \in Nat /\ MaxChanges \in Nat
  BY ConstantAssumption
<1>2. Nothing \in Content /\ 0 \in 0..MaxEvents /\ 0 \in 0..MaxChanges
  BY <1>1 DEF Nothing, Content
<1>3. Idle \in Refresh
  BY <1>2 DEF Idle, Start, Refresh
<1>4. NotOlder(Idle) /\ AddsUp(Idle) /\ Answers(Idle)
  BY <1>1 DEF NotOlder, AddsUp, Answers, Idle, Start, Nothing, Inv, TypeOK
<1>5. Flushed(Idle)
  BY DEF Flushed, Idle, Inv, Dense
<1> QED
  BY <1>3, <1>4, <1>5 DEF Held, Idle

LEMMA SubmitStep ==
    ASSUME Inv, NEW c \in Client, NEW forced \in BOOLEAN, Submit(c, forced)
    PROVE  Inv'
<1> DEFINE r == [Idle EXCEPT !.phase = "memories", !.forced = forced,
                  !.since = [events |-> events, features |-> features,
                             memories |-> memories]]
<1>1. MaxEvents \in Nat /\ MaxChanges \in Nat
  BY ConstantAssumption
<1>2. /\ r.phase = "memories" /\ r.read = Nothing /\ r.base = 0 /\ r.written = {}
      /\ r.since = [events |-> events, features |-> features, memories |-> memories]
  BY DEF Idle
<1>3. Become(c, r) /\ Kept
  BY DEF Submit
<1>4. features \in SUBSET Event
  BY <1>1 DEF Inv, TypeOK, Event
<1>6. r \in Refresh
  <2>1. r.since \in [events: 0..MaxEvents, features: SUBSET Event, memories: 0..MaxChanges]
    BY <1>2, <1>4 DEF Inv, TypeOK
  <2> QED
    BY <1>2, <2>1, IdleIsHeld DEF Refresh
<1> HIDE DEF r
<1>7. NotOlder(r) /\ AddsUp(r) /\ Answers(r)
  BY <1>1, <1>2 DEF NotOlder, AddsUp, Answers, Nothing, Inv, TypeOK
<1>8. Flushed(r) /\ r.phase # "commit"
  BY <1>2 DEF Flushed, Inv, Dense
<1> QED
  BY <1>3, <1>6, <1>7, <1>8, RefreshStep DEF Held

\* What a caller's refresh is known to be.
LEMMA RefreshIsHeld ==
    ASSUME Inv, NEW c \in Client
    PROVE  refresh[c] \in Refresh /\ Held(refresh[c])
  BY DEF Inv, TypeOK

\* A refresh that was refused, or is begun anew, holds nothing.
LEMMA ReturnStep ==
    ASSUME Inv, NEW c \in Client, Return(c) \/ Crash(c)
    PROVE  Inv'
<1>1. Become(c, Idle) /\ Kept
  BY DEF Return, Crash
<1> QED
  BY <1>1, IdleIsHeld, RefreshStep

LEMMA ReadMemoriesStep ==
    ASSUME Inv, NEW c \in Client, ReadMemories(c)
    PROVE  Inv'
<1> DEFINE r == [refresh[c] EXCEPT !.phase = "events", !.read.memories = memories]
<1>1. refresh[c] \in Refresh /\ Held(refresh[c])
  BY RefreshIsHeld
<1>2. memories \in 0..MaxChanges /\ MaxChanges \in Nat /\ MaxEvents \in Nat
  BY ConstantAssumption DEF Inv, TypeOK
<1>3. refresh[c].phase = "memories" /\ Become(c, r) /\ Kept
  BY DEF ReadMemories
<1>4. /\ r \in Refresh /\ r.phase = "events" /\ r.read.memories = memories
      /\ r.since = refresh[c].since /\ r.base = refresh[c].base
      /\ r.written = refresh[c].written /\ r.read.processed = refresh[c].read.processed
      /\ r.read.failed = refresh[c].read.failed /\ r.read.total = refresh[c].read.total
  BY <1>1, <1>2 DEF Refresh, Content
<1> HIDE DEF r
<1>5. NotOlder(r) /\ AddsUp(r) /\ Answers(r) /\ Flushed(r)
  BY <1>1, <1>3, <1>4 DEF Held, NotOlder, AddsUp, Answers, Flushed
<1> QED
  BY <1>3, <1>4, <1>5, RefreshStep DEF Held

LEMMA ReadEventsStep ==
    ASSUME Inv, NEW c \in Client, ReadEvents(c)
    PROVE  Inv'
<1> DEFINE r == [refresh[c] EXCEPT !.phase = "runs", !.read.total = events]
<1>1. refresh[c] \in Refresh /\ Held(refresh[c])
  BY RefreshIsHeld
<1>2. events \in 0..MaxEvents /\ events \in Nat
  BY ConstantAssumption DEF Inv, TypeOK
<1>3. refresh[c].phase = "events" /\ Become(c, r) /\ Kept
  BY DEF ReadEvents
<1>4. /\ r \in Refresh /\ r.phase = "runs" /\ r.read.memories = refresh[c].read.memories
      /\ r.since = refresh[c].since /\ r.base = refresh[c].base
      /\ r.written = refresh[c].written /\ r.read.processed = refresh[c].read.processed
      /\ r.read.failed = refresh[c].read.failed /\ r.read.total = events
  BY <1>1, <1>2 DEF Refresh, Content
<1> HIDE DEF r
<1>5. NotOlder(r) /\ AddsUp(r) /\ Answers(r) /\ Flushed(r)
  BY <1>1, <1>2, <1>3, <1>4 DEF Held, NotOlder, AddsUp, Answers, Flushed
<1> QED
  BY <1>3, <1>4, <1>5, RefreshStep DEF Held

LEMMA ReadRunsStep ==
    ASSUME Inv, NEW c \in Client, ReadRuns(c)
    PROVE  Inv'
<1> DEFINE coverage == Coverage(refresh[c].read.total)
           r == [refresh[c] EXCEPT !.phase = "features",
                      !.read.processed = coverage.processed,
                      !.read.failed = coverage.failed]
<1>1. refresh[c] \in Refresh /\ Held(refresh[c])
  BY RefreshIsHeld
<1>2. /\ coverage.processed \in 0..MaxEvents /\ coverage.failed \in 0..MaxEvents
      /\ coverage.processed + coverage.failed <= refresh[c].read.total
  BY <1>1, CoverageIsBounded DEF Inv, Refresh, Content
<1>3. refresh[c].phase = "runs" /\ Become(c, r) /\ Kept
  BY DEF ReadRuns
<1> HIDE DEF coverage
<1>4. /\ r \in Refresh /\ r.phase = "features" /\ r.read.memories = refresh[c].read.memories
      /\ r.since = refresh[c].since /\ r.base = refresh[c].base
      /\ r.written = refresh[c].written /\ r.read.processed = coverage.processed
      /\ r.read.failed = coverage.failed /\ r.read.total = refresh[c].read.total
  BY <1>1, <1>2 DEF Refresh, Content
<1> HIDE DEF r
<1>5. NotOlder(r) /\ AddsUp(r) /\ Answers(r) /\ Flushed(r)
  BY <1>1, <1>2, <1>3, <1>4 DEF Held, NotOlder, AddsUp, Answers, Flushed
<1> QED
  BY <1>3, <1>4, <1>5, RefreshStep DEF Held

LEMMA ReadFeaturesStep ==
    ASSUME Inv, NEW c \in Client, ReadFeatures(c)
    PROVE  Inv'
<1> DEFINE r == [refresh[c] EXCEPT !.phase = "latest", !.read.features = features]
<1>1. refresh[c] \in Refresh /\ Held(refresh[c])
  BY RefreshIsHeld
<1>2. features \in SUBSET Event
  BY ConstantAssumption DEF Inv, TypeOK, Event
<1>3. refresh[c].phase = "features" /\ Become(c, r) /\ Kept
  BY DEF ReadFeatures
<1>4. /\ r \in Refresh /\ r.phase = "latest" /\ r.read.memories = refresh[c].read.memories
      /\ r.since = refresh[c].since /\ r.base = refresh[c].base
      /\ r.written = refresh[c].written /\ r.read.processed = refresh[c].read.processed
      /\ r.read.failed = refresh[c].read.failed /\ r.read.total = refresh[c].read.total
      /\ r.read.features = features
  BY <1>1, <1>2 DEF Refresh, Content
<1> HIDE DEF r
<1>5. NotOlder(r) /\ AddsUp(r) /\ Answers(r) /\ Flushed(r)
  BY <1>1, <1>3, <1>4 DEF Held, NotOlder, AddsUp, Answers, Flushed
<1> QED
  BY <1>3, <1>4, <1>5, RefreshStep DEF Held

\* The latest snapshot is a stored one, of the greatest version, if there is any.
LEMMA LatestIsStored ==
    ASSUME Dense
    PROVE  /\ snapshots # {} => Latest \in snapshots
           /\ \A s \in snapshots : s.version = LatestVersion => s = Latest
<1>1. ASSUME snapshots # {} PROVE LatestVersion \in Versions
  <2>1. PICK s \in snapshots : s.version \in 1..LatestVersion
    BY <1>1 DEF Dense, Versions
  <2> QED
    BY <2>1 DEF Dense
<1>2. ASSUME snapshots # {}
      PROVE  Latest \in snapshots /\ Latest.version = LatestVersion
  <2>1. \E s \in snapshots : s.version = LatestVersion
    BY <1>1, <1>2 DEF Versions
  <2> QED
    BY <2>1 DEF Latest
<1> QED
  BY <1>2 DEF Dense

\* A refresh that finds no change returns the latest snapshot, and one that
\* goes on has something that the latest does not say, or is forced.
LEMMA ReadLatestStep ==
    ASSUME Inv, NEW c \in Client, ReadLatest(c)
    PROVE  Inv'
<1> DEFINE old == refresh[c]
           read == [old.read EXCEPT !.status = Status(old.read)]
           r(phase) == [old EXCEPT !.read = read, !.base = LatestVersion, !.phase = phase]
           Same == snapshots # {} /\ ~old.forced /\ Unchanged(Latest, read)
<1>1. old \in Refresh /\ Held(old) /\ LatestVersion \in Nat
  BY RefreshIsHeld DEF Inv, Dense
<1>2. /\ read \in Content /\ read.processed = old.read.processed
      /\ read.failed = old.read.failed /\ read.total = old.read.total
      /\ read.features = old.read.features /\ read.memories = old.read.memories
  BY <1>1 DEF Refresh, Content, Status
<1>3. /\ old.phase = "latest" /\ Kept
      /\ \/ Same /\ Become(c, r("returned"))
         \/ ~Same /\ Become(c, r("add"))
  BY DEF ReadLatest
<1> HIDE DEF read, old
<1>4. ASSUME NEW phase \in {"returned", "add"}
      PROVE  /\ r(phase) \in Refresh /\ r(phase).phase = phase /\ r(phase).read = read
             /\ r(phase).base = LatestVersion /\ r(phase).since = old.since
             /\ r(phase).written = old.written /\ r(phase).forced = old.forced
  BY <1>1, <1>2 DEF Refresh
<1> HIDE DEF r
<1>5. ASSUME NEW phase \in {"returned", "add"}
      PROVE  NotOlder(r(phase)) /\ AddsUp(r(phase)) /\ Flushed(r(phase))
  BY <1>1, <1>2, <1>3, <1>4 DEF Held, NotOlder, AddsUp, Flushed
<1>6. ASSUME Same PROVE Answers(r("returned"))
  BY <1>4, <1>6, LatestIsStored DEF Answers, Unchanged, Inv
<1>7. ASSUME ~Same PROVE Answers(r("add"))
  <2> SUFFICES ASSUME ~old.forced, NEW s \in snapshots, s.version = LatestVersion
               PROVE  s.content # read
    BY <1>4 DEF Answers
  <2>1. s = Latest
    BY LatestIsStored DEF Inv
  <2> QED
    BY <1>7, <2>1 DEF Unchanged
<1>8. CASE Same
  <2>1. Held(r("returned"))
    BY <1>5, <1>6, <1>8 DEF Held
  <2> QED
    BY <1>3, <1>4, <1>8, <2>1, RefreshStep
<1>9. CASE ~Same
  <2>1. Held(r("add"))
    BY <1>5, <1>7, <1>9 DEF Held
  <2> QED
    BY <1>3, <1>4, <1>9, <2>1, RefreshStep
<1> QED
  BY <1>8, <1>9

\* A refresh that goes on to another phase short of the commit.
LEMMA GoesStep ==
    ASSUME Inv, NEW c \in Client, refresh[c].phase \in {"add", "insert"},
           NEW phase \in {"insert", "refused"}, Goes(c, phase), Kept
    PROVE  Inv'
<1> DEFINE r == [refresh[c] EXCEPT !.phase = phase]
<1>1. refresh[c] \in Refresh /\ Held(refresh[c])
  BY RefreshIsHeld
<1>2. /\ r \in Refresh /\ r.phase = phase /\ r.read = refresh[c].read
      /\ r.since = refresh[c].since /\ r.base = refresh[c].base
      /\ r.written = refresh[c].written /\ r.forced = refresh[c].forced
  BY <1>1 DEF Refresh
<1>3. Become(c, r)
  BY DEF Goes
<1> HIDE DEF r
<1>4. NotOlder(r) /\ AddsUp(r) /\ Answers(r) /\ Flushed(r)
  BY <1>1, <1>2 DEF Held, NotOlder, AddsUp, Answers, Flushed
<1> QED
  BY <1>2, <1>3, <1>4, RefreshStep DEF Held

LEMMA AddStep ==
    ASSUME Inv, NEW c \in Client, Add(c)
    PROVE  Inv'
  BY GoesStep DEF Add

LEMMA InsertLostStep ==
    ASSUME Inv, NEW c \in Client, InsertLost(c)
    PROVE  Inv'
  BY GoesStep DEF InsertLost

\* A row that is inserted is the next version, and the only one flushed.
LEMMA InsertStep ==
    ASSUME Inv, NEW c \in Client, Insert(c)
    PROVE  Inv'
<1> DEFINE old == refresh[c]
           r == [old EXCEPT !.phase = "commit", !.written = {Row(c)}]
<1>1. old \in Refresh /\ Held(old) /\ old.phase = "insert"
  BY RefreshIsHeld DEF Insert
<1>2. Row(c) \in Snapshot /\ Row(c) = RowOf(old)
  BY <1>1 DEF Row, RowOf, Snapshot, Refresh
<1>3. Become(c, r) /\ Kept
  BY DEF Insert
<1>4. /\ r \in Refresh /\ r.phase = "commit" /\ r.read = old.read
      /\ r.since = old.since /\ r.base = old.base
      /\ r.written = {RowOf(old)} /\ r.forced = old.forced
  BY <1>1, <1>2 DEF Refresh
<1>5. old.base = LatestVersion
  <2>1. old.base \in Nat /\ LatestVersion \in Nat /\ old.base <= LatestVersion
    BY <1>1 DEF Refresh, Held, Flushed, Inv, Dense
  <2>2. old.base + 1 \notin 1..LatestVersion
    BY DEF Insert, Row, Inv, Dense
  <2> QED
    BY <2>1, <2>2
<1>6. ASSUME NEW d \in Client \ {c} PROVE refresh[d].phase # "commit"
  <2> SUFFICES ASSUME refresh[d].phase = "commit" PROVE FALSE
    OBVIOUS
  <2>1. refresh[d].written = {RowOf(refresh[d])} /\ refresh[d].base = LatestVersion
    BY RefreshIsHeld DEF Held, Flushed
  <2>2. RowOf(refresh[d]).version = Row(c).version
    BY <1>5, <2>1 DEF RowOf, Row
  <2> QED
    BY <2>1, <2>2 DEF Insert, Holders
<1> HIDE DEF r
<1>7. NotOlder(r) /\ AddsUp(r) /\ Answers(r)
  BY <1>1, <1>4 DEF Held, NotOlder, AddsUp, Answers
<1>8. Flushed(r)
  BY <1>4, <1>5, <1>1 DEF Flushed, RowOf, Held
<1> QED
  BY <1>3, <1>4, <1>6, <1>7, <1>8, RefreshStep DEF Held

-----------------------------------------------------------------------------
(* The commit of a row.                                                    *)

\* The row of a commit is the next version, and what the snapshots become.
LEMMA NextVersion ==
    ASSUME Inv, NEW c \in Client, Commit(c)
    PROVE  LET row == RowOf(refresh[c]) IN
           /\ row \in Snapshot /\ row.version = LatestVersion + 1
           /\ row.content = refresh[c].read /\ row.forced = refresh[c].forced
           /\ snapshots' = snapshots \cup {row}
           /\ LatestVersion' = LatestVersion + 1
           /\ Versions' = 1..LatestVersion'
           /\ \A s \in snapshots : s.version \in 1..LatestVersion
<1> DEFINE row == RowOf(refresh[c])
<1>1. refresh[c] \in Refresh /\ Held(refresh[c]) /\ refresh[c].phase = "commit"
  BY RefreshIsHeld DEF Commit
<1>2. refresh[c].base = LatestVersion /\ refresh[c].written = {row}
  BY <1>1 DEF Held, Flushed
<1>3. LatestVersion \in Nat /\ Versions = 1..LatestVersion
  BY DEF Inv, Dense
<1>4. /\ row \in Snapshot /\ row.version = LatestVersion + 1
      /\ row.content = refresh[c].read /\ row.forced = refresh[c].forced
  BY <1>1, <1>2, <1>3 DEF RowOf, Snapshot, Refresh
<1> HIDE DEF row
<1>5. snapshots' = snapshots \cup {row}
  BY <1>2 DEF Commit
<1>6. Versions' = 1..(LatestVersion + 1)
  <2>1. Versions' = Versions \cup {row.version}
    BY <1>5 DEF Versions
  <2> QED
    BY <1>3, <1>4, <2>1
<1>7. LatestVersion' = LatestVersion + 1
  <2>1. LatestVersion' = Max(Versions' \cup {0})
    BY DEF LatestVersion
  <2>2. LatestVersion + 1 \in Nat
    BY <1>3
  <2> QED
    BY <1>6, <2>1, <2>2, GreatestVersion
<1>8. \A s \in snapshots : s.version \in 1..LatestVersion
  BY <1>3 DEF Versions
<1> QED
  BY <1>4, <1>5, <1>6, <1>7, <1>8 DEF row

LEMMA CommitStep ==
    ASSUME Inv, NEW c \in Client, Commit(c)
    PROVE  Inv'
<1> DEFINE row == RowOf(refresh[c])
           r == [refresh[c] EXCEPT !.phase = "returned", !.written = {}]
<1>1. /\ row \in Snapshot /\ row.version = LatestVersion + 1
      /\ row.content = refresh[c].read /\ row.forced = refresh[c].forced
      /\ snapshots' = snapshots \cup {row}
      /\ LatestVersion' = LatestVersion + 1
      /\ Versions' = 1..LatestVersion'
      /\ \A s \in snapshots : s.version \in 1..LatestVersion
  BY NextVersion
<1>2. refresh[c] \in Refresh /\ Held(refresh[c]) /\ refresh[c].phase = "commit"
  BY RefreshIsHeld DEF Commit
<1>3. LatestVersion \in Nat
  BY DEF Inv, Dense
<1>4. refresh' = [refresh EXCEPT ![c] = r] /\ UNCHANGED environment
  BY DEF Commit, Become
<1>5. /\ r \in Refresh /\ r.phase = "returned" /\ r.read = refresh[c].read
      /\ r.since = refresh[c].since /\ r.base = refresh[c].base
      /\ r.written = {} /\ r.forced = refresh[c].forced
  BY <1>2 DEF Refresh
<1>6. refresh \in [Client -> Refresh]
  BY DEF Inv, TypeOK
<1>7. /\ refresh' \in [Client -> Refresh]
      /\ \A d \in Client : refresh'[d] = IF d = c THEN r ELSE refresh[d]
  BY <1>4, <1>5, <1>6
<1> HIDE DEF r, row
<1>8. TypeOK' /\ CountsBounded'
  <2>1. \A s \in snapshots' : s.content.processed + s.content.failed <= s.content.total
    BY <1>1, <1>2 DEF Held, AddsUp, Inv, TypeOK
  <2>2. snapshots' \subseteq Snapshot
    BY <1>1 DEF Inv, TypeOK
  <2> QED
    BY <1>4, <1>7, <2>1, <2>2 DEF Inv, TypeOK, CountsBounded, environment
<1>9. Dense'
  <2>1. ASSUME NEW s \in snapshots', NEW t \in snapshots', s.version = t.version
        PROVE  s = t
    BY <1>1, <1>3, <2>1 DEF Inv, Dense
  <2> QED
    BY <1>1, <1>3, <2>1 DEF Dense
<1>10. OneFlushed'
  BY <1>5, <1>7 DEF Inv, OneFlushed
<1>11. NoMeaninglessVersion'
  <2> SUFFICES ASSUME NEW s \in snapshots', NEW t \in snapshots',
                      t.version = s.version + 1, ~t.forced
               PROVE  t.content # s.content
    BY DEF NoMeaninglessVersion
  <2>1. CASE s \in snapshots /\ t \in snapshots
    BY <2>1 DEF Inv, NoMeaninglessVersion
  <2>2. CASE t = row
    <3>1. s \in snapshots /\ s.version = LatestVersion
      BY <1>1, <1>3, <2>2
    <3>2. refresh[c].base = LatestVersion
      BY <1>2 DEF Held, Flushed
    <3> QED
      BY <1>1, <1>2, <2>2, <3>1, <3>2 DEF Held, Answers
  <2>3. CASE s = row /\ t \in snapshots
    BY <1>1, <1>3, <2>3
  <2> QED
    BY <1>1, <2>1, <2>2, <2>3
<1>12. ASSUME NEW d \in Client PROVE Held(refresh[d])'
  <2>0. PICK q : q = refresh'[d]
    OBVIOUS
  <2>1. /\ Held(refresh[d]) /\ refresh[d] \in Refresh
        /\ q.read = refresh[d].read /\ q.since = refresh[d].since
        /\ q.base = refresh[d].base /\ q.forced = refresh[d].forced
        /\ q.phase = (IF d = c THEN "returned" ELSE refresh[d].phase)
        /\ q.written = (IF d = c THEN {} ELSE refresh[d].written)
    BY <1>5, <1>7, <2>0, RefreshIsHeld
  <2>2. q.phase # "commit"
    BY <1>2, <2>1 DEF Inv, OneFlushed
  <2>3. NotOlder(q)'
    BY <1>2, <1>4, <2>1 DEF Held, NotOlder, environment
  <2>4. AddsUp(q)'
    BY <1>2, <2>1 DEF Held, AddsUp
  <2>5. Flushed(q)'
    <3>1. q.base <= LatestVersion' /\ refresh[d].base \in Nat
      BY <1>1, <1>3, <2>1 DEF Held, Flushed, Refresh
    <3>2. q.written = {}
      BY <2>1, <2>2 DEF Held, Flushed
    <3> QED
      BY <2>2, <3>1, <3>2 DEF Flushed
  <2>6. Answers(q)'
    <3>1. ASSUME q.phase \in {"add", "insert", "commit"}, ~q.forced,
                 NEW s \in snapshots', s.version = q.base
          PROVE  s.content # q.read
      <4>1. refresh[d].base \in Nat /\ refresh[d].base <= LatestVersion
        BY <2>1 DEF Held, Flushed, Refresh
      <4>2. s \in snapshots
        BY <1>1, <1>3, <2>1, <3>1, <4>1
      <4> QED
        BY <2>1, <3>1, <4>2 DEF Held, Answers
    <3>2. ASSUME q.phase = "returned" PROVE \E s \in snapshots' : s.content = q.read
      BY <1>1, <2>1, <3>2 DEF Held, Answers
    <3> QED
      BY <3>1, <3>2 DEF Answers
  <2>7. Held(q)'
    BY <2>3, <2>4, <2>5, <2>6 DEF Held
  <2> QED
    BY <2>0, <2>7
    DEF Held, NotOlder, AddsUp, Flushed, Answers, RowOf
<1> QED
  BY <1>8, <1>9, <1>10, <1>11, <1>12 DEF Inv

-----------------------------------------------------------------------------
(* The invariant of the specification, and what follows from it.           *)

LEMMA InitHolds == Init => Inv
<1> SUFFICES ASSUME Init PROVE Inv
  OBVIOUS
<1>1. MaxEvents \in Nat /\ MaxRuns \in Nat /\ MaxChanges \in Nat
  BY ConstantAssumption
<1>2. MaxRuns * MaxEvents \in Nat
  BY <1>1, SMT
<1>3. Versions = 1..0 /\ LatestVersion = 0
  <2>1. Versions = {} /\ 1..0 = {}
    BY DEF Init, Versions
  <2> QED
    BY <2>1, GreatestVersion DEF LatestVersion
<1>4. Dense /\ NoMeaninglessVersion /\ OneFlushed
  BY <1>3 DEF Dense, NoMeaninglessVersion, OneFlushed, Init, Idle
<1>5. CountsBounded
  <2>1. 0 * MaxEvents = 0
    BY <1>1, SMT
  <2> QED
    BY <2>1 DEF CountsBounded, Init
<1>6. Idle \in Refresh
  <2>1. Nothing \in Content
    BY <1>1 DEF Nothing, Content
  <2> QED
    BY <1>1, <2>1 DEF Idle, Start, Refresh
<1>7. TypeOK
  BY <1>1, <1>2, <1>6 DEF Init, TypeOK, Count
<1>8. Held(Idle)
  BY <1>1, <1>3 DEF Held, NotOlder, AddsUp, Flushed, Answers, Idle, Start, Nothing, Init
<1>9. \A c \in Client : Held(refresh[c])
  BY <1>8 DEF Init
<1> QED
  BY <1>4, <1>5, <1>7, <1>9 DEF Inv

LEMMA NextKeeps == Inv /\ [Next]_vars => Inv'
<1> SUFFICES ASSUME Inv, [Next]_vars PROVE Inv'
  OBVIOUS
<1>1. CASE UNCHANGED vars
  <2>1. UNCHANGED <<events, runs, features, memories, snapshots, refresh>>
    BY <1>1 DEF vars
  <2>2. TypeOK' /\ CountsBounded'
    BY <2>1 DEF Inv, TypeOK, CountsBounded
  <2>3. events <= events' /\ memories <= memories'
    BY <2>1, ConstantAssumption DEF Inv, TypeOK
  <2> QED
    BY <2>1, <2>2, <2>3, EnvironmentStep
<1>2. CASE Others
  BY <1>2, OthersStep
<1>3. ASSUME NEW c \in Client, Crash(c) \/ Step(c) PROVE Inv'
  BY <1>3, ReturnStep, ReadMemoriesStep, ReadEventsStep, ReadRunsStep, ReadFeaturesStep,
     ReadLatestStep, AddStep, InsertStep, InsertLostStep, CommitStep
  DEF Step
<1>4. ASSUME NEW c \in Client, NEW forced \in BOOLEAN, Submit(c, forced) PROVE Inv'
  BY <1>4, SubmitStep
<1> QED
  BY <1>1, <1>2, <1>3, <1>4 DEF Next

\* The snapshots and what every refresh has read, in every reachable state:
\* refresh_profile with its retries and the unique version.
THEOREM InvHolds == Spec => []Inv
BY InitHolds, NextKeeps, PTL DEF Spec

\* Every variable has its type, and what a snapshot covers adds up, whatever
\* the runs have counted (_coverage_from_runs).
THEOREM ProfileTyped == Spec => []TypeOK
<1>1. Inv => TypeOK
  BY DEF Inv
<1> QED
  BY <1>1, InvHolds, PTL

\* A refresh that finds no change makes no new version, however many callers
\* refresh at the same time (refresh_profile against the unique version).
THEOREM VersionsAreMeaningful == Spec => []NoMeaninglessVersion
<1>1. Inv => NoMeaninglessVersion
  BY DEF Inv
<1> QED
  BY <1>1, InvHolds, PTL

\* A refresh answers with everything that was committed before it began, even
\* when it returns a snapshot it did not make (_build_snapshot, the digest).
THEOREM AnswersAreCurrent == Spec => []SeesEarlierWrites
<1>1. Inv => SeesEarlierWrites
  <2> SUFFICES ASSUME Inv, NEW c \in Client, refresh[c].phase = "returned"
               PROVE  \E s \in snapshots :
                          /\ s.content = refresh[c].read
                          /\ s.content.total >= refresh[c].since.events
                          /\ refresh[c].since.features \subseteq s.content.features
                          /\ s.content.memories >= refresh[c].since.memories
    BY DEF SeesEarlierWrites
  <2>1. refresh[c] \in Refresh /\ Held(refresh[c])
    BY RefreshIsHeld
  <2>2. PICK s \in snapshots : s.content = refresh[c].read
    BY <2>1 DEF Held, Answers
  <2>3. /\ refresh[c].since.events <= refresh[c].read.total
        /\ refresh[c].since.features \subseteq refresh[c].read.features
        /\ refresh[c].since.memories <= refresh[c].read.memories
    BY <2>1 DEF Held, NotOlder
  <2>4. /\ refresh[c].since.events \in Nat /\ refresh[c].since.memories \in Nat
        /\ refresh[c].read.total \in Nat /\ refresh[c].read.memories \in Nat
    BY <2>1, ConstantAssumption DEF Refresh, Content
  <2> QED
    BY <2>2, <2>3, <2>4
<1> QED
  BY <1>1, InvHolds, PTL

\* A published snapshot is never changed or removed, and a new one takes the
\* version after the latest (profiles.add and its unique constraint).
THEOREM VersionsOnlyGrow == Spec => VersionsGrow
<1> DEFINE Grows ==
      /\ snapshots \subseteq snapshots'
      /\ \A s \in snapshots' \ snapshots :
           /\ s.version = LatestVersion + 1
           /\ \A t \in snapshots' : t.version = s.version => t = s
<1>1. Inv /\ [Next]_vars => [Grows]_vars
  <2> SUFFICES ASSUME Inv, Next PROVE Grows
    BY DEF vars
  <2>1. ASSUME NEW c \in Client, Commit(c) PROVE Grows
    <3>1. PICK row \in Snapshot :
              /\ row.version = LatestVersion + 1
              /\ snapshots' = snapshots \cup {row}
              /\ \A s \in snapshots : s.version \in 1..LatestVersion
      BY <2>1, NextVersion
    <3>2. LatestVersion \in Nat
      BY DEF Inv, Dense
    <3> QED
      BY <3>1, <3>2
  <2>2. CASE snapshots' = snapshots
    BY <2>2
  <2>3. Others => snapshots' = snapshots
    BY DEF Others, Ingest, ProcessEvent, ProcessPending, Recorded, ProcessingFailed,
           ChangeMemories
  <2>4. ASSUME NEW c \in Client, Crash(c) \/ Step(c) \/ \E forced \in BOOLEAN : Submit(c, forced)
        PROVE  Commit(c) \/ snapshots' = snapshots
    BY <2>4 DEF Step, Crash, Submit, ReadMemories, ReadEvents, ReadRuns, ReadFeatures,
                ReadLatest, Add, Insert, InsertLost, Return, Kept
  <2> QED
    BY <2>1, <2>2, <2>3, <2>4 DEF Next
<1> QED
  BY <1>1, InvHolds, PTL DEF Spec, VersionsGrow
=============================================================================
