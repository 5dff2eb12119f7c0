--------------------------- MODULE FeatureEngine ----------------------------
(***************************************************************************)
(* The feature engine of one subject: application/feature_service.py over *)
(* the feature and run repositories.  Workers turn events into            *)
(* observations, then rebuild the state of every dimension they met from  *)
(* all observations of it, in one unit of work per event.  Workers may    *)
(* run different releases, with different extractors registered, and a    *)
(* worker that stops may be started again with another one.               *)
(*                                                                         *)
(* Each extractor yields one observation per event, each dimension has    *)
(* one value and one aggregator.  A state is the set of observations it   *)
(* was aggregated from, and {} while it has no row.                       *)
(***************************************************************************)
EXTENDS Naturals, Sequences, FiniteSets, SequencesExt, FiniteSetsExt

CONSTANTS
    Worker,         \* processes that run the engine
    Extractor,      \* (name, version) pairs
    Dimension,      \* numbered in the order of their names
    DimensionOf,    \* the dimension each extractor observes
    Release,        \* extractors registered together, in extractors_for's order
    Limit,          \* bound: the limits that callers give to process_pending
    MaxEvents,      \* bound: events stored
    MaxRuns         \* bound: processing runs started

ASSUME ConstantAssumption ==
    /\ Dimension \subseteq Nat
    /\ DimensionOf \in [Extractor -> Dimension]
    /\ Release \subseteq Seq(Extractor)
    /\ Limit \subseteq Nat \ {0} /\ MaxEvents \in Nat /\ MaxRuns \in Nat

VARIABLES
    events,         \* events 1..events are stored; the last is the newest
    observations,   \* committed observation rows
    states,         \* committed state of each dimension
    release,        \* what each worker runs
    runs,           \* processing run rows, in the order they started
    work            \* what each worker is doing

vars == <<events, observations, states, release, runs, work>>

Event == 1..MaxEvents
Operation == {"process_event", "process_pending", "rebuild_dimension"}

\* The unique columns of an observation row.
Identity == [event: Event, extractor: Extractor]
Observation == [of: Identity, writer: Worker]
State == [dimension: Dimension, from: SUBSET Identity]

\* release is not a column: history, what the run was started with.
Run == [operation: Operation, worker: Worker, release: Release, target: Nat,
        status: {"running", "succeeded", "failed"}, processed: Nat, failed: Nat]

\* rows and drafts are flushed but not committed.
Work == [phase: {"idle", "scan", "begin", "save", "insert", "list", "lookup",
                 "create", "overwrite", "waiting", "refused", "commit", "mark",
                 "record"},
         run: Nat, queue: Seq(Event), todo: Seq(Extractor), dims: SUBSET Dimension,
         view: SUBSET Identity, rows: SUBSET Observation, drafts: SUBSET State,
         processed: Nat, failed: Nat]

Idle == [phase |-> "idle", run |-> 0, queue |-> <<>>, todo |-> <<>>, dims |-> {},
         view |-> {}, rows |-> {}, drafts |-> {}, processed |-> 0, failed |-> 0]

Operates(w) == runs[work[w].run].operation
Become(w, k) == work' = [work EXCEPT ![w] = k]
Kept == UNCHANGED <<events, observations, states, release, runs>>

\* The unit of work is gone, and with it everything it flushed.
RolledBack(k) == [k EXCEPT !.rows = {}, !.drafts = {}, !.view = {}]

Identities(rows) == {o.of : o \in rows}
Stored == Identities(observations)

\* list_observations: committed rows and one's own flushed ones.
Listed(w, d) ==
    {i \in Stored \cup Identities(work[w].rows) : DimensionOf[i.extractor] = d}

\* The observation w makes of its event with its next extractor.
Draft(w) == [event |-> Head(work[w].queue), extractor |-> Head(work[w].todo)]

\* The draft is saved; the dimensions met are rebuilt after the last one.
Saved(k) == [k EXCEPT !.phase = IF Len(k.todo) = 1 THEN "list" ELSE "save",
                      !.todo = Tail(@)]

\* Mutant: the loop over the events runs once too often.
NextEventPastEnd(k) ==
    [RolledBack(k) EXCEPT !.queue = Tail(@), !.todo = <<>>, !.dims = {},
                          !.phase = IF k.queue = <<>> THEN "record" ELSE "begin"]

\* process_pending goes on with the next event in a new unit of work.
NextEvent(k) ==
    [RolledBack(k) EXCEPT !.queue = Tail(@), !.todo = <<>>, !.dims = {},
                          !.phase = IF Len(k.queue) = 1 THEN "record" ELSE "begin"]

\* An error leaves the unit of work.
Failed(w) ==
    IF Operates(w) = "process_pending"
    THEN NextEvent([work[w] EXCEPT !.failed = @ + 1])
    ELSE [RolledBack(work[w]) EXCEPT !.phase = "mark"]

\* Mutant: dimensions are rebuilt in the order the extractors met them.
DimensionAsMet(w, dims) ==
    DimensionOf[SelectSeq(release[w], LAMBDA x : DimensionOf[x] \in dims)[1]]

\* sorted(dimensions)
NextDimension(w, dims) == Min(dims)

Current(w) == NextDimension(w, work[w].dims)

\* The state row of the current dimension is flushed.
Written(k, d) ==
    [k EXCEPT !.drafts = @ \cup {[dimension |-> d, from |-> k.view]},
              !.dims = @ \ {d}, !.view = {}, !.phase = "list"]

-----------------------------------------------------------------------------
(* Rows that another unit of work has flushed make a statement wait.       *)

RowHolders(w) == {v \in Worker \ {w} : Draft(w) \in Identities(work[v].rows)}

StateHolders(w) ==
    {v \in Worker \ {w} : \E s \in work[v].drafts : s.dimension = Current(w)}

Blockers(w) ==
    CASE work[w].phase = "insert" -> RowHolders(w)
      [] work[w].phase \in {"create", "waiting"} -> StateHolders(w)
      [] OTHER -> {}

-----------------------------------------------------------------------------

\* Event ingestion stores a newer event, with its evidence.
Ingest ==
    /\ events < MaxEvents
    /\ events' = events + 1
    /\ UNCHANGED <<observations, states, release, runs, work>>

\* _start_run, in a unit of work of its own.
StartRun(w, operation, target, k) ==
    /\ work[w].phase = "idle"
    /\ Len(runs) < MaxRuns
    /\ runs' = Append(runs, [operation |-> operation, worker |-> w,
                             release |-> release[w], target |-> target,
                             status |-> "running", processed |-> 0, failed |-> 0])
    /\ Become(w, [k EXCEPT !.run = Len(runs) + 1])
    /\ UNCHANGED <<events, observations, states, release>>

ProcessEvent(w, e) ==
    StartRun(w, "process_event", e, [Idle EXCEPT !.phase = "begin", !.queue = <<e>>])

ProcessPending(w, limit) ==
    StartRun(w, "process_pending", limit, [Idle EXCEPT !.phase = "scan"])

RebuildDimension(w, d) ==
    StartRun(w, "rebuild_dimension", d, [Idle EXCEPT !.phase = "list", !.dims = {d}])

\* The newest events, whether they were processed before or not.
Scan(w) ==
    LET newest == [i \in 1..Min({events, runs[work[w].run].target}) |-> events + 1 - i]
    IN
    /\ work[w].phase = "scan"
    /\ Become(w, [work[w] EXCEPT !.queue = newest,
                                 !.phase = IF newest = <<>> THEN "record" ELSE "begin"])
    /\ Kept

\* _process_event_in_uow
Begin(w) ==
    LET e == Head(work[w].queue)
        extractors == release[w] IN
    /\ work[w].phase = "begin"
    /\ Become(w, IF e > events THEN Failed(w)
                 ELSE [work[w] EXCEPT
                        !.todo = extractors,
                        !.dims = {DimensionOf[x] : x \in Range(extractors)},
                        !.phase = IF extractors = <<>> THEN "list" ELSE "save"])
    /\ Kept

\* Mutant: a row that another unit of work has flushed counts as stored.
SaveDirty(w) ==
    /\ work[w].phase = "save"
    /\ Become(w, IF \E v \in Worker : Draft(w) \in Stored \cup Identities(work[v].rows)
                 THEN Saved(work[w])
                 ELSE [work[w] EXCEPT !.phase = "insert"])
    /\ Kept

\* _save_observation_idempotently: the lookup.
Save(w) ==
    /\ work[w].phase = "save"
    /\ Become(w, IF Draft(w) \in Stored \cup Identities(work[w].rows)
                 THEN Saved(work[w])
                 ELSE [work[w] EXCEPT !.phase = "insert"])
    /\ Kept

Insert(w) ==
    /\ work[w].phase = "insert"
    /\ Blockers(w) = {} /\ Draft(w) \notin Stored
    /\ Become(w, Saved([work[w] EXCEPT
                    !.rows = @ \cup {[of |-> Draft(w), writer |-> w]}]))
    /\ Kept

\* _flush rolls the session back before it raises; the error is swallowed,
\* the observation is found and the unit of work goes on, without the rows it
\* had flushed.
InsertLost(w) ==
    /\ work[w].phase = "insert"
    /\ Blockers(w) = {} /\ Draft(w) \in Stored
    /\ Become(w, Saved(RolledBack(work[w])))
    /\ Kept

\* Mutant: only committed observations are listed.
ListCommitted(w) ==
    LET view == {i \in Stored : DimensionOf[i.extractor] = Current(w)} IN
    /\ work[w].phase = "list"
    /\ Become(w, IF work[w].dims = {} THEN [work[w] EXCEPT !.phase = "commit"]
                 ELSE IF view = {} THEN [work[w] EXCEPT !.dims = @ \ {Current(w)}]
                 ELSE [work[w] EXCEPT !.view = view, !.phase = "lookup"])
    /\ Kept

\* Mutant: what was extracted from the event counts as stored.
ListExtracted(w) ==
    LET extracted == {[event |-> e, extractor |-> x] : e \in Range(work[w].queue),
                                                      x \in Range(release[w])}
        view == Listed(w, Current(w))
                    \cup {i \in extracted : DimensionOf[i.extractor] = Current(w)} IN
    /\ work[w].phase = "list"
    /\ Become(w, IF work[w].dims = {} THEN [work[w] EXCEPT !.phase = "commit"]
                 ELSE IF view = {} THEN [work[w] EXCEPT !.dims = @ \ {Current(w)}]
                 ELSE [work[w] EXCEPT !.view = view, !.phase = "lookup"])
    /\ Kept

\* The observations of the next dimension; without any it gets no state.
List(w) ==
    LET view == Listed(w, Current(w)) IN
    /\ work[w].phase = "list"
    /\ Become(w, IF work[w].dims = {} THEN [work[w] EXCEPT !.phase = "commit"]
                 ELSE IF view = {} THEN [work[w] EXCEPT !.dims = @ \ {Current(w)}]
                 ELSE [work[w] EXCEPT !.view = view, !.phase = "lookup"])
    /\ Kept

\* upsert_state: is there a row?
Lookup(w) ==
    /\ work[w].phase = "lookup"
    /\ Become(w, [work[w] EXCEPT
                    !.phase = IF states[Current(w)] = {} THEN "create" ELSE "overwrite"])
    /\ Kept

Create(w) ==
    /\ work[w].phase = "create"
    /\ Blockers(w) = {}
    /\ Become(w, IF states[Current(w)] = {} THEN Written(work[w], Current(w))
                                            ELSE Failed(w))
    /\ Kept

\* The row's evidence links are deleted, the row updated, the links inserted.
Overwrite(w) ==
    /\ work[w].phase = "overwrite"
    /\ Become(w, IF StateHolders(w) = {} THEN Written(work[w], Current(w))
                                         ELSE [work[w] EXCEPT !.phase = "waiting"])
    /\ Kept

\* The holder was rolled back.
Proceed(w) ==
    /\ work[w].phase = "waiting"
    /\ Blockers(w) = {}
    /\ Become(w, Written(work[w], Current(w)))
    /\ Kept

\* The holder committed: its evidence links were not there when the delete
\* began, and the inserts collide with them.
Refused(w) ==
    /\ work[w].phase = "refused"
    /\ Become(w, Failed(w))
    /\ Kept

\* The next extractor raises, or an aggregator, or what it returns is not valid.
Raise(w) ==
    /\ work[w].phase \in {"save", "lookup"}
    /\ Become(w, Failed(w))
    /\ Kept

\* Those who wait for a state row that w has flushed.
Waiters(w) ==
    {v \in Worker \ {w} : work[v].phase = "waiting" /\ w \in StateHolders(v)}

\* A single operation records its success in the same unit of work.
Commit(w) ==
    LET k == work[w]
        pending == Operates(w) = "process_pending" IN
    /\ k.phase = "commit"
    /\ observations' = observations \cup k.rows
    /\ states' = [d \in Dimension |->
                    IF \E s \in k.drafts : s.dimension = d
                    THEN (CHOOSE s \in k.drafts : s.dimension = d).from
                    ELSE states[d]]
    /\ runs' = IF pending THEN runs
               ELSE [runs EXCEPT ![k.run].status = "succeeded", ![k.run].processed =
                        IF Operates(w) = "process_event" THEN 1
                        ELSE Cardinality(UNION {s.from : s \in k.drafts})]
    /\ work' = [v \in Worker |->
                    IF v \in Waiters(w) THEN [work[v] EXCEPT !.phase = "refused"]
                    ELSE IF v # w THEN work[v]
                    ELSE IF pending THEN NextEvent([k EXCEPT !.processed = @ + 1])
                    ELSE Idle]
    /\ UNCHANGED <<events, release>>

\* _mark_failed, in a unit of work of its own.
Mark(w) ==
    /\ work[w].phase = "mark"
    /\ runs' = [runs EXCEPT ![work[w].run].status = "failed"]
    /\ Become(w, Idle)
    /\ UNCHANGED <<events, observations, states, release>>

\* process_pending records its counts.
Record(w) ==
    LET k == work[w] IN
    /\ k.phase = "record"
    /\ runs' = [runs EXCEPT ![k.run].status = IF k.failed = 0 THEN "succeeded" ELSE "failed",
                            ![k.run].processed = k.processed, ![k.run].failed = k.failed]
    /\ Become(w, Idle)
    /\ UNCHANGED <<events, observations, states, release>>

\* The process stops; its run stays as it is.  The one started in its place
\* may be of another release.
Crash(w) ==
    /\ work[w].phase # "idle"
    /\ Become(w, Idle)
    /\ \E r \in Release : release' = [release EXCEPT ![w] = r]
    /\ UNCHANGED <<events, observations, states, runs>>

Init ==
    /\ events = 0
    /\ observations = {}
    /\ states = [d \in Dimension |-> {}]
    /\ release \in [Worker -> Release]
    /\ runs = <<>>
    /\ work = [w \in Worker |-> Idle]

Step(w) ==
    \/ Scan(w) \/ Begin(w) \/ Save(w) \/ Insert(w) \/ InsertLost(w)
    \/ List(w) \/ Lookup(w) \/ Create(w) \/ Overwrite(w) \/ Proceed(w) \/ Refused(w)
    \/ Raise(w) \/ Commit(w) \/ Mark(w) \/ Record(w)

Request(w) ==
    \/ \E e \in Event : ProcessEvent(w, e)
    \/ \E limit \in Limit : ProcessPending(w, limit)
    \/ \E d \in Dimension : RebuildDimension(w, d)

Next == Ingest \/ \E w \in Worker : Request(w) \/ Step(w) \/ Crash(w)

Spec == Init /\ [][Next]_vars

\* The event loop runs every worker, and a row lock that is given up goes to
\* one of those who wait for it.
FairSpec == Spec /\ \A w \in Worker : SF_vars(Step(w))

-----------------------------------------------------------------------------

\* Every variable has its type; a worker has an event at hand while it
\* extracts, and its run is open until it ends.
TypeOK ==
    /\ events \in 0..MaxEvents
    /\ observations \subseteq Observation
    /\ states \in [Dimension -> SUBSET Identity]
    /\ release \in [Worker -> Release]
    /\ runs \in Seq(Run) /\ Len(runs) <= MaxRuns
    /\ work \in [Worker -> Work]
    /\ \A w \in Worker :
        /\ work[w].phase # "idle" => /\ work[w].run \in 1..Len(runs)
                                     /\ runs[work[w].run].status = "running"
        /\ work[w].phase \in {"begin", "save", "insert"} => work[w].queue # <<>>

\* plan.md:1076: every state can be traced to stored observations of its
\* dimension, also when a unit of work goes on after a rollback.
StatesTraceable ==
    \A d \in Dimension : \A i \in states[d] :
        i \in Stored /\ DimensionOf[i.extractor] = d

\* plan.md:499, 1286: once a worker has processed an event, the observations of
\* its release's extractors are stored, each once, whoever else processed it.
Observed(run) ==
    run.operation = "process_event" /\ run.status = "succeeded" =>
        \A x \in Range(run.release) :
            Cardinality({o \in observations :
                o.of = [event |-> run.target, extractor |-> x]}) = 1

SucceededIsObserved == \A n \in 1..Len(runs) : Observed(runs[n])

\* That much holds as long as all runs are of one release, whichever worker
\* loses a race, fails or is started again.
ReleaseIsObserved ==
    (\A m, n \in 1..Len(runs) : runs[m].release = runs[n].release) => SucceededIsObserved

\* A dimension's state is aggregated from all its observations, whatever
\* failed or crashed on the way, as long as one worker did all the runs.  (A
\* second one can list the observations before the first commits and write
\* after it.)
StatesCurrent ==
    (\A m, n \in 1..Len(runs) : runs[m].worker = runs[n].worker) =>
        \A d \in Dimension : states[d] = {i \in Stored : DimensionOf[i.extractor] = d}

\* Every operation ends, however it meets the others: extractors and dimensions
\* are handled in sorted order, so workers never wait for each other in a ring.
OperationsEnd == \A w \in Worker : work[w].phase # "idle" ~> work[w].phase = "idle"

\* plan.md:1062: process_pending takes up events that no run has processed.
Processed(e) == \E n \in 1..Len(runs) :
    runs[n].operation = "process_event" /\ runs[n].target = e /\ runs[n].status = "succeeded"

PendingAreUnprocessed ==
    [][\A w \in Worker :
        work[w].phase = "scan" /\ work'[w].phase = "begin"
            => \A e \in Range(work'[w].queue) : ~Processed(e)]_vars
=============================================================================
