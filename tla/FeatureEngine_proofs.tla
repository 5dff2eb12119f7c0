------------------------- MODULE FeatureEngine_proofs -------------------------
(***************************************************************************)
(* What TLAPS proves about FeatureEngine for every set of workers,        *)
(* extractors, dimensions and releases, and every bound.  A unit of work  *)
(* that goes on after a rollback keeps a state traceable because it lists *)
(* its observations afterwards; it keeps them complete only because       *)
(* whoever stored the colliding one has stored those of its whole release.*)
(***************************************************************************)
EXTENDS FeatureEngine, FiniteSetTheorems, WellFoundedInduction, TLAPS

OneWorker == \A m, n \in 1..Len(runs) : runs[m].worker = runs[n].worker
OneRelease == \A m, n \in 1..Len(runs) : runs[m].release = runs[n].release

\* The phases of _process_event_in_uow and of rebuild_dimension, and those of
\* them that rebuild a state.
Building == {"lookup", "create", "overwrite", "waiting", "refused"}
Working == {"save", "insert", "list", "commit"} \cup Building

\* An observation by its identity, and what k's draft, its dimension and its
\* list of observations are.
Of(e, x) == [event |-> e, extractor |-> x]
DraftOf(k) == Of(Head(k.queue), Head(k.todo))
ListedBy(k, d) == {i \in Stored \cup Identities(k.rows) : DimensionOf[i.extractor] = d}

\* A worker's run is its own, of its release, and open.
Bound(w, k) ==
    k.phase # "idle" =>
        /\ k.run \in 1..Len(runs) /\ runs[k.run].status = "running"
        /\ runs[k.run].worker = w /\ runs[k.run].release = release[w]

\* What its unit of work holds in each phase.
Laid(w, k) ==
    /\ k.phase \notin Working => k.rows = {} /\ k.drafts = {}
    /\ k.phase \in {"begin", "save", "insert"} => k.queue # <<>>
    /\ k.phase \in {"save", "insert"} =>
        /\ k.drafts = {} /\ k.todo # <<>>
        /\ Range(k.todo) \subseteq Range(release[w])
        /\ k.dims = {DimensionOf[x] : x \in Range(release[w])}
    /\ k.phase \in Working \ {"save", "insert"} => k.todo = <<>>
    /\ k.phase \in Building => k.dims # {}
    /\ k.phase \notin Building => k.view = {}
    /\ k.phase = "commit" => k.dims = {}

\* What it does is what its run is for.
Aimed(k) ==
    /\ k.phase \in Working \cup {"begin"} =>
        /\ runs[k.run].operation # "rebuild_dimension" => k.queue # <<>>
        /\ runs[k.run].operation = "process_event" => Head(k.queue) = runs[k.run].target
    /\ k.phase \in {"scan", "record"} => runs[k.run].operation = "process_pending"
    /\ k.phase \in {"begin", "save", "insert"} =>
        runs[k.run].operation # "rebuild_dimension"
    /\ k.phase # "idle" /\ runs[k.run].operation = "rebuild_dimension" => k.rows = {}

\* Its rows are its own, new, of its event and release, and of dimensions that
\* it has rebuilt or will.
Collected(w, k) ==
    /\ IsFiniteSet(Identities(k.rows))
    /\ \A o \in k.rows :
        /\ o.writer = w /\ o.of \notin Stored
        /\ o.of.event = Head(k.queue) /\ o.of.extractor \in Range(release[w])
        /\ DimensionOf[o.of.extractor] \in k.dims \cup {s.dimension : s \in k.drafts}

\* The observation that it inserts is none of them.
Missing(k) == k.phase = "insert" => DraftOf(k) \notin Identities(k.rows)

\* Its states come from the observations there are, and from all of them as
\* long as no other worker is there.
Aggregated(k) ==
    /\ \A s \in k.drafts :
        /\ s.from \subseteq ListedBy(k, s.dimension)
        /\ OneWorker => ListedBy(k, s.dimension) \subseteq s.from
    /\ k.phase \in Building =>
        /\ k.view \subseteq ListedBy(k, Min(k.dims))
        /\ OneWorker => ListedBy(k, Min(k.dims)) \subseteq k.view

\* As long as all runs are of one release, its event's observations are there
\* but for those of the extractors that come next.
Extracted(w, k) ==
    OneRelease /\ k.phase \in Working /\ runs[k.run].operation # "rebuild_dimension" =>
        \A x \in Range(release[w]) :
            x \in Range(k.todo) \/ Of(Head(k.queue), x) \in Stored \cup Identities(k.rows)

Held(w, k) ==
    /\ Bound(w, k) /\ Laid(w, k) /\ Aimed(k) /\ Missing(k)
    /\ Collected(w, k) /\ Aggregated(k) /\ Extracted(w, k)

\* No two workers have flushed the same observation: the unique index.
Disjoint ==
    \A v, w \in Worker : v # w =>
        Identities(work[v].rows) \cap Identities(work[w].rows) = {}

\* An event has the observations of a whole release or none of them.
WholeRelease ==
    \A n \in 1..Len(runs) : \A x, y \in Range(runs[n].release), e \in Event :
        Of(e, x) \in Stored => Of(e, y) \in Stored

Succeeded ==
    \A n \in 1..Len(runs) :
        runs[n].operation = "process_event" /\ runs[n].status = "succeeded" =>
            \A x \in Range(runs[n].release) : Of(runs[n].target, x) \in Stored

\* What is committed.
Committed ==
    /\ IsFiniteSet(Stored) /\ StatesTraceable
    /\ \A o, p \in observations : o.of = p.of => o = p
    /\ runs = <<>> => observations = {}
    /\ OneWorker => \A d \in Dimension :
                        {i \in Stored : DimensionOf[i.extractor] = d} \subseteq states[d]
    /\ OneRelease => WholeRelease /\ Succeeded

\* The inductive invariant.
Inv ==
    /\ TypeOK /\ Committed /\ Disjoint
    /\ \A w \in Worker : Held(w, work[w])

-----------------------------------------------------------------------------
(* The operators the model is built from.                                  *)

\* A set of numbers that is not empty has its least one.
LEMMA LeastIsThere ==
    ASSUME NEW S \in SUBSET Nat, S # {}
    PROVE  Min(S) \in S
<1>1. PICK R : R = OpToRel(<, Nat)
  OBVIOUS
<1>2. IsWellFoundedOn(R, Nat)
  BY <1>1, NatLessThanWellFounded, Zenon
<1>3. \A x, y \in Nat : x < y => <<x, y>> \in R
  BY <1>1 DEF OpToRel
<1>4. PICK x \in S : \A y \in S : <<y, x>> \notin R
  BY <1>2, WFMin, Zenon
<1>5. \A y \in S : x \in Nat /\ y \in Nat /\ ~(y < x)
  BY <1>3, <1>4
<1>6. \A y \in S : x <= y
  BY <1>5
<1>7. QED
  BY <1>6 DEF Min

\* The lesser of two numbers is one of them, and above neither.
LEMMA LesserOfTwo ==
    ASSUME NEW a \in Nat, NEW b \in Nat
    PROVE  Min({a, b}) \in Nat /\ Min({a, b}) <= a
<1>1. \E x \in {a, b} : \A y \in {a, b} : x <= y
  OBVIOUS
<1>2. QED
  BY <1>1 DEF Min

\* A list is its head and the rest.
LEMMA RangeOfList ==
    ASSUME NEW S, NEW s \in Seq(S), s # <<>>
    PROVE  /\ Head(s) \in S /\ Tail(s) \in Seq(S)
           /\ Range(s) = {Head(s)} \cup Range(Tail(s))
           /\ (Len(s) = 1) <=> (Tail(s) = <<>>)
<1>1. /\ Len(s) \in Nat \ {0} /\ Len(Tail(s)) = Len(s) - 1 /\ Head(s) = s[1]
      /\ DOMAIN s = 1..Len(s) /\ DOMAIN Tail(s) = 1..Len(Tail(s))
  OBVIOUS
<1>2. \A i \in 1..Len(Tail(s)) : Tail(s)[i] = s[i + 1]
  OBVIOUS
<1>3. ASSUME NEW i \in 1..Len(s) PROVE s[i] \in {Head(s)} \cup Range(Tail(s))
  <2>1. CASE i = 1
    BY <1>1, <2>1
  <2>2. CASE i # 1
    <3>1. i - 1 \in 1..Len(Tail(s)) /\ Tail(s)[i - 1] = s[i]
      BY <1>1, <1>2, <2>2
    <3>2. QED
      BY <1>1, <3>1 DEF Range
  <2>3. QED
    BY <2>1, <2>2
<1>4. Range(Tail(s)) \subseteq Range(s) /\ Head(s) \in Range(s)
  BY <1>1, <1>2 DEF Range
<1>5. Range(s) \subseteq {Head(s)} \cup Range(Tail(s))
  BY <1>1, <1>3 DEF Range
<1>6. Tail(s) \in Seq(S) /\ Head(s) \in S
  OBVIOUS
<1>7. (Len(s) = 1) <=> (Tail(s) = <<>>)
  <2>1. \A q \in Seq(S) : (Len(q) = 0) <=> (q = <<>>)
    OBVIOUS
  <2>2. (Len(Tail(s)) = 0) <=> (Tail(s) = <<>>)
    BY <1>6, <2>1
  <2>3. QED
    BY <1>1, <2>2
<1>8. QED
  BY <1>4, <1>5, <1>6, <1>7

\* An empty list has no elements.
LEMMA RangeOfEmpty == Range(<<>>) = {}
BY DEF Range

LEMMA IdleIsWork == Idle \in Work
BY DEF Idle, Work

\* An extractor is of a release, and observes a dimension.
LEMMA ReleaseExtractors ==
    ASSUME NEW r \in Release
    PROVE  /\ r \in Seq(Extractor)
           /\ \A x \in Range(r) : x \in Extractor /\ DimensionOf[x] \in Dimension
<1>1. r \in Seq(Extractor) /\ DimensionOf \in [Extractor -> Dimension]
  BY ConstantAssumption
<1>2. \A x \in Range(r) : x \in Extractor
  BY <1>1 DEF Range
<1>3. QED
  BY <1>1, <1>2

LEMMA RolledBackFields ==
    ASSUME NEW k \in Work
    PROVE  LET r == RolledBack(k) IN
           /\ r \in Work /\ r.rows = {} /\ r.drafts = {} /\ r.view = {}
           /\ r.phase = k.phase /\ r.run = k.run /\ r.queue = k.queue
           /\ r.todo = k.todo /\ r.dims = k.dims
BY DEF RolledBack, Work

LEMMA SavedFields ==
    ASSUME NEW k \in Work, k.todo # <<>>
    PROVE  LET r == Saved(k) IN
           /\ r \in Work /\ r.run = k.run /\ r.queue = k.queue /\ r.dims = k.dims
           /\ r.rows = k.rows /\ r.drafts = k.drafts /\ r.view = k.view
           /\ r.todo = Tail(k.todo)
           /\ r.phase = IF r.todo = <<>> THEN "list" ELSE "save"
<1>1. k.todo \in Seq(Extractor)
  BY DEF Work
<1>2. PICK todo \in Seq(Extractor) : todo = Tail(k.todo) /\ (Len(k.todo) = 1 <=> todo = <<>>)
  BY <1>1, RangeOfList
<1>3. PICK phase \in {"list", "save"} : phase = IF Len(k.todo) = 1 THEN "list" ELSE "save"
  OBVIOUS
<1>4. PICK r : r = [k EXCEPT !.phase = phase, !.todo = todo]
  OBVIOUS
<1>5. /\ r \in Work /\ r.run = k.run /\ r.queue = k.queue /\ r.dims = k.dims
      /\ r.rows = k.rows /\ r.drafts = k.drafts /\ r.view = k.view
      /\ r.todo = todo /\ r.phase = phase
  BY <1>4 DEF Work
<1>6. Saved(k) = r
  BY <1>2, <1>3, <1>4 DEF Saved
<1>7. QED
  BY <1>2, <1>3, <1>5, <1>6

\* An event is left: nothing is flushed, and the next one begins.
Left(k, r) ==
    /\ r \in Work /\ r.run = k.run /\ r.rows = {} /\ r.drafts = {} /\ r.view = {}
    /\ \/ r.phase = "begin" /\ r.queue # <<>>
       \/ r.phase = "record"

LEMMA NextEventLeaves ==
    ASSUME NEW k \in Work, k.queue # <<>>
    PROVE  Left(k, NextEvent(k))
<1>1. k.queue \in Seq(Event)
  BY DEF Work
<1>2. PICK queue \in Seq(Event) : queue = Tail(k.queue) /\ (Len(k.queue) = 1 <=> queue = <<>>)
  BY <1>1, RangeOfList
<1>3. PICK phase \in {"record", "begin"} :
        phase = IF Len(k.queue) = 1 THEN "record" ELSE "begin"
  OBVIOUS
<1>4. PICK b : b = RolledBack(k)
  OBVIOUS
<1>5. /\ b \in Work /\ b.run = k.run /\ b.queue = k.queue
      /\ b.rows = {} /\ b.drafts = {} /\ b.view = {}
  BY <1>4, RolledBackFields
<1>6. PICK r : r = [b EXCEPT !.queue = queue, !.todo = <<>>, !.dims = {}, !.phase = phase]
  OBVIOUS
<1>7. /\ r \in Work /\ r.run = b.run /\ r.queue = queue /\ r.phase = phase
      /\ r.rows = b.rows /\ r.drafts = b.drafts /\ r.view = b.view
  <2>1. <<>> \in Seq(Extractor)
    OBVIOUS
  <2>2. QED
    BY <1>5, <1>6, <2>1 DEF Work
<1>8. NextEvent(k) = r
  BY <1>2, <1>3, <1>4, <1>5, <1>6 DEF NextEvent
<1>9. QED
  BY <1>2, <1>3, <1>5, <1>7, <1>8 DEF Left

LEMMA WrittenFields ==
    ASSUME NEW k \in Work, NEW d \in Dimension
    PROVE  LET r == Written(k, d) IN
           /\ r \in Work /\ r.run = k.run /\ r.queue = k.queue /\ r.todo = k.todo
           /\ r.rows = k.rows /\ r.view = {} /\ r.phase = "list"
           /\ r.dims = k.dims \ {d}
           /\ \E s \in State : /\ s.dimension = d /\ s.from = k.view
                               /\ r.drafts = k.drafts \cup {s}
<1>1. PICK s \in State :
        s = [dimension |-> d, from |-> k.view] /\ s.dimension = d /\ s.from = k.view
  <2>1. k.view \in SUBSET Identity
    BY DEF Work
  <2>2. [dimension |-> d, from |-> k.view] \in State
    BY <2>1 DEF State
  <2>3. QED
    BY <2>2
<1>2. PICK drafts \in SUBSET State : drafts = k.drafts \cup {s}
  BY DEF Work
<1>3. PICK dims \in SUBSET Dimension : dims = k.dims \ {d}
  BY DEF Work
<1>4. PICK r : r = [k EXCEPT !.drafts = drafts, !.dims = dims, !.view = {}, !.phase = "list"]
  OBVIOUS
<1>5. /\ r \in Work /\ r.run = k.run /\ r.queue = k.queue /\ r.todo = k.todo
      /\ r.rows = k.rows /\ r.view = {} /\ r.phase = "list"
      /\ r.dims = dims /\ r.drafts = drafts
  BY <1>4 DEF Work
<1>6. Written(k, d) = r
  BY <1>1, <1>2, <1>3, <1>4 DEF Written
<1>7. QED
  BY <1>1, <1>2, <1>3, <1>5, <1>6

-----------------------------------------------------------------------------
(* Frames: a step of one worker that commits nothing.                      *)

\* What a worker is known to be doing.
LEMMA WorkIsHeld ==
    ASSUME Inv, NEW w \in Worker
    PROVE  work[w] \in Work /\ Held(w, work[w])
BY DEF Inv, TypeOK

\* What is committed stays as it is until a run starts, commits or ends.
LEMMA CommittedStays ==
    ASSUME Committed, UNCHANGED <<observations, states, runs>>
    PROVE  Committed'
<1>1. Stored' = Stored
  BY DEF Stored
<1>2. (OneWorker' <=> OneWorker) /\ (OneRelease' <=> OneRelease)
  BY DEF OneWorker, OneRelease
<1>3. (WholeRelease' <=> WholeRelease) /\ (Succeeded' <=> Succeeded)
  BY <1>1 DEF WholeRelease, Succeeded
<1>4. StatesTraceable'
  BY <1>1 DEF Committed, StatesTraceable
<1>5. QED
  BY <1>1, <1>2, <1>3, <1>4 DEF Committed

\* What a worker holds after a step, by what its work is then.
LEMMA HeldAfter ==
    ASSUME NEW w, NEW k, work'[w] = k, Held(w, k)'
    PROVE  Held(w, work[w])'
<1>1. Bound(w, work[w])' /\ Laid(w, work[w])' /\ Missing(work[w])'
  BY DEF Held, Bound, Laid, Missing, DraftOf
<1>2. Aimed(work[w])'
  BY DEF Held, Aimed
<1>3. Collected(w, work[w])'
  BY DEF Held, Collected
<1>4. Aggregated(work[w])'
  BY DEF Held, Aggregated, ListedBy
<1>5. Extracted(w, work[w])'
  BY DEF Held, Extracted
<1>6. QED
  BY <1>1, <1>2, <1>3, <1>4, <1>5 DEF Held

LEMMA WorkStep ==
    ASSUME Inv, Kept, NEW w \in Worker, NEW k \in Work, Become(w, k), Held(w, k),
           \A v \in Worker \ {w} : Identities(k.rows) \cap Identities(work[v].rows) = {}
    PROVE  Inv'
<1>1. /\ work' = [work EXCEPT ![w] = k]
      /\ UNCHANGED <<events, observations, states, release, runs>>
  BY DEF Become, Kept
<1>2. /\ work' \in [Worker -> Work]
      /\ \A v \in Worker : work'[v] = IF v = w THEN k ELSE work[v]
  BY <1>1 DEF Inv, TypeOK
<1>3. \A v \in Worker : Held(v, work'[v])
  BY <1>2 DEF Inv
<1>4. ASSUME NEW v \in Worker PROVE Held(v, work[v])'
  <2>1. PICK a : a = work'[v] /\ Held(v, a)
    BY <1>3
  <2>2. Bound(v, a)' /\ Laid(v, a)' /\ Aimed(a)' /\ Missing(a)'
    BY <1>1, <2>1 DEF Held, Bound, Laid, Aimed, Missing, DraftOf
  <2>3. Collected(v, a)'
    BY <1>1, <2>1 DEF Held, Collected, Stored
  <2>4. Aggregated(a)'
    BY <1>1, <2>1 DEF Held, Aggregated, ListedBy, Stored, OneWorker
  <2>5. Extracted(v, a)'
    BY <1>1, <2>1 DEF Held, Extracted, Stored, OneRelease
  <2>6. Held(v, a)'
    BY <2>2, <2>3, <2>4, <2>5 DEF Held
  <2>7. QED
    BY <2>1, <2>6, HeldAfter
<1>5. TypeOK'
  <2>1. ASSUME NEW v \in Worker
        PROVE  /\ work'[v].phase # "idle" => /\ work'[v].run \in 1..Len(runs)
                                             /\ runs[work'[v].run].status = "running"
               /\ work'[v].phase \in {"begin", "save", "insert"} => work'[v].queue # <<>>
    BY <1>3 DEF Held, Bound, Laid
  <2>2. QED
    BY <1>1, <1>2, <2>1 DEF Inv, TypeOK
<1>6. Committed'
  BY <1>1, CommittedStays DEF Inv
<1>7. Disjoint'
  BY <1>2 DEF Inv, Disjoint
<1>8. QED
  BY <1>4, <1>5, <1>6, <1>7 DEF Inv

\* A worker that goes on with what it has flushed, or less.
LEMMA MoveStep ==
    ASSUME Inv, Kept, NEW w \in Worker, NEW k \in Work, Become(w, k), Held(w, k),
           k.rows \subseteq work[w].rows
    PROVE  Inv'
<1>1. \A v \in Worker \ {w} : Identities(work[w].rows) \cap Identities(work[v].rows) = {}
  BY DEF Inv, Disjoint
<1>2. Identities(k.rows) \subseteq Identities(work[w].rows)
  BY DEF Identities
<1>3. QED
  BY <1>1, <1>2, WorkStep

\* A worker outside of a unit of work holds nothing that could be wrong.
LEMMA EmptyIsHeld ==
    ASSUME NEW w, NEW k \in Work, k.phase \notin Working, Bound(w, k), Aimed(k),
           k.rows = {}, k.drafts = {}, k.view = {}, k.phase = "begin" => k.queue # <<>>
    PROVE  Held(w, k)
<1>1. Laid(w, k)
  BY DEF Laid, Working, Building
<1>2. Identities(k.rows) = {} /\ IsFiniteSet({})
  BY FS_EmptySet DEF Identities
<1>3. Missing(k) /\ Collected(w, k)
  BY <1>2 DEF Missing, Collected
<1>4. Aggregated(k) /\ Extracted(w, k)
  BY DEF Aggregated, Extracted, Working
<1>5. QED
  BY <1>1, <1>3, <1>4 DEF Held

\* The next event of process_pending, or its end.
LEMMA LeaveStep ==
    ASSUME Inv, Kept, NEW w \in Worker, work[w].phase # "idle", NEW k, k.run = work[w].run,
           NEW r, Left(k, r), Operates(w) = "process_pending", Become(w, r)
    PROVE  Inv'
<1>1. r \in Work /\ r.phase \notin Working /\ r.rows = {} /\ r.drafts = {} /\ r.view = {}
  BY DEF Left, Working, Building
<1>2. Bound(w, r)
  BY WorkIsHeld DEF Left, Held, Bound
<1>3. Aimed(r) /\ (r.phase = "begin" => r.queue # <<>>)
  BY DEF Left, Aimed, Operates, Working, Building
<1>4. Held(w, r)
  BY <1>1, <1>2, <1>3, EmptyIsHeld
<1>5. QED
  BY <1>1, <1>4, MoveStep

\* An error leaves the unit of work, and the event or the operation.
LEMMA FailStep ==
    ASSUME Inv, Kept, NEW w \in Worker, work[w].phase \in Working \cup {"begin"},
           Become(w, Failed(w))
    PROVE  Inv'
<1>1. PICK k \in Work : k = work[w] /\ Held(w, k)
  BY WorkIsHeld
<1>2. k.phase # "idle" /\ k.phase \in Working \cup {"begin"}
  BY <1>1 DEF Working, Building
<1>3. CASE Operates(w) = "process_pending"
  <2>1. k.queue # <<>>
    BY <1>1, <1>2, <1>3 DEF Held, Aimed, Operates
  <2>2. PICK n \in Nat : n = k.failed + 1
    BY DEF Work
  <2>3. PICK l : l = [k EXCEPT !.failed = n]
    OBVIOUS
  <2>4. l \in Work /\ l.queue = k.queue /\ l.run = k.run
    BY <2>3 DEF Work
  <2>5. Left(l, NextEvent(l))
    BY <2>1, <2>4, NextEventLeaves
  <2>6. Become(w, NextEvent(l))
    BY <1>1, <1>3, <2>2, <2>3 DEF Failed
  <2>7. QED
    BY <1>1, <1>2, <1>3, <2>4, <2>5, <2>6, LeaveStep
<1>4. CASE Operates(w) # "process_pending"
  <2>1. PICK b : b = RolledBack(k)
    OBVIOUS
  <2>2. b \in Work /\ b.rows = {} /\ b.drafts = {} /\ b.view = {} /\ b.run = k.run
    BY <2>1, RolledBackFields
  <2>3. PICK r : r = [b EXCEPT !.phase = "mark"]
    OBVIOUS
  <2>4. /\ r \in Work /\ r.rows = {} /\ r.drafts = {} /\ r.view = {} /\ r.run = k.run
        /\ r.phase = "mark"
    BY <2>2, <2>3 DEF Work
  <2>5. Become(w, r)
    BY <1>1, <1>4, <2>1, <2>3 DEF Failed
  <2>6. Bound(w, r) /\ Aimed(r)
    BY <1>1, <1>2, <2>4 DEF Held, Bound, Aimed, Working, Building
  <2>7. r.phase \notin Working
    BY <2>4 DEF Working, Building
  <2>8. Held(w, r)
    BY <2>4, <2>6, <2>7, EmptyIsHeld
  <2>9. QED
    BY <2>4, <2>5, <2>8, MoveStep
<1>5. QED
  BY <1>3, <1>4

-----------------------------------------------------------------------------
(* The steps of one worker that commit nothing.                            *)

\* process_pending lists the newest events.
LEMMA ScanStep ==
    ASSUME Inv, NEW w \in Worker, Scan(w)
    PROVE  Inv'
<1>1. PICK k \in Work : k = work[w] /\ Held(w, k) /\ k.phase = "scan"
  BY WorkIsHeld DEF Scan
<1>2. /\ k.run \in 1..Len(runs) /\ runs[k.run].operation = "process_pending"
      /\ k.rows = {} /\ k.drafts = {} /\ k.view = {}
  BY <1>1 DEF Held, Bound, Aimed, Laid, Working, Building
<1>3. runs[k.run].target \in Nat /\ events \in Nat /\ events <= MaxEvents
  <2>1. runs \in Seq(Run) /\ events \in 0..MaxEvents /\ MaxEvents \in Nat
    BY ConstantAssumption DEF Inv, TypeOK
  <2>2. runs[k.run] \in Run
    BY <1>2, <2>1
  <2>3. QED
    BY <2>1, <2>2 DEF Run
<1>4. PICK n \in Nat : n = Min({events, runs[k.run].target}) /\ n <= events
  BY <1>3, LesserOfTwo
<1>5. PICK newest : newest = [i \in 1..n |-> events + 1 - i]
  OBVIOUS
<1>6. newest \in Seq(Event)
  <2>1. \A i \in 1..n : events + 1 - i \in Event
    BY <1>3, <1>4, ConstantAssumption DEF Event
  <2>2. QED
    BY <1>5, <2>1
<1>7. PICK phase \in {"record", "begin"} : phase = IF newest = <<>> THEN "record" ELSE "begin"
  OBVIOUS
<1>8. PICK r : r = [k EXCEPT !.queue = newest, !.phase = phase]
  OBVIOUS
<1>9. /\ r \in Work /\ r.queue = newest /\ r.phase = phase /\ r.run = k.run
      /\ r.rows = k.rows /\ r.drafts = k.drafts /\ r.view = k.view
  BY <1>6, <1>8 DEF Work
<1>10. Left(k, r)
  BY <1>2, <1>7, <1>9 DEF Left
<1>11. Become(w, r) /\ Kept
  BY <1>1, <1>4, <1>5, <1>7, <1>8 DEF Scan
<1>12. QED
  BY <1>1, <1>2, <1>10, <1>11, LeaveStep DEF Operates

\* The extractors of the worker's release, and the dimensions they observe.
LEMMA BeginStep ==
    ASSUME Inv, NEW w \in Worker, Begin(w)
    PROVE  Inv'
<1>1. PICK k \in Work : k = work[w] /\ Held(w, k) /\ k.phase = "begin"
  BY WorkIsHeld DEF Begin
<1>2. CASE Head(k.queue) > events
  <2>1. Become(w, Failed(w)) /\ Kept
    BY <1>1, <1>2 DEF Begin
  <2>2. QED
    BY <1>1, <2>1, FailStep
<1>3. CASE ~(Head(k.queue) > events)
  <2>1. PICK todo \in Release : todo = release[w] /\ todo \in Seq(Extractor)
    BY ReleaseExtractors DEF Inv, TypeOK
  <2>2. PICK dims \in SUBSET Dimension : dims = {DimensionOf[x] : x \in Range(todo)}
    BY ReleaseExtractors
  <2>3. PICK phase \in {"list", "save"} : phase = IF todo = <<>> THEN "list" ELSE "save"
    OBVIOUS
  <2>4. PICK r : r = [k EXCEPT !.todo = todo, !.dims = dims, !.phase = phase]
    OBVIOUS
  <2>5. /\ r \in Work /\ r.todo = todo /\ r.dims = dims /\ r.phase = phase
        /\ r.run = k.run /\ r.queue = k.queue
        /\ r.rows = k.rows /\ r.drafts = k.drafts /\ r.view = k.view
    BY <2>1, <2>4 DEF Work
  <2>6. Become(w, r) /\ Kept
    BY <1>1, <1>3, <2>1, <2>2, <2>3, <2>4 DEF Begin
  <2>7. k.rows = {} /\ k.drafts = {} /\ k.view = {} /\ k.queue # <<>>
    BY <1>1 DEF Held, Laid, Working, Building
  <2>8. Bound(w, r) /\ Aimed(r) /\ Missing(r)
    BY <1>1, <2>3, <2>5 DEF Held, Bound, Aimed, Missing, Working, Building
  <2>9. Laid(w, r)
    BY <2>1, <2>2, <2>3, <2>5, <2>7 DEF Laid, Working, Building
  <2>10. Collected(w, r) /\ Aggregated(r)
    <3>1. Identities(r.rows) = {} /\ IsFiniteSet({})
      BY <2>5, <2>7, FS_EmptySet DEF Identities
    <3>2. QED
      BY <2>3, <2>5, <2>7, <3>1 DEF Collected, Aggregated, Building
  <2>11. Extracted(w, r)
    BY <2>1, <2>5 DEF Extracted
  <2>12. QED
    BY <1>1, <2>5, <2>6, <2>8, <2>9, <2>10, <2>11, MoveStep DEF Held
<1>4. QED
  BY <1>2, <1>3

\* What a worker is known to be saving.
LEMMA DraftIsNext ==
    ASSUME Inv, NEW w \in Worker, NEW k \in Work, k.phase \in {"save", "insert"}, Laid(w, k)
    PROVE  /\ DraftOf(k) \in Identity /\ Head(k.queue) \in Event
           /\ Head(k.todo) \in Range(release[w])
           /\ DraftOf(k).event = Head(k.queue) /\ DraftOf(k).extractor = Head(k.todo)
           /\ DimensionOf[Head(k.todo)] \in k.dims
           /\ Range(k.todo) = {Head(k.todo)} \cup Range(Tail(k.todo))
<1>1. /\ k.queue \in Seq(Event) /\ k.queue # <<>> /\ k.todo \in Seq(Extractor)
      /\ k.todo # <<>> /\ Range(k.todo) \subseteq Range(release[w])
      /\ k.dims = {DimensionOf[x] : x \in Range(release[w])}
  BY DEF Laid, Work
<1>2. Head(k.queue) \in Event /\ Head(k.todo) \in Extractor
  BY <1>1, RangeOfList
<1>3. Range(k.todo) = {Head(k.todo)} \cup Range(Tail(k.todo))
  BY <1>1, RangeOfList
<1>4. QED
  BY <1>1, <1>2, <1>3 DEF DraftOf, Of, Identity

\* An observation that is there is done.
LEMMA SavedIsHeld ==
    ASSUME Inv, NEW w \in Worker, NEW k \in Work, k.phase \in {"save", "insert"},
           Bound(w, k), Laid(w, k), Aimed(k), Collected(w, k), Extracted(w, k),
           DraftOf(k) \in Stored \cup Identities(k.rows)
    PROVE  Saved(k) \in Work /\ Held(w, Saved(k)) /\ Saved(k).rows = k.rows
<1>1. /\ k.todo # <<>> /\ k.drafts = {} /\ k.view = {} /\ k.queue # <<>>
      /\ Range(k.todo) \subseteq Range(release[w])
      /\ k.dims = {DimensionOf[x] : x \in Range(release[w])}
  BY DEF Laid, Building
<1>2. PICK r : r = Saved(k)
  OBVIOUS
<1>3. /\ r \in Work /\ r.run = k.run /\ r.queue = k.queue /\ r.dims = k.dims
      /\ r.rows = k.rows /\ r.drafts = k.drafts /\ r.view = k.view
      /\ r.todo = Tail(k.todo)
      /\ r.phase = IF r.todo = <<>> THEN "list" ELSE "save"
  BY <1>1, <1>2, SavedFields
<1>4. /\ Range(k.todo) = {Head(k.todo)} \cup Range(r.todo)
      /\ DraftOf(k) = Of(Head(k.queue), Head(k.todo))
  BY <1>3, DraftIsNext DEF DraftOf
<1>5. Bound(w, r) /\ Aimed(r) /\ Missing(r)
  BY <1>1, <1>3 DEF Bound, Aimed, Missing, Working, Building
<1>6. Laid(w, r)
  BY <1>1, <1>3, <1>4 DEF Laid, Working, Building
<1>7. Collected(w, r) /\ Aggregated(r)
  BY <1>1, <1>3 DEF Collected, Aggregated, Building
<1>8. Extracted(w, r)
  BY <1>3, <1>4 DEF Extracted, Working
<1>9. QED
  BY <1>2, <1>3, <1>5, <1>6, <1>7, <1>8 DEF Held

LEMMA SaveStep ==
    ASSUME Inv, NEW w \in Worker, Save(w)
    PROVE  Inv'
<1>1. PICK k \in Work : k = work[w] /\ Held(w, k) /\ k.phase = "save"
  BY WorkIsHeld DEF Save
<1>2. Draft(w) = DraftOf(k)
  BY <1>1 DEF Draft, DraftOf, Of
<1>3. CASE DraftOf(k) \in Stored \cup Identities(k.rows)
  <2>1. Become(w, Saved(k)) /\ Kept
    BY <1>1, <1>2, <1>3 DEF Save
  <2>2. Saved(k) \in Work /\ Held(w, Saved(k)) /\ Saved(k).rows = k.rows
    BY <1>1, <1>3, SavedIsHeld DEF Held
  <2>3. QED
    BY <1>1, <2>1, <2>2, MoveStep
<1>4. CASE DraftOf(k) \notin Stored \cup Identities(k.rows)
  <2>1. PICK r : r = [k EXCEPT !.phase = "insert"]
    OBVIOUS
  <2>2. /\ r \in Work /\ r.phase = "insert" /\ r.run = k.run /\ r.queue = k.queue
        /\ r.todo = k.todo /\ r.dims = k.dims /\ r.view = k.view
        /\ r.rows = k.rows /\ r.drafts = k.drafts
    BY <2>1 DEF Work
  <2>3. Become(w, r) /\ Kept
    BY <1>1, <1>2, <1>4, <2>1 DEF Save
  <2>4. Bound(w, r) /\ Laid(w, r) /\ Aimed(r)
    BY <1>1, <2>2 DEF Held, Bound, Laid, Aimed, Working, Building
  <2>5. Missing(r)
    BY <1>4, <2>2 DEF Missing, DraftOf
  <2>6. Collected(w, r)
    BY <1>1, <2>2 DEF Held, Collected
  <2>7. Aggregated(r)
    BY <1>1, <2>2 DEF Held, Laid, Aggregated, Building
  <2>8. Extracted(w, r)
    BY <1>1, <2>2 DEF Held, Extracted, Working
  <2>9. QED
    BY <1>1, <2>2, <2>3, <2>4, <2>5, <2>6, <2>7, <2>8, MoveStep DEF Held
<1>5. QED
  BY <1>3, <1>4

\* An observation is inserted that nobody has stored or flushed.
LEMMA InsertStep ==
    ASSUME Inv, NEW w \in Worker, Insert(w)
    PROVE  Inv'
<1>1. PICK k \in Work : k = work[w] /\ Held(w, k) /\ k.phase = "insert"
  BY WorkIsHeld DEF Insert
<1>2. /\ Bound(w, k) /\ Laid(w, k) /\ Aimed(k) /\ Collected(w, k) /\ Extracted(w, k)
  BY <1>1 DEF Held
<1>3. Draft(w) = DraftOf(k)
  BY <1>1 DEF Draft, DraftOf, Of
<1>4. /\ DraftOf(k) \in Identity /\ Head(k.todo) \in Range(release[w])
      /\ DraftOf(k).event = Head(k.queue) /\ DraftOf(k).extractor = Head(k.todo)
      /\ DimensionOf[Head(k.todo)] \in k.dims
  BY <1>1, <1>2, DraftIsNext
<1>5. [of |-> DraftOf(k), writer |-> w] \in Observation
  BY <1>4 DEF Observation
<1>6. PICK o \in Observation :
        o = [of |-> DraftOf(k), writer |-> w] /\ o.of = DraftOf(k) /\ o.writer = w
  BY <1>5
<1>7. PICK rows \in SUBSET Observation : rows = k.rows \cup {o}
  BY DEF Work
<1>8. PICK l : l = [k EXCEPT !.rows = rows]
  OBVIOUS
<1>9. /\ l \in Work /\ l.phase = "insert" /\ l.run = k.run /\ l.queue = k.queue
      /\ l.todo = k.todo /\ l.dims = k.dims /\ l.view = k.view
      /\ l.rows = rows /\ l.drafts = k.drafts
  BY <1>1, <1>8 DEF Work
<1>10. Become(w, Saved(l)) /\ Kept
  BY <1>1, <1>3, <1>6, <1>7, <1>8 DEF Insert
<1>11. Identities(rows) = Identities(k.rows) \cup {DraftOf(k)}
  BY <1>6, <1>7 DEF Identities
<1>12. Bound(w, l) /\ Laid(w, l) /\ Aimed(l)
  BY <1>1, <1>2, <1>9, <1>7 DEF Bound, Laid, Aimed, Working, Building
<1>13. Collected(w, l)
  <2>1. IsFiniteSet(Identities(l.rows))
    BY <1>2, <1>9, <1>11, FS_AddElement DEF Collected
  <2>2. o.of \notin Stored
    BY <1>3, <1>6 DEF Insert
  <2>3. QED
    BY <1>2, <1>4, <1>6, <1>7, <1>9, <2>1, <2>2 DEF Collected
<1>14. Extracted(w, l) /\ DraftOf(l) \in Identities(l.rows)
  BY <1>2, <1>9, <1>11, <1>1 DEF Extracted, DraftOf
<1>15. Saved(l) \in Work /\ Held(w, Saved(l)) /\ Saved(l).rows = rows
  BY <1>9, <1>12, <1>13, <1>14, SavedIsHeld
<1>16. ASSUME NEW v \in Worker \ {w}
       PROVE  Identities(rows) \cap Identities(work[v].rows) = {}
  <2>1. Identities(k.rows) \cap Identities(work[v].rows) = {}
    BY <1>1 DEF Inv, Disjoint
  <2>2. RowHolders(w) = {}
    BY <1>1 DEF Insert, Blockers
  <2>3. DraftOf(k) \notin Identities(work[v].rows)
    BY <1>3, <2>2 DEF RowHolders
  <2>4. QED
    BY <1>11, <2>1, <2>3
<1>17. QED
  BY <1>10, <1>15, <1>16, WorkStep

\* The observation was stored in between, and with it those of the whole release:
\* what the rollback takes away is stored, too.
LEMMA InsertLostStep ==
    ASSUME Inv, NEW w \in Worker, InsertLost(w)
    PROVE  Inv'
<1>1. PICK k \in Work : k = work[w] /\ Held(w, k) /\ k.phase = "insert"
  BY WorkIsHeld DEF InsertLost
<1>2. Bound(w, k) /\ Laid(w, k) /\ Aimed(k)
  BY <1>1 DEF Held
<1>3. DraftOf(k) \in Stored
  BY <1>1 DEF InsertLost, Draft, DraftOf, Of
<1>4. PICK b : b = RolledBack(k)
  OBVIOUS
<1>5. /\ b \in Work /\ b.rows = {} /\ b.drafts = {} /\ b.view = {}
      /\ b.phase = "insert" /\ b.run = k.run /\ b.queue = k.queue
      /\ b.todo = k.todo /\ b.dims = k.dims
  BY <1>1, <1>4, RolledBackFields
<1>6. Become(w, Saved(b)) /\ Kept
  BY <1>1, <1>4 DEF InsertLost
<1>7. Bound(w, b) /\ Laid(w, b) /\ Aimed(b)
  BY <1>1, <1>2, <1>5 DEF Bound, Laid, Aimed, Working, Building
<1>8. Collected(w, b)
  <2>1. Identities(b.rows) = {} /\ IsFiniteSet({})
    BY <1>5, FS_EmptySet DEF Identities
  <2>2. QED
    BY <1>5, <2>1 DEF Collected
<1>9. Extracted(w, b)
  <2> SUFFICES ASSUME OneRelease, NEW x \in Range(release[w])
               PROVE  Of(Head(b.queue), x) \in Stored
    BY DEF Extracted
  <2>1. k.run \in 1..Len(runs) /\ runs[k.run].release = release[w]
    BY <1>1, <1>2 DEF Bound
  <2>2. /\ Head(k.queue) \in Event /\ Head(k.todo) \in Range(release[w])
        /\ DraftOf(k) = Of(Head(k.queue), Head(k.todo))
    BY <1>1, <1>2, DraftIsNext DEF DraftOf
  <2>3. WholeRelease
    BY DEF Inv, Committed
  <2>4. QED
    BY <1>3, <1>5, <2>1, <2>2, <2>3 DEF WholeRelease
<1>10. DraftOf(b) \in Stored
  BY <1>3, <1>5 DEF DraftOf
<1>11. Saved(b) \in Work /\ Held(w, Saved(b)) /\ Saved(b).rows = {}
  BY <1>5, <1>7, <1>8, <1>9, <1>10, SavedIsHeld
<1>12. QED
  BY <1>6, <1>11, MoveStep

\* The dimension that is next, and its observations.
LEMMA NextIsThere ==
    ASSUME Inv, NEW w \in Worker, NEW k \in Work, k = work[w], k.dims # {}
    PROVE  \E d \in Dimension :
            /\ d = Min(k.dims) /\ d \in k.dims /\ d = Current(w)
            /\ Listed(w, d) = ListedBy(k, d) /\ ListedBy(k, d) \in SUBSET Identity
<1>1. k.dims \subseteq Dimension /\ Dimension \subseteq Nat
  BY ConstantAssumption DEF Work
<1>2. PICK d \in Dimension : d = Min(k.dims) /\ d \in k.dims
  BY <1>1, LeastIsThere
<1>3. d = Current(w)
  BY <1>2 DEF Current, NextDimension
<1>4. Listed(w, d) = ListedBy(k, d)
  BY DEF Listed, ListedBy
<1>5. Stored \subseteq Identity /\ Identities(k.rows) \subseteq Identity
  BY DEF Inv, TypeOK, Work, Stored, Identities, Observation
<1>6. QED
  BY <1>2, <1>3, <1>4, <1>5 DEF ListedBy

\* A dimension's observations are listed after all that was rolled back.
LEMMA ListStep ==
    ASSUME Inv, NEW w \in Worker, List(w)
    PROVE  Inv'
<1>1. PICK k \in Work : k = work[w] /\ Held(w, k) /\ k.phase = "list"
  BY WorkIsHeld DEF List
<1>2. Kept
  BY DEF List
<1>3. k.todo = <<>> /\ k.view = {}
  BY <1>1 DEF Held, Laid, Working, Building
<1>4. CASE k.dims = {}
  <2>1. PICK r : r = [k EXCEPT !.phase = "commit"]
    OBVIOUS
  <2>2. /\ r \in Work /\ r.phase = "commit" /\ r.run = k.run /\ r.queue = k.queue
        /\ r.todo = k.todo /\ r.dims = k.dims /\ r.view = k.view
        /\ r.rows = k.rows /\ r.drafts = k.drafts
    BY <2>1 DEF Work
  <2>3. Become(w, r)
    BY <1>1, <1>4, <2>1 DEF List
  <2>4. Bound(w, r) /\ Laid(w, r) /\ Aimed(r) /\ Missing(r)
    BY <1>1, <1>3, <1>4, <2>2
    DEF Held, Bound, Laid, Aimed, Missing, Working, Building
  <2>5. Collected(w, r)
    BY <1>1, <2>2 DEF Held, Collected
  <2>6. Aggregated(r)
    BY <1>1, <2>2 DEF Held, Aggregated, ListedBy, Building
  <2>7. Extracted(w, r)
    BY <1>1, <2>2 DEF Held, Extracted, Working
  <2>8. QED
    BY <1>1, <1>2, <2>2, <2>3, <2>4, <2>5, <2>6, <2>7, MoveStep DEF Held
<1>5. CASE k.dims # {}
  <2>1. PICK d \in Dimension :
            /\ d = Min(k.dims) /\ d \in k.dims /\ d = Current(w)
            /\ Listed(w, d) = ListedBy(k, d) /\ ListedBy(k, d) \in SUBSET Identity
    BY <1>1, <1>5, NextIsThere
  <2>2. PICK view \in SUBSET Identity : view = ListedBy(k, d) /\ view = Listed(w, Current(w))
    BY <2>1
  <2>3. CASE view = {}
    <3>1. PICK dims \in SUBSET Dimension : dims = k.dims \ {d}
      BY DEF Work
    <3>2. PICK r : r = [k EXCEPT !.dims = dims]
      OBVIOUS
    <3>3. /\ r \in Work /\ r.phase = "list" /\ r.run = k.run /\ r.queue = k.queue
          /\ r.todo = k.todo /\ r.dims = dims /\ r.view = k.view
          /\ r.rows = k.rows /\ r.drafts = k.drafts
      BY <1>1, <3>2 DEF Work
    <3>4. Become(w, r)
      BY <1>1, <1>5, <2>1, <2>2, <2>3, <3>1, <3>2 DEF List
    <3>5. Bound(w, r) /\ Laid(w, r) /\ Aimed(r) /\ Missing(r)
      BY <1>1, <1>3, <3>3 DEF Held, Bound, Laid, Aimed, Missing, Working, Building
    <3>6. Collected(w, r)
      <4>1. ASSUME NEW o \in k.rows PROVE DimensionOf[o.of.extractor] # d
        <5>1. o.of \in Identities(k.rows)
          BY DEF Identities
        <5>2. QED
          BY <2>2, <2>3, <5>1 DEF ListedBy
      <4>2. QED
        BY <1>1, <3>1, <3>3, <4>1 DEF Held, Collected
    <3>7. Aggregated(r)
      BY <1>1, <3>3 DEF Held, Aggregated, ListedBy, Building
    <3>8. Extracted(w, r)
      BY <1>1, <3>3 DEF Held, Extracted, Working
    <3>9. QED
      BY <1>1, <1>2, <3>3, <3>4, <3>5, <3>6, <3>7, <3>8, MoveStep DEF Held
  <2>4. CASE view # {}
    <3>1. PICK r : r = [k EXCEPT !.view = view, !.phase = "lookup"]
      OBVIOUS
    <3>2. /\ r \in Work /\ r.phase = "lookup" /\ r.run = k.run /\ r.queue = k.queue
          /\ r.todo = k.todo /\ r.dims = k.dims /\ r.view = view
          /\ r.rows = k.rows /\ r.drafts = k.drafts
      BY <3>1 DEF Work
    <3>3. Become(w, r)
      BY <1>1, <1>5, <2>2, <2>4, <3>1 DEF List
    <3>4. Bound(w, r) /\ Laid(w, r) /\ Aimed(r) /\ Missing(r)
      BY <1>1, <1>3, <1>5, <3>2
      DEF Held, Bound, Laid, Aimed, Missing, Working, Building
    <3>5. Collected(w, r)
      BY <1>1, <3>2 DEF Held, Collected
    <3>6. Aggregated(r)
      <4>1. \A e \in Dimension : ListedBy(r, e) = ListedBy(k, e)
        BY <3>2 DEF ListedBy
      <4>2. \A x \in k.drafts : x.dimension \in Dimension
        BY DEF Work, State
      <4>3. \A x \in r.drafts :
                /\ x.from \subseteq ListedBy(r, x.dimension)
                /\ OneWorker => ListedBy(r, x.dimension) \subseteq x.from
        BY <1>1, <3>2, <4>1, <4>2 DEF Held, Aggregated
      <4>4. r.view = ListedBy(r, Min(r.dims))
        BY <2>1, <2>2, <3>2, <4>1
      <4>5. QED
        BY <4>3, <4>4 DEF Aggregated
    <3>7. Extracted(w, r)
      BY <1>1, <3>2 DEF Held, Extracted, Working
    <3>8. QED
      BY <1>1, <1>2, <3>2, <3>3, <3>4, <3>5, <3>6, <3>7, MoveStep DEF Held
  <2>5. QED
    BY <2>3, <2>4
<1>6. QED
  BY <1>4, <1>5

\* The write of a state goes on in another way.
LEMMA TurnStep ==
    ASSUME Inv, Kept, NEW w \in Worker, work[w].phase \in Building, NEW phase \in Building,
           Become(w, [work[w] EXCEPT !.phase = phase])
    PROVE  Inv'
<1>1. PICK k \in Work : k = work[w] /\ Held(w, k) /\ k.phase \in Building
  BY WorkIsHeld
<1>2. PICK r : r = [k EXCEPT !.phase = phase]
  OBVIOUS
<1>3. /\ r \in Work /\ r.phase = phase /\ r.run = k.run /\ r.queue = k.queue
      /\ r.todo = k.todo /\ r.dims = k.dims /\ r.view = k.view
      /\ r.rows = k.rows /\ r.drafts = k.drafts
  BY <1>2 DEF Work, Building
<1>4. Bound(w, r) /\ Laid(w, r) /\ Aimed(r) /\ Missing(r)
  BY <1>1, <1>3 DEF Held, Bound, Laid, Aimed, Missing, Working, Building
<1>5. Collected(w, r)
  BY <1>1, <1>3 DEF Held, Collected
<1>6. Aggregated(r)
  BY <1>1, <1>3 DEF Held, Aggregated, ListedBy
<1>7. Extracted(w, r)
  BY <1>1, <1>3 DEF Held, Extracted, Working
<1>8. QED
  BY <1>1, <1>2, <1>3, <1>4, <1>5, <1>6, <1>7, MoveStep DEF Held

LEMMA LookupStep ==
    ASSUME Inv, NEW w \in Worker, Lookup(w)
    PROVE  Inv'
<1>1. PICK phase \in {"create", "overwrite"} :
        phase = IF states[Current(w)] = {} THEN "create" ELSE "overwrite"
  OBVIOUS
<1>2. Become(w, [work[w] EXCEPT !.phase = phase]) /\ Kept /\ work[w].phase = "lookup"
  BY <1>1 DEF Lookup
<1>3. QED
  BY <1>2, TurnStep DEF Building

\* The state is aggregated from what was listed.
LEMMA WrittenStep ==
    ASSUME Inv, Kept, NEW w \in Worker, work[w].phase \in Building,
           Become(w, Written(work[w], Current(w)))
    PROVE  Inv'
<1>1. PICK k \in Work : k = work[w] /\ Held(w, k) /\ k.phase \in Building
  BY WorkIsHeld
<1>2. k.dims # {} /\ k.todo = <<>>
  BY <1>1 DEF Held, Laid, Working, Building
<1>3. PICK d \in Dimension : d = Min(k.dims) /\ d \in k.dims /\ d = Current(w)
  BY <1>1, <1>2, NextIsThere
<1>4. PICK r : r = Written(k, d)
  OBVIOUS
<1>5. /\ r \in Work /\ r.run = k.run /\ r.queue = k.queue /\ r.todo = k.todo
      /\ r.rows = k.rows /\ r.view = {} /\ r.phase = "list"
      /\ r.dims = k.dims \ {d}
  BY <1>4, WrittenFields
<1>6. PICK s \in State : /\ s.dimension = d /\ s.from = k.view
                         /\ r.drafts = k.drafts \cup {s}
  BY <1>4, WrittenFields
<1>7. Become(w, r)
  BY <1>1, <1>3, <1>4
<1>8. Bound(w, r) /\ Laid(w, r) /\ Aimed(r) /\ Missing(r)
  BY <1>1, <1>2, <1>5 DEF Held, Bound, Laid, Aimed, Missing, Working, Building
<1>9. Collected(w, r)
  BY <1>1, <1>3, <1>5, <1>6 DEF Held, Collected
<1>10. Aggregated(r)
  <2>1. \A e : ListedBy(r, e) = ListedBy(k, e)
    BY <1>5 DEF ListedBy
  <2>2. k.view \subseteq ListedBy(k, d) /\ (OneWorker => ListedBy(k, d) \subseteq k.view)
    BY <1>1, <1>3 DEF Held, Aggregated
  <2>3. ASSUME NEW t \in r.drafts
        PROVE  /\ t.from \subseteq ListedBy(r, t.dimension)
               /\ OneWorker => ListedBy(r, t.dimension) \subseteq t.from
    BY <1>1, <1>6, <2>1, <2>2 DEF Held, Aggregated
  <2>4. QED
    BY <1>5, <2>3 DEF Aggregated, Building
<1>11. Extracted(w, r)
  BY <1>1, <1>5 DEF Held, Extracted, Working
<1>12. QED
  BY <1>1, <1>5, <1>7, <1>8, <1>9, <1>10, <1>11, MoveStep DEF Held

LEMMA CreateStep ==
    ASSUME Inv, NEW w \in Worker, Create(w)
    PROVE  Inv'
<1>1. Kept /\ work[w].phase = "create"
  BY DEF Create
<1>2. Become(w, Written(work[w], Current(w))) \/ Become(w, Failed(w))
  BY DEF Create
<1>3. QED
  BY <1>1, <1>2, WrittenStep, FailStep DEF Working, Building

LEMMA OverwriteStep ==
    ASSUME Inv, NEW w \in Worker, Overwrite(w)
    PROVE  Inv'
<1>1. Kept /\ work[w].phase = "overwrite"
  BY DEF Overwrite
<1>2. \/ Become(w, Written(work[w], Current(w)))
      \/ Become(w, [work[w] EXCEPT !.phase = "waiting"])
  BY DEF Overwrite
<1>3. QED
  BY <1>1, <1>2, WrittenStep, TurnStep DEF Building

LEMMA ProceedStep ==
    ASSUME Inv, NEW w \in Worker, Proceed(w)
    PROVE  Inv'
BY WrittenStep DEF Proceed, Building

LEMMA RefusedStep ==
    ASSUME Inv, NEW w \in Worker, Refused(w)
    PROVE  Inv'
BY FailStep DEF Refused, Working, Building

LEMMA RaiseStep ==
    ASSUME Inv, NEW w \in Worker, Raise(w)
    PROVE  Inv'
BY FailStep DEF Raise, Working, Building

-----------------------------------------------------------------------------
(* A run starts, and ends without a commit.                                *)

\* A worker that holds nothing after a step that changes the runs.
LEMMA EmptyIsHeldNext ==
    ASSUME NEW w, NEW k \in Work, Bound(w, k)', Aimed(k)',
           k.rows = {}, k.drafts = {}, k.view = {},
           k.phase \in {"idle", "scan", "begin", "list", "mark", "record"},
           k.phase = "begin" => k.queue # <<>>,
           k.phase = "list" => /\ k.todo = <<>>
                               /\ runs'[k.run].operation = "rebuild_dimension"
    PROVE  Held(w, k)'
<1>1. Laid(w, k)'
  BY DEF Laid, Working, Building
<1>2. Identities(k.rows) = {} /\ IsFiniteSet({})
  BY FS_EmptySet DEF Identities
<1>3. Missing(k)' /\ Collected(w, k)'
  BY <1>2 DEF Missing, Collected
<1>4. Aggregated(k)' /\ Extracted(w, k)'
  BY DEF Aggregated, Extracted, Working, Building
<1>5. QED
  BY <1>1, <1>3, <1>4 DEF Held

LEMMA AppendedRun ==
    ASSUME NEW s \in Seq(Run), NEW q \in Run, NEW t, t = Append(s, q)
    PROVE  /\ t \in Seq(Run) /\ Len(t) = Len(s) + 1 /\ t[Len(s) + 1] = q
           /\ \A n \in 1..Len(s) : n \in 1..Len(t) /\ t[n] = s[n]
OBVIOUS

\* A run starts: it is its worker's, and of its worker's release.
LEMMA StartRunStep ==
    ASSUME Inv, NEW w \in Worker, NEW operation \in Operation, NEW target \in Nat,
           NEW k \in Work, StartRun(w, operation, target, k),
           k.rows = {}, k.drafts = {}, k.view = {}, k.todo = <<>>,
           \/ k.phase = "begin" /\ operation = "process_event" /\ k.queue = <<target>>
           \/ k.phase = "scan" /\ operation = "process_pending"
           \/ k.phase = "list" /\ operation = "rebuild_dimension"
    PROVE  Inv'
<1>1. runs \in Seq(Run) /\ Len(runs) \in Nat /\ Len(runs) < MaxRuns /\ work[w].phase = "idle"
  BY DEF Inv, TypeOK, StartRun
<1>2. release[w] \in Release /\ "running" \in {"running", "succeeded", "failed"}
  BY DEF Inv, TypeOK
<1>3. PICK q \in Run :
        /\ q = [operation |-> operation, worker |-> w, release |-> release[w],
                target |-> target, status |-> "running", processed |-> 0, failed |-> 0]
        /\ q.operation = operation /\ q.worker = w /\ q.release = release[w]
        /\ q.target = target /\ q.status = "running"
  <2>1. [operation |-> operation, worker |-> w, release |-> release[w],
         target |-> target, status |-> "running", processed |-> 0, failed |-> 0] \in Run
    BY <1>2 DEF Run
  <2>2. QED
    BY <2>1
<1>4. runs' = Append(runs, q)
  BY <1>3 DEF StartRun
<1>5. PICK n \in Nat : n = Len(runs) + 1
  BY <1>1
<1>6. /\ runs' \in Seq(Run) /\ Len(runs') = n /\ runs'[n] = q
      /\ \A m \in 1..Len(runs) : m \in 1..Len(runs') /\ runs'[m] = runs[m]
  BY <1>1, <1>4, <1>5, AppendedRun
<1>7. n \in 1..Len(runs') /\ 1..Len(runs') = 1..Len(runs) \cup {n}
  BY <1>1, <1>5, <1>6
<1>8. (OneWorker' => OneWorker) /\ (OneRelease' => OneRelease)
  BY <1>6 DEF OneWorker, OneRelease
<1>9. PICK r : r = [k EXCEPT !.run = n]
  OBVIOUS
<1>10. /\ r \in Work /\ r.run = n /\ r.phase = k.phase /\ r.queue = k.queue
       /\ r.todo = k.todo /\ r.dims = k.dims /\ r.view = k.view
       /\ r.rows = k.rows /\ r.drafts = k.drafts
  BY <1>9 DEF Work
<1>11. /\ work' \in [Worker -> Work]
       /\ \A v \in Worker : work'[v] = IF v = w THEN r ELSE work[v]
  BY <1>5, <1>9, <1>10 DEF StartRun, Become, Inv, TypeOK
<1>12. UNCHANGED <<events, observations, states, release>>
  BY DEF StartRun
<1>13. Held(w, work[w])'
  <2>1. Bound(w, r)'
    BY <1>3, <1>6, <1>7, <1>10, <1>12 DEF Bound
  <2>2. Aimed(r)'
    <3>1. CASE k.phase = "begin" /\ operation = "process_event" /\ k.queue = <<target>>
      <4>1. r.queue # <<>> /\ Head(r.queue) = target
        BY <1>10, <3>1
      <4>2. QED
        BY <1>3, <1>6, <1>10, <3>1, <4>1 DEF Aimed, Working, Building
    <3>2. CASE k.phase = "scan" /\ operation = "process_pending"
      BY <1>3, <1>6, <1>10, <3>2 DEF Aimed, Working, Building
    <3>3. CASE k.phase = "list" /\ operation = "rebuild_dimension"
      BY <1>3, <1>6, <1>10, <3>3 DEF Aimed, Working, Building
    <3>4. QED
      BY <3>1, <3>2, <3>3
  <2>3. r.phase = "begin" => r.queue # <<>>
    <3>1. k.phase = "begin" => k.queue # <<>>
      OBVIOUS
    <3>2. QED
      BY <1>10, <3>1
  <2>4. r.phase = "list" => r.todo = <<>> /\ runs'[r.run].operation = "rebuild_dimension"
    <3>1. runs'[r.run].operation = operation
      BY <1>3, <1>6, <1>10
    <3>2. r.phase = "list" => operation = "rebuild_dimension"
      BY <1>10
    <3>3. QED
      BY <1>10, <3>1, <3>2
  <2>5. r.phase \in {"idle", "scan", "begin", "list", "mark", "record"}
    BY <1>10
  <2>6. Held(w, r)'
    BY <1>10, <2>1, <2>2, <2>3, <2>4, <2>5, EmptyIsHeldNext
  <2>7. work'[w] = r
    BY <1>11
  <2>8. QED
    BY <2>6, <2>7
    DEF Held, Bound, Laid, Aimed, Missing, Collected, Aggregated, Extracted
<1>14. ASSUME NEW v \in Worker, v # w PROVE Held(v, work[v])'
  <2>1. Held(v, work[v]) /\ work'[v] = work[v]
    BY <1>11, <1>14 DEF Inv
  <2>2. work[v].phase # "idle" =>
            work[v].run \in 1..Len(runs') /\ runs'[work[v].run] = runs[work[v].run]
    BY <1>6, <2>1 DEF Held, Bound
  <2>3. Bound(v, work[v])'
    BY <1>12, <2>1, <2>2 DEF Held, Bound
  <2>4. Laid(v, work[v])' /\ Missing(work[v])' /\ Collected(v, work[v])'
    BY <1>12, <2>1 DEF Held, Laid, Missing, Collected, Stored, DraftOf
  <2>5. Aimed(work[v])'
    BY <2>1, <2>2 DEF Held, Aimed, Working, Building
  <2>6. Aggregated(work[v])'
    BY <1>8, <1>12, <2>1 DEF Held, Aggregated, ListedBy, Stored
  <2>7. Extracted(v, work[v])'
    BY <1>8, <1>12, <2>1, <2>2 DEF Held, Extracted, Stored, Working, Building
  <2>8. QED
    BY <2>3, <2>4, <2>5, <2>6, <2>7 DEF Held
<1>15. Committed'
  <2>1. IsFiniteSet(Stored)' /\ StatesTraceable'
    BY <1>12 DEF Inv, Committed, Stored, StatesTraceable
  <2>2. (\A o, p \in observations : o.of = p.of => o = p)'
    BY <1>12 DEF Inv, Committed
  <2>3. runs' # <<>>
    BY <1>1, <1>4
  <2>4. (OneWorker => \A d \in Dimension :
                        {i \in Stored : DimensionOf[i.extractor] = d} \subseteq states[d])'
    BY <1>8, <1>12 DEF Inv, Committed, Stored
  <2>5. ASSUME OneRelease' PROVE WholeRelease' /\ Succeeded'
    <3>1. OneRelease /\ WholeRelease /\ Succeeded
      BY <1>8, <2>5 DEF Inv, Committed
    <3>2. Stored' = Stored
      BY <1>12 DEF Stored
    <3>3. WholeRelease'
      <4>1. CASE runs = <<>>
        <5>1. Stored = {}
          BY <4>1 DEF Inv, Committed, Stored, Identities
        <5>2. QED
          BY <3>2, <5>1 DEF WholeRelease
      <4>2. CASE runs # <<>>
        <5>1. 1 \in 1..Len(runs) /\ 1 \in 1..Len(runs')
          BY <1>1, <1>6, <4>2
        <5>2. \A m \in 1..Len(runs') : runs'[m].release = runs'[1].release
          BY <2>5, <5>1 DEF OneRelease
        <5>3. runs'[1] = runs[1]
          BY <1>6, <5>1
        <5>4. QED
          BY <3>1, <3>2, <5>1, <5>2, <5>3 DEF WholeRelease
      <4>3. QED
        BY <4>1, <4>2
    <3>4. Succeeded'
      BY <1>3, <1>6, <1>7, <3>1, <3>2 DEF Succeeded
    <3>5. QED
      BY <3>3, <3>4
  <2>6. QED
    BY <2>1, <2>2, <2>3, <2>4, <2>5 DEF Committed
<1>16. TypeOK'
  <2>1. Len(runs') <= MaxRuns
    BY <1>1, <1>5, <1>6, ConstantAssumption
  <2>2. ASSUME NEW v \in Worker
        PROVE  /\ work'[v].phase # "idle" => /\ work'[v].run \in 1..Len(runs')
                                             /\ runs'[work'[v].run].status = "running"
               /\ work'[v].phase \in {"begin", "save", "insert"} => work'[v].queue # <<>>
    BY <1>13, <1>14 DEF Held, Bound, Laid
  <2>3. QED
    BY <1>6, <1>11, <1>12, <2>1, <2>2 DEF Inv, TypeOK
<1>17. Disjoint'
  <2>1. Identities(r.rows) = {}
    BY <1>10 DEF Identities
  <2>2. QED
    BY <1>11, <2>1 DEF Inv, Disjoint
<1>18. QED
  BY <1>13, <1>14, <1>15, <1>16, <1>17 DEF Inv

LEMMA RequestStep ==
    ASSUME Inv, NEW w \in Worker, Request(w)
    PROVE  Inv'
<1>1. /\ Idle \in Work /\ Idle.rows = {} /\ Idle.drafts = {} /\ Idle.view = {}
      /\ Idle.todo = <<>>
  BY IdleIsWork DEF Idle
<1>2. CASE \E e \in Event : ProcessEvent(w, e)
  <2>1. PICK e \in Event : ProcessEvent(w, e)
    BY <1>2
  <2>2. PICK queue \in Seq(Event) : queue = <<e>>
    <3>1. <<e>> \in Seq(Event)
      OBVIOUS
    <3>2. QED
      BY <3>1
  <2>3. PICK k : k = [Idle EXCEPT !.phase = "begin", !.queue = queue]
    OBVIOUS
  <2>4. /\ k \in Work /\ k.phase = "begin" /\ k.queue = queue /\ k.rows = {}
        /\ k.drafts = {} /\ k.view = {} /\ k.todo = <<>>
    BY <1>1, <2>3 DEF Work
  <2>5. StartRun(w, "process_event", e, k)
    BY <2>1, <2>2, <2>3 DEF ProcessEvent
  <2>6. e \in Nat /\ "process_event" \in Operation
    BY ConstantAssumption DEF Event, Operation
  <2>7. QED
    BY <2>2, <2>4, <2>5, <2>6, StartRunStep
<1>3. CASE \E limit \in Limit : ProcessPending(w, limit)
  <2>1. PICK limit \in Limit : ProcessPending(w, limit)
    BY <1>3
  <2>2. PICK k : k = [Idle EXCEPT !.phase = "scan"]
    OBVIOUS
  <2>3. /\ k \in Work /\ k.phase = "scan" /\ k.rows = {}
        /\ k.drafts = {} /\ k.view = {} /\ k.todo = <<>>
    BY <1>1, <2>2 DEF Work
  <2>4. StartRun(w, "process_pending", limit, k)
    BY <2>1, <2>2 DEF ProcessPending
  <2>5. limit \in Nat /\ "process_pending" \in Operation
    BY ConstantAssumption DEF Operation
  <2>6. QED
    BY <2>3, <2>4, <2>5, StartRunStep
<1>4. CASE \E d \in Dimension : RebuildDimension(w, d)
  <2>1. PICK d \in Dimension : RebuildDimension(w, d)
    BY <1>4
  <2>2. PICK dims \in SUBSET Dimension : dims = {d}
    OBVIOUS
  <2>3. PICK k : k = [Idle EXCEPT !.phase = "list", !.dims = dims]
    OBVIOUS
  <2>4. /\ k \in Work /\ k.phase = "list" /\ k.rows = {}
        /\ k.drafts = {} /\ k.view = {} /\ k.todo = <<>>
    BY <1>1, <2>3 DEF Work
  <2>5. StartRun(w, "rebuild_dimension", d, k)
    BY <2>1, <2>2, <2>3 DEF RebuildDimension
  <2>6. d \in Nat /\ "rebuild_dimension" \in Operation
    BY ConstantAssumption DEF Operation
  <2>7. QED
    BY <2>4, <2>5, <2>6, StartRunStep
<1>5. QED
  BY <1>2, <1>3, <1>4 DEF Request

\* The process stops, and another one may be of another release.
LEMMA CrashStep ==
    ASSUME Inv, NEW w \in Worker, Crash(w)
    PROVE  Inv'
<1>1. /\ work' \in [Worker -> Work]
      /\ \A v \in Worker : work'[v] = IF v = w THEN Idle ELSE work[v]
  BY IdleIsWork DEF Crash, Become, Inv, TypeOK
<1>2. /\ release' \in [Worker -> Release]
      /\ \A v \in Worker : v # w => release'[v] = release[v]
  BY DEF Crash, Inv, TypeOK
<1>3. UNCHANGED <<events, observations, states, runs>>
  BY DEF Crash
<1>4. /\ Idle.phase = "idle" /\ Idle.rows = {} /\ Idle.drafts = {} /\ Idle.view = {}
  BY DEF Idle
<1>5. Held(w, work[w])'
  <2>1. Bound(w, Idle)' /\ Aimed(Idle)'
    BY <1>4 DEF Bound, Aimed, Working, Building
  <2>2. Held(w, Idle)'
    BY <1>4, <2>1, IdleIsWork, EmptyIsHeldNext
  <2>3. work'[w] = Idle
    BY <1>1
  <2>4. QED
    BY <2>2, <2>3
    DEF Held, Bound, Laid, Aimed, Missing, Collected, Aggregated, Extracted
<1>6. ASSUME NEW v \in Worker, v # w PROVE Held(v, work[v])'
  <2>1. Held(v, work[v]) /\ work'[v] = work[v] /\ release'[v] = release[v]
    BY <1>1, <1>2, <1>6 DEF Inv
  <2>2. Bound(v, work[v])' /\ Laid(v, work[v])' /\ Aimed(work[v])' /\ Missing(work[v])'
    BY <1>3, <2>1 DEF Held, Bound, Laid, Aimed, Missing, DraftOf
  <2>3. Collected(v, work[v])' /\ Aggregated(work[v])'
    BY <1>3, <2>1 DEF Held, Collected, Aggregated, ListedBy, Stored, OneWorker
  <2>4. Extracted(v, work[v])'
    BY <1>3, <2>1 DEF Held, Extracted, Stored, OneRelease
  <2>5. QED
    BY <2>2, <2>3, <2>4 DEF Held
<1>7. Committed'
  BY <1>3, CommittedStays DEF Inv
<1>8. TypeOK'
  <2>1. ASSUME NEW v \in Worker
        PROVE  /\ work'[v].phase # "idle" => /\ work'[v].run \in 1..Len(runs')
                                             /\ runs'[work'[v].run].status = "running"
               /\ work'[v].phase \in {"begin", "save", "insert"} => work'[v].queue # <<>>
    BY <1>5, <1>6 DEF Held, Bound, Laid
  <2>2. QED
    BY <1>1, <1>2, <1>3, <2>1 DEF Inv, TypeOK
<1>9. Disjoint'
  <2>1. Identities(Idle.rows) = {}
    BY <1>4 DEF Identities
  <2>2. QED
    BY <1>1, <2>1 DEF Inv, Disjoint
<1>10. QED
  BY <1>5, <1>6, <1>7, <1>8, <1>9 DEF Inv

\* The runs after a worker's own has ended: nothing else of them has changed.
Ends(n, status, after) ==
    /\ after \in Seq(Run) /\ Len(after) = Len(runs)
    /\ \A m \in 1..Len(runs) :
        /\ m # n => after[m] = runs[m]
        /\ after[m].operation = runs[m].operation /\ after[m].worker = runs[m].worker
        /\ after[m].release = runs[m].release /\ after[m].target = runs[m].target
    /\ after[n].status = status

\* Others do not notice.
LEMMA EndLeavesOthers ==
    ASSUME Inv, NEW w \in Worker, work[w].phase # "idle", NEW status,
           Ends(work[w].run, status, runs')
    PROVE  /\ OneWorker' <=> OneWorker
           /\ OneRelease' <=> OneRelease
           /\ \A v \in Worker : v # w /\ work[v].phase # "idle" =>
                /\ work[v].run \in 1..Len(runs') /\ runs'[work[v].run] = runs[work[v].run]
                /\ ~OneWorker
<1>1. Held(w, work[w])
  BY WorkIsHeld
<1>2. /\ work[w].run \in 1..Len(runs) /\ runs[work[w].run].worker = w
  BY <1>1 DEF Held, Bound
<1>3. ASSUME NEW v \in Worker, v # w, work[v].phase # "idle"
      PROVE  /\ work[v].run \in 1..Len(runs') /\ runs'[work[v].run] = runs[work[v].run]
             /\ ~OneWorker
  <2>1. work[v].run \in 1..Len(runs) /\ runs[work[v].run].worker = v
    BY <1>3, WorkIsHeld DEF Held, Bound
  <2>2. QED
    BY <1>2, <1>3, <2>1 DEF Ends, OneWorker
<1>4. QED
  BY <1>3 DEF Ends, OneWorker, OneRelease

LEMMA EndStep ==
    ASSUME Inv, NEW w \in Worker, work[w].phase \in {"mark", "record"}, NEW status,
           Ends(work[w].run, status, runs'), Become(w, Idle),
           \/ status # "succeeded"
           \/ runs[work[w].run].operation # "process_event",
           UNCHANGED <<events, observations, states, release>>
    PROVE  Inv'
<1>1. /\ work' \in [Worker -> Work]
      /\ \A v \in Worker : work'[v] = IF v = w THEN Idle ELSE work[v]
  BY IdleIsWork DEF Become, Inv, TypeOK
<1>2. /\ Idle.phase = "idle" /\ Idle.rows = {} /\ Idle.drafts = {} /\ Idle.view = {}
  BY DEF Idle
<1>3. /\ OneWorker' <=> OneWorker
      /\ OneRelease' <=> OneRelease
      /\ \A v \in Worker : v # w /\ work[v].phase # "idle" =>
           /\ work[v].run \in 1..Len(runs') /\ runs'[work[v].run] = runs[work[v].run]
           /\ ~OneWorker
  BY EndLeavesOthers
<1>4. work[w].run \in 1..Len(runs)
  BY WorkIsHeld DEF Held, Bound
<1>5. Held(w, work[w])'
  <2>1. Bound(w, Idle)' /\ Aimed(Idle)'
    BY <1>2 DEF Bound, Aimed, Working, Building
  <2>2. Held(w, Idle)'
    BY <1>2, <2>1, IdleIsWork, EmptyIsHeldNext
  <2>3. work'[w] = Idle
    BY <1>1
  <2>4. QED
    BY <2>2, <2>3
    DEF Held, Bound, Laid, Aimed, Missing, Collected, Aggregated, Extracted
<1>6. ASSUME NEW v \in Worker, v # w PROVE Held(v, work[v])'
  <2>1. Held(v, work[v]) /\ work'[v] = work[v]
    BY <1>1, <1>6 DEF Inv
  <2>2. Bound(v, work[v])'
    BY <1>3, <1>6, <2>1 DEF Held, Bound
  <2>3. Laid(v, work[v])' /\ Missing(work[v])' /\ Collected(v, work[v])'
    BY <2>1 DEF Held, Laid, Missing, Collected, Stored, DraftOf
  <2>4. Aimed(work[v])'
    BY <1>3, <1>6, <2>1 DEF Held, Aimed, Working, Building
  <2>5. Aggregated(work[v])'
    BY <1>3, <2>1 DEF Held, Aggregated, ListedBy, Stored
  <2>6. Extracted(v, work[v])'
    BY <1>3, <1>6, <2>1 DEF Held, Extracted, Stored, Working, Building
  <2>7. QED
    BY <2>2, <2>3, <2>4, <2>5, <2>6 DEF Held
<1>7. Committed'
  <2>1. IsFiniteSet(Stored)' /\ StatesTraceable'
    BY DEF Inv, Committed, Stored, StatesTraceable
  <2>2. (\A o, p \in observations : o.of = p.of => o = p)'
    BY DEF Inv, Committed
  <2>3. runs' # <<>>
    BY <1>4 DEF Ends
  <2>4. (OneWorker => \A d \in Dimension :
                        {i \in Stored : DimensionOf[i.extractor] = d} \subseteq states[d])'
    BY <1>3 DEF Inv, Committed, Stored
  <2>5. ASSUME OneRelease' PROVE WholeRelease' /\ Succeeded'
    <3>1. WholeRelease /\ Succeeded /\ Stored' = Stored
      BY <1>3, <2>5 DEF Inv, Committed, Stored
    <3>2. WholeRelease'
      BY <3>1 DEF WholeRelease, Ends
    <3>3. Succeeded'
      <4>1. ASSUME NEW n \in 1..Len(runs), runs'[n].operation = "process_event",
                   runs'[n].status = "succeeded"
            PROVE  \A x \in Range(runs'[n].release) : Of(runs'[n].target, x) \in Stored
        <5>1. n # work[w].run
          BY <4>1 DEF Ends
        <5>2. runs'[n] = runs[n]
          BY <5>1 DEF Ends
        <5>3. QED
          BY <3>1, <4>1, <5>2 DEF Succeeded
      <4>2. Len(runs') = Len(runs)
        BY DEF Ends
      <4>3. QED
        BY <3>1, <4>1, <4>2 DEF Succeeded
    <3>4. QED
      BY <3>2, <3>3
  <2>6. QED
    BY <2>1, <2>2, <2>3, <2>4, <2>5 DEF Committed
<1>8. TypeOK'
  <2>1. ASSUME NEW v \in Worker
        PROVE  /\ work'[v].phase # "idle" => /\ work'[v].run \in 1..Len(runs')
                                             /\ runs'[work'[v].run].status = "running"
               /\ work'[v].phase \in {"begin", "save", "insert"} => work'[v].queue # <<>>
    BY <1>5, <1>6 DEF Held, Bound, Laid
  <2>2. QED
    BY <1>1, <2>1 DEF Inv, TypeOK, Ends
<1>9. Disjoint'
  <2>1. Identities(Idle.rows) = {}
    BY <1>2 DEF Identities
  <2>2. QED
    BY <1>1, <2>1 DEF Inv, Disjoint
<1>10. QED
  BY <1>5, <1>6, <1>7, <1>8, <1>9 DEF Inv

LEMMA ReplacedRun ==
    ASSUME NEW s \in Seq(Run), NEW n \in 1..Len(s), NEW q \in Run,
           NEW t, t = [s EXCEPT ![n] = q]
    PROVE  /\ t \in Seq(Run) /\ Len(t) = Len(s) /\ t[n] = q
           /\ \A m \in 1..Len(s) : m # n => t[m] = s[m]
OBVIOUS

LEMMA ReplacedEnds ==
    ASSUME runs \in Seq(Run), NEW n \in 1..Len(runs), NEW status,
           NEW q \in Run, q.status = status, q.operation = runs[n].operation,
           q.worker = runs[n].worker, q.release = runs[n].release,
           q.target = runs[n].target,
           NEW after, after = [runs EXCEPT ![n] = q]
    PROVE  Ends(n, status, after)
<1>1. /\ after \in Seq(Run) /\ Len(after) = Len(runs) /\ after[n] = q
      /\ \A m \in 1..Len(runs) : m # n => after[m] = runs[m]
  BY ReplacedRun
<1>2. ASSUME NEW m \in 1..Len(runs)
      PROVE  /\ m # n => after[m] = runs[m]
             /\ after[m].operation = runs[m].operation /\ after[m].worker = runs[m].worker
             /\ after[m].release = runs[m].release /\ after[m].target = runs[m].target
  <2>1. CASE m = n
    BY <1>1, <2>1
  <2>2. CASE m # n
    BY <1>1, <2>2
  <2>3. QED
    BY <2>1, <2>2
<1>3. QED
  BY <1>1, <1>2 DEF Ends

\* The updates of a run's columns.
LEMMA StatusUpdate ==
    ASSUME runs \in Seq(Run), NEW n \in 1..Len(runs), NEW status \in {"succeeded", "failed"},
           NEW after, after = [runs EXCEPT ![n].status = status]
    PROVE  Ends(n, status, after)
<1>1. PICK x \in Run : x = runs[n]
  OBVIOUS
<1>2. PICK y : y = [x EXCEPT !.status = status]
  OBVIOUS
<1>3. /\ y \in Run /\ y.status = status /\ y.operation = x.operation /\ y.worker = x.worker
      /\ y.release = x.release /\ y.target = x.target
  BY <1>2 DEF Run
<1>4. after = [runs EXCEPT ![n] = y]
  BY <1>1, <1>2
<1>5. QED
  BY <1>1, <1>3, <1>4, ReplacedEnds

LEMMA ProcessedUpdate ==
    ASSUME runs \in Seq(Run), NEW n \in 1..Len(runs), NEW status \in {"succeeded", "failed"},
           NEW processed \in Nat, NEW after,
           after = [runs EXCEPT ![n].status = status, ![n].processed = processed]
    PROVE  Ends(n, status, after)
<1>1. PICK x \in Run : x = runs[n]
  OBVIOUS
<1>2. PICK y : y = [x EXCEPT !.status = status]
  OBVIOUS
<1>3. /\ y \in Run /\ y.status = status /\ y.operation = x.operation /\ y.worker = x.worker
      /\ y.release = x.release /\ y.target = x.target
  BY <1>2 DEF Run
<1>4. PICK z : z = [y EXCEPT !.processed = processed]
  OBVIOUS
<1>5. /\ z \in Run /\ z.status = status /\ z.operation = x.operation /\ z.worker = x.worker
      /\ z.release = x.release /\ z.target = x.target
  BY <1>3, <1>4 DEF Run
<1>6. PICK s : s = [runs EXCEPT ![n].status = status]
  OBVIOUS
<1>7. s = [runs EXCEPT ![n] = y]
  BY <1>1, <1>2, <1>6
<1>8. s \in Seq(Run) /\ s[n] = y /\ after = [s EXCEPT ![n].processed = processed]
  <2>1. s \in Seq(Run) /\ s[n] = y
    BY <1>3, <1>7, ReplacedRun
  <2>2. after = [s EXCEPT ![n].processed = processed]
    BY <1>6, Zenon
  <2>3. QED
    BY <2>1, <2>2
<1>9. after = [runs EXCEPT ![n] = z]
  BY <1>4, <1>7, <1>8
<1>10. QED
  BY <1>1, <1>5, <1>9, ReplacedEnds

LEMMA CountsUpdate ==
    ASSUME runs \in Seq(Run), NEW n \in 1..Len(runs), NEW status \in {"succeeded", "failed"},
           NEW processed \in Nat, NEW failed \in Nat, NEW after,
           after = [runs EXCEPT ![n].status = status, ![n].processed = processed,
                                ![n].failed = failed]
    PROVE  Ends(n, status, after)
<1>1. PICK x \in Run : x = runs[n]
  OBVIOUS
<1>2. PICK y : y = [x EXCEPT !.status = status]
  OBVIOUS
<1>3. /\ y \in Run /\ y.status = status /\ y.operation = x.operation /\ y.worker = x.worker
      /\ y.release = x.release /\ y.target = x.target
  BY <1>2 DEF Run
<1>4. PICK z : z = [y EXCEPT !.processed = processed]
  OBVIOUS
<1>5. /\ z \in Run /\ z.status = status /\ z.operation = x.operation /\ z.worker = x.worker
      /\ z.release = x.release /\ z.target = x.target
  BY <1>3, <1>4 DEF Run
<1>6. PICK u : u = [z EXCEPT !.failed = failed]
  OBVIOUS
<1>7. /\ u \in Run /\ u.status = status /\ u.operation = x.operation /\ u.worker = x.worker
      /\ u.release = x.release /\ u.target = x.target
  BY <1>5, <1>6 DEF Run
<1>8. PICK s : s = [runs EXCEPT ![n].status = status]
  OBVIOUS
<1>9. s = [runs EXCEPT ![n] = y]
  BY <1>1, <1>2, <1>8
<1>10. s \in Seq(Run) /\ s[n] = y
  BY <1>3, <1>9, ReplacedRun
<1>11. PICK t : t = [s EXCEPT ![n].processed = processed]
  OBVIOUS
<1>12. t = [runs EXCEPT ![n] = z]
  BY <1>4, <1>9, <1>10, <1>11
<1>13. t \in Seq(Run) /\ t[n] = z
  BY <1>5, <1>12, ReplacedRun
<1>14. after = [t EXCEPT ![n].failed = failed]
  BY <1>8, <1>11, Zenon
<1>15. after = [runs EXCEPT ![n] = u]
  BY <1>6, <1>12, <1>13, <1>14
<1>16. QED
  BY <1>1, <1>7, <1>15, ReplacedEnds

LEMMA MarkStep ==
    ASSUME Inv, NEW w \in Worker, Mark(w)
    PROVE  Inv'
<1>1. runs \in Seq(Run) /\ work[w].phase = "mark" /\ work[w].run \in 1..Len(runs)
  BY WorkIsHeld DEF Mark, Inv, TypeOK
<1>2. runs' = [runs EXCEPT ![work[w].run].status = "failed"]
  BY DEF Mark
<1>3. Ends(work[w].run, "failed", runs')
  BY <1>1, <1>2, StatusUpdate
<1>4. Become(w, Idle) /\ UNCHANGED <<events, observations, states, release>>
  BY DEF Mark
<1>5. QED
  BY <1>1, <1>3, <1>4, EndStep

LEMMA RecordStep ==
    ASSUME Inv, NEW w \in Worker, Record(w)
    PROVE  Inv'
<1>1. PICK k \in Work : k = work[w] /\ Held(w, k) /\ k.phase = "record"
  BY WorkIsHeld DEF Record
<1>2. /\ runs \in Seq(Run) /\ k.run \in 1..Len(runs)
      /\ runs[k.run].operation = "process_pending"
      /\ k.processed \in Nat /\ k.failed \in Nat
  BY <1>1 DEF Held, Bound, Aimed, Inv, TypeOK, Work
<1>3. PICK status \in {"succeeded", "failed"} :
        status = IF k.failed = 0 THEN "succeeded" ELSE "failed"
  OBVIOUS
<1>4. runs' = [runs EXCEPT ![k.run].status = status, ![k.run].processed = k.processed,
                           ![k.run].failed = k.failed]
  BY <1>1, <1>3 DEF Record
<1>5. Ends(k.run, status, runs')
  BY <1>2, <1>4, CountsUpdate
<1>6. Become(w, Idle) /\ UNCHANGED <<events, observations, states, release>>
  BY DEF Record
<1>7. QED
  BY <1>1, <1>2, <1>5, <1>6, EndStep

-----------------------------------------------------------------------------
(* The commit.                                                             *)

\* What a unit of work that commits has.
LEMMA CommitHas ==
    ASSUME Inv, NEW w \in Worker, NEW k \in Work, k = work[w], k.phase = "commit"
    PROVE  /\ k.run \in 1..Len(runs) /\ runs[k.run].worker = w
           /\ runs[k.run].release = release[w] /\ runs[k.run].status = "running"
           /\ IsFiniteSet(Identities(k.rows)) /\ k.rows \subseteq Observation
           /\ runs[k.run].operation = "rebuild_dimension" => k.rows = {}
           /\ runs[k.run].operation = "process_event" => Head(k.queue) = runs[k.run].target
           /\ runs[k.run].operation # "rebuild_dimension" => k.queue # <<>>
           /\ \A o \in k.rows :
                /\ o.writer = w /\ o.of \notin Stored
                /\ o.of.event = Head(k.queue) /\ o.of.extractor \in Range(release[w])
                /\ \E s \in k.drafts : s.dimension = DimensionOf[o.of.extractor]
           /\ \A s \in k.drafts :
                /\ s.dimension \in Dimension /\ s.from \subseteq Identity
                /\ s.from \subseteq ListedBy(k, s.dimension)
                /\ OneWorker => ListedBy(k, s.dimension) \subseteq s.from
           /\ OneRelease /\ runs[k.run].operation # "rebuild_dimension" =>
                \A x \in Range(release[w]) :
                    Of(Head(k.queue), x) \in Stored \cup Identities(k.rows)
<1>1. /\ Bound(w, k) /\ Laid(w, k) /\ Aimed(k) /\ Collected(w, k) /\ Aggregated(k)
      /\ Extracted(w, k)
  BY WorkIsHeld DEF Held
<1>2. k.todo = <<>> /\ k.dims = {} /\ Range(k.todo) = {}
  BY <1>1, RangeOfEmpty DEF Laid, Working, Building
<1>3. /\ k.run \in 1..Len(runs) /\ runs[k.run].worker = w
      /\ runs[k.run].release = release[w] /\ runs[k.run].status = "running"
  BY <1>1 DEF Bound
<1>4. /\ runs[k.run].operation = "rebuild_dimension" => k.rows = {}
      /\ runs[k.run].operation = "process_event" => Head(k.queue) = runs[k.run].target
      /\ runs[k.run].operation # "rebuild_dimension" => k.queue # <<>>
  BY <1>1 DEF Aimed, Working
<1>5. /\ IsFiniteSet(Identities(k.rows)) /\ k.rows \subseteq Observation
      /\ \A o \in k.rows :
            /\ o.writer = w /\ o.of \notin Stored
            /\ o.of.event = Head(k.queue) /\ o.of.extractor \in Range(release[w])
            /\ \E s \in k.drafts : s.dimension = DimensionOf[o.of.extractor]
  BY <1>1, <1>2 DEF Collected, Work
<1>6. \A s \in k.drafts :
        /\ s.dimension \in Dimension /\ s.from \subseteq Identity
        /\ s.from \subseteq ListedBy(k, s.dimension)
        /\ OneWorker => ListedBy(k, s.dimension) \subseteq s.from
  BY <1>1 DEF Aggregated, Work, State
<1>7. OneRelease /\ runs[k.run].operation # "rebuild_dimension" =>
        \A x \in Range(release[w]) :
            Of(Head(k.queue), x) \in Stored \cup Identities(k.rows)
  BY <1>1, <1>2 DEF Extracted, Working
<1>8. QED
  BY <1>3, <1>4, <1>5, <1>6, <1>7

\* The states it writes are those it drafted.
LEMMA CommittedStates ==
    ASSUME Inv, NEW w \in Worker, Commit(w), NEW d \in Dimension
    PROVE  \/ /\ \A s \in work[w].drafts : s.dimension # d
              /\ states'[d] = states[d]
           \/ \E s \in work[w].drafts : s.dimension = d /\ states'[d] = s.from
<1>1. states'[d] = IF \E s \in work[w].drafts : s.dimension = d
                   THEN (CHOOSE s \in work[w].drafts : s.dimension = d).from
                   ELSE states[d]
  BY DEF Commit
<1>2. QED
  BY <1>1

\* Its run is closed unless it goes on with the next event.
LEMMA CommittedRun ==
    ASSUME Inv, NEW w \in Worker, Commit(w)
    PROVE  IF Operates(w) = "process_pending" THEN runs' = runs
           ELSE Ends(work[w].run, "succeeded", runs')
<1>1. PICK k \in Work : k = work[w] /\ k.phase = "commit"
  BY WorkIsHeld DEF Commit
<1>2. CASE Operates(w) = "process_pending"
  BY <1>2 DEF Commit
<1>3. CASE Operates(w) # "process_pending"
  <2>1. IsFiniteSet(Stored \cup Identities(k.rows))
    BY <1>1, CommitHas, FS_Union DEF Inv, Committed
  <2>2. UNION {s.from : s \in k.drafts} \subseteq Stored \cup Identities(k.rows)
    BY <1>1, CommitHas DEF ListedBy
  <2>3. Cardinality(UNION {s.from : s \in k.drafts}) \in Nat
    BY <2>1, <2>2, FS_Subset, FS_CardinalityType
  <2>4. PICK processed \in Nat :
            processed = IF Operates(w) = "process_event" THEN 1
                        ELSE Cardinality(UNION {s.from : s \in k.drafts})
    BY <2>3
  <2>5. runs' = [runs EXCEPT ![k.run].status = "succeeded", ![k.run].processed = processed]
    BY <1>1, <1>3, <2>4 DEF Commit
  <2>6. runs \in Seq(Run) /\ k.run \in 1..Len(runs)
    BY <1>1, CommitHas DEF Inv, TypeOK
  <2>7. Ends(k.run, "succeeded", runs')
    BY <2>4, <2>5, <2>6, ProcessedUpdate
  <2>8. QED
    BY <1>1, <1>3, <2>7
<1>4. QED
  BY <1>2, <1>3

\* Either way the others do not notice.
LEMMA CommitLeavesRuns ==
    ASSUME Inv, NEW w \in Worker, Commit(w)
    PROVE  /\ runs' \in Seq(Run) /\ Len(runs') = Len(runs)
           /\ OneWorker' <=> OneWorker
           /\ OneRelease' <=> OneRelease
           /\ \A n \in 1..Len(runs) :
                /\ runs'[n].operation = runs[n].operation
                /\ runs'[n].release = runs[n].release /\ runs'[n].target = runs[n].target
                /\ n = work[w].run \/ runs'[n] = runs[n]
           /\ \A v \in Worker : v # w /\ work[v].phase # "idle" =>
                /\ work[v].run \in 1..Len(runs') /\ runs'[work[v].run] = runs[work[v].run]
                /\ ~OneWorker
<1>1. work[w].phase = "commit"
  BY DEF Commit
<1>2. CASE Operates(w) = "process_pending"
  <2>1. runs' = runs
    BY <1>2, CommittedRun
  <2>2. work[w].run \in 1..Len(runs) /\ runs[work[w].run].worker = w
    BY <1>1, WorkIsHeld, CommitHas
  <2>3. ASSUME NEW v \in Worker, v # w, work[v].phase # "idle"
        PROVE  work[v].run \in 1..Len(runs') /\ ~OneWorker
    <3>1. work[v].run \in 1..Len(runs) /\ runs[work[v].run].worker = v
      BY <2>3, WorkIsHeld DEF Held, Bound
    <3>2. QED
      BY <2>1, <2>2, <2>3, <3>1 DEF OneWorker
  <2>4. QED
    BY <2>1, <2>3 DEF OneWorker, OneRelease, Inv, TypeOK
<1>3. CASE Operates(w) # "process_pending"
  <2>1. Ends(work[w].run, "succeeded", runs')
    BY <1>3, CommittedRun
  <2>2. /\ OneWorker' <=> OneWorker
        /\ OneRelease' <=> OneRelease
        /\ \A v \in Worker : v # w /\ work[v].phase # "idle" =>
                /\ work[v].run \in 1..Len(runs') /\ runs'[work[v].run] = runs[work[v].run]
                /\ ~OneWorker
    BY <1>1, <2>1, EndLeavesOthers
  <2>3. QED
    BY <2>1, <2>2 DEF Ends
<1>4. QED
  BY <1>2, <1>3

\* What is committed stays as it should be.
LEMMA CommitKeepsCommitted ==
    ASSUME Inv, NEW w \in Worker, Commit(w)
    PROVE  Committed' /\ Stored' = Stored \cup Identities(work[w].rows)
<1>1. PICK k \in Work : k = work[w] /\ k.phase = "commit"
  BY WorkIsHeld DEF Commit
<1>2. observations' = observations \cup k.rows
  BY <1>1 DEF Commit
<1>3. Stored' = Stored \cup Identities(k.rows)
  BY <1>2 DEF Stored, Identities
<1>4. IsFiniteSet(Stored)'
  BY <1>1, <1>3, CommitHas, FS_Union DEF Inv, Committed
<1>5. StatesTraceable'
  <2> SUFFICES ASSUME NEW d \in Dimension, NEW i \in states'[d]
               PROVE  i \in Stored' /\ DimensionOf[i.extractor] = d
    BY DEF StatesTraceable
  <2>1. CASE states'[d] = states[d]
    BY <1>3, <2>1 DEF Inv, Committed, StatesTraceable
  <2>2. CASE \E s \in k.drafts : s.dimension = d /\ states'[d] = s.from
    BY <1>1, <1>3, <2>2, CommitHas DEF ListedBy
  <2>3. QED
    BY <1>1, <2>1, <2>2, CommittedStates
<1>6. (\A o, p \in observations : o.of = p.of => o = p)'
  <2>1. ASSUME NEW o \in observations', NEW p \in observations', o.of = p.of
        PROVE  o = p
    <3>1. CASE o \in observations /\ p \in observations
      BY <2>1, <3>1 DEF Inv, Committed
    <3>2. CASE o \in k.rows /\ p \in k.rows
      <4>1. o.writer = w /\ p.writer = w /\ o \in Observation /\ p \in Observation
        BY <1>1, <3>2, CommitHas
      <4>2. QED
        BY <2>1, <4>1 DEF Observation
    <3>3. \A q \in observations : q.of \in Stored
      BY DEF Stored, Identities
    <3>4. \A q \in k.rows : q.of \notin Stored
      BY <1>1, CommitHas
    <3>5. QED
      BY <1>2, <2>1, <3>1, <3>2, <3>3, <3>4
  <2>2. QED
    BY <2>1
<1>7. runs' # <<>>
  <2>1. Len(runs') = Len(runs) /\ k.run \in 1..Len(runs) /\ runs' \in Seq(Run)
    BY <1>1, CommitHas, CommitLeavesRuns
  <2>2. QED
    BY <2>1
<1>8. ASSUME OneWorker', NEW d \in Dimension,
             NEW i \in {j \in Stored' : DimensionOf[j.extractor] = d}
      PROVE  i \in states'[d]
  <2>1. OneWorker
    BY <1>8, CommitLeavesRuns
  <2>2. CASE \E s \in k.drafts : s.dimension = d /\ states'[d] = s.from
    BY <1>1, <1>3, <1>8, <2>1, <2>2, CommitHas DEF ListedBy
  <2>3. CASE states'[d] = states[d] /\ \A s \in k.drafts : s.dimension # d
    <3>1. i \notin Identities(k.rows)
      <4>1. ASSUME NEW o \in k.rows PROVE o.of # i
        <5>1. \E s \in k.drafts : s.dimension = DimensionOf[o.of.extractor]
          BY <1>1, CommitHas
        <5>2. QED
          BY <1>8, <2>3, <5>1
      <4>2. QED
        BY <4>1 DEF Identities
    <3>2. QED
      BY <1>3, <1>8, <2>1, <2>3, <3>1 DEF Inv, Committed
  <2>4. QED
    BY <1>1, <2>2, <2>3, CommittedStates
<1>9. ASSUME OneRelease' PROVE WholeRelease' /\ Succeeded'
  <2>1. OneRelease /\ WholeRelease /\ Succeeded
    BY <1>9, CommitLeavesRuns DEF Inv, Committed
  <2>2. k.run \in 1..Len(runs) /\ runs[k.run].release = release[w]
    BY <1>1, CommitHas
  <2>3. /\ Len(runs') = Len(runs)
        /\ \A n \in 1..Len(runs) :
            /\ runs'[n].operation = runs[n].operation
            /\ runs'[n].release = release[w] /\ runs[n].release = release[w]
            /\ runs'[n].target = runs[n].target
            /\ n = k.run \/ runs'[n] = runs[n]
    BY <1>1, <2>1, <2>2, CommitLeavesRuns DEF OneRelease
  <2>4. WholeRelease'
    <3> SUFFICES ASSUME NEW x \in Range(release[w]), NEW y \in Range(release[w]),
                        NEW e \in Event, Of(e, x) \in Stored'
                 PROVE  Of(e, y) \in Stored'
      BY <2>3 DEF WholeRelease
    <3>1. CASE Of(e, x) \in Stored
      BY <1>3, <2>1, <2>2, <3>1 DEF WholeRelease
    <3>2. CASE Of(e, x) \in Identities(k.rows)
      <4>1. PICK o \in k.rows : o.of = Of(e, x)
        BY <3>2 DEF Identities
      <4>2. e = Head(k.queue) /\ runs[k.run].operation # "rebuild_dimension"
        BY <1>1, <4>1, CommitHas DEF Of
      <4>3. QED
        BY <1>1, <1>3, <2>1, <4>2, CommitHas
    <3>3. QED
      BY <1>3, <3>1, <3>2
  <2>5. Succeeded'
    <3> SUFFICES ASSUME NEW n \in 1..Len(runs), runs'[n].operation = "process_event",
                        runs'[n].status = "succeeded", NEW x \in Range(release[w])
                 PROVE  Of(runs'[n].target, x) \in Stored'
      BY <2>3 DEF Succeeded
    <3>1. CASE n = k.run
      BY <1>1, <1>3, <2>1, <2>3, <3>1, CommitHas
    <3>2. CASE n # k.run
      BY <1>3, <2>1, <2>3, <3>2 DEF Succeeded
    <3>3. QED
      BY <3>1, <3>2
  <2>6. QED
    BY <2>4, <2>5
<1>10. QED
  BY <1>1, <1>3, <1>4, <1>5, <1>6, <1>7, <1>8, <1>9 DEF Committed

\* What the others were doing goes on; those who waited are refused.
LEMMA CommitStep ==
    ASSUME Inv, NEW w \in Worker, Commit(w)
    PROVE  Inv'
<1>1. PICK k \in Work : k = work[w] /\ Held(w, k) /\ k.phase = "commit"
  BY WorkIsHeld DEF Commit
<1>2. Committed' /\ Stored' = Stored \cup Identities(k.rows)
  BY <1>1, CommitKeepsCommitted
<1>3. UNCHANGED <<events, release>>
  BY DEF Commit
<1>4. \E r \in Work : /\ r.rows = {} /\ r.drafts = {} /\ r.view = {}
                      /\ Held(w, r)'
                      /\ r = IF Operates(w) = "process_pending"
                             THEN NextEvent([k EXCEPT !.processed = @ + 1]) ELSE Idle
  <2>1. CASE Operates(w) = "process_pending"
    <3>1. PICK n \in Nat : n = k.processed + 1
      BY DEF Work
    <3>2. PICK l : l = [k EXCEPT !.processed = n]
      OBVIOUS
    <3>3. l \in Work /\ l.queue = k.queue /\ l.run = k.run
      BY <3>2 DEF Work
    <3>4. k.queue # <<>>
      BY <1>1, <2>1, CommitHas DEF Operates
    <3>5. PICK r : r = NextEvent(l)
      OBVIOUS
    <3>6. Left(l, r)
      BY <3>3, <3>4, <3>5, NextEventLeaves
    <3>7. runs' = runs
      BY <2>1, CommittedRun
    <3>8. Bound(w, r)'
      BY <1>1, <1>3, <3>3, <3>6, <3>7, CommitHas DEF Bound, Left
    <3>9. Aimed(r)'
      BY <1>1, <2>1, <3>3, <3>6, <3>7 DEF Aimed, Left, Operates, Working, Building
    <3>10. /\ r \in Work /\ r.rows = {} /\ r.drafts = {} /\ r.view = {}
           /\ r.phase \in {"begin", "record"} /\ (r.phase = "begin" => r.queue # <<>>)
      BY <3>6 DEF Left
    <3>11. Held(w, r)'
      BY <3>8, <3>9, <3>10, EmptyIsHeldNext
    <3>12. r = NextEvent([k EXCEPT !.processed = @ + 1])
      BY <3>1, <3>2, <3>5
    <3>13. QED
      BY <2>1, <3>10, <3>11, <3>12
  <2>2. CASE Operates(w) # "process_pending"
    <3>1. /\ Idle.phase = "idle" /\ Idle.rows = {} /\ Idle.drafts = {} /\ Idle.view = {}
      BY DEF Idle
    <3>2. Bound(w, Idle)' /\ Aimed(Idle)'
      BY <3>1 DEF Bound, Aimed, Working, Building
    <3>3. Held(w, Idle)'
      BY <3>1, <3>2, IdleIsWork, EmptyIsHeldNext
    <3>4. QED
      BY <2>2, <3>1, <3>3, IdleIsWork
  <2>3. QED
    BY <2>1, <2>2
<1>5. PICK r \in Work : /\ r.rows = {} /\ r.drafts = {} /\ r.view = {}
                        /\ Held(w, r)'
                        /\ r = IF Operates(w) = "process_pending"
                               THEN NextEvent([k EXCEPT !.processed = @ + 1]) ELSE Idle
  BY <1>4
<1>6. w \notin Waiters(w)
  BY DEF Waiters
<1>7. work' = [v \in Worker |->
                IF v \in Waiters(w) THEN [work[v] EXCEPT !.phase = "refused"]
                ELSE IF v # w THEN work[v] ELSE r]
  BY <1>1, <1>5 DEF Commit
<1>8. work'[w] = r
  BY <1>6, <1>7
<1>9. ASSUME NEW v \in Worker, v # w
      PROVE  /\ work'[v] \in Work /\ work'[v].run = work[v].run
             /\ work'[v].queue = work[v].queue /\ work'[v].todo = work[v].todo
             /\ work'[v].dims = work[v].dims /\ work'[v].view = work[v].view
             /\ work'[v].rows = work[v].rows /\ work'[v].drafts = work[v].drafts
             /\ \/ work'[v].phase = work[v].phase
                \/ work'[v].phase = "refused" /\ work[v].phase = "waiting"
  <2>1. work[v] \in Work
    BY WorkIsHeld
  <2>2. CASE v \in Waiters(w)
    <3>1. work'[v] = [work[v] EXCEPT !.phase = "refused"] /\ work[v].phase = "waiting"
      BY <1>7, <2>2 DEF Waiters
    <3>2. QED
      BY <2>1, <3>1 DEF Work
  <2>3. CASE v \notin Waiters(w)
    BY <1>7, <1>9, <2>1, <2>3
  <2>4. QED
    BY <2>2, <2>3
<1>10. work' \in [Worker -> Work]
  <2>1. \A v \in Worker : work'[v] \in Work
    BY <1>8, <1>9
  <2>2. QED
    BY <1>7, <2>1
<1>11. Held(w, work[w])'
  BY <1>5, <1>8, HeldAfter
<1>12. ASSUME NEW v \in Worker, v # w PROVE Held(v, work[v])'
  <2>1. PICK a \in Work : a = work[v] /\ Held(v, a)
    BY WorkIsHeld
  <2>2. PICK b \in Work :
            /\ b = work'[v] /\ b.run = a.run /\ b.queue = a.queue /\ b.todo = a.todo
            /\ b.dims = a.dims /\ b.view = a.view /\ b.rows = a.rows
            /\ b.drafts = a.drafts
            /\ b.phase = a.phase \/ (b.phase = "refused" /\ a.phase = "waiting")
    BY <1>9, <1>12, <2>1
  <2>3. a.phase # "idle" =>
            a.run \in 1..Len(runs') /\ runs'[a.run] = runs[a.run] /\ ~OneWorker
    BY <1>12, <2>1, CommitLeavesRuns
  <2>4. /\ b.phase # "idle" <=> a.phase # "idle"
        /\ b.phase \in Building <=> a.phase \in Building
        /\ b.phase \in Working <=> a.phase \in Working
        /\ \A p \in {"begin", "scan", "record", "save", "insert", "commit"} :
                b.phase = p <=> a.phase = p
    BY <2>2 DEF Working, Building
  <2>5. Bound(v, b)'
    BY <1>3, <2>1, <2>2, <2>3, <2>4 DEF Held, Bound
  <2>6. Laid(v, b)'
    BY <1>3, <2>1, <2>2, <2>4 DEF Held, Laid
  <2>7. Aimed(b)'
    BY <2>1, <2>2, <2>3, <2>4 DEF Held, Aimed, Working, Building
  <2>8. Missing(b)'
    BY <2>1, <2>2, <2>4 DEF Held, Missing, DraftOf
  <2>9. Collected(v, b)'
    <3>1. Identities(a.rows) \cap Identities(k.rows) = {}
      BY <1>1, <1>12, <2>1 DEF Inv, Disjoint
    <3>2. \A o \in a.rows : o.of \notin Stored'
      BY <1>2, <2>1, <3>1 DEF Held, Collected, Identities
    <3>3. QED
      BY <1>3, <2>1, <2>2, <3>2 DEF Held, Collected
  <2>10. Aggregated(b)'
    <3>1. \A e : ListedBy(a, e) \subseteq ListedBy(b, e)'
      BY <1>2, <2>2 DEF ListedBy
    <3>2. CASE a.phase = "idle"
      <4>1. a.drafts = {} /\ b.phase \notin Building
        BY <2>1, <2>2, <3>2 DEF Held, Laid, Working, Building
      <4>2. QED
        BY <2>2, <4>1 DEF Aggregated
    <3>3. CASE a.phase # "idle"
      <4>1. ~OneWorker'
        BY <2>3, <3>3, CommitLeavesRuns
      <4>2. \A s \in b.drafts : s.from \subseteq ListedBy(b, s.dimension)'
        BY <2>1, <2>2, <3>1 DEF Held, Aggregated
      <4>3. b.phase \in Building => b.view \subseteq ListedBy(b, Min(b.dims))'
        BY <2>1, <2>2, <2>4, <3>1 DEF Held, Aggregated
      <4>4. QED
        BY <4>1, <4>2, <4>3 DEF Aggregated
    <3>4. QED
      BY <3>2, <3>3
  <2>11. Extracted(v, b)'
    <3>1. OneRelease' => OneRelease
      BY CommitLeavesRuns
    <3>2. QED
      BY <1>2, <1>3, <2>1, <2>2, <2>3, <2>4, <3>1
      DEF Held, Extracted, Working, Building
  <2>12. Held(v, b)'
    BY <2>5, <2>6, <2>7, <2>8, <2>9, <2>10, <2>11 DEF Held
  <2>13. QED
    BY <2>2, <2>12
    DEF Held, Bound, Laid, Aimed, Missing, Collected, Aggregated, Extracted, ListedBy, DraftOf
<1>13. TypeOK'
  <2>1. ASSUME NEW v \in Worker
        PROVE  /\ work'[v].phase # "idle" => /\ work'[v].run \in 1..Len(runs')
                                             /\ runs'[work'[v].run].status = "running"
               /\ work'[v].phase \in {"begin", "save", "insert"} => work'[v].queue # <<>>
    BY <1>11, <1>12 DEF Held, Bound, Laid
  <2>2. observations' \subseteq Observation
    BY <1>1, CommitHas DEF Commit, Inv, TypeOK
  <2>3. states' \in [Dimension -> SUBSET Identity]
    <3>1. ASSUME NEW d \in Dimension PROVE states'[d] \in SUBSET Identity
      BY <1>1, CommittedStates, CommitHas DEF Inv, TypeOK
    <3>2. DOMAIN states' = Dimension /\ states' = [d \in Dimension |-> states'[d]]
      BY DEF Commit
    <3>3. QED
      BY <3>1, <3>2
  <2>4. runs' \in Seq(Run) /\ Len(runs') = Len(runs)
    BY CommitLeavesRuns
  <2>5. QED
    BY <1>3, <1>10, <2>1, <2>2, <2>3, <2>4 DEF Inv, TypeOK
<1>14. Disjoint'
  <2>1. Identities(r.rows) = {}
    BY <1>5 DEF Identities
  <2>2. QED
    BY <1>8, <1>9, <2>1 DEF Inv, Disjoint
<1>15. QED
  BY <1>2, <1>11, <1>12, <1>13, <1>14 DEF Inv

-----------------------------------------------------------------------------

LEMMA IngestStep ==
    ASSUME Inv, Ingest
    PROVE  Inv'
<1>1. events' \in 0..MaxEvents
  BY ConstantAssumption DEF Ingest, Inv, TypeOK
<1>2. UNCHANGED <<observations, states, release, runs, work>>
  BY DEF Ingest
<1>3. TypeOK' /\ Disjoint'
  BY <1>1, <1>2 DEF Inv, TypeOK, Disjoint
<1>4. Committed'
  BY <1>2, CommittedStays DEF Inv
<1>5. ASSUME NEW w \in Worker PROVE Held(w, work[w])'
  <2>1. Held(w, work[w])
    BY DEF Inv
  <2>2. QED
    BY <1>2, <2>1
    DEF Held, Bound, Laid, Aimed, Missing, Collected, Aggregated, Extracted, OneWorker,
        OneRelease, ListedBy, DraftOf, Stored
<1>6. QED
  BY <1>3, <1>4, <1>5 DEF Inv

LEMMA InitHolds == Init => Inv
<1> SUFFICES ASSUME Init PROVE Inv
  OBVIOUS
<1>1. /\ Idle.phase = "idle" /\ Idle.rows = {} /\ Idle.drafts = {} /\ Idle.view = {}
  BY DEF Idle
<1>2. TypeOK
  <2>1. Len(runs) = 0 /\ runs \in Seq(Run)
    BY DEF Init
  <2>2. QED
    BY <1>1, <2>1, IdleIsWork, ConstantAssumption DEF Init, TypeOK
<1>3. Stored = {} /\ Len(runs) = 0
  BY DEF Init, Stored, Identities
<1>4. Committed
  BY <1>3, FS_EmptySet DEF Init, Committed, StatesTraceable, WholeRelease, Succeeded
<1>5. ASSUME NEW w \in Worker PROVE Held(w, work[w]) /\ Identities(work[w].rows) = {}
  <2>1. work[w] = Idle
    BY DEF Init
  <2>2. Bound(w, Idle) /\ Aimed(Idle)
    BY <1>1 DEF Bound, Aimed, Working, Building
  <2>3. Held(w, Idle)
    BY <1>1, <2>2, IdleIsWork, EmptyIsHeld DEF Working, Building
  <2>4. QED
    BY <1>1, <2>1, <2>3 DEF Identities
<1>6. QED
  BY <1>2, <1>4, <1>5 DEF Inv, Disjoint

LEMMA NextKeeps == Inv /\ [Next]_vars => Inv'
<1> SUFFICES ASSUME Inv, [Next]_vars PROVE Inv'
  OBVIOUS
<1>1. CASE UNCHANGED vars
  <2>1. UNCHANGED <<events, observations, states, release, runs, work>>
    BY <1>1 DEF vars
  <2>2. TypeOK' /\ Disjoint'
    BY <2>1 DEF Inv, TypeOK, Disjoint
  <2>3. Committed'
    BY <2>1, CommittedStays DEF Inv
  <2>4. ASSUME NEW w \in Worker PROVE Held(w, work[w])'
    <3>1. Held(w, work[w])
      BY DEF Inv
    <3>2. QED
      BY <2>1, <3>1
      DEF Held, Bound, Laid, Aimed, Missing, Collected, Aggregated, Extracted, OneWorker,
          OneRelease, ListedBy, DraftOf, Stored
  <2>5. QED
    BY <2>2, <2>3, <2>4 DEF Inv
<1>2. CASE Ingest
  BY <1>2, IngestStep
<1>3. ASSUME NEW w \in Worker, Request(w) PROVE Inv'
  BY <1>3, RequestStep
<1>4. ASSUME NEW w \in Worker, Crash(w) PROVE Inv'
  BY <1>4, CrashStep
<1>5. ASSUME NEW w \in Worker, Step(w) PROVE Inv'
  <2>1. CASE Scan(w) \/ Begin(w) \/ Save(w) \/ Insert(w) \/ InsertLost(w)
    BY <2>1, ScanStep, BeginStep, SaveStep, InsertStep, InsertLostStep
  <2>2. CASE List(w) \/ Lookup(w) \/ Create(w) \/ Overwrite(w) \/ Proceed(w) \/ Refused(w)
    BY <2>2, ListStep, LookupStep, CreateStep, OverwriteStep, ProceedStep, RefusedStep
  <2>3. CASE Raise(w) \/ Commit(w) \/ Mark(w) \/ Record(w)
    BY <2>3, RaiseStep, CommitStep, MarkStep, RecordStep
  <2>4. QED
    BY <1>5, <2>1, <2>2, <2>3 DEF Step
<1>6. QED
  BY <1>1, <1>2, <1>3, <1>4, <1>5 DEF Next

\* What every worker holds, and what is committed, in every reachable state:
\* feature_service.py with the unique indexes of observations and states.
THEOREM InvHolds == Spec => []Inv
<1>1. QED
  BY InitHolds, NextKeeps, PTL DEF Spec

\* The rows, the runs and what every worker holds have their types; a worker's
\* run is open until it ends.
THEOREM EngineTyped == Spec => []TypeOK
<1>1. Inv => TypeOK
  BY DEF Inv
<1>2. QED
  BY <1>1, InvHolds, PTL

\* plan.md:1076: every committed state was aggregated from stored observations
\* of its dimension, whatever was rolled back on the way.
THEOREM StatesAreTraceable == Spec => []StatesTraceable
<1>1. Inv => StatesTraceable
  BY DEF Inv, Committed
<1>2. QED
  BY <1>1, InvHolds, PTL

\* As long as one worker does all the runs, every state is aggregated from all
\* the observations of its dimension: rebuild_dimension after any failure.
THEOREM StatesAreCurrent == Spec => []StatesCurrent
<1>1. Inv => StatesCurrent
  BY DEF Inv, Committed, StatesCurrent, StatesTraceable, OneWorker
<1>2. QED
  BY <1>1, InvHolds, PTL

\* plan.md:499, 1286: as long as all runs are of one release, process_event that
\* has succeeded leaves each observation of its event stored, once.
THEOREM ReleaseObserved == Spec => []ReleaseIsObserved
<1>1. Inv => ReleaseIsObserved
  <2> SUFFICES ASSUME Inv, OneRelease, NEW n \in 1..Len(runs),
                      runs[n].operation = "process_event", runs[n].status = "succeeded",
                      NEW x \in Range(runs[n].release)
               PROVE  Cardinality({o \in observations : o.of = Of(runs[n].target, x)}) = 1
    BY DEF ReleaseIsObserved, SucceededIsObserved, Observed, OneRelease, Of
  <2>1. Of(runs[n].target, x) \in Stored
    BY DEF Inv, Committed, Succeeded
  <2>2. PICK o \in observations : o.of = Of(runs[n].target, x)
    BY <2>1 DEF Stored, Identities
  <2>3. {p \in observations : p.of = Of(runs[n].target, x)} = {o}
    BY <2>2 DEF Inv, Committed
  <2>4. QED
    BY <2>3, FS_Singleton
<1>2. QED
  BY <1>1, InvHolds, PTL
===============================================================================
