---------------------- MODULE ContextResolution_proofs ----------------------
(***************************************************************************)
(* Theorems about PreferenceResolution and ContextResolution for every    *)
(* set of memories, rows, places, scores and budgets, every page size and *)
(* any number of commits: what a preference and a diff are, what a        *)
(* request keeps while others write, and what the budget buys.            *)
(***************************************************************************)
EXTENDS ContextResolution, FiniteSetTheorems, WellFoundedInduction, TLAPS

-----------------------------------------------------------------------------
(* The resolution of preferences, for every score, every set of memories  *)
(* and places and every order of the scopes.                              *)

Rows == [Memory -> MemoryRow \cup {NoRow}]

\* The polarity of a score is that of its sign.
LEMMA PolarityIsSign ==
    ASSUME NEW score \in Int
    PROVE  /\ PolarityForScore(score) \in {"positive", "negative", "neutral"}
           /\ PolarityForScore(score) = "positive" <=> score > 0
           /\ PolarityForScore(score) = "negative" <=> score < 0
BY DEF PolarityForScore

\* What a memory speaks for has the score of its polarity.
LEMMA ExplicitScoreFits ==
    ASSUME NEW polarity \in Polarity
    PROVE  /\ ExplicitScore[polarity] \in Score
           /\ polarity # "unknown" => polarity = PolarityForScore(ExplicitScore[polarity])
           /\ polarity = "unknown" => ExplicitScore[polarity] = 0
BY ScoreAssumption DEF Polarity, Score, ExplicitScore, PolarityForScore

\* Behaviour alone makes an acceptable preference.
LEMMA BehaviorOnlyAccepted ==
    ASSUME NEW t \in Target, NEW score \in Score
    PROVE  /\ BehaviorOnly(score) \in Preference
           /\ ValidPreference(t, BehaviorOnly(score))
<1>1. score \in Int /\ PolarityForScore(score) \in {"positive", "negative", "neutral"}
    BY ScoreAssumption, PolarityIsSign DEF Score
<1>2. BehaviorOnly(score) \in Preference
    BY <1>1 DEF BehaviorOnly, Preference, Polarity, Resolution
<1>3. ValidPreference(t, BehaviorOnly(score))
    BY <1>1 DEF BehaviorOnly, ValidPreference
<1> QED BY <1>2, <1>3

\* Memories alone make an acceptable preference.
LEMMA ExplicitOnlyAccepted ==
    ASSUME NEW t \in Target, NEW row \in MemoryRow,
           NEW memories \in SUBSET Memory, memories # {}
    PROVE  /\ ExplicitOnly(row, memories) \in Preference
           /\ ValidPreference(t, ExplicitOnly(row, memories))
<1>1. row.polarity \in Polarity
    BY DEF MemoryRow
<1>2. ExplicitOnly(row, memories) \in Preference
    BY <1>1, ExplicitScoreFits DEF ExplicitOnly, Preference, Resolution
<1>3. ValidPreference(t, ExplicitOnly(row, memories))
    BY <1>1, ExplicitScoreFits DEF ExplicitOnly, ValidPreference
<1> QED BY <1>2, <1>3

\* A memory against behaviour: whatever their polarities, the preference, and
\* the conflict if it keeps one, are acceptable.
LEMMA PairAccepted ==
    ASSUME NEW t \in Target, NEW row \in MemoryRow, row.target = t,
           NEW memories \in SUBSET Memory, memories # {}, NEW score \in Score
    PROVE  /\ ResolvePair(row, memories, score) \in Preference
           /\ ValidPreference(t, ResolvePair(row, memories, score))
<1> DEFINE p == ResolvePair(row, memories, score)
           c == ConflictOf(row, memories, score)
<1>1. /\ row.polarity \in Polarity
      /\ PolarityForScore(score) \in {"positive", "negative", "neutral"}
    BY ScoreAssumption, PolarityIsSign DEF MemoryRow, Score
<1>2. c \in Conflict
    BY <1>1 DEF ConflictOf, Conflict, Polarity
<1>3. c # NoConflict
    BY <1>2, NoneAssumption
<1>4. PairResolution(row, score) # "aligned" => ValidConflict(c)
    BY <1>1 DEF PairResolution, ConflictOf, ValidConflict
<1>5. p \in Preference
    BY <1>1, <1>2, ExplicitScoreFits DEF ResolvePair, PairResolution, Preference, Resolution
<1>6. ValidPreference(t, p)
  <2>1. /\ PairResolution(row, score) \in
            {"unresolved_conflict", "aligned", "explicit_overrides_behavior"}
        /\ p.resolution = PairResolution(row, score)
        /\ p.memories = memories /\ p.behaves = TRUE
        /\ p.polarity = row.polarity /\ p.score = ExplicitScore[row.polarity]
        /\ p.conflict = IF PairResolution(row, score) = "aligned" THEN NoConflict ELSE c
    BY DEF ResolvePair, PairResolution
  <2>2. c.target = t /\ c.memories = memories
    BY DEF ConflictOf
  <2> HIDE DEF p, c
  <2> QED BY <1>1, <1>3, <1>4, <2>1, <2>2, ExplicitScoreFits DEF ValidPreference
<1> QED BY <1>5, <1>6

\* Whatever memories, selectors and behaviour there are, and whichever memory
\* of those that none outranks speaks for the others: the resolution is one
\* that the constructors of domain/profile.py accept.
THEOREM ResolutionAccepted ==
    ASSUME NEW stored \in Rows, NEW here, NEW t \in Target,
           NEW score \in Score \cup {NoScore}, NEW speaker,
           Candidates(stored, here, t) # {} =>
               speaker \in Speakers(stored, Candidates(stored, here, t))
    PROVE  LET p == Resolve(stored, Candidates(stored, here, t), speaker, score) IN
           /\ p \in Preference \cup {NoPreference}
           /\ p # NoPreference => ValidPreference(t, p)
<1> DEFINE memories == Candidates(stored, here, t)
<1>1. memories \in SUBSET Memory
    BY DEF Candidates
<1>2. memories # {} => stored[speaker] \in MemoryRow /\ stored[speaker].target = t
    BY DEF Speakers, Candidates, Rows
<1>3. score # NoScore => score \in Score
    OBVIOUS
<1> HIDE DEF memories
<1> SUFFICES /\ Resolve(stored, memories, speaker, score) \in Preference \cup {NoPreference}
             /\ Resolve(stored, memories, speaker, score) # NoPreference
                    => ValidPreference(t, Resolve(stored, memories, speaker, score))
    BY DEF memories
<1>4. CASE memories = {} /\ score = NoScore
    BY <1>4 DEF Resolve
<1>5. CASE memories = {} /\ score # NoScore
    BY <1>3, <1>5, BehaviorOnlyAccepted DEF Resolve
<1>6. CASE memories # {} /\ score = NoScore
    BY <1>1, <1>2, <1>6, ExplicitOnlyAccepted DEF Resolve
<1>7. CASE memories # {} /\ score # NoScore
    BY <1>1, <1>2, <1>3, <1>7, PairAccepted DEF Resolve
<1> QED BY <1>4, <1>5, <1>6, <1>7

\* plan.md:18, for one target: a preference names all the memories that have a
\* say, takes the polarity of one that none outranks, and keeps behaviour to the
\* contrary as a conflict.
THEOREM SpeakerPrevails ==
    ASSUME NEW stored \in Rows, NEW here, NEW t \in Target,
           NEW score \in Score \cup {NoScore},
           NEW speaker \in Speakers(stored, Candidates(stored, here, t))
    PROVE  LET memories == Candidates(stored, here, t)
               p == Resolve(stored, memories, speaker, score) IN
           /\ p.memories = memories
           /\ p.polarity = stored[speaker].polarity
           /\ score # NoScore /\ PolarityForScore(score) # p.polarity
                => p.conflict # NoConflict /\ p.conflict.score = score
<1> DEFINE memories == Candidates(stored, here, t)
           c == ConflictOf(stored[speaker], memories, score)
<1>1. /\ memories # {} /\ memories \in SUBSET Memory
      /\ stored[speaker] \in MemoryRow /\ stored[speaker].target = t
    BY DEF Speakers, Candidates, Rows
<1>2. CASE score = NoScore
    BY <1>1, <1>2 DEF Resolve, ExplicitOnly
<1>3. CASE score # NoScore
  <2>1. score \in Score /\ PolarityForScore(score) \in {"positive", "negative", "neutral"}
    BY <1>3, ScoreAssumption, PolarityIsSign DEF Score
  <2>2. c \in Conflict
    BY <1>1, <2>1 DEF ConflictOf, Conflict, MemoryRow, Polarity
  <2>3. c # NoConflict /\ c.score = score
    BY <2>2, NoneAssumption DEF ConflictOf
  <2> QED BY <1>1, <1>3, <2>3 DEF Resolve, ResolvePair, PairResolution
<1> QED BY <1>2, <1>3

\* plan.md:1099: whatever two snapshots say of a target, the kind that the diff
\* gives the change is one that validate_change accepts, and it names no change
\* exactly when there is none.
THEOREM DiffExplains ==
    ASSUME NEW before, NEW after
    PROVE  /\ ChangeKind(before, after) = "none" <=> before = after
           /\ before # after => ValidChange(before, after, ChangeKind(before, after))
BY DEF ChangeKind, ValidChange

-----------------------------------------------------------------------------
(* A request beside writers.                                               *)

MaybeRow == MemoryRow \cup {NoRow}

\* The types of what a request keeps between its statements.
Shape ==
    /\ context \in Context
    /\ context.todo \subseteq context.candidates
    /\ during \in [Memory -> SUBSET MaybeRow]
    /\ newer \in [Memory -> SUBSET Memory]

\* While a request runs, what is committed counts as committed during it.
PresentIsDuring ==
    context.phase # "idle" => \A m \in Memory : rows[m] \in during[m]

\* What memory_by_id has of a candidate was in force, and applied.
ListedWasInForce ==
    context.phase # "idle" =>
        \A m \in context.candidates :
            context.listed[m] \in during[m] /\ Fits(context.listed[m])

\* It has not been lost.
SteadyAreCandidates ==
    context.phase \notin {"idle", "list"} =>
        \A m \in Memory \ moved : Steady(m) => m \in context.candidates

\* Of two memories in a list one comes first.
Ordered(order) ==
    /\ \A m \in Present(rows) : m \notin order[m]
    /\ \A m, n \in Present(rows) : m # n => m \in order[n] \/ n \in order[m]

\* What was listed so far was in force, and a steady memory that is still to be
\* listed is not on a page that was read.
Listing(c, order, present, gone) ==
    /\ Ordered(order)
    /\ c.candidates = {} /\ c.todo = {}
    /\ \A m \in Memory : c.listed[m] # NoRow =>
        c.listed[m] \in present[m] /\ c.listed[m].place \in c.here
    /\ \A m \in Memory \ gone :
        (\A row \in present[m] : row # NoRow /\ Hard(row) /\ row.place \in c.here)
            => c.listed[m] # NoRow \/ c.offset <= Cardinality(order[m])

PagesAreListed == context.phase = "list" => Listing(context, newer, during, moved)

HardAreSelected ==
    context.phase = "returned" =>
        bundle.hard = {m \in context.candidates : Hard(context.listed[m])}

\* The inductive invariant of a request.
RequestInv ==
    /\ Possible(rows)
    /\ Shape /\ PresentIsDuring /\ ListedWasInForce /\ SteadyAreCandidates
    /\ PagesAreListed /\ HardAreSelected

-----------------------------------------------------------------------------

LEMMA IdleIsContext == Idle \in Context
<1>1. {Everywhere} \in Selection
    BY PlaceAssumption DEF Selection
<1> QED BY <1>1, ContextAssumption DEF Idle, Context, None

LEMMA InitRequest == Init => RequestInv
<1> SUFFICES ASSUME Init PROVE RequestInv
    OBVIOUS
<1>1. Possible(rows)
    BY DEF Init, Possible, None
<1>2. Shape
    BY IdleIsContext DEF Init, Shape, Idle, MaybeRow, NoOrder
<1>3. context.phase = "idle"
    BY DEF Init, Idle
<1> QED BY <1>1, <1>2, <1>3
    DEF RequestInv, PresentIsDuring, ListedWasInForce, SteadyAreCandidates, PagesAreListed,
        HardAreSelected

\* Another memory that was written comes before others, or is gone: they stay in
\* order, and nothing moves towards the first page unless it is noted.
LEMMA CommitReorders ==
    ASSUME RequestInv, NEW updated, NEW n \in Memory, Possible(updated),
           \A m \in Memory \ {n} : updated[m] \in {rows[m], NoRow},
           context.phase = "list", Commit(updated, n)
    PROVE  PagesAreListed' /\ newer' \in [Memory -> SUBSET Memory]
<1>1. /\ rows' = updated /\ context' = context
      /\ during' = [m \in Memory |-> during[m] \cup {updated[m]}]
    BY DEF Commit, request
<1>2. PICK behind \in SUBSET Memory :
        /\ newer' = Reordered(updated, n, behind)
        /\ moved' = moved \cup {m \in Memory : ~(newer[m] \subseteq newer'[m])}
    BY DEF Commit, Places, Present
<1> DEFINE present == Present(updated)
<1>3. present \subseteq Memory
    BY DEF Present
<1>4. newer' \in [Memory -> SUBSET Memory]
    BY <1>2, <1>3 DEF Reordered
<1>5. Listing(context, newer, during, moved)
    BY DEF RequestInv, PagesAreListed
<1>6. Ordered(newer)'
  <2>0. ASSUME NEW m \in present PROVE m \notin newer'[m]
    <3>1. m # n => m \in Present(rows)
      BY DEF Present
    <3> QED BY <1>2, <1>3, <1>5, <3>1 DEF Reordered, Listing, Ordered
  <2> SUFFICES ASSUME NEW m \in present, NEW k \in present, m # k
               PROVE  m \in newer'[k] \/ k \in newer'[m]
    BY <1>1, <2>0 DEF Ordered
  <2>1. CASE m = n
    BY <1>2, <1>3, <2>1 DEF Reordered
  <2>2. CASE k = n
    BY <1>2, <1>3, <2>2 DEF Reordered
  <2>3. CASE m # n /\ k # n
    <3>1. m \in Present(rows) /\ k \in Present(rows)
      BY <2>3 DEF Present
    <3> QED BY <1>2, <1>3, <1>5, <2>3, <3>1 DEF Reordered, Listing, Ordered
  <2> QED BY <2>1, <2>2, <2>3
<1>7. ASSUME NEW m \in Memory \ moved', Steady(m)'
      PROVE  context.listed[m] # NoRow \/ context.offset <= Cardinality(newer'[m])
  <2>1. m \notin moved /\ newer[m] \subseteq newer'[m]
    BY <1>2, <1>7
  <2>2. Steady(m)
    BY <1>1, <1>7 DEF Steady
  <2>3. CASE context.offset <= Cardinality(newer[m])
    <3>1. IsFiniteSet(newer'[m])
      BY <1>4, ContextAssumption, FS_Subset
    <3>2. IsFiniteSet(newer[m]) /\ Cardinality(newer[m]) <= Cardinality(newer'[m])
      BY <2>1, <3>1, FS_Subset
    <3>3. Cardinality(newer[m]) \in Nat /\ Cardinality(newer'[m]) \in Nat
      BY <3>1, <3>2, FS_CardinalityType
    <3>4. context.offset \in Nat
      BY DEF RequestInv, Shape, Context
    <3> QED BY <2>3, <3>2, <3>3, <3>4
  <2> QED BY <1>5, <2>1, <2>2, <2>3 DEF Listing, Steady
<1>8. \A m \in Memory : context.listed[m] # NoRow =>
            context.listed[m] \in during'[m] /\ context.listed[m].place \in context.here
    BY <1>1, <1>5 DEF Listing
<1> QED BY <1>1, <1>4, <1>5, <1>6, <1>7, <1>8 DEF PagesAreListed, Listing, Steady

\* A commit of another request: more rows were there during this one.
LEMMA CommitKeeps ==
    ASSUME RequestInv, NEW updated, NEW n \in Memory, Possible(updated),
           \A m \in Memory \ {n} : updated[m] \in {rows[m], NoRow},
           Commit(updated, n)
    PROVE  RequestInv'
<1> USE DEF RequestInv
<1>1. /\ rows' = updated /\ Possible(rows)'
      /\ context' = context /\ bundle' = bundle
    BY DEF Commit, Possible, request
<1>2. CASE context.phase = "idle"
  <2>1. during' = during /\ newer' = newer
    BY <1>2 DEF Commit, history
  <2> QED BY <1>1, <1>2, <2>1
    DEF Shape, PresentIsDuring, ListedWasInForce, SteadyAreCandidates, PagesAreListed,
        HardAreSelected
<1>3. CASE context.phase # "idle"
  <2>1. during' = [m \in Memory |-> during[m] \cup {updated[m]}]
    BY <1>3 DEF Commit
  <2>2. PagesAreListed' /\ newer' \in [Memory -> SUBSET Memory]
    BY <1>1, <1>3, CommitReorders DEF Commit, Shape, PagesAreListed
  <2>3. Shape'
    BY <1>1, <2>1, <2>2 DEF Shape, Possible, MaybeRow
  <2>4. \A m \in Memory : during[m] \subseteq during'[m] /\ updated[m] \in during'[m]
    BY <2>1
  <2>5. PresentIsDuring'
    BY <1>1, <2>4 DEF PresentIsDuring
  <2>6. ListedWasInForce'
    BY <1>1, <1>3, <2>4 DEF ListedWasInForce, Fits, Shape, Context
  <2>7. moved \subseteq moved'
    BY <1>3 DEF Commit
  <2>8. SteadyAreCandidates'
    BY <1>1, <1>3, <2>4, <2>7 DEF SteadyAreCandidates, Steady
  <2>9. HardAreSelected'
    BY <1>1 DEF HardAreSelected
  <2> QED BY <1>1, <2>2, <2>3, <2>5, <2>6, <2>8, <2>9
<1> QED BY <1>2, <1>3

LEMMA WritersKeep ==
    ASSUME RequestInv, NEW m \in Memory,
           \/ Activate(m) \/ Patch(m) \/ End(m) \/ \E n \in Memory : Supersede(m, n)
    PROVE  RequestInv'
<1>1. Possible(rows) /\ Row \in [Memory -> SUBSET MemoryRow]
    BY ContextAssumption DEF RequestInv
<1>2. ASSUME NEW row \in Row[m] \cup {NoRow} PROVE Possible([rows EXCEPT ![m] = row])
    BY <1>1 DEF Possible
<1> USE <1>1 DEF Possible
<1>3. CASE Activate(m)
    BY <1>2, <1>3, CommitKeeps DEF Activate
<1>4. CASE Patch(m)
    BY <1>2, <1>4, CommitKeeps DEF Patch
<1>5. CASE End(m)
    BY <1>2, <1>5, CommitKeeps DEF End
<1>6. ASSUME NEW n \in Memory, Supersede(m, n) PROVE RequestInv'
  <2>1. PICK row \in Row[n] : Commit([rows EXCEPT ![m] = NoRow, ![n] = row], n)
    BY <1>6 DEF Supersede
  <2>2. Possible([rows EXCEPT ![m] = NoRow, ![n] = row])
    BY <1>1 DEF Possible
  <2> QED BY <2>1, <2>2, CommitKeeps
<1> QED BY <1>3, <1>4, <1>5, <1>6

\* OFFSET and LIMIT: what is not on the page is beyond it, or before it.
LEMMA PageIsNext ==
    ASSUME NEW order \in [Memory -> SUBSET Memory], Ordered(order), NEW offset \in Nat,
           NEW before \in First(order, offset), NEW after \in First(order, offset + PageSize),
           NEW m \in Present(rows), offset <= Cardinality(order[m]), m \notin after \ before
    PROVE  /\ PageSize <= Cardinality(after \ before)
           /\ offset + PageSize <= Cardinality(order[m])
<1> DEFINE present == Present(rows)
<1>1. /\ IsFiniteSet(present) /\ IsFiniteSet(order[m])
      /\ PageSize \in Nat /\ offset + PageSize \in Nat
    BY ContextAssumption, FS_Subset DEF Present
<1>2. ASSUME NEW k \in Nat, NEW head \in First(order, k)
      PROVE  /\ head \subseteq present /\ IsFiniteSet(head) /\ Cardinality(head) \in Nat
             /\ \A n \in head : order[n] \subseteq head
             /\ Cardinality(head) <= k
             /\ Cardinality(head) < k => head = present
  <2>1. head \subseteq present
    BY DEF First
  <2> QED BY <1>1, <2>1, FS_Subset, FS_CardinalityType DEF First
<1>3. m \notin before
  <2> SUFFICES ASSUME m \in before PROVE FALSE
    OBVIOUS
  <2>1. order[m] \subseteq before \ {m}
    BY <1>2 DEF Ordered
  <2>2. IsFiniteSet(before \ {m}) /\ Cardinality(before \ {m}) = Cardinality(before) - 1
    BY <1>2, FS_RemoveElement
  <2>3. Cardinality(order[m]) <= Cardinality(before \ {m})
    BY <2>1, <2>2, FS_Subset
  <2>4. Cardinality(before) \in Nat /\ Cardinality(before) <= offset
    BY <1>2
  <2>5. Cardinality(order[m]) \in Nat
    BY <1>1, FS_CardinalityType
  <2> QED BY <2>2, <2>3, <2>4, <2>5
<1>4. m \notin after
    BY <1>3
<1>5. after \subseteq order[m] /\ Cardinality(after) = offset + PageSize
  <2>1. /\ after \subseteq present /\ \A n \in after : order[n] \subseteq after
        /\ Cardinality(after) <= offset + PageSize
        /\ Cardinality(after) < offset + PageSize => after = present
        /\ Cardinality(after) \in Nat
    BY <1>1, <1>2
  <2> QED BY <1>1, <1>4, <2>1 DEF Ordered
<1>6. Cardinality(after) <= Cardinality(order[m])
    BY <1>1, <1>5, FS_Subset
<1>7. PageSize <= Cardinality(after \ before)
  <2>1. IsFiniteSet(after) /\ IsFiniteSet(before) /\ Cardinality(before) <= offset
        /\ Cardinality(before) \in Nat
    BY <1>1, <1>2
  <2>2. Cardinality(after \ before) = Cardinality(after) - Cardinality(after \cap before)
    BY <2>1, FS_Difference
  <2>3. Cardinality(after \cap before) <= Cardinality(before)
        /\ Cardinality(after \cap before) \in Nat
    BY <2>1, FS_Subset, FS_CardinalityType
  <2> QED BY <1>1, <1>5, <2>1, <2>2, <2>3
<1> QED BY <1>1, <1>5, <1>6, <1>7

\* A statement of the list: the next page, or everything that fits is a candidate.
LEMMA ReadPageKeeps ==
    ASSUME Possible(rows), NEW c \in Context,
           NEW order \in [Memory -> SUBSET Memory], ReadPage(c, order),
           rows' = rows, during' \in [Memory -> SUBSET MaybeRow],
           \A m \in Memory : rows[m] \in during'[m],
           Listing(c, order, during', moved')
    PROVE  RequestInv'
<1>1. PICK before \in First(order, c.offset), after \in First(order, c.offset + PageSize) :
        LET page == after \ before
            listed == [m \in Memory |-> IF m \in page /\ rows[m].place \in c.here
                                        THEN rows[m] ELSE c.listed[m]] IN
        IF Cardinality(page) < PageSize
        THEN /\ context' = [c EXCEPT !.phase = "search", !.offset = 0,
                                     !.listed = listed, !.candidates = Present(listed)]
             /\ newer' = NoOrder
        ELSE /\ context' = [c EXCEPT !.phase = "list", !.offset = @ + PageSize,
                                     !.listed = listed]
             /\ newer' = order
    BY DEF ReadPage
<1> DEFINE page == after \ before
           listed == [m \in Memory |-> IF m \in page /\ rows[m].place \in c.here
                                       THEN rows[m] ELSE c.listed[m]]
           found == Present(listed)
           held(m) == \A row \in during'[m] : row # NoRow /\ Hard(row) /\ row.place \in c.here
<1>2. /\ Ordered(order) /\ c.candidates = {} /\ c.todo = {}
      /\ \A m \in Memory : c.listed[m] # NoRow =>
            c.listed[m] \in during'[m] /\ c.listed[m].place \in c.here
      /\ \A m \in Memory \ moved' :
            held(m) => c.listed[m] # NoRow \/ c.offset <= Cardinality(order[m])
    BY DEF Listing
<1>3. /\ c.offset \in Nat /\ PageSize \in Nat
      /\ c.listed \in [Memory -> MemoryRow \cup {NoRow}]
    BY ContextAssumption DEF Context
<1>4. listed \in [Memory -> MemoryRow \cup {NoRow}]
    BY <1>3 DEF Possible
<1>5. \A m \in Memory : listed[m] # NoRow =>
            listed[m] \in during'[m] /\ listed[m].place \in c.here
    BY <1>2
<1>6. ASSUME NEW m \in Memory \ moved', held(m), listed[m] = NoRow
      PROVE  /\ PageSize <= Cardinality(page)
             /\ c.offset + PageSize <= Cardinality(order[m])
  <2>1. rows[m] # NoRow /\ rows[m].place \in c.here /\ m \in Present(rows)
    BY <1>6 DEF Present
  <2>2. m \notin page /\ c.listed[m] = NoRow
    BY <1>6, <2>1
  <2>3. c.offset <= Cardinality(order[m])
    BY <1>2, <1>6, <2>2
  <2> QED BY <1>2, <1>3, <2>1, <2>2, <2>3, PageIsNext
<1>7. Possible(rows)' /\ PresentIsDuring'
    BY DEF Possible, PresentIsDuring
<1>8. CASE Cardinality(page) < PageSize
  <2> HIDE DEF page, listed, found
  <2>1. context' = [c EXCEPT !.phase = "search", !.offset = 0, !.listed = listed,
                             !.candidates = found] /\ newer' = NoOrder
    BY <1>1, <1>8 DEF page, listed, found
  <2>2. found \in SUBSET Memory
    BY DEF found, Present
  <2>3. /\ context' \in Context /\ context'.phase = "search" /\ context'.here = c.here
        /\ context'.candidates = found /\ context'.todo = {} /\ context'.listed = listed
    BY <1>2, <1>4, <2>1, <2>2 DEF Context
  <2>4. Shape'
    BY <2>1, <2>3 DEF Shape, NoOrder
  <2>5. HardAreSelected' /\ PagesAreListed'
    BY <2>3 DEF HardAreSelected, PagesAreListed
  <2>6. ListedWasInForce'
    BY <1>5, <2>3 DEF ListedWasInForce, Fits, found, Present
  <2>7. SteadyAreCandidates'
    <3> SUFFICES ASSUME NEW m \in Memory \ moved', Steady(m)' PROVE m \in found
      BY <2>3 DEF SteadyAreCandidates
    <3>1. held(m)
      BY <2>3 DEF Steady
    <3>2. listed[m] # NoRow
      <4>1. Cardinality(page) \in Nat
        <5>1. page \in SUBSET Memory
          BY DEF page, First, Present
        <5> QED BY <5>1, ContextAssumption, FS_Subset, FS_CardinalityType
      <4> QED BY <1>3, <1>6, <1>8, <3>1, <4>1
    <3> QED BY <3>2 DEF found, Present
  <2> QED BY <1>7, <2>4, <2>5, <2>6, <2>7 DEF RequestInv
<1>9. CASE ~(Cardinality(page) < PageSize)
  <2> HIDE DEF page, listed, found
  <2>1. /\ context' = [c EXCEPT !.phase = "list", !.offset = c.offset + PageSize,
                                !.listed = listed]
        /\ newer' = order
    BY <1>1, <1>9 DEF page, listed, found
  <2>2. c.offset + PageSize \in Nat
    BY <1>3
  <2>3. /\ context' \in Context /\ context'.phase = "list" /\ context'.here = c.here
        /\ context'.candidates = {} /\ context'.todo = {} /\ context'.listed = listed
        /\ context'.offset = c.offset + PageSize
    BY <1>2, <1>4, <2>1, <2>2 DEF Context
  <2>4. Shape'
    BY <2>1, <2>3 DEF Shape
  <2>5. HardAreSelected' /\ ListedWasInForce' /\ SteadyAreCandidates'
    BY <2>3 DEF HardAreSelected, ListedWasInForce, SteadyAreCandidates
  <2>6. Ordered(newer)'
    BY <1>2, <2>1 DEF Ordered, Present
  <2>7. PagesAreListed'
    BY <1>5, <1>6, <2>1, <2>3, <2>6 DEF PagesAreListed, Listing
  <2> QED BY <1>7, <2>4, <2>5, <2>7 DEF RequestInv
<1> QED BY <1>8, <1>9

\* The request begins, with its memories in any order.
LEMMA ListKeeps ==
    ASSUME RequestInv, NEW here \in Selection, NEW query \in BOOLEAN,
           NEW budget \in Budget, List(here, query, budget)
    PROVE  RequestInv'
<1> DEFINE present == Present(rows)
           c == [Idle EXCEPT !.here = here, !.query = query, !.budget = budget]
<1>1. PICK rank \in [present -> 1..Cardinality(present)] :
        /\ \A m, n \in present : rank[m] = rank[n] => m = n
        /\ ReadPage(c, [m \in Memory |-> {n \in present : m \in present /\ rank[n] < rank[m]}])
    BY DEF List
<1> DEFINE order == [m \in Memory |-> {n \in present : m \in present /\ rank[n] < rank[m]}]
<1>2. /\ Possible(rows) /\ rows' = rows
      /\ during' = [m \in Memory |-> {rows[m]}]
    BY DEF RequestInv, List, world
<1>3. /\ c \in Context /\ c.candidates = {} /\ c.todo = {} /\ c.offset = 0
      /\ \A m \in Memory : c.listed[m] = NoRow
    BY IdleIsContext DEF Idle, Context, None
<1>4. order \in [Memory -> SUBSET Memory] /\ present \subseteq Memory
    BY DEF Present
<1>5. Ordered(order)
  <2>1. ASSUME NEW m \in present PROVE rank[m] \in Int /\ m \in Memory
    BY <1>4
  <2>2. ASSUME NEW m \in present PROVE m \notin order[m]
    BY <2>1
  <2>3. ASSUME NEW m \in present, NEW n \in present, m # n
        PROVE  m \in order[n] \/ n \in order[m]
    <3>1. rank[m] < rank[n] \/ rank[n] < rank[m]
      BY <1>1, <2>1, <2>3
    <3> QED BY <2>1, <3>1
  <2> HIDE DEF order
  <2> QED BY <2>2, <2>3 DEF Ordered
<1>6. \A m \in Memory : Cardinality(order[m]) \in Nat
    BY <1>4, ContextAssumption, FS_Subset, FS_CardinalityType
<1>7. Listing(c, order, during', moved')
  <2> HIDE DEF c, order
  <2> QED BY <1>3, <1>5, <1>6 DEF Listing
<1>8. during' \in [Memory -> SUBSET MaybeRow] /\ \A m \in Memory : rows[m] \in during'[m]
    BY <1>2 DEF Possible, MaybeRow
<1> HIDE DEF c
<1> QED BY <1>1, <1>2, <1>3, <1>4, <1>7, <1>8, ReadPageKeeps

LEMMA ListPageKeeps == ASSUME RequestInv, ListPage PROVE RequestInv'
<1>1. /\ Possible(rows) /\ rows' = rows /\ during' = during /\ moved' = moved
      /\ ReadPage(context, newer) /\ context.phase = "list"
    BY DEF RequestInv, ListPage, world, history
<1>2. /\ context \in Context /\ newer \in [Memory -> SUBSET Memory]
      /\ during' \in [Memory -> SUBSET MaybeRow]
    BY <1>1 DEF RequestInv, Shape
<1>3. \A m \in Memory : rows[m] \in during'[m]
    BY <1>1 DEF RequestInv, PresentIsDuring
<1>4. Listing(context, newer, during', moved')
    BY <1>1 DEF RequestInv, PagesAreListed
<1> QED BY <1>1, <1>2, <1>3, <1>4, ReadPageKeeps

\* The search drops what no query matched, but no hard constraint.
LEMMA SearchKeeps == ASSUME RequestInv, Search PROVE RequestInv'
<1> USE DEF RequestInv
<1>1. /\ context.phase = "search" /\ rows' = rows /\ during' = during
      /\ newer' = newer /\ moved' = moved
    BY DEF Search, Become, world, history
<1>2. PICK kept \in SUBSET context.candidates :
        /\ \A m \in context.candidates : Hard(context.listed[m]) => m \in kept
        /\ context' = [context EXCEPT
                !.phase = "reload", !.candidates = kept, !.todo = kept,
                !.listed = [m \in Memory |->
                    IF m \in kept THEN context.listed[m] ELSE NoRow]]
  <2>1. PICK matched \in SUBSET context.candidates :
        LET kept == IF context.query
                    THEN matched \cup {m \in context.candidates : Hard(context.listed[m])}
                    ELSE context.candidates IN
        Become([context EXCEPT
                !.phase = "reload", !.candidates = kept, !.todo = kept,
                !.listed = [m \in Memory |-> IF m \in kept THEN @[m] ELSE NoRow]])
    BY DEF Search
  <2> QED BY <2>1 DEF Become
<1> DEFINE listed == [m \in Memory |-> IF m \in kept THEN context.listed[m] ELSE NoRow]
<1> HIDE DEF listed
<1>3. listed \in [Memory -> MemoryRow \cup {NoRow}] /\ kept \subseteq Memory
    BY DEF listed, Shape, Context
<1>4. context' = [context EXCEPT
                !.phase = "reload", !.candidates = kept, !.todo = kept, !.listed = listed]
    BY <1>2 DEF listed
<1>5. /\ context' \in Context
      /\ context'.phase = "reload" /\ context'.here = context.here
      /\ context'.candidates = kept /\ context'.todo = kept
      /\ context'.listed = listed
    BY <1>3, <1>4 DEF Shape, Context
<1>6. Shape'
    BY <1>1, <1>5 DEF Shape
<1>7. PresentIsDuring' /\ HardAreSelected' /\ PagesAreListed'
    BY <1>1, <1>5 DEF PresentIsDuring, HardAreSelected, PagesAreListed
<1>8. ListedWasInForce'
    BY <1>1, <1>3, <1>5 DEF ListedWasInForce, Fits, listed
<1>9. SteadyAreCandidates'
  <2> SUFFICES ASSUME NEW m \in Memory \ moved, Steady(m)' PROVE m \in kept
    BY <1>1, <1>5 DEF SteadyAreCandidates
  <2>1. Steady(m)
    BY <1>1, <1>5 DEF Steady
  <2>2. m \in context.candidates /\ context.listed[m] \in during[m]
    BY <1>1, <2>1 DEF SteadyAreCandidates, ListedWasInForce
  <2> QED BY <1>2, <2>1, <2>2 DEF Steady
<1> QED BY <1>1, <1>6, <1>7, <1>8, <1>9 DEF Possible

\* What the reload finds in force stays; what it drops was not steady.
LEMMA ReloadKeeps == ASSUME RequestInv, NEW m \in Memory, Reload(m) PROVE RequestInv'
<1> USE DEF RequestInv
<1>1. /\ context.phase = "reload" /\ m \in context.todo
      /\ rows' = rows /\ during' = during /\ rows[m] \in during[m]
      /\ newer' = newer /\ moved' = moved
    BY DEF Reload, Become, PresentIsDuring, world, history
<1>2. rows[m] \in MemoryRow \cup {NoRow}
    BY DEF Possible
<1>3. CASE Fits(rows[m])
  <2>1. context' = [context EXCEPT !.todo = context.todo \ {m}, !.listed[m] = rows[m]]
    BY <1>3 DEF Reload, Become
  <2>2. /\ context' \in Context
        /\ context'.phase = "reload" /\ context'.here = context.here
        /\ context'.candidates = context.candidates /\ context'.todo = context.todo \ {m}
        /\ context'.listed = [context.listed EXCEPT ![m] = rows[m]]
    BY <1>1, <1>2, <2>1 DEF Shape, Context
  <2>3. Shape'
    BY <1>1, <2>2 DEF Shape
  <2>4. PresentIsDuring' /\ SteadyAreCandidates' /\ HardAreSelected' /\ PagesAreListed'
    BY <1>1, <2>2 DEF PresentIsDuring, SteadyAreCandidates, Steady, HardAreSelected,
        PagesAreListed
  <2>5. ListedWasInForce'
    BY <1>1, <1>3, <2>2 DEF ListedWasInForce, Fits, Shape, Context
  <2> QED BY <1>1, <2>3, <2>4, <2>5 DEF Possible
<1>4. CASE ~Fits(rows[m])
  <2>1. context' = [context EXCEPT !.todo = context.todo \ {m},
                                   !.candidates = context.candidates \ {m}]
    BY <1>4 DEF Reload, Become
  <2>2. /\ context' \in Context
        /\ context'.phase = "reload" /\ context'.here = context.here
        /\ context'.candidates = context.candidates \ {m}
        /\ context'.todo = context.todo \ {m}
        /\ context'.listed = context.listed
    BY <1>1, <2>1 DEF Shape, Context
  <2>3. Shape'
    BY <1>1, <2>2 DEF Shape
  <2>4. PresentIsDuring' /\ ListedWasInForce' /\ HardAreSelected' /\ PagesAreListed'
    BY <1>1, <2>2 DEF PresentIsDuring, ListedWasInForce, Fits, HardAreSelected, PagesAreListed
  <2>5. ~Steady(m)
    BY <1>1, <1>4 DEF Steady, Fits
  <2>6. SteadyAreCandidates'
    BY <1>1, <2>2, <2>5 DEF SteadyAreCandidates, Steady
  <2> QED BY <1>1, <2>3, <2>4, <2>6 DEF Possible
<1> QED BY <1>3, <1>4

\* Every hard candidate is returned, whatever the budget.
LEMMA SelectKeeps == ASSUME RequestInv, Select PROVE RequestInv'
<1> USE DEF RequestInv
<1>1. /\ context.phase = "reload" /\ rows' = rows /\ during' = during
      /\ newer' = newer /\ moved' = moved
      /\ context' = [context EXCEPT !.phase = "returned"]
      /\ bundle'.hard = {m \in context.candidates : Hard(context.listed[m])}
    BY DEF Select, world, history
<1>2. /\ context' \in Context
      /\ context'.phase = "returned" /\ context'.here = context.here
      /\ context'.candidates = context.candidates /\ context'.todo = context.todo
      /\ context'.listed = context.listed
    BY <1>1 DEF Shape, Context
<1>3. Shape'
    BY <1>1, <1>2 DEF Shape
<1>4. PresentIsDuring' /\ ListedWasInForce' /\ SteadyAreCandidates'
    BY <1>1, <1>2 DEF PresentIsDuring, ListedWasInForce, SteadyAreCandidates, Steady, Fits
<1>5. HardAreSelected' /\ PagesAreListed'
    BY <1>1, <1>2 DEF HardAreSelected, PagesAreListed
<1> QED BY <1>1, <1>3, <1>4, <1>5 DEF Possible

\* Back to no request.
LEMMA LeaveKeeps == ASSUME RequestInv, Leave PROVE RequestInv'
<1>1. /\ rows' = rows /\ newer' = newer /\ context' = Idle /\ Idle \in Context
      /\ during' = [m \in Memory |-> {}]
    BY IdleIsContext DEF Leave, world
<1>2. Shape' /\ context'.phase = "idle"
    BY <1>1 DEF RequestInv, Shape, Idle
<1> QED BY <1>1, <1>2
    DEF RequestInv, Possible, PresentIsDuring, ListedWasInForce, SteadyAreCandidates,
        PagesAreListed, HardAreSelected

LEMMA NextRequest == RequestInv /\ [Next]_vars => RequestInv'
<1> SUFFICES ASSUME RequestInv, [Next]_vars PROVE RequestInv'
    OBVIOUS
<1>1. ASSUME NEW m \in Memory,
             \/ Activate(m) \/ Patch(m) \/ End(m) \/ \E n \in Memory : Supersede(m, n)
      PROVE  RequestInv'
    BY <1>1, WritersKeep
<1>2. CASE UNCHANGED <<rows, request, newer, history>>
    BY <1>2 DEF request, history, RequestInv, Possible, Shape, PresentIsDuring, ListedWasInForce,
        SteadyAreCandidates, Steady, PagesAreListed, Listing, Ordered, Present,
        HardAreSelected, Fits
<1>3. ASSUME NEW here, NEW behavior, Refresh(here, behavior) PROVE RequestInv'
    BY <1>2, <1>3 DEF Refresh
<1>4. CASE Search
    BY <1>4, SearchKeeps
<1>5. CASE SearchFails \/ Return
    BY <1>5, LeaveKeeps DEF SearchFails, Return
<1>6. CASE Select
    BY <1>6, SelectKeeps
<1>7. ASSUME NEW m \in Memory, Reload(m) PROVE RequestInv'
    BY <1>7, ReloadKeeps
<1>8. ASSUME NEW here \in Selection, NEW query \in BOOLEAN, NEW budget \in Budget,
             List(here, query, budget)
      PROVE  RequestInv'
    BY <1>8, ListKeeps
<1>9. CASE ListPage
    BY <1>9, ListPageKeeps
<1>10. CASE UNCHANGED vars
    BY <1>2, <1>10 DEF vars, world
<1> QED BY <1>1, <1>3, <1>4, <1>5, <1>6, <1>7, <1>8, <1>9, <1>10 DEF Next, Others, Step

\* The invariant of a request: what is listed was in force, and no constraint
\* that held all the time is lost.
THEOREM RequestInvariant == Spec => []RequestInv
<1>1. Init => RequestInv
    BY InitRequest
<1>2. RequestInv /\ [Next]_vars => RequestInv'
    BY NextRequest
<1> QED BY <1>1, <1>2, PTL DEF Spec

\* plan.md:625, for any query, budget, writers and page size.
THEOREM HardConstraintsAreKept == Spec => []HardConstraintsKept
<1>1. RequestInv => HardConstraintsKept
  <2> SUFFICES ASSUME RequestInv, context.phase = "returned", NEW m \in Memory \ moved,
                      Steady(m)
               PROVE  m \in bundle.hard
    BY DEF HardConstraintsKept, Steady
  <2>1. m \in context.candidates /\ context.listed[m] \in during[m]
    BY DEF RequestInv, SteadyAreCandidates, ListedWasInForce
  <2> QED BY <2>1 DEF RequestInv, HardAreSelected, Steady
<1> QED BY <1>1, RequestInvariant, PTL

-----------------------------------------------------------------------------

\* Each preference of a new profile comes of the rows of this moment.
LEMMA ProfilesResolve ==
    ASSUME Possible(rows), NEW here \in Selection,
           NEW behavior \in [Target -> Behavior \cup {NoScore}],
           NEW p \in Profiles(rows, behavior, here), NEW t \in Target
    PROVE  /\ rows \in Rows /\ behavior[t] \in Score \cup {NoScore}
           /\ \E speaker :
                /\ Candidates(rows, here, t) # {} =>
                        speaker \in Speakers(rows, Candidates(rows, here, t))
                /\ p[t] = Resolve(rows, Candidates(rows, here, t), speaker, behavior[t])
<1>1. rows \in Rows
    BY DEF Possible, Rows
<1>2. behavior[t] \in Score \cup {NoScore}
    BY ContextAssumption
<1>3. PICK f \in [Target -> Memory] :
        /\ Candidates(rows, here, t) # {} => f[t] \in Speakers(rows, Candidates(rows, here, t))
        /\ p[t] = Resolve(rows, Candidates(rows, here, t), f[t], behavior[t])
    BY DEF Profiles
<1> QED BY <1>1, <1>2, <1>3

\* A refresh that lists each memory once never fails in a constructor of
\* domain/profile.py, for all memories
\* and behaviour.
THEOREM ProfileIsValid == Spec => [](profile \in Profile /\ ValidatorsAccept)
<1> DEFINE Inv == profile \in Profile /\ ValidatorsAccept
<1>1. Init => Inv
    BY DEF Init, Empty, Profile, ValidatorsAccept
<1>2. RequestInv /\ Inv /\ [Next]_vars => Inv'
  <2> SUFFICES ASSUME RequestInv, Inv, [Next]_vars PROVE Inv'
    OBVIOUS
  <2>1. CASE profile' = profile
    BY <2>1 DEF ValidatorsAccept
  <2>2. ASSUME NEW here \in Selection, NEW behavior \in [Target -> Behavior \cup {NoScore}],
               Refresh(here, behavior)
        PROVE  Inv'
    <3>1. ASSUME NEW t \in Target
          PROVE  /\ profile'[t] \in Preference \cup {NoPreference}
                 /\ profile'[t] # NoPreference => ValidPreference(t, profile'[t])
      <4>1. profile' \in Profiles(rows, behavior, here) /\ Possible(rows)
        BY <2>2 DEF Refresh, RequestInv
      <4> QED BY <4>1, ProfilesResolve, ResolutionAccepted
    <3>2. profile' = [t \in Target |-> profile'[t]]
      BY <2>2 DEF Refresh, Profiles
    <3> QED BY <3>1, <3>2 DEF Profile, ValidatorsAccept
  <2>3. CASE ~\E here \in Selection, behavior \in [Target -> Behavior \cup {NoScore}] :
                Refresh(here, behavior)
    BY <2>1, <2>3 DEF vars, world, request, Next, Others, Step, Activate, Patch, End,
        Supersede, Commit, Search, SearchFails, Reload, Select, Return, Leave, List, ListPage, Become
  <2> QED BY <2>2, <2>3
<1> QED BY <1>1, <1>2, RequestInvariant, PTL DEF Spec

\* plan.md:18, for all memories, selectors and behaviour.
THEOREM UserAlwaysPrevails == Spec => UserPrevails
<1> DEFINE Prevails == profile' # profile =>
        \A here \in Selection, behavior \in [Target -> Behavior \cup {NoScore}], t \in Target :
            LET p == profile'[t] IN
            Refresh(here, behavior) /\ p # NoPreference =>
                /\ p.memories = Candidates(rows, here, t)
                /\ p.memories # {} => \E m \in p.memories : rows[m].polarity = p.polarity
                /\ p.memories # {} /\ behavior[t] # NoScore
                        /\ PolarityForScore(behavior[t]) # p.polarity
                    => p.conflict # NoConflict /\ p.conflict.score = behavior[t]
<1>1. RequestInv => Prevails
  <2> SUFFICES ASSUME RequestInv, NEW here \in Selection,
                      NEW behavior \in [Target -> Behavior \cup {NoScore}],
                      NEW t \in Target, Refresh(here, behavior), profile'[t] # NoPreference
               PROVE  LET p == profile'[t] IN
                      /\ p.memories = Candidates(rows, here, t)
                      /\ p.memories # {} =>
                            \E m \in p.memories : rows[m].polarity = p.polarity
                      /\ p.memories # {} /\ behavior[t] # NoScore
                                /\ PolarityForScore(behavior[t]) # p.polarity
                            => p.conflict # NoConflict /\ p.conflict.score = behavior[t]
    OBVIOUS
  <2> DEFINE memories == Candidates(rows, here, t)
  <2>1. rows \in Rows /\ behavior[t] \in Score \cup {NoScore}
    BY ProfilesResolve DEF Refresh, RequestInv
  <2>2. PICK speaker :
            /\ memories # {} => speaker \in Speakers(rows, memories)
            /\ profile'[t] = Resolve(rows, memories, speaker, behavior[t])
    BY ProfilesResolve DEF Refresh, RequestInv
  <2>3. CASE memories = {}
    BY <2>2, <2>3 DEF Resolve, BehaviorOnly
  <2>4. CASE memories # {}
    <3>1. speaker \in Speakers(rows, memories) /\ speaker \in memories
      BY <2>2, <2>4 DEF Speakers
    <3> QED BY <2>1, <2>2, <3>1, SpeakerPrevails
  <2> QED BY <2>3, <2>4
<1> QED BY <1>1, RequestInvariant, PTL DEF UserPrevails

-----------------------------------------------------------------------------
(* What the budget buys: the sum of the characters and the loop over the  *)
(* memories, both recursive functions.                                    *)

\* A set of naturals that has 0 and the next one of each has all of them.
LEMMA CountingUp ==
    ASSUME NEW I \in SUBSET Nat, 0 \in I, \A n \in I : n + 1 \in I
    PROVE  \A n \in Nat : n \in I
<1> SUFFICES ASSUME Nat \ I # {} PROVE FALSE
    OBVIOUS
<1>1. PICK R : R = OpToRel(<, Nat)
    OBVIOUS
<1>2. IsWellFoundedOn(R, Nat)
    BY <1>1, NatLessThanWellFounded, Zenon
<1>3. \A x, y \in Nat : x < y => <<x, y>> \in R
    BY <1>1 DEF OpToRel
<1>4. PICK n \in Nat \ I : \A y \in Nat \ I : <<y, n>> \notin R
    BY <1>2, WFMin, Zenon
<1>5. n # 0
    OBVIOUS
<1>6. n - 1 \in Nat /\ n - 1 < n /\ (n - 1) + 1 = n
    BY <1>5
<1>7. n - 1 \in I
    BY <1>3, <1>4, <1>6
<1> QED BY <1>4, <1>6, <1>7

\* The element that a fold takes first.
FirstOf(s) == CHOOSE x \in s : TRUE

\* g adds up what v gives the elements of each subset of T, one after the other.
Adds(g, v, T) ==
    g = [s \in SUBSET T |-> IF s = {} THEN 0 ELSE v[FirstOf(s)] + g[s \ {FirstOf(s)}]]

LEMMA SumExists ==
    ASSUME NEW T, IsFiniteSet(T), NEW v \in [T -> Nat]
    PROVE  \E g \in [SUBSET T -> Nat] : Adds(g, v, T)
<1> DEFINE Small(n) == {s \in SUBSET T : Cardinality(s) <= n}
           Value(s, g) == IF s = {} THEN 0 ELSE v[FirstOf(s)] + g[s \ {FirstOf(s)}]
           I == {n \in Nat : \E g \in [Small(n) -> Nat] :
                    \A s \in Small(n) : g[s] = Value(s, g)}
<1>1. ASSUME NEW s \in SUBSET T, s # {}
      PROVE  /\ FirstOf(s) \in s /\ s \ {FirstOf(s)} \in SUBSET T
             /\ Cardinality(s) \in Nat /\ Cardinality(s) > 0
             /\ Cardinality(s \ {FirstOf(s)}) = Cardinality(s) - 1
  <2>1. FirstOf(s) \in s
    BY <1>1 DEF FirstOf
  <2>2. IsFiniteSet(s) /\ Cardinality(s) \in Nat
    BY FS_Subset, FS_CardinalityType
  <2>3. Cardinality(s) > 0
    BY <1>1, <2>2, FS_EmptySet
  <2> QED BY <2>1, <2>2, <2>3, FS_RemoveElement
<1>2. \A s \in SUBSET T : Cardinality(s) \in Nat
    BY FS_Subset, FS_CardinalityType
<1>3. 0 \in I
  <2>1. \A s \in Small(0) : s = {}
    <3> SUFFICES ASSUME NEW s \in SUBSET T, Cardinality(s) <= 0, s # {} PROVE FALSE
      OBVIOUS
    <3>1. Cardinality(s) \in Nat /\ Cardinality(s) > 0
      BY <1>1
    <3> QED BY <3>1
  <2>2. [s \in Small(0) |-> 0] \in [Small(0) -> Nat]
    OBVIOUS
  <2>3. \A s \in Small(0) : [r \in Small(0) |-> 0][s] = Value(s, [r \in Small(0) |-> 0])
    BY <2>1
  <2> HIDE DEF Small, Value
  <2> QED BY <2>2, <2>3
<1>4. ASSUME NEW n \in I PROVE n + 1 \in I
  <2>1. PICK f \in [Small(n) -> Nat] : \A s \in Small(n) : f[s] = Value(s, f)
    OBVIOUS
  <2>2. ASSUME NEW s \in Small(n + 1), s # {}
        PROVE  /\ s \ {FirstOf(s)} \in Small(n)
               /\ v[FirstOf(s)] \in Nat /\ f[s \ {FirstOf(s)}] \in Nat
    <3>1. /\ FirstOf(s) \in T /\ s \ {FirstOf(s)} \in SUBSET T
          /\ Cardinality(s) \in Nat /\ Cardinality(s) <= n + 1
          /\ Cardinality(s \ {FirstOf(s)}) = Cardinality(s) - 1
      BY <1>1, <2>2
    <3>2. n \in Nat /\ Cardinality(s \ {FirstOf(s)}) <= n
      BY <3>1
    <3>3. s \ {FirstOf(s)} \in Small(n)
      BY <3>1, <3>2
    <3>4. v[FirstOf(s)] \in Nat
      BY <3>1
    <3>5. f[s \ {FirstOf(s)}] \in Nat
      BY <2>1, <3>3
    <3> QED BY <3>3, <3>4, <3>5
  <2>3. PICK g : g = [s \in Small(n + 1) |-> Value(s, f)]
    OBVIOUS
  <2>4. ASSUME NEW s \in Small(n) PROVE s \in Small(n + 1)
    <3>1. Cardinality(s) \in Nat /\ Cardinality(s) <= n /\ n \in Nat
      BY <1>2
    <3> QED BY <3>1
  <2>5. g \in [Small(n + 1) -> Nat]
    BY <2>2, <2>3
  <2>6. \A s \in Small(n) : g[s] = f[s]
    BY <2>1, <2>3, <2>4
  <2>7. ASSUME NEW s \in Small(n + 1) PROVE g[s] = Value(s, g)
    <3>1. CASE s = {}
      BY <2>3, <3>1
    <3>2. CASE s # {}
      <4>1. g[s] = v[FirstOf(s)] + f[s \ {FirstOf(s)}]
        BY <2>3, <3>2
      <4>2. g[s \ {FirstOf(s)}] = f[s \ {FirstOf(s)}]
        BY <2>2, <2>6, <3>2
      <4> QED BY <3>2, <4>1, <4>2
    <3> QED BY <3>1, <3>2
  <2> HIDE DEF Small, Value
  <2> QED BY <2>5, <2>7
<1>5. PICK n : n = Cardinality(T) /\ n \in Nat
    BY FS_CardinalityType
<1>6. n \in I
  <2> HIDE DEF I
  <2>1. I \in SUBSET Nat
    BY DEF I
  <2> QED BY <1>3, <1>4, <1>5, <2>1, CountingUp
<1>7. Small(n) = SUBSET T
    BY <1>5, FS_Subset
<1>8. PICK g \in [SUBSET T -> Nat] : \A s \in SUBSET T : g[s] = Value(s, g)
  <2> HIDE DEF Small, Value
  <2> QED BY <1>6, <1>7
<1>9. g = [s \in SUBSET T |-> g[s]]
    OBVIOUS
<1> QED BY <1>8, <1>9 DEF Adds

\* The sum over a subset is the same in a fold of the subset alone.
LEMMA SumOfPart ==
    ASSUME NEW T, IsFiniteSet(T), NEW v, NEW g, Adds(g, v, T),
           NEW S \in SUBSET T, NEW h, Adds(h, v, S)
    PROVE  h[S] = g[S]
<1> DEFINE I == {n \in Nat : \A s \in SUBSET S : Cardinality(s) = n => h[s] = g[s]}
<1>1. ASSUME NEW s \in SUBSET S
      PROVE  /\ IsFiniteSet(s) /\ Cardinality(s) \in Nat
             /\ Cardinality(s) = 0 => s = {}
  <2>1. IsFiniteSet(s)
    BY FS_Subset
  <2> QED BY <2>1, FS_CardinalityType, FS_EmptySet
<1>2. 0 \in I
    BY <1>1 DEF Adds
<1>3. ASSUME NEW n \in I PROVE n + 1 \in I
  <2> SUFFICES ASSUME NEW s \in SUBSET S, Cardinality(s) = n + 1 PROVE h[s] = g[s]
    OBVIOUS
  <2>1. s # {}
    BY FS_EmptySet
  <2>2. FirstOf(s) \in s
    BY <2>1 DEF FirstOf
  <2>3. s \ {FirstOf(s)} \in SUBSET S /\ Cardinality(s \ {FirstOf(s)}) = n
    <3>1. IsFiniteSet(s) /\ Cardinality(s \ {FirstOf(s)}) = Cardinality(s) - 1
      BY <1>1, <2>2, FS_RemoveElement
    <3> QED BY <3>1
  <2>4. h[s \ {FirstOf(s)}] = g[s \ {FirstOf(s)}]
    BY <2>3
  <2>5. h[s] = v[FirstOf(s)] + h[s \ {FirstOf(s)}]
    BY <2>1 DEF Adds
  <2>6. g[s] = v[FirstOf(s)] + g[s \ {FirstOf(s)}]
    BY <2>1 DEF Adds
  <2> QED BY <2>4, <2>5, <2>6
<1>4. \A n \in Nat : n \in I
  <2> HIDE DEF I
  <2>1. I \in SUBSET Nat
    BY DEF I
  <2> QED BY <1>2, <1>3, <2>1, CountingUp
<1> QED BY <1>1, <1>4

\* The order in which a sum takes its elements makes no difference.
LEMMA SumTakesAny ==
    ASSUME NEW T, IsFiniteSet(T), NEW v \in [T -> Nat],
           NEW g \in [SUBSET T -> Nat], Adds(g, v, T)
    PROVE  \A s, with \in SUBSET T : \A x \in T \ s :
                with = s \cup {x} => g[with] = g[s] + v[x]
<1> DEFINE I == {n \in Nat : \A s \in SUBSET T : \A x \in T \ s :
                    Cardinality(s) = n => g[s \cup {x}] = g[s] + v[x]}
<1>1. ASSUME NEW s \in SUBSET T
      PROVE  /\ IsFiniteSet(s) /\ Cardinality(s) \in Nat
             /\ Cardinality(s) = 0 => s = {}
  <2>1. IsFiniteSet(s)
    BY FS_Subset
  <2> QED BY <2>1, FS_CardinalityType, FS_EmptySet
<1>2. ASSUME NEW s \in SUBSET T, s # {}
      PROVE  FirstOf(s) \in s /\ g[s] = v[FirstOf(s)] + g[s \ {FirstOf(s)}]
    BY <1>2 DEF FirstOf, Adds
<1>3. 0 \in I
  <2> SUFFICES ASSUME NEW x \in T PROVE g[{} \cup {x}] = g[{}] + v[x]
    <3>1. ASSUME NEW s \in SUBSET T, NEW x \in T \ s, Cardinality(s) = 0
          PROVE  g[s \cup {x}] = g[s] + v[x]
      <4>1. s = {}
        BY <1>1, <3>1
      <4> QED BY <4>1
    <3> QED BY <3>1
  <2>1. FirstOf({x}) = x /\ {x} \ {x} = {} /\ {} \cup {x} = {x}
    BY DEF FirstOf
  <2>2. g[{}] = 0
    BY DEF Adds
  <2>3. g[{x}] = v[x] + g[{}]
    BY <1>2, <2>1
  <2> QED BY <2>1, <2>2, <2>3
<1>4. ASSUME NEW n \in I PROVE n + 1 \in I
  <2> SUFFICES ASSUME NEW s \in SUBSET T, NEW x \in T \ s, Cardinality(s) = n + 1
               PROVE  g[s \cup {x}] = g[s] + v[x]
    OBVIOUS
  <2>1. PICK y : y = FirstOf(s \cup {x})
    OBVIOUS
  <2>2. y \in s \cup {x} /\ g[s \cup {x}] = v[y] + g[(s \cup {x}) \ {y}]
    BY <1>2, <2>1
  <2>3. CASE y = x
    <3>1. (s \cup {x}) \ {y} = s
      BY <2>3
    <3>2. g[s] \in Nat /\ v[x] \in Nat
      OBVIOUS
    <3>3. g[s \cup {x}] = v[x] + g[s]
      BY <2>2, <2>3, <3>1, Zenon
    <3>4. v[x] + g[s] = g[s] + v[x]
      BY <3>2
    <3> QED BY <3>3, <3>4, Zenon
  <2>4. CASE y # x
    <3>1. PICK r \in SUBSET T : r = s \ {y}
      OBVIOUS
    <3>2. y \in s /\ y \in T \ r /\ x \in T \ r
      BY <2>2, <2>4, <3>1
    <3>3. Cardinality(r) = n
      <4>1. IsFiniteSet(s) /\ Cardinality(s \ {y}) = Cardinality(s) - 1
        BY <1>1, <3>2, FS_RemoveElement
      <4> QED BY <3>1, <4>1
    <3>4. (s \cup {x}) \ {y} = r \cup {x} /\ r \cup {y} = s
      BY <2>4, <3>1, <3>2
    <3>5. g[r \cup {x}] = g[r] + v[x] /\ g[r \cup {y}] = g[r] + v[y]
      BY <3>2, <3>3
    <3>6. g[s \cup {x}] = v[y] + (g[r] + v[x]) /\ g[s] = g[r] + v[y]
      BY <2>2, <3>4, <3>5
    <3>7. g[r] \in Nat /\ v[x] \in Nat /\ v[y] \in Nat
      BY <3>2
    <3> QED BY <3>6, <3>7
  <2> QED BY <2>3, <2>4
<1>5. \A n \in Nat : n \in I
  <2> HIDE DEF I
  <2>1. I \in SUBSET Nat
    BY DEF I
  <2> QED BY <1>3, <1>4, <2>1, CountingUp
<1> QED BY <1>1, <1>5
\* The characters of memories add up.
LEMMA CostAddsUp ==
    ASSUME NEW S, IsFiniteSet(S), \A m \in S : context.listed[m].cost \in Nat
    PROVE  /\ Cost({}) = 0
           /\ \A part \in SUBSET S : Cost(part) \in Nat
           /\ \A part, with \in SUBSET S : \A m \in S \ part :
                with = part \cup {m} => Cost(with) = Cost(part) + Cost({m})
<1>1. PICK v : v = [m \in S |-> context.listed[m].cost]
    OBVIOUS
<1>2. v \in [S -> Nat]
    BY <1>1
<1>3. PICK g \in [SUBSET S -> Nat] : Adds(g, v, S)
    BY <1>2, SumExists
<1>4. ASSUME NEW part \in SUBSET S PROVE Cost(part) = g[part]
  <2> DEFINE IsSum(f) == f = [s \in SUBSET part |-> IF s = {} THEN 0
                    ELSE context.listed[CHOOSE x \in s : TRUE].cost
                            + f[s \ {CHOOSE x \in s : TRUE}]]
  <2>1. PICK h : h = CHOOSE f : IsSum(f)
    OBVIOUS
  <2>2. Cost(part) = h[part]
    BY <2>1, Zenon DEF Cost, MapThenSumSet, MapThenFoldSet
  <2>3. IsFiniteSet(part)
    BY FS_Subset
  <2>4. \A f, s : s \in SUBSET part /\ s # {} =>
            v[FirstOf(s)] + f[s \ {FirstOf(s)}] = context.listed[CHOOSE x \in s : TRUE].cost
                            + f[s \ {CHOOSE x \in s : TRUE}]
    <3> SUFFICES ASSUME NEW s \in SUBSET part, s # {}
                 PROVE  v[FirstOf(s)] = context.listed[CHOOSE x \in s : TRUE].cost
      BY Zenon DEF FirstOf
    <3>1. FirstOf(s) \in s
      BY DEF FirstOf
    <3>2. v[FirstOf(s)] = context.listed[FirstOf(s)].cost
      BY <1>1, <3>1
    <3> QED BY <3>2, Zenon DEF FirstOf
  <2>5. ASSUME NEW f PROVE Adds(f, v, part) <=> IsSum(f)
    <3>1. [s \in SUBSET part |-> IF s = {} THEN 0 ELSE v[FirstOf(s)] + f[s \ {FirstOf(s)}]]
            = [s \in SUBSET part |-> IF s = {} THEN 0
                    ELSE context.listed[CHOOSE x \in s : TRUE].cost
                            + f[s \ {CHOOSE x \in s : TRUE}]]
      <4>1. ASSUME NEW s \in SUBSET part
            PROVE  (IF s = {} THEN 0 ELSE v[FirstOf(s)] + f[s \ {FirstOf(s)}])
                    = IF s = {} THEN 0
                      ELSE context.listed[CHOOSE x \in s : TRUE].cost
                              + f[s \ {CHOOSE x \in s : TRUE}]
        BY <2>4, Zenon
      <4> QED BY <4>1, Zenon
    <3> QED BY <3>1, Zenon DEF Adds
  <2>6. \E f : Adds(f, v, part)
    <3>1. PICK w : w = [m \in part |-> v[m]]
      OBVIOUS
    <3>2. w \in [part -> Nat]
      BY <1>2, <3>1
    <3>3. PICK f : Adds(f, w, part)
      BY <2>3, <3>2, SumExists
    <3>4. \A s \in SUBSET part : s # {} => w[FirstOf(s)] = v[FirstOf(s)]
      BY <3>1 DEF FirstOf
    <3>5. Adds(f, v, part)
      BY <3>3, <3>4 DEF Adds
    <3> QED BY <3>5
  <2>7. Adds(h, v, part)
    <3> HIDE DEF IsSum
    <3>1. IsSum(h)
      BY <2>1, <2>5, <2>6
    <3> QED BY <2>5, <3>1
  <2> QED BY <1>3, <2>2, <2>7, SumOfPart
<1>10. \A s, with \in SUBSET S : \A x \in S \ s :
            with = s \cup {x} => g[with] = g[s] + v[x]
  <2>1. g \in [SUBSET S -> Nat] /\ Adds(g, v, S) /\ v \in [S -> Nat] /\ IsFiniteSet(S)
    BY <1>2, <1>3
  <2> QED BY <2>1, SumTakesAny
<1>5. g[{}] = 0
    BY <1>3 DEF Adds
<1>6. ASSUME NEW m \in S PROVE g[{m}] = v[m]
  <2>1. g[{} \cup {m}] = g[{}] + v[m] /\ {} \cup {m} = {m}
    BY <1>10
  <2> QED BY <1>2, <1>5, <2>1
<1>7. ASSUME NEW part \in SUBSET S, NEW m \in S \ part, NEW with \in SUBSET S,
             with = part \cup {m}
      PROVE  Cost(with) = Cost(part) + Cost({m})
  <2>1. g[with] = g[part] + v[m]
    BY <1>7, <1>10
  <2>2. Cost(with) = g[with] /\ Cost(part) = g[part] /\ Cost({m}) = g[{m}]
    BY <1>4
  <2> QED BY <1>6, <2>1, <2>2
<1>8. Cost({}) = 0
    BY <1>4, <1>5
<1>9. \A part \in SUBSET S : Cost(part) \in Nat
    BY <1>3, <1>4
<1> QED BY <1>7, <1>8, <1>9

-----------------------------------------------------------------------------

\* The loop before its first memory, and one turn of it.
Start(hard) == [chosen |-> {}, used |-> Cost(hard), truncated |-> FALSE]

Turn(r, m) ==
    IF context.budget # NoBudget /\ r.used + Cost({m}) > context.budget
    THEN [r EXCEPT !.truncated = TRUE]
    ELSE [r EXCEPT !.chosen = r.chosen \cup {m}, !.used = r.used + Cost({m})]

\* g has the result of the loop for each part of the order.
Loops(g, order, hard, D) ==
    g = [s \in SUBSET D |->
            IF s = {} THEN Start(hard) ELSE Turn(g[s \ {Max(s)}], order[Max(s)])]

\* Of some of the first numbers one is the last, and the others come before it.
LEMMA LastIsThere ==
    ASSUME NEW n \in Nat, NEW s \in SUBSET (1..n + 1), s # {}
    PROVE  Max(s) \in s /\ s \ {Max(s)} \in SUBSET (1..n)
<1> DEFINE I == {k \in Nat : (\E x \in s : x <= k) =>
                    \E x \in s : \A y \in s : y <= k => x >= y}
<1>1. \A x \in s : x \in Nat /\ x > 0 /\ x <= n + 1
    OBVIOUS
<1>2. 0 \in I
    BY <1>1
<1>3. ASSUME NEW k \in I PROVE k + 1 \in I
    <2>1. CASE k + 1 \in s
      <3>1. \A y \in s : y <= k + 1 => k + 1 >= y
        BY <1>1
      <3> QED BY <2>1, <3>1
    <2>2. CASE k + 1 \notin s
      <3>1. \A y \in s : y <= k + 1 => y <= k
        BY <1>1, <2>2
      <3> QED BY <3>1
    <2> QED BY <2>1, <2>2
<1>4. n + 1 \in I
  <2> HIDE DEF I
  <2>1. I \in SUBSET Nat
    BY DEF I
  <2> QED BY <1>2, <1>3, <2>1, CountingUp
<1>5. \E x \in s : \A y \in s : x >= y
    BY <1>1, <1>4
<1>6. PICK x : x = Max(s)
    OBVIOUS
<1>7. x \in s /\ \A y \in s : x >= y
    BY <1>5, <1>6 DEF Max
<1>8. ASSUME NEW y \in s \ {x} PROVE y \in 1..n
    BY <1>1, <1>7
<1> QED BY <1>6, <1>7, <1>8

LEMMA LoopExists ==
    ASSUME NEW order, NEW hard, NEW n \in Nat
    PROVE  \E g : Loops(g, order, hard, 1..n)
<1> DEFINE Value(s, g) ==
                IF s = {} THEN Start(hard) ELSE Turn(g[s \ {Max(s)}], order[Max(s)])
           Good(g, k) == g = [s \in SUBSET (1..k) |-> Value(s, g)]
           I == {k \in Nat : \E g : Good(g, k)}
<1>1. 0 \in I
  <2>1. PICK g : g = [s \in SUBSET (1..0) |-> Start(hard)]
    OBVIOUS
  <2>2. \A s \in SUBSET (1..0) : s = {}
    OBVIOUS
  <2>3. Good(g, 0)
    BY <2>1, <2>2
  <2> HIDE DEF Good
  <2> QED BY <2>3
<1>2. ASSUME NEW k \in I PROVE k + 1 \in I
  <2>1. PICK f : Good(f, k)
    OBVIOUS
  <2>2. PICK g : g = [s \in SUBSET (1..k + 1) |-> Value(s, f)]
    OBVIOUS
  <2>3. \A s \in SUBSET (1..k) : g[s] = f[s]
    <3>1. SUBSET (1..k) \subseteq SUBSET (1..k + 1)
      OBVIOUS
    <3> HIDE DEF Value
    <3> QED BY <2>1, <2>2, <3>1
  <2>4. ASSUME NEW s \in SUBSET (1..k + 1) PROVE Value(s, f) = Value(s, g)
    <3>1. CASE s = {}
      BY <3>1
    <3>2. CASE s # {}
      <4>1. s \ {Max(s)} \in SUBSET (1..k)
        BY <3>2, LastIsThere
      <4>2. f[s \ {Max(s)}] = g[s \ {Max(s)}]
        BY <2>3, <4>1
      <4> QED BY <4>2, Zenon
    <3> QED BY <3>1, <3>2
  <2>5. Good(g, k + 1)
    <3> HIDE DEF Value
    <3> QED BY <2>2, <2>4
  <2> HIDE DEF Good
  <2> QED BY <2>5
<1>3. n \in I
  <2> HIDE DEF I
  <2>1. I \in SUBSET Nat
    BY DEF I
  <2> QED BY <1>1, <1>2, <2>1, CountingUp
<1> QED BY <1>3 DEF Loops

\* The result comes of one turn for each memory of the order.
LEMMA SelectionLoops ==
    ASSUME NEW n \in Nat, NEW order, DOMAIN order = 1..n, NEW hard
    PROVE  \E r : /\ r[0] = Start(hard)
                  /\ \A k \in 0..n - 1 : r[k + 1] = Turn(r[k], order[k + 1])
                  /\ SelectWithBudget(order, hard) = r[n]
<1> DEFINE IsLoop(g) == g = [s \in SUBSET (DOMAIN order) |-> IF s = {}
                THEN [chosen |-> {}, used |-> Cost(hard), truncated |-> FALSE]
                ELSE LET r == g[s \ {Max(s)}]
                         m == order[Max(s)] IN
                     IF context.budget # NoBudget /\ r.used + Cost({m}) > context.budget
                     THEN [r EXCEPT !.truncated = TRUE]
                     ELSE [r EXCEPT !.chosen = r.chosen \cup {m}, !.used = r.used + Cost({m})]]
<1>1. PICK g : g = CHOOSE f : IsLoop(f)
    OBVIOUS
<1>2. SelectWithBudget(order, hard) = g[DOMAIN order]
    BY <1>1, Zenon DEF SelectWithBudget, FoldLeft, MapThenFoldSet
<1>3. ASSUME NEW f PROVE IsLoop(f) <=> Loops(f, order, hard, DOMAIN order)
    BY Zenon DEF Loops, Start, Turn
<1>4. \E f : IsLoop(f)
  <2> HIDE DEF IsLoop
  <2> QED BY <1>3, LoopExists
<1>5. Loops(g, order, hard, 1..n)
  <2> HIDE DEF IsLoop
  <2>1. IsLoop(g)
    BY <1>1, <1>4
  <2> QED BY <1>3, <2>1
<1>6. PICK r : r = [k \in 0..n |-> g[1..k]]
    OBVIOUS
<1>7. r[0] = Start(hard)
  <2>1. 1..0 = {} /\ {} \in SUBSET (1..n)
    OBVIOUS
  <2>2. g[{}] = Start(hard)
    BY <1>5, <2>1 DEF Loops
  <2>3. r[0] = g[1..0]
    BY <1>6
  <2> QED BY <2>1, <2>2, <2>3, Zenon
<1>8. ASSUME NEW k \in 0..n - 1 PROVE r[k + 1] = Turn(r[k], order[k + 1])
  <2>1. PICK s : s = 1..k + 1
    OBVIOUS
  <2>0. k \in Nat /\ k + 1 \in Nat /\ k + 1 <= n
    OBVIOUS
  <2>2. s \in SUBSET (1..n) /\ s # {} /\ k + 1 \in s
    <3>1. k + 1 \in s
      BY <2>0, <2>1
    <3>2. \A i \in s : i \in 1..n
      BY <2>0, <2>1
    <3> QED BY <3>1, <3>2
  <2>3. Max(s) = k + 1
    <3>1. Max(s) \in s /\ s \ {Max(s)} \in SUBSET (1..k)
      <4>1. k \in Nat /\ s \in SUBSET (1..k + 1) /\ s # {}
        BY <2>0, <2>1, <2>2
      <4> HIDE DEF IsLoop
      <4> QED BY <4>1, LastIsThere
    <3> QED BY <2>1, <2>2, <3>1
  <2>4. s \ {k + 1} = 1..k
    BY <2>1
  <2>5. g[s] = Turn(g[s \ {Max(s)}], order[Max(s)])
    BY <1>5, <2>2 DEF Loops
  <2>6. r[k + 1] = g[s] /\ r[k] = g[1..k]
    BY <1>6, <2>1
  <2> QED BY <2>3, <2>4, <2>5, <2>6, Zenon
<1>9. r[n] = g[1..n]
    BY <1>6
<1> QED BY <1>2, <1>7, <1>8, <1>9

\* What the loop keeps: each memory that it passed is taken or would not fit.
Filled(r, k, order, hard) ==
    /\ r \in [chosen: SUBSET Memory, used: Nat, truncated: BOOLEAN]
    /\ \A m \in r.chosen : \E i \in 1..k : order[i] = m
    /\ r.used = Cost(hard \cup r.chosen)
    /\ r.chosen # {} /\ context.budget # NoBudget => r.used <= context.budget
    /\ r.truncated <=> \E i \in 1..k : order[i] \notin r.chosen
    /\ \A i \in 1..k : order[i] \notin r.chosen =>
            context.budget # NoBudget /\ r.used + Cost({order[i]}) > context.budget

LEMMA TurnFills ==
    ASSUME NEW S \in SUBSET Memory, IsFiniteSet(S),
           \A m \in S : context.listed[m].cost \in Nat,
           context.budget # NoBudget => context.budget \in Nat,
           NEW n \in Nat, NEW order \in [1..n -> S],
           \A i, j \in 1..n : i # j => order[i] # order[j],
           NEW hard \in SUBSET S, \A i \in 1..n : order[i] \notin hard,
           NEW k \in 0..n - 1, NEW r, Filled(r, k, order, hard)
    PROVE  Filled(Turn(r, order[k + 1]), k + 1, order, hard)
<1>1. PICK m \in S : m = order[k + 1] /\ k + 1 \in 1..n
    OBVIOUS
<1>2. PICK c : c = Cost({m})
    OBVIOUS
<1>3. PICK with : with = r.chosen \cup {m}
    OBVIOUS
<1>4. /\ r \in [chosen: SUBSET Memory, used: Nat, truncated: BOOLEAN]
      /\ r.chosen \subseteq S /\ m \notin r.chosen /\ m \notin hard
    BY <1>1 DEF Filled
<1>5. c \in Nat /\ (hard \cup with) \in SUBSET S /\ (hard \cup r.chosen) \in SUBSET S
    BY <1>1, <1>2, <1>3, <1>4, CostAddsUp
<1>6. Cost(hard \cup with) = r.used + c
  <2> DEFINE a == hard \cup r.chosen
             b == hard \cup with
  <2>1. /\ a \in SUBSET S /\ b \in SUBSET S /\ b = a \cup {m}
        /\ m \in S \ a
    BY <1>3, <1>4, <1>5
  <2>2. Cost(b) = Cost(a) + Cost({m})
    <3> HIDE DEF a, b
    <3>1. \A part, more \in SUBSET S : \A x \in S \ part :
            more = part \cup {x} => Cost(more) = Cost(part) + Cost({x})
      BY CostAddsUp, Zenon
    <3> QED BY <2>1, <3>1, Zenon
  <2> QED BY <1>2, <2>2 DEF Filled
<1>7. \A i \in 1..k + 1 : i = k + 1 \/ i \in 1..k
    OBVIOUS
<1>8. PICK q : q = Turn(r, m)
    OBVIOUS
<1>9. CASE context.budget # NoBudget /\ r.used + c > context.budget
  <2>1. q = [r EXCEPT !.truncated = TRUE]
    BY <1>2, <1>8, <1>9 DEF Turn
  <2>2. /\ q \in [chosen: SUBSET Memory, used: Nat, truncated: BOOLEAN]
        /\ q.chosen = r.chosen /\ q.used = r.used /\ q.truncated = TRUE
    BY <1>4, <2>1
  <2>3. \A x \in q.chosen : \E i \in 1..k + 1 : order[i] = x
    BY <2>2 DEF Filled
  <2>4. k + 1 \in 1..k + 1 /\ order[k + 1] \notin q.chosen
    BY <1>1, <1>4, <2>2
  <2>5. ASSUME NEW i \in 1..k + 1, order[i] \notin q.chosen
        PROVE  context.budget # NoBudget /\ q.used + Cost({order[i]}) > context.budget
    <3>1. CASE i = k + 1
      BY <1>1, <1>2, <1>9, <2>2, <3>1
    <3>2. CASE i \in 1..k
      BY <2>2, <2>5, <3>2 DEF Filled
    <3> QED BY <1>7, <3>1, <3>2
  <2> QED BY <1>1, <1>8, <2>2, <2>3, <2>4, <2>5 DEF Filled
<1>10. CASE ~(context.budget # NoBudget /\ r.used + c > context.budget)
  <2>0. PICK u \in Nat : u = r.used + c
    BY <1>4, <1>5
  <2>1. q = [r EXCEPT !.chosen = with, !.used = u]
    <3>1. q = [r EXCEPT !.chosen = r.chosen \cup {m}, !.used = r.used + Cost({m})]
      BY <1>2, <1>8, <1>10, Zenon DEF Turn
    <3> QED BY <1>2, <1>3, <2>0, <3>1, Zenon
  <2>2. /\ q \in [chosen: SUBSET Memory, used: Nat, truncated: BOOLEAN]
        /\ q.chosen = with /\ q.used = r.used + c /\ q.truncated = r.truncated
    <3>1. with \in SUBSET Memory
      BY <1>3, <1>4
    <3>2. /\ q \in [chosen: SUBSET Memory, used: Nat, truncated: BOOLEAN]
          /\ q.chosen = with /\ q.used = u /\ q.truncated = r.truncated
      BY <1>4, <2>1, <3>1
    <3> QED BY <2>0, <3>2
  <2>3. \A x \in q.chosen : \E i \in 1..k + 1 : order[i] = x
    BY <1>1, <1>3, <2>2 DEF Filled
  <2>4. ASSUME NEW i \in 1..k + 1
        PROVE  order[i] \notin q.chosen <=> i \in 1..k /\ order[i] \notin r.chosen
    <3>1. CASE i = k + 1
      BY <1>1, <1>3, <2>2, <3>1
    <3>2. CASE i \in 1..k
      <4>1. order[i] # m
        BY <1>1, <3>2
      <4> QED BY <1>3, <2>2, <3>2, <4>1
    <3> QED BY <1>7, <3>1, <3>2
  <2>5. ASSUME NEW i \in 1..k + 1, order[i] \notin q.chosen
        PROVE  context.budget # NoBudget /\ q.used + Cost({order[i]}) > context.budget
    <3>1. i \in 1..k /\ order[i] \in S
      BY <2>4, <2>5
    <3>2. context.budget # NoBudget /\ r.used + Cost({order[i]}) > context.budget
      BY <2>4, <2>5 DEF Filled
    <3>3. Cost({order[i]}) \in Nat
      BY <3>1, CostAddsUp
    <3> QED BY <1>4, <1>5, <2>2, <3>2, <3>3
  <2>6. q.truncated <=> \E i \in 1..k + 1 : order[i] \notin q.chosen
    <3>1. r.truncated <=> \E i \in 1..k : order[i] \notin r.chosen
      BY DEF Filled
    <3> QED BY <1>7, <2>2, <2>4, <3>1
  <2>7. q.chosen # {} /\ context.budget # NoBudget => q.used <= context.budget
    BY <1>4, <1>5, <1>10, <2>2
  <2>8. q.used = Cost(hard \cup q.chosen)
    BY <1>6, <2>2
  <2> QED BY <1>1, <1>8, <2>2, <2>3, <2>5, <2>6, <2>7, <2>8 DEF Filled
<1> QED BY <1>9, <1>10

\* The whole loop.
LEMMA SelectionFills ==
    ASSUME NEW S \in SUBSET Memory, IsFiniteSet(S),
           \A m \in S : context.listed[m].cost \in Nat,
           context.budget # NoBudget => context.budget \in Nat,
           NEW n \in Nat, NEW order \in [1..n -> S],
           \A i, j \in 1..n : i # j => order[i] # order[j],
           NEW hard \in SUBSET S, \A i \in 1..n : order[i] \notin hard
    PROVE  Filled(SelectWithBudget(order, hard), n, order, hard)
<1>1. PICK r : /\ r[0] = Start(hard)
               /\ \A k \in 0..n - 1 : r[k + 1] = Turn(r[k], order[k + 1])
               /\ SelectWithBudget(order, hard) = r[n]
  <2>1. DOMAIN order = 1..n
    OBVIOUS
  <2>2. PICK o : o = order
    OBVIOUS
  <2>3. DOMAIN o = 1..n
    BY <2>1, <2>2, Zenon
  <2>4. \E r : /\ r[0] = Start(hard)
               /\ \A k \in 0..n - 1 : r[k + 1] = Turn(r[k], o[k + 1])
               /\ SelectWithBudget(o, hard) = r[n]
    BY <2>3, SelectionLoops, SMT
  <2> QED BY <2>2, <2>4, Zenon
<1> DEFINE I == {k \in Nat : k <= n => Filled(r[k], k, order, hard)}
<1>2. 0 \in I
  <2>1. Cost(hard) \in Nat
    BY CostAddsUp
  <2>2. /\ r[0] \in [chosen: SUBSET Memory, used: Nat, truncated: BOOLEAN]
        /\ r[0].chosen = {} /\ r[0].used = Cost(hard) /\ r[0].truncated = FALSE
    BY <1>1, <2>1 DEF Start
  <2>3. hard \cup r[0].chosen = hard
    BY <2>2
  <2>4. r[0].used = Cost(hard \cup r[0].chosen)
    BY <2>2, <2>3, Zenon
  <2>5. Filled(r[0], 0, order, hard)
    BY <2>2, <2>4 DEF Filled
  <2> QED BY <2>5
<1>3. ASSUME NEW k \in I PROVE k + 1 \in I
  <2> SUFFICES ASSUME k + 1 <= n PROVE Filled(r[k + 1], k + 1, order, hard)
    OBVIOUS
  <2>1. k \in 0..n - 1 /\ Filled(r[k], k, order, hard)
    OBVIOUS
  <2>2. Filled(Turn(r[k], order[k + 1]), k + 1, order, hard)
    BY <2>1, TurnFills
  <2> QED BY <1>1, <2>1, <2>2
<1>4. n \in I
  <2> HIDE DEF I
  <2>1. I \in SUBSET Nat
    BY DEF I
  <2> QED BY <1>2, <1>3, <2>1, CountingUp
<1> QED BY <1>1, <1>4

-----------------------------------------------------------------------------
(* What a request returns.                                                 *)

\* Cost with the listed rows as a parameter.
CostOf(listed, memories) == MapThenSumSet(LAMBDA m : listed[m].cost, memories)

\* BudgetFilled of a bundle b of the request c.
Spent(b, c) ==
    LET left == c.candidates \ (b.hard \cup b.chosen) IN
    /\ b.used = CostOf(c.listed, b.hard \cup b.chosen)
    /\ b.chosen # {} /\ c.budget # NoBudget => b.used <= c.budget
    /\ b.truncated <=> left # {}
    /\ \A m \in left : b.used + CostOf(c.listed, {m}) > c.budget

LEMMA CostIsOfListed == \A S : Cost(S) = CostOf(context.listed, S)
BY Zenon DEF Cost, CostOf, MapThenSumSet, MapThenFoldSet

LEMMA CostIsOfListedNext == \A S : Cost(S)' = CostOf(context'.listed, S)
BY Zenon DEF Cost, CostOf, MapThenSumSet, MapThenFoldSet

LEMMA SpentIsFilled == BudgetFilled <=> (context.phase = "returned" => Spent(bundle, context))
BY CostIsOfListed DEF BudgetFilled, Spent

\* Whatever the order, the loop fills the budget with what is not hard.
LEMMA SelectSpends ==
    ASSUME RequestInv, Select
    PROVE  /\ bundle'.chosen \in SUBSET (context.candidates \ bundle'.hard)
           /\ bundle'.used \in Nat /\ bundle'.truncated \in BOOLEAN
           /\ Spent(bundle', context')
<1> DEFINE hard == {m \in context.candidates : Hard(context.listed[m])}
           S == context.candidates
           n == Cardinality(S \ hard)
<1>1. PICK order \in SetToSeqs(S \ hard) :
        LET s == SelectWithBudget(order, hard) IN
        /\ context' = [context EXCEPT !.phase = "returned"]
        /\ bundle' = [hard |-> hard, chosen |-> s.chosen, used |-> s.used,
                      truncated |-> s.truncated, conflicts |->
                        RelevantConflicts({m \in Memory : context.listed[m] # NoRow})]
    BY DEF Select
<1>2. PICK r : r = SelectWithBudget(order, hard)
    OBVIOUS
<1>3. /\ bundle'.hard = hard /\ bundle'.chosen = r.chosen
      /\ bundle'.used = r.used /\ bundle'.truncated = r.truncated
    BY <1>1, <1>2
<1>4. /\ context'.candidates = S /\ context'.listed = context.listed
      /\ context'.budget = context.budget
    BY <1>1 DEF RequestInv, Shape, Context
<1>5. /\ S \in SUBSET Memory /\ IsFiniteSet(S) /\ IsFiniteSet(S \ hard) /\ n \in Nat
      /\ hard \in SUBSET S
    BY ContextAssumption, FS_Subset, FS_CardinalityType DEF RequestInv, Shape, Context
<1>6. \A m \in S : context.listed[m].cost \in Nat
  <2> SUFFICES ASSUME NEW m \in S PROVE context.listed[m].cost \in Nat
    OBVIOUS
  <2>1. context.phase = "reload"
    BY DEF Select
  <2>2. context.listed[m] \in MemoryRow \cup {NoRow} /\ context.listed[m] # NoRow
    BY <2>1 DEF RequestInv, Shape, Context, ListedWasInForce, Fits
  <2> QED BY <2>2 DEF MemoryRow
<1>7. context.budget # NoBudget => context.budget \in Nat
    BY ContextAssumption DEF RequestInv, Shape, Context
<1>8. /\ order \in [1..n -> S \ hard]
      /\ \A i, j \in 1..n : i # j => order[i] # order[j]
  <2>1. order \in {f \in [1..Cardinality(S \ hard) -> S \ hard] :
                     \A i, j \in 1..Cardinality(S \ hard) : i # j => f[i] # f[j]}
    BY <1>1, Zenon DEF SetToSeqs
  <2> QED BY <2>1
<1>9. \A m \in S \ hard : \E i \in 1..n : order[i] = m
  <2>1. order \in Injection(1..n, S \ hard)
    BY <1>8 DEF Injection, IsInjective
  <2>2. Cardinality(1..n) = n
    BY <1>5, FS_Interval
  <2>3. order \in Surjection(1..n, S \ hard)
    BY <1>5, <2>1, <2>2, FS_Injection
  <2> QED BY <2>3 DEF Surjection
<1>10. Filled(r, n, order, hard)
  <2>1. /\ order \in [1..n -> S]
        /\ \A i \in 1..n : order[i] \notin hard
    BY <1>8
  <2> HIDE DEF S, hard, n
  <2> QED BY <1>2, <1>5, <1>6, <1>7, <1>8, <2>1, SelectionFills
<1>11. r.chosen \in SUBSET (S \ hard)
    BY <1>8, <1>10 DEF Filled
<1> HIDE DEF S, hard, n
<1>12. r.truncated <=> S \ (hard \cup r.chosen) # {}
  <2>1. r.truncated <=> \E i \in 1..n : order[i] \notin r.chosen
    BY <1>10 DEF Filled
  <2> QED BY <1>8, <1>9, <2>1
<1>13. ASSUME NEW m \in S \ (hard \cup r.chosen)
       PROVE  r.used + CostOf(context.listed, {m}) > context.budget
  <2>1. PICK i \in 1..n : order[i] = m
    BY <1>9
  <2>2. r.used + Cost({order[i]}) > context.budget
    BY <1>10, <2>1 DEF Filled
  <2>3. Cost({order[i]}) = CostOf(context.listed, {m})
    BY <2>1, CostIsOfListed
  <2> QED BY <2>2, <2>3, Zenon
<1>14. r.used = CostOf(context.listed, hard \cup r.chosen)
    BY <1>10, CostIsOfListed, Zenon DEF Filled
<1>15. r.used \in Nat /\ r.truncated \in BOOLEAN
       /\ (r.chosen # {} /\ context.budget # NoBudget => r.used <= context.budget)
    BY <1>10 DEF Filled
<1>16. Spent(bundle', context')
    BY <1>3, <1>4, <1>12, <1>13, <1>14, <1>15 DEF Spent
<1> QED BY <1>3, <1>11, <1>15, <1>16 DEF S

\* What is returned, and the bounds of the history.
BundleInv ==
    /\ moved \subseteq Memory /\ commits \in 0..MaxCommits
    /\ context.phase = "idle" => context.candidates = {}
    /\ IF context.phase = "returned"
       THEN /\ bundle \in Bundle
            /\ bundle.chosen \subseteq context.candidates \ bundle.hard
            /\ Spent(bundle, context)
       ELSE bundle = NoBundle

LEMMA BundleUntouched ==
    ASSUME BundleInv, context' = context, bundle' = bundle, moved' \subseteq Memory,
           commits' \in 0..MaxCommits
    PROVE  BundleInv'
BY Zenon DEF BundleInv

LEMMA BundleStep ==
    ASSUME RequestInv, profile \in Profile, BundleInv, [Next]_vars
    PROVE  BundleInv'
<1>1. moved \subseteq Memory /\ commits \in 0..MaxCommits /\ MaxCommits \in Nat
    BY ContextAssumption DEF BundleInv
<1>2. ASSUME NEW updated, NEW n, Commit(updated, n) PROVE BundleInv'
  <2>1. context' = context /\ bundle' = bundle
    BY <1>2 DEF Commit, request
  <2>2. moved' \subseteq Memory
    BY <1>1, <1>2 DEF Commit, history
  <2>3. commits' \in 0..MaxCommits
    BY <1>1, <1>2 DEF Commit, history
  <2> QED BY <2>1, <2>2, <2>3, BundleUntouched
<1>3. CASE \E m \in Memory :
            Activate(m) \/ Patch(m) \/ End(m) \/ \E n \in Memory : Supersede(m, n)
    BY <1>2, <1>3 DEF Activate, Patch, End, Supersede
<1>4. CASE UNCHANGED <<context, bundle, moved, commits>>
    BY <1>1, <1>4, BundleUntouched
<1>5. ASSUME NEW here, NEW behavior, Refresh(here, behavior) PROVE BundleInv'
    BY <1>4, <1>5 DEF Refresh, request, history
<1>6. ASSUME bundle' = bundle, context.phase # "returned",
             context'.phase \notin {"returned", "idle"},
             moved' = moved, commits' = commits
      PROVE  BundleInv'
    BY <1>6 DEF BundleInv
<1>7. ASSUME NEW c \in Context, NEW order, ReadPage(c, order)
      PROVE  context'.phase \notin {"returned", "idle"}
  <2>1. \/ \E listed, found :
                context' = [c EXCEPT !.phase = "search", !.offset = 0,
                    !.listed = listed, !.candidates = found]
        \/ \E listed, offset :
                context' = [c EXCEPT !.phase = "list", !.offset = offset, !.listed = listed]
    BY <1>7, Zenon DEF ReadPage
  <2> QED BY <2>1 DEF Context
<1>8. ASSUME NEW here \in Selection, NEW query \in BOOLEAN, NEW budget \in Budget,
             List(here, query, budget)
      PROVE  BundleInv'
  <2>1. PICK c : c = [Idle EXCEPT !.here = here, !.query = query, !.budget = budget]
    OBVIOUS
  <2>2. c \in Context
    BY <2>1, IdleIsContext DEF Idle, Context, None
  <2>3. \E order : ReadPage(c, order)
    BY <1>8, <2>1, Zenon DEF List
  <2>4. /\ bundle' = bundle /\ moved' = moved /\ commits' = commits
        /\ context.phase = "idle"
    BY <1>8 DEF List
  <2> QED BY <1>6, <1>7, <2>2, <2>3, <2>4
<1>9. CASE ListPage
  <2>1. /\ bundle' = bundle /\ moved' = moved /\ commits' = commits
        /\ context.phase = "list" /\ ReadPage(context, newer)
    BY <1>9 DEF ListPage, history
  <2>2. context \in Context
    BY DEF RequestInv, Shape
  <2> QED BY <1>6, <1>7, <2>1, <2>2
<1>10. CASE Search
  <2>1. PICK c : c = context'
    OBVIOUS
  <2>2. /\ bundle' = bundle /\ moved' = moved /\ commits' = commits
        /\ context.phase = "search"
    BY <1>10 DEF Search, Become, history
  <2>3. \E kept, listed : context' = [context EXCEPT
                !.phase = "reload", !.candidates = kept, !.todo = kept, !.listed = listed]
    BY <1>10, Zenon DEF Search, Become
  <2>4. context'.phase = "reload"
    BY <2>3 DEF RequestInv, Shape, Context
  <2> QED BY <1>6, <2>2, <2>4
<1>11. ASSUME NEW m \in Memory, Reload(m) PROVE BundleInv'
  <2>1. /\ bundle' = bundle /\ moved' = moved /\ commits' = commits
        /\ context.phase = "reload"
    BY <1>11 DEF Reload, Become, history
  <2>2. context'.phase = context.phase
    BY <1>11 DEF Reload, Become, RequestInv, Shape, Context
  <2> QED BY <1>6, <2>1, <2>2
<1>12. CASE SearchFails \/ Return
  <2>1. Leave
    BY <1>12 DEF SearchFails, Return
  <2>2. /\ context'.phase = "idle" /\ context'.candidates = {} /\ bundle' = NoBundle
        /\ moved' = {} /\ commits' = 0
    BY <2>1 DEF Leave, Idle
  <2> QED BY <1>1, <2>2 DEF BundleInv
<1>13. CASE Select
  <2>1. /\ bundle'.chosen \in SUBSET (context.candidates \ bundle'.hard)
        /\ bundle'.used \in Nat /\ bundle'.truncated \in BOOLEAN
        /\ Spent(bundle', context')
    BY <1>13, SelectSpends
  <2> DEFINE hard == {m \in context.candidates : Hard(context.listed[m])}
             found == {m \in Memory : context.listed[m] # NoRow}
  <2>2. PICK s :
            /\ bundle' = [hard |-> hard, chosen |-> s.chosen, used |-> s.used,
                          truncated |-> s.truncated, conflicts |-> RelevantConflicts(found)]
            /\ context' = [context EXCEPT !.phase = "returned"]
            /\ moved' = moved /\ commits' = commits
    BY <1>13, Zenon DEF Select, history
  <2> HIDE DEF found
  <2>3. RelevantConflicts(found) \subseteq Conflict
    BY DEF RelevantConflicts, Profile, Preference
  <2>4. context.candidates \subseteq Memory
    BY DEF RequestInv, Shape, Context
  <2>5. bundle' \in Bundle
    BY <2>1, <2>2, <2>3, <2>4 DEF Bundle
  <2>6. context'.phase = "returned" /\ context'.candidates = context.candidates
    BY <2>2 DEF RequestInv, Shape, Context
  <2> QED BY <1>1, <2>1, <2>2, <2>5, <2>6 DEF BundleInv
<1>14. CASE UNCHANGED vars
    BY <1>4, <1>14 DEF vars, request, history
<1> QED BY <1>3, <1>5, <1>8, <1>9, <1>10, <1>11, <1>12, <1>13, <1>14 DEF Next, Others, Step

\* All that the properties of what is returned rest on.
LEMMA BundleInvariant == Spec => [](RequestInv /\ profile \in Profile /\ BundleInv)
<1>1. Init => BundleInv
  <2> SUFFICES ASSUME Init PROVE BundleInv
    OBVIOUS
  <2>1. context.phase = "idle" /\ context.candidates = {} /\ 0 \in 0..MaxCommits
    BY ContextAssumption DEF Init, Idle
  <2> QED BY <2>1 DEF Init, BundleInv
<1>2. (RequestInv /\ profile \in Profile /\ ValidatorsAccept) /\ BundleInv /\ [Next]_vars
        => BundleInv'
    BY BundleStep
<1> QED BY <1>1, <1>2, RequestInvariant, ProfileIsValid, PTL DEF Spec

\* Every variable has its type, and a memory is returned in one place at most,
\* for any memories, pages, budgets and writers.
THEOREM TypeCorrect == Spec => []TypeOK
<1>1. RequestInv /\ profile \in Profile /\ BundleInv => TypeOK
  <2> SUFFICES ASSUME RequestInv, profile \in Profile, BundleInv PROVE TypeOK
    OBVIOUS
  <2>1. /\ context \in Context /\ context.todo \subseteq context.candidates
        /\ during \in [Memory -> SUBSET (MemoryRow \cup {NoRow})]
        /\ newer \in [Memory -> SUBSET Memory] /\ Possible(rows)
    BY DEF RequestInv, Shape, MaybeRow
  <2>2. \A m \in context.candidates : context.listed[m] # NoRow
    BY DEF RequestInv, ListedWasInForce, Fits, BundleInv
  <2>3. /\ bundle \in Bundle /\ bundle.hard \cap bundle.chosen = {}
        /\ bundle.hard \cup bundle.chosen \subseteq context.candidates
    <3>1. CASE context.phase = "returned"
      BY <3>1 DEF BundleInv, RequestInv, HardAreSelected
    <3>2. CASE context.phase # "returned"
      <4>1. bundle = NoBundle
        BY <3>2 DEF BundleInv
      <4> QED BY <4>1 DEF NoBundle, Bundle
    <3> QED BY <3>1, <3>2
  <2> QED BY <2>1, <2>2, <2>3 DEF TypeOK, BundleInv
<1> QED BY <1>1, BundleInvariant, PTL

\* plan.md:626: what is returned was in force as returned, and applied, while the
\* request ran.
THEOREM ReturnedWasInForce == Spec => []ShownWasInForce
<1>1. RequestInv /\ BundleInv => ShownWasInForce
  <2> SUFFICES ASSUME RequestInv, BundleInv, context.phase = "returned",
                      NEW m \in bundle.hard \cup bundle.chosen
               PROVE  context.listed[m] \in during[m] /\ Fits(context.listed[m])
    BY DEF ShownWasInForce
  <2>1. m \in context.candidates
    BY DEF BundleInv, RequestInv, HardAreSelected
  <2> QED BY <2>1 DEF RequestInv, ListedWasInForce
<1> QED BY <1>1, BundleInvariant, PTL

\* The loop over the budget leaves nothing out that would still fit, and returns
\* nothing beyond it but hard constraints, in whatever order it takes them.
THEOREM BudgetIsFilled == Spec => []BudgetFilled
<1>1. BundleInv => BudgetFilled
    BY SpentIsFilled DEF BundleInv
<1> QED BY <1>1, BundleInvariant, PTL
=============================================================================
