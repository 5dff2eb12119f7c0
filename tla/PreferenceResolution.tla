------------------------ MODULE PreferenceResolution ------------------------
(***************************************************************************)
(* How memories and behaviour become preferences, and two profiles a      *)
(* diff: _build_snapshot of application/profile_service.py and the pure   *)
(* functions of domain/profile.py.  Confidences, evidence and texts are   *)
(* left out; scores are whole numbers, FullScore stands for 1.0.          *)
(***************************************************************************)
EXTENDS Integers

CONSTANTS
    Memory, Target,
    Place,          \* the places a memory can apply to: a scope and its value
    Everywhere,     \* the place of the global scope
    ScopeOrder,     \* _SCOPE_ORDER of each place's scope
    FullScore,
    NoRow, NoTarget, NoScore, NoConflict, NoPreference      \* "None"

ASSUME PlaceAssumption ==
    /\ Everywhere \in Place
    /\ ScopeOrder \in [Place -> 0..3]
    /\ \A p \in Place : ScopeOrder[p] = 0 <=> p = Everywhere
ASSUME ScoreAssumption == FullScore \in Nat \ {0} /\ NoScore \notin Int

Polarity == {"positive", "negative", "neutral", "unknown"}
Authority == {"explicit", "confirmed"}
Kind == {"preference", "constraint", "goal", "fact", "instruction"}
Score == -FullScore..FullScore

\* A memory in force.  Nothing inferred is ever in force (MemoryService).
MemoryRow == [kind: Kind, target: Target \cup {NoTarget}, polarity: Polarity,
              authority: Authority, place: Place, evidenced: BOOLEAN,
              cost: Nat \ {0}]

Conflict == [target: Target, memories: SUBSET Memory, memoryPolarity: Polarity,
             behaviorPolarity: Polarity, score: Score]

Resolution == {"explicit_only", "behavior_only", "aligned",
               "explicit_overrides_behavior", "unresolved_conflict"}

Preference == [memories: SUBSET Memory, behaves: BOOLEAN, polarity: Polarity,
               score: Score, resolution: Resolution, conflict: Conflict \cup {NoConflict}]

ASSUME NoneAssumption ==
    /\ NoTarget \notin Target /\ NoRow \notin MemoryRow
    /\ NoConflict \notin Conflict /\ NoPreference \notin Preference

Profile == [Target -> Preference \cup {NoPreference}]
Empty == [t \in Target |-> NoPreference]

\* The use case, topic and entity that a request names, each at most once.
Selection == {here \in SUBSET Place :
    /\ Everywhere \in here
    /\ \A p, q \in here : ScopeOrder[p] = ScopeOrder[q] => p = q}

PolarityForScore(score) ==
    IF score > 0 THEN "positive" ELSE IF score < 0 THEN "negative" ELSE "neutral"

ExplicitScore == [positive |-> FullScore, negative |-> -FullScore,
                  neutral |-> 0, unknown |-> 0]

AuthorityOrder == [confirmed |-> 1, explicit |-> 2]

-----------------------------------------------------------------------------

\* The memories that have a say on target t.
Candidates(rows, here, t) == {m \in Memory :
    /\ rows[m] # NoRow
    /\ rows[m].kind \in {"preference", "constraint"}
    /\ rows[m].target = t
    /\ rows[m].place \in here
    /\ rows[m].evidenced}

Outranks(r, s) ==
    \/ ScopeOrder[r.place] > ScopeOrder[s.place]
    \/ /\ ScopeOrder[r.place] = ScopeOrder[s.place]
       /\ AuthorityOrder[r.authority] > AuthorityOrder[s.authority]

\* The one that speaks for them; between equals the later updated_at decides,
\* set by the clocks of different workers: any may win.
Speakers(rows, memories) ==
    {m \in memories : \A n \in memories : ~Outranks(rows[n], rows[m])}

ConflictOf(row, memories, score) ==
    [target |-> row.target, memories |-> memories, memoryPolarity |-> row.polarity,
     behaviorPolarity |-> PolarityForScore(score), score |-> score]

ExplicitOnly(row, memories) ==
    [memories |-> memories, behaves |-> FALSE, polarity |-> row.polarity,
     score |-> ExplicitScore[row.polarity], resolution |-> "explicit_only",
     conflict |-> NoConflict]

BehaviorOnly(score) ==
    [memories |-> {}, behaves |-> TRUE, polarity |-> PolarityForScore(score),
     score |-> score, resolution |-> "behavior_only", conflict |-> NoConflict]

PairResolution(row, score) ==
    IF row.polarity = "unknown" THEN "unresolved_conflict"
    ELSE IF row.polarity = PolarityForScore(score) THEN "aligned"
    ELSE "explicit_overrides_behavior"

\* Mutant: neutral behaviour is no conflict, but is reported as overridden.
ResolveNeutralSilently(row, memories, score) ==
    [memories |-> memories, behaves |-> TRUE, polarity |-> row.polarity,
     score |-> ExplicitScore[row.polarity], resolution |-> PairResolution(row, score),
     conflict |-> IF PairResolution(row, score) = "aligned" \/ score = 0 THEN NoConflict
                  ELSE ConflictOf(row, memories, score)]

\* Both authorities outrank behaviour of any confidence, so compare_authority
\* never refuses.
ResolvePair(row, memories, score) ==
    [memories |-> memories, behaves |-> TRUE, polarity |-> row.polarity,
     score |-> ExplicitScore[row.polarity], resolution |-> PairResolution(row, score),
     conflict |-> IF PairResolution(row, score) = "aligned" THEN NoConflict
                  ELSE ConflictOf(row, memories, score)]

\* Mutant: behaviour of full score prevails.
ResolveStrongest(rows, memories, speaker, score) ==
    IF memories = {} \/ score \in {-FullScore, FullScore}
    THEN IF score = NoScore THEN NoPreference ELSE BehaviorOnly(score)
    ELSE IF score = NoScore THEN ExplicitOnly(rows[speaker], memories)
                            ELSE ResolvePair(rows[speaker], memories, score)

\* The preference about one target, with speaker one of the memories.
Resolve(rows, memories, speaker, score) ==
    IF memories = {}
    THEN IF score = NoScore THEN NoPreference ELSE BehaviorOnly(score)
    ELSE IF score = NoScore THEN ExplicitOnly(rows[speaker], memories)
                            ELSE ResolvePair(rows[speaker], memories, score)

\* The profiles that _build_snapshot can make.
Profiles(rows, behavior, here) ==
    LET memories == [t \in Target |-> Candidates(rows, here, t)]
        speakers == {f \in [Target -> Memory] : \A t \in Target :
                        memories[t] # {} => f[t] \in Speakers(rows, memories[t])} IN
    {[t \in Target |-> Resolve(rows, memories[t], f[t], behavior[t])] : f \in speakers}

-----------------------------------------------------------------------------
(* What the constructors of domain/profile.py refuse to build.             *)

ValidConflict(c) ==
    /\ c.memories # {}
    /\ c.memoryPolarity = c.behaviorPolarity => c.memoryPolarity = "unknown"
    /\ c.behaviorPolarity = PolarityForScore(c.score)

ValidPreference(t, p) ==
    /\ p.resolution = "behavior_only" <=> p.memories = {}
    /\ p.resolution = "explicit_only" <=> ~p.behaves
    /\ p.conflict # NoConflict <=>
        p.resolution \in {"explicit_overrides_behavior", "unresolved_conflict"}
    /\ IF p.polarity = "unknown" THEN p.score = 0
                                 ELSE p.polarity = PolarityForScore(p.score)
    /\ p.conflict # NoConflict =>
        /\ ValidConflict(p.conflict)
        /\ p.conflict.target = t
        /\ p.conflict.memories \subseteq p.memories

-----------------------------------------------------------------------------
(* diff_profile_snapshots, for one target.                                 *)

Magnitude(p) == IF p.score < 0 THEN -p.score ELSE p.score

ChangeKind(before, after) ==
    IF before = after THEN "none"
    ELSE IF before = NoPreference THEN "added"
    ELSE IF after = NoPreference THEN "removed"
    ELSE IF before.conflict # after.conflict THEN "conflict_changed"
    ELSE IF before.polarity # after.polarity THEN "changed"
    ELSE IF Magnitude(after) > Magnitude(before) THEN "strengthened"
    ELSE IF Magnitude(after) < Magnitude(before) THEN "weakened" ELSE "changed"

\* validate_change
ValidChange(before, after, kind) ==
    /\ kind = "added" <=> before = NoPreference
    /\ kind = "removed" <=> after = NoPreference
    /\ kind \notin {"added", "removed"} =>
        /\ before # after
        /\ kind \in {"strengthened", "weakened"} => before.polarity = after.polarity
        /\ kind = "strengthened" => Magnitude(after) > Magnitude(before)
        /\ kind = "weakened" => Magnitude(after) < Magnitude(before)
        /\ kind = "conflict_changed" => before.conflict # after.conflict
=============================================================================
