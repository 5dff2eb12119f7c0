------------------------- MODULE ContextResolution --------------------------
(***************************************************************************)
(* resolve_context of application/context_service.py: one request reads   *)
(* memories, index and profile with one statement after the other, while  *)
(* other requests write memories and refresh the profile.  A refresh is   *)
(* one step here; ProfileRefresh has its statements.                      *)
(***************************************************************************)
EXTENDS PreferenceResolution, FiniteSets, Sequences, SequencesExt, FiniteSetsExt

CONSTANTS
    Row,        \* bound: what each memory can be
    Behavior,   \* bound: the scores that the feature states take
    Budget, NoBudget,
    PageSize,   \* _PAGE_SIZE: rows that one statement lists
    MaxCommits, \* bound: commits while a request runs
    RefreshIn   \* bound: phases of a request in which the profile is refreshed

\* A patch changes neither kind nor authority, and takes no evidence away.
ASSUME ContextAssumption ==
    /\ Row \in [Memory -> SUBSET MemoryRow]
    /\ \A m \in Memory : NoRow \notin Row[m] /\ \A r, s \in Row[m] :
        r.kind = s.kind /\ r.authority = s.authority
    /\ Behavior \subseteq Score
    /\ NoBudget \in Budget /\ Budget \subseteq Nat \cup {NoBudget}
    /\ IsFiniteSet(Memory)
    /\ PageSize \in Nat \ {0} /\ MaxCommits \in Nat
    /\ RefreshIn \subseteq {"idle", "list", "search", "reload"}

VARIABLES
    rows,       \* each memory in force
    profile,    \* the latest snapshot
    context,    \* what the request holds between its statements
    bundle,     \* what it returned
    newer,      \* while pages are read: the memories that come before each one
    during,     \* history: what was committed as each memory since it began,
    moved,      \* which ones moved towards the first page while pages were read
    commits     \* and how often

world == <<rows, profile>>
request == <<context, bundle>>
history == <<during, moved, commits>>
vars == <<world, request, newer, history>>

\* offset is that of the next page, listed is memory_by_id, todo what is left to
\* reload.
Context ==
    [phase: {"idle", "list", "search", "reload", "returned"},
     here: Selection, query: BOOLEAN, budget: Budget, offset: Nat,
     listed: [Memory -> MemoryRow \cup {NoRow}], candidates: SUBSET Memory,
     todo: SUBSET Memory]

Bundle == [hard: SUBSET Memory, chosen: SUBSET Memory, conflicts: SUBSET Conflict,
           used: Nat, truncated: BOOLEAN]

Possible(f) == /\ f \in [Memory -> MemoryRow \cup {NoRow}]
               /\ \A m \in Memory : f[m] \in Row[m] \cup {NoRow}

None == [m \in Memory |-> NoRow]

Idle == [phase |-> "idle", here |-> {Everywhere}, query |-> FALSE,
         budget |-> NoBudget, offset |-> 0, listed |-> None, candidates |-> {}, todo |-> {}]

NoBundle == [hard |-> {}, chosen |-> {}, conflicts |-> {}, used |-> 0, truncated |-> FALSE]

Hard(row) == row.kind \in {"constraint", "instruction"}

Fits(row) == row # NoRow /\ row.place \in context.here

Present(f) == {m \in Memory : f[m] # NoRow}

\* Nothing is listed, nothing is before anything.
NoOrder == [m \in Memory |-> {}]

-----------------------------------------------------------------------------
(* What other requests commit.                                             *)

\* The list is ordered by updated_at, the latest first: what was written comes
\* before behind.
Reordered(updated, n, behind) ==
    LET present == Present(updated) IN
    [m \in Memory |->
        IF m \notin present THEN {}
        ELSE IF m = n THEN present \ (behind \cup {n})
        ELSE {k \in present : IF k = n THEN m \in behind ELSE k \in newer[m]}]

\* The places where n can come to stand: updated_at is a clock read before the
\* commit, and that of a memory never decreases.
Places(updated, n) ==
    {behind \in SUBSET (Present(updated) \ {n}) :
        \A m \in Present(updated) \ {n} :
            n \in newer[m] \/ newer[m] \cap behind # {} => m \in behind}

\* n was written.  Nobody looks at a bundle and at the memories together once it
\* is returned, nor at the order unless pages are read.
Commit(updated, n) ==
    /\ context.phase # "returned"
    /\ rows' = updated
    /\ IF context.phase = "idle" THEN UNCHANGED <<newer, history>>
       ELSE /\ commits < MaxCommits
            /\ commits' = commits + 1
            /\ during' = [m \in Memory |-> during[m] \cup {updated[m]}]
            /\ IF context.phase # "list" THEN UNCHANGED <<newer, moved>>
               ELSE \E behind \in IF updated[n] = NoRow THEN {{}} ELSE Places(updated, n) :
                    /\ newer' = Reordered(updated, n, behind)
                    /\ moved' = moved \cup {m \in Memory : ~(newer[m] \subseteq newer'[m])}
    /\ UNCHANGED <<profile, request>>

\* add, confirm or restore
Activate(m) ==
    \E row \in Row[m] : rows[m] = NoRow /\ Commit([rows EXCEPT ![m] = row], m)

\* patch, or add with new evidence for the same text
Patch(m) ==
    \E row \in Row[m] \ {rows[m]} :
        /\ rows[m] # NoRow
        /\ rows[m].evidenced => row.evidenced
        /\ Commit([rows EXCEPT ![m] = row], m)

\* delete.  A patch can end the validity too; it leaves the row in the list.
End(m) == rows[m] # NoRow /\ Commit([rows EXCEPT ![m] = NoRow], m)

\* add with another text in the slot of m: a new memory n
Supersede(m, n) ==
    \E row \in Row[n] :
        /\ rows[m] # NoRow /\ rows[n] = NoRow /\ during[n] \subseteq {NoRow}
        /\ row.place = rows[m].place /\ row.authority = "explicit"
        /\ Commit([rows EXCEPT ![m] = NoRow, ![n] = row], n)

\* refresh_profile, with the feature states as the workers have left them.
Refresh(here, behavior) ==
    /\ context.phase \in RefreshIn
    /\ profile' \in Profiles(rows, behavior, here)
    /\ UNCHANGED <<rows, request, newer, history>>

-----------------------------------------------------------------------------
(* resolve_context                                                         *)

Become(c) == context' = c /\ UNCHANGED <<world, bundle, newer, history>>

\* The first k rows of the list.
First(order, k) ==
    LET present == Present(rows) IN
    {head \in SUBSET present :
        /\ \A m \in head : order[m] \subseteq head
        /\ Cardinality(head) <= k
        /\ Cardinality(head) < k => head = present}

\* One statement of _list_paged.  Of a memory that two pages show, the later copy
\* that applies is kept.
ReadPage(c, order) ==
    \E before \in First(order, c.offset), after \in First(order, c.offset + PageSize) :
        LET page == after \ before
            listed == [m \in Memory |-> IF m \in page /\ rows[m].place \in c.here
                                        THEN rows[m] ELSE c.listed[m]] IN
        IF Cardinality(page) < PageSize
        THEN /\ context' = [c EXCEPT !.phase = "search", !.offset = 0,
                                     !.listed = listed, !.candidates = Present(listed)]
             /\ newer' = NoOrder
        ELSE /\ context' = [c EXCEPT !.phase = "list", !.offset = @ + PageSize,
                                     !.listed = listed]
             /\ newer' = order

\* The subject and the first page of its memories, which may have been written
\* in any order.
List(here, query, budget) ==
    LET present == Present(rows) IN
    /\ context.phase = "idle"
    /\ \E rank \in [present -> 1..Cardinality(present)] :
        /\ \A m, n \in present : rank[m] = rank[n] => m = n
        /\ ReadPage([Idle EXCEPT !.here = here, !.query = query, !.budget = budget],
                    [m \in Memory |-> {n \in present : m \in present /\ rank[n] < rank[m]}])
    /\ during' = [m \in Memory |-> {rows[m]}]
    /\ UNCHANGED <<world, bundle, moved, commits>>

\* Another page.
ListPage ==
    /\ context.phase = "list"
    /\ ReadPage(context, newer)
    /\ UNCHANGED <<world, bundle, history>>

\* The request is over.
Leave ==
    /\ context' = Idle /\ bundle' = NoBundle
    /\ during' = [m \in Memory |-> {}] /\ moved' = {} /\ commits' = 0
    /\ UNCHANGED <<world, newer>>

\* Mutant: with a query only what it matched is kept.
SearchMatchedOnly ==
    /\ context.phase = "search"
    /\ \E matched \in SUBSET context.candidates :
        LET kept == IF context.query THEN matched ELSE context.candidates IN
        Become([context EXCEPT
                !.phase = "reload", !.candidates = kept, !.todo = kept,
                !.listed = [m \in Memory |-> IF m \in kept THEN @[m] ELSE NoRow]])

\* What the indexes find is up to the texts; hard constraints need no match.
Search ==
    /\ context.phase = "search"
    /\ \E matched \in SUBSET context.candidates :
        LET kept == IF context.query
                    THEN matched \cup {m \in context.candidates : Hard(context.listed[m])}
                    ELSE context.candidates IN
        Become([context EXCEPT
                !.phase = "reload", !.candidates = kept, !.todo = kept,
                !.listed = [m \in Memory |-> IF m \in kept THEN @[m] ELSE NoRow]])

\* The embedder or an index fails, the full-text one also without a query: the
\* error reaches the caller.
SearchFails ==
    /\ context.phase = "search"
    /\ Leave

\* Mutant: a memory that is gone stays a candidate.
ReloadKeeping(m) ==
    /\ context.phase = "reload" /\ m \in context.todo
    /\ Become([context EXCEPT !.todo = @ \ {m}, !.listed[m] = rows[m]])

\* Mutant: the scope is not looked at again.
ReloadAnywhere(m) ==
    /\ context.phase = "reload" /\ m \in context.todo
    /\ Become(IF rows[m] # NoRow
              THEN [context EXCEPT !.todo = @ \ {m}, !.listed[m] = rows[m]]
              ELSE [context EXCEPT !.todo = @ \ {m}, !.candidates = @ \ {m}])

\* A candidate that no longer fits is dropped; memory_by_id keeps it.
Reload(m) ==
    /\ context.phase = "reload" /\ m \in context.todo
    /\ Become(IF Fits(rows[m])
              THEN [context EXCEPT !.todo = @ \ {m}, !.listed[m] = rows[m]]
              ELSE [context EXCEPT !.todo = @ \ {m}, !.candidates = @ \ {m}])

\* _relevant_conflicts
RelevantConflicts(memories) ==
    {profile[t].conflict : t \in {u \in Target :
        /\ profile[u] # NoPreference
        /\ profile[u].conflict # NoConflict
        /\ profile[u].conflict.memories \cap memories # {}}}

Cost(memories) == MapThenSumSet(LAMBDA m : context.listed[m].cost, memories)

\* Mutant: the first memory that does not fit ends the selection.
SelectUntilFull(order, hard) ==
    FoldLeft(LAMBDA s, m :
                IF s.truncated
                    \/ (context.budget # NoBudget /\ s.used + Cost({m}) > context.budget)
                THEN [s EXCEPT !.truncated = TRUE]
                ELSE [s EXCEPT !.chosen = @ \cup {m}, !.used = @ + Cost({m})],
             [chosen |-> {}, used |-> Cost(hard), truncated |-> FALSE], order)

\* _select_with_budget
SelectWithBudget(order, hard) ==
    FoldLeft(LAMBDA s, m :
                IF context.budget # NoBudget /\ s.used + Cost({m}) > context.budget
                THEN [s EXCEPT !.truncated = TRUE]
                ELSE [s EXCEPT !.chosen = @ \cup {m}, !.used = @ + Cost({m})],
             [chosen |-> {}, used |-> Cost(hard), truncated |-> FALSE], order)

\* _memory_sort_key: without a query the score is that of the authority; with
\* one the hits and the reranker may bring about any order.
Sorted(order) ==
    context.query \/ \A i, j \in DOMAIN order : i < j =>
        LET r == context.listed[order[i]]
            s == context.listed[order[j]] IN
        /\ AuthorityOrder[r.authority] >= AuthorityOrder[s.authority]
        /\ r.authority = s.authority => ScopeOrder[r.place] >= ScopeOrder[s.place]

\* The profile is read, and the rest is computed from what was read.
Select ==
    LET hard == {m \in context.candidates : Hard(context.listed[m])} IN
    /\ context.phase = "reload" /\ context.todo = {}
    /\ \E order \in SetToSeqs(context.candidates \ hard) :
        LET s == SelectWithBudget(order, hard) IN
        /\ Sorted(order)
        /\ context' = [context EXCEPT !.phase = "returned"]
        /\ bundle' = [hard |-> hard, chosen |-> s.chosen, used |-> s.used,
                      truncated |-> s.truncated, conflicts |->
                        RelevantConflicts({m \in Memory : context.listed[m] # NoRow})]
        /\ UNCHANGED <<world, newer, history>>

Return == context.phase = "returned" /\ Leave

Init ==
    /\ rows = None
    /\ profile = Empty
    /\ context = Idle
    /\ bundle = NoBundle
    /\ newer = NoOrder
    /\ during = [m \in Memory |-> {}]
    /\ moved = {} /\ commits = 0

Others ==
    \/ \E m \in Memory : Activate(m) \/ Patch(m) \/ End(m)
    \/ \E m, n \in Memory : Supersede(m, n)
    \/ \E here \in Selection, behavior \in [Target -> Behavior \cup {NoScore}] :
        Refresh(here, behavior)

Step ==
    \/ ListPage \/ Search \/ SearchFails \/ Select \/ Return
    \/ \E m \in Memory : Reload(m)

Next ==
    \/ Others \/ Step
    \/ \E here \in Selection, query \in BOOLEAN, budget \in Budget :
        List(here, query, budget)

Spec == Init /\ [][Next]_vars

-----------------------------------------------------------------------------

\* Every variable has its type; each candidate has a memory, and a memory is
\* returned as a hard constraint, as another one, or not at all.
TypeOK ==
    /\ Possible(rows)
    /\ profile \in Profile
    /\ context \in Context
    /\ bundle \in Bundle
    /\ during \in [Memory -> SUBSET (MemoryRow \cup {NoRow})]
    /\ newer \in [Memory -> SUBSET Memory]
    /\ moved \subseteq Memory /\ commits \in 0..MaxCommits
    /\ context.todo \subseteq context.candidates
    /\ \A m \in context.candidates : context.listed[m] # NoRow
    /\ bundle.hard \cap bundle.chosen = {}
    /\ bundle.hard \cup bundle.chosen \subseteq context.candidates

\* A refresh whose list has each memory once never fails in a constructor of
\* domain/profile.py: every preference that it resolves is one that they accept.
ValidatorsAccept ==
    \A t \in Target : profile[t] # NoPreference => ValidPreference(t, profile[t])

\* plan.md:18: behaviour never overrides what the user said, and what it says
\* to the contrary is kept as a conflict.
UserPrevails ==
    [][profile' # profile =>
        \A here \in Selection, behavior \in [Target -> Behavior \cup {NoScore}], t \in Target :
            LET p == profile'[t] IN
            Refresh(here, behavior) /\ p # NoPreference =>
                /\ p.memories = Candidates(rows, here, t)
                /\ p.memories # {} => \E m \in p.memories : rows[m].polarity = p.polarity
                /\ p.memories # {} /\ behavior[t] # NoScore
                        /\ PolarityForScore(behavior[t]) # p.polarity
                    => p.conflict # NoConflict /\ p.conflict.score = behavior[t]]_vars

\* It was there all the time, and applied.
Steady(m) ==
    \A row \in during[m] : row # NoRow /\ Hard(row) /\ row.place \in context.here

\* plan.md:625: a hard constraint that applies throughout is returned, whatever
\* the query finds, however small the budget and whatever else changes, if it
\* did not move towards the first page while the list was read.
HardConstraintsKept ==
    context.phase = "returned" =>
        \A m \in Memory \ moved : Steady(m) => m \in bundle.hard

\* The same of every hard constraint.  Not so when there is more than one page:
\* a memory ends, and one that was on a later page is skipped.
HardConstraintsShown ==
    context.phase = "returned" => \A m \in Memory : Steady(m) => m \in bundle.hard

\* plan.md:626: what is returned was in force as returned, and applied to the
\* request, at a time when the request ran.
ShownWasInForce ==
    context.phase = "returned" =>
        \A m \in bundle.hard \cup bundle.chosen :
            /\ context.listed[m] \in during[m]
            /\ Fits(context.listed[m])

\* The budget is used as far as it goes: apart from hard constraints nothing
\* is returned beyond it, nothing left out would still fit, and the caller is
\* told when something was left out.
BudgetFilled ==
    context.phase = "returned" =>
        LET left == context.candidates \ (bundle.hard \cup bundle.chosen) IN
        /\ bundle.used = Cost(bundle.hard \cup bundle.chosen)
        /\ bundle.chosen # {} /\ context.budget # NoBudget
            => bundle.used <= context.budget
        /\ bundle.truncated <=> left # {}
        /\ \A m \in left : bundle.used + Cost({m}) > context.budget

\* plan.md:1338: conflicts are not overridden in silence.  Not so when they are
\* between memories.
ConflictsAreShown ==
    [][\A t \in Target : LET p == profile'[t] IN
        profile' # profile /\ p # NoPreference =>
            \A m \in p.memories :
                rows[m].polarity # p.polarity => p.conflict # NoConflict]_vars

\* plan.md:557: an explicit memory comes before a confirmed one.  Not so when
\* the confirmed one has the narrower scope.
ExplicitComesFirst ==
    [][\A t \in Target : LET p == profile'[t] IN
        profile' # profile /\ p # NoPreference =>
            LET explicit == {m \in p.memories : rows[m].authority = "explicit"} IN
            explicit # {} => \E m \in explicit : rows[m].polarity = p.polarity]_vars

\* plan.md:626: what is returned applies to the request.  Not so the conflicts,
\* which the profile can have taken from a memory of another scope.
ConflictsApply ==
    context.phase = "returned" =>
        \A c \in bundle.conflicts :
            \E m \in c.memories : \E row \in during[m] :
                Fits(row) /\ row.polarity = c.memoryPolarity
=============================================================================
