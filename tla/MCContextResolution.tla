------------------------ MODULE MCContextResolution -------------------------
(* Instances of ContextResolution for TLC.                                 *)
EXTENDS ContextResolution, TLC

CONSTANTS rule, said, confirmed, all, shop, t

Scopes == (all :> 0) @@ (shop :> 1)

\* A hard constraint, with evidence only since it applies everywhere; a
\* preference about the same target, of unknown polarity; a confirmed one for
\* the shop, the shortest of the three.
Constraint(place) == [kind |-> "constraint", target |-> t, polarity |-> "positive",
    authority |-> "explicit", place |-> place, evidenced |-> place = all, cost |-> 2]
Unsure == [kind |-> "preference", target |-> t, polarity |-> "unknown",
    authority |-> "explicit", place |-> all, evidenced |-> TRUE, cost |-> 2]
Confirmed == [kind |-> "preference", target |-> t, polarity |-> "negative",
    authority |-> "confirmed", place |-> shop, evidenced |-> TRUE, cost |-> 1]

Rows == (rule :> {Constraint(all), Constraint(shop)})
     @@ (said :> {Unsure})
     @@ (confirmed :> {Confirmed})

\* A full score against, and none at all.
Scores == {-2, 0}

\* Enough for the confirmed one beside one of the others.
Budgets == {3, NoBudget}
=============================================================================
