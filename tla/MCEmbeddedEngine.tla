-------------------------- MODULE MCEmbeddedEngine --------------------------
EXTENDS EmbeddedEngine, TLC

CONSTANT Database

\* Sessions have connections of their own (PostgreSQL, a SQLite file), or
\* share the one of an in-memory SQLite database.
OwnTransaction == [c \in Call |-> c]
OneTransaction == [c \in Call |-> Database]

\* Two calls that upsert, one of which may be made to initialize instead, and a
\* third one that does not write; or every call may be made for anything.
CONSTANTS C1, C2
TwoUpserts ==
    [c \in Call |-> CASE c = C1 -> {"upsert_entity", "initialize"}
                      [] c = C2 -> {"upsert_entity"}
                      [] OTHER -> {"list", "initialize", "ready"}]
Anything == [c \in Call |-> Operation]

\* An entity, and two changes of it that touch different columns.
Inputs == {[attributes |-> "a1", content_text |-> "t1"],
           [attributes |-> "a2", content_text |-> "t1"],
           [attributes |-> "a1", content_text |-> "t2"]}

TwoInputs == {[attributes |-> "a1", content_text |-> "t1"],
              [attributes |-> "a2", content_text |-> "t1"]}

Symmetry == Permutations(Call)
=============================================================================
