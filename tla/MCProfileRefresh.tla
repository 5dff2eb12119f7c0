-------------------------- MODULE MCProfileRefresh --------------------------
EXTENDS ProfileRefresh, TLC

\* The callers are interchangeable: nothing in the code tells them apart.
Symmetry == Permutations(Client)
=============================================================================
