-------------------------- MODULE MCMemoryService --------------------------
(* Instances of MemoryService for TLC.                                     *)
EXTENDS MemoryService, TLC

\* Ids are drawn at random and requests, texts and evidence are only
\* compared, so any two are interchangeable.
Symmetry == Permutations(Memory) \cup Permutations(Content)
                \cup Permutations(Evidence) \cup Permutations(Extractor)
                \cup Permutations(Client \ Extractor)

=============================================================================
