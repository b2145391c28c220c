------------------------ MODULE MCCanonicalExecutor ------------------------
(* Small instances of CanonicalExecutor for TLC. *)
EXTENDS CanonicalExecutor, TLC

\* Node ids are interchangeable, and so are the root slots.
Symmetry == Permutations(NodeIds) \cup Permutations(RootKeys)
=============================================================================
