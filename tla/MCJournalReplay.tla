-------------------------- MODULE MCJournalReplay --------------------------
(* Small instances of JournalReplay for TLC. *)
EXTENDS JournalReplay

\* Node ids are interchangeable.
Symmetry == Permutations(NodeIds)
=============================================================================
