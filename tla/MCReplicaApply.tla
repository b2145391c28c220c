-------------------------- MODULE MCReplicaApply --------------------------
(* Small instances of ReplicaApply for TLC. *)
EXTENDS ReplicaApply, TLC

\* Words are interchangeable, and so are the folders.
Symmetry == Permutations(Words) \cup Permutations(Folders)
=============================================================================
