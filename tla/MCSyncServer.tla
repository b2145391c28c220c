---------------------------- MODULE MCSyncServer ----------------------------
(* Small instances of SyncServer for TLC. *)
EXTENDS SyncServer, TLC

CONSTANT main

MCRootKeys == {main} \cup {RecoveryRootKey(b) : b \in Bindings}

MCOrigins == {WebOrigin} \cup {DeviceOrigin(b, s) : b \in Bindings, s \in 1 .. MaxSeq}

\* Node ids are interchangeable, and so are the bindings.
Symmetry == Permutations(NodeIds) \cup Permutations(Bindings)
=============================================================================
