------------------------ MODULE MCBindingLifecycle ------------------------
(* Small instances of BindingLifecycle for TLC. *)
EXTENDS BindingLifecycle
=============================================================================
