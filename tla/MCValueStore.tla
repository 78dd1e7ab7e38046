---------------------------- MODULE MCValueStore ----------------------------
(* Instances of ValueStore for TLC. *)
EXTENDS ValueStore

=============================================================================
