--------------------------- MODULE MCActivityBuffer --------------------------
(* Instances of ActivityBuffer for TLC. *)
EXTENDS ActivityBuffer
=============================================================================
