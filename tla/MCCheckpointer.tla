--------------------------- MODULE MCCheckpointer ---------------------------
(* Instances of Checkpointer for TLC. *)
EXTENDS Checkpointer, TLC
=============================================================================
