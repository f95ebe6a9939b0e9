------------------------------- MODULE MCGate -------------------------------
(* Instances of Gate for TLC.  Tools are interchangeable, and so are ids. *)
EXTENDS Gate, TLC

Symmetry == Permutations(Ids) \cup Permutations(Tools)
=============================================================================
