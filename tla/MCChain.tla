------------------------------ MODULE MCChain ------------------------------
(* Instances of SharedChain for TLC.                                          *)
EXTENDS SharedChain

\* Writers differ in nothing but their events.
WriterSymmetry == Permutations(Writers)
=============================================================================
