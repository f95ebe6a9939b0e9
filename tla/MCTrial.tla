------------------------------ MODULE MCTrial ------------------------------
(* An instance of TrialRecorder for TLC.                                      *)
EXTENDS TrialRecorder, TLC

MCMaxEntries == <<2, 1>>

\* Three recorders that may leave a tail, and a fourth that only catches up.
MCTails == <<1, 1, 1, 0>>

Symmetry == Permutations(Callers)
=============================================================================
