----------------------------- MODULE MCPurchase -----------------------------
(* Instances of PurchaseCheck for TLC: one order is outside every limit, two  *)
(* are within, and an instruction is valid at all but the last instant.       *)
EXTENDS PurchaseCheck, TLC

CONSTANTS o1, o2, dear, Limit

MCOrders == {o1, o2, dear}
MCWithin == Instructions \X {o1, o2}
MCMaxUses == [i \in Instructions |-> Limit]
MCValidFrom == [i \in Instructions |-> 0]
MCValidUntil == [i \in Instructions |-> MaxInstant - 1]

Symmetry == Permutations(Procs) \cup Permutations(Refs) \cup Permutations({o1, o2})
=============================================================================
