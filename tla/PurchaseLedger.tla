--------------------------- MODULE PurchaseLedger ---------------------------
(***************************************************************************)
(* What the purchase check promises a provider (README.md, "An allow is      *)
(* returned only after its receipt is written"): a ledger of purchases that  *)
(* only grows, never beyond an instruction's uses, with one order per order  *)
(* reference, and an allow only for a purchase that is in the ledger.  No    *)
(* processes, files, locks, clocks or crashes.                               *)
(***************************************************************************)
EXTENDS Naturals

CONSTANTS
  Instructions,
  Purchases,  \* records with fields instr, ref and order
  MaxUses     \* instruction -> how many purchases it allows

VARIABLES
  granted,  \* the purchases on record
  used,     \* instruction -> how many purchases are on record under it
  told      \* the purchases some caller has been allowed

vars == <<granted, used, told>>

Init == granted = {} /\ used = [i \in Instructions |-> 0] /\ told = {}

Grant(p) ==
  /\ \A q \in granted : q.instr = p.instr => q.ref # p.ref
  /\ used[p.instr] < MaxUses[p.instr]
  /\ granted' = granted \cup {p}
  /\ used' = [used EXCEPT ![p.instr] = used[p.instr] + 1]
  /\ told' \in {told, told \cup {p}}

Tell(p) ==
  /\ p \in granted
  /\ told' = told \cup {p}
  /\ UNCHANGED <<granted, used>>

Next == \E p \in Purchases : Grant(p) \/ Tell(p)

Spec == Init /\ [][Next]_vars
=============================================================================
