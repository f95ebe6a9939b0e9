---------------------------- MODULE GatePromise -----------------------------
(***************************************************************************)
(* What the gate promises about each line of the client, with no ids, no    *)
(* downstream queue and no file: a line is settled without running, or it   *)
(* runs once and then its result is either released together with its allow *)
(* receipt or withheld for good (README.md, "Posture: fail-closed";          *)
(* src/proxy.ts:6-19).                                                       *)
(***************************************************************************)
CONSTANT Line  \* the client's lines

VARIABLES
  fate,      \* per line: "unread", "settled", "running", "released", "withheld"
  receipts   \* the decisions on record, each with its line

vars == <<fate, receipts>>

Fates == {"unread", "settled", "running", "released", "withheld"}
Receipts == [decision : {"allow", "deny"}, line : Line]

Init ==
  /\ fate = [l \in Line |-> "unread"]
  /\ receipts = {}

Move(l, from, to) ==
  /\ fate[l] = from
  /\ fate' = [fate EXCEPT ![l] = to]

\* The line is not run; the denial is recorded if it is a call and the append works.
Settle(l) ==
  /\ Move(l, "unread", "settled")
  /\ receipts' = receipts \/ receipts' = receipts \cup {[decision |-> "deny", line |-> l]}

Run(l) ==
  /\ Move(l, "unread", "running")
  /\ UNCHANGED receipts

Release(l) ==
  /\ Move(l, "running", "released")
  /\ receipts' = receipts \cup {[decision |-> "allow", line |-> l]}

\* The append may have landed although it was reported as failed.
Withhold(l) ==
  /\ Move(l, "running", "withheld")
  /\ receipts' = receipts \/ receipts' = receipts \cup {[decision |-> "allow", line |-> l]}

Next == \E l \in Line : Settle(l) \/ Run(l) \/ Release(l) \/ Withhold(l)

Spec == Init /\ [][Next]_vars
=============================================================================
