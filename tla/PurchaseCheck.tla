--------------------------- MODULE PurchaseCheck ---------------------------
(***************************************************************************)
(* The purchase check of src/purchase/check.ts: processes that open one      *)
(* data directory under an exclusive lock, rebuild what was allowed from     *)
(* every chain file in it, and answer checks, each decision written to the   *)
(* process's own chain before it is answered.  Appends fail or are cut       *)
(* short, processes die at any point, clocks go backwards.                   *)
(*                                                                          *)
(* check() is synchronous: one call is one action.  What it does between the *)
(* append and the answer can only be cut by the death of the process.        *)
(***************************************************************************)
EXTENDS Integers, Sequences, FiniteSets

CONSTANTS
  Procs,         \* processes that may open the directory
  Instructions,  \* instruction digests
  Refs,          \* order references: merchant, merchant order id, checkout ref
  Orders,        \* order digests
  Within,        \* <<instruction, order>> with no reason but time or uses to deny
  MaxUses,       \* instruction -> constraints.max_uses
  ValidFrom,     \* instruction -> constraints.valid_from
  ValidUntil,    \* instruction -> constraints.valid_until
  MaxInstant,    \* bound: the gate clock shows 0 .. MaxInstant
  Skew,          \* MAX_SKEW_MS
  MaxSessions,   \* bound: sessions opened on the directory
  MaxRecords,    \* bound: records of one chain
  None           \* no process, no memory, no allow, no purchase

Instants == 0 .. MaxInstant
Sessions == 1 .. MaxSessions
Keys == Instructions \X Refs
Places == Sessions \X (1 .. MaxRecords)
Purchases == [instr : Instructions, ref : Refs, order : Orders]
Entries == [order : Orders, place : Places]

NeverWritten == -1

\* A deny receipt grants None; which order it denied plays no part.
Records == [seq : Nat, at : Instants, grants : Purchases \cup {None}]
Memory == [session : Sessions, uses : [Instructions -> Nat], allowed : [Keys -> Entries \cup {None}],
           head : Nat, lastTs : Instants \cup {NeverWritten}, broken : BOOLEAN]

ASSUME PurchaseAssumption ==
  /\ Within \subseteq Instructions \X Orders
  /\ MaxUses \in [Instructions -> Nat]
  /\ ValidFrom \in [Instructions -> Instants]
  /\ ValidUntil \in [Instructions -> Instants]
  /\ MaxInstant \in Nat
  /\ Skew \in Nat
  /\ MaxSessions \in Nat
  /\ MaxRecords \in Nat
  /\ None \notin Procs \cup Purchases \cup Entries \cup Memory

VARIABLES
  disk,    \* session -> the complete lines of its chain file
  torn,    \* sessions whose file ends in a line without its end
  lock,    \* the process purchase-chains/.lock names, or None
  opened,  \* how many sessions there have been
  phase,   \* process -> where it is in its life
  memory,  \* process -> what the open check holds, or None
  told     \* places of the allow receipts callers were given

vars == <<disk, torn, lock, opened, phase, memory, told>>

TypeOK ==
  /\ disk \in [Sessions -> Seq(Records)]
  /\ torn \subseteq Sessions
  /\ lock \in Procs \cup {None}
  /\ opened \in 0 .. MaxSessions
  /\ phase \in [Procs -> {"down", "opening", "open", "closing"}]
  /\ memory \in [Procs -> Memory \cup {None}]
  /\ told \subseteq Places

Init ==
  /\ disk = [s \in Sessions |-> <<>>]
  /\ torn = {}
  /\ lock = None
  /\ opened = 0
  /\ phase = [p \in Procs |-> "down"]
  /\ memory = [p \in Procs |-> None]
  /\ told = {}

----------------------------------------------------------------------------
\* What a reader finds in the files

At(x) == disk[x[1]][x[2]]
Written == {x \in Places : x[2] \in DOMAIN disk[x[1]]}
Allows == {x \in Written : At(x).grants # None}
AllowsOf(i) == {x \in Allows : At(x).grants.instr = i}
KeyOf(x) == <<At(x).grants.instr, At(x).grants.ref>>

\* runVerify and recordProblem: each seq follows the one before it, and no
\* time lies more than Skew before an earlier one.
Verifies(s) ==
  \A n \in DOMAIN disk[s] :
    /\ disk[s][n].seq = n - 1
    /\ \A m \in 1 .. n : disk[s][n].at + Skew >= disk[s][m].at

----------------------------------------------------------------------------
\* Opening the directory

Enter(p, from, to) == phase[p] = from /\ phase' = [phase EXCEPT ![p] = to]

\* The lock file is created with "wx", or opening throws.
TakeLock(p) ==
  /\ Enter(p, "down", "opening")
  /\ lock = None
  /\ lock' = p
  /\ UNCHANGED <<disk, torn, opened, memory, told>>

\* The first allow of a key in file order; OneAllowPerRef makes it the only one.
FirstAllow(key) ==
  LET found == {x \in Allows : KeyOf(x) = key}
      Before(x, y) == x[1] < y[1] \/ (x[1] = y[1] /\ x[2] <= y[2])
  IN IF found = {} THEN None
     ELSE LET x == CHOOSE x \in found : \A y \in found : Before(x, y)
          IN [order |-> At(x).grants.order, place |-> x]

\* Mutant: the uses start from zero in each session.
RecountWithoutUses(s) ==
  [session |-> s,
   uses |-> [i \in Instructions |-> 0],
   allowed |-> [k \in Keys |-> FirstAllow(k)],
   head |-> 0, lastTs |-> NeverWritten, broken |-> FALSE]

\* Mutant: an instruction never used counts as undefined, not as zero.
RecountUndefined(s) ==
  [session |-> s,
   uses |-> [i \in Instructions |->
               IF AllowsOf(i) = {} THEN None ELSE Cardinality(AllowsOf(i))],
   allowed |-> [k \in Keys |-> FirstAllow(k)],
   head |-> 0, lastTs |-> NeverWritten, broken |-> FALSE]

\* Mutant: the order references are not rebuilt.
RecountWithoutRefs(s) ==
  [session |-> s,
   uses |-> [i \in Instructions |-> Cardinality(AllowsOf(i))],
   allowed |-> [k \in Keys |-> None],
   head |-> 0, lastTs |-> NeverWritten, broken |-> FALSE]

Recount(s) ==
  [session |-> s,
   uses |-> [i \in Instructions |-> Cardinality(AllowsOf(i))],
   allowed |-> [k \in Keys |-> FirstAllow(k)],
   head |-> 0, lastTs |-> NeverWritten, broken |-> FALSE]

\* Mutant: a file with a torn end loses its last complete line as well.
RebuildCuttingTooMuch(p) ==
  /\ Enter(p, "opening", "open")
  /\ opened < MaxSessions
  /\ \A s \in Sessions : Verifies(s)
  /\ disk' = [s \in Sessions |->
                IF s \in torn /\ disk[s] # <<>>
                THEN SubSeq(disk[s], 1, Len(disk[s]) - 1) ELSE disk[s]]
  /\ torn' = {}
  /\ opened' = opened + 1
  /\ memory' = [memory EXCEPT ![p] = Recount(opened + 1)]
  /\ UNCHANGED <<lock, told>>

\* Torn ends are cut off, every chain is verified and counted, and the session
\* begins under a fresh id.
Rebuild(p) ==
  /\ Enter(p, "opening", "open")
  /\ opened < MaxSessions
  /\ \A s \in Sessions : Verifies(s)
  /\ torn' = {}
  /\ opened' = opened + 1
  /\ memory' = [memory EXCEPT ![p] = Recount(opened + 1)]
  /\ UNCHANGED <<disk, lock, told>>

\* A file cannot be read or cut, or does not verify: the lock is given up.
\* The files before it in the listing may have been cut already.
RebuildThrows(p) ==
  /\ Enter(p, "opening", "down")
  /\ lock' = None
  /\ torn' \in SUBSET torn
  /\ UNCHANGED <<disk, opened, memory, told>>

----------------------------------------------------------------------------
\* check()

\* The clock is read once and refused when it runs behind the last receipt.
Reads(p, at) ==
  /\ phase[p] = "open"
  /\ at + Skew >= memory[p].lastTs

Judged(p, b, at) ==
  /\ <<b.instr, b.order>> \in Within
  /\ ValidFrom[b.instr] <= at /\ at <= ValidUntil[b.instr]
  /\ memory[p].uses[b.instr] + 1 <= MaxUses[b.instr]

Prior(p, b) == memory[p].allowed[<<b.instr, b.ref>>]

\* Step 2b: the earlier allow again, for the same order and while still valid.
Repeats(p, b, at) ==
  /\ Prior(p, b) # None
  /\ Prior(p, b).order = b.order
  /\ at <= ValidUntil[b.instr]

\* Mutant: the earlier allow's order is not compared.
GrantsIgnoringPrior(p, b, at) == Judged(p, b, at)

\* Steps 2b to 4: what write() is called with when the answer is no repeat.
Grants(p, b, at) ==
  /\ Prior(p, b) # None => Prior(p, b).order = b.order
  /\ Judged(p, b, at)

Decision(p, b, at) == IF Grants(p, b, at) THEN b ELSE None

NewRecord(p, b, at) ==
  [seq |-> memory[p].head, at |-> at, grants |-> Decision(p, b, at)]

\* Where the next line goes.
NextPlace(p) == <<memory[p].session, Len(disk[memory[p].session]) + 1>>

AppendLine(p, r) == disk' = [disk EXCEPT ![memory[p].session] = Append(@, r)]

\* Mutant: the time of the last receipt is the latest, not the greatest.
RememberLatest(p, b, at) ==
  LET m == memory[p] IN
  memory' =
    [memory EXCEPT ![p] =
       [m EXCEPT !.head = m.head + 1,
                 !.lastTs = at,
                 !.uses = IF Grants(p, b, at) THEN [m.uses EXCEPT ![b.instr] = m.uses[b.instr] + 1] ELSE m.uses,
                 !.allowed = IF Grants(p, b, at)
                             THEN [m.allowed EXCEPT ![<<b.instr, b.ref>>] =
                                     [order |-> b.order, place |-> NextPlace(p)]]
                             ELSE m.allowed]]

Remember(p, b, at) ==
  LET m == memory[p] IN
  memory' =
    [memory EXCEPT ![p] =
       [m EXCEPT !.head = m.head + 1,
                 !.lastTs = IF at > m.lastTs THEN at ELSE m.lastTs,
                 !.uses = IF Grants(p, b, at) THEN [m.uses EXCEPT ![b.instr] = m.uses[b.instr] + 1] ELSE m.uses,
                 !.allowed = IF Grants(p, b, at)
                             THEN [m.allowed EXCEPT ![<<b.instr, b.ref>>] =
                                     [order |-> b.order, place |-> NextPlace(p)]]
                             ELSE m.allowed]]

Writes(p, b, at) ==
  /\ Reads(p, at)
  /\ ~Repeats(p, b, at)
  /\ ~memory[p].broken
  /\ Len(disk[memory[p].session]) < MaxRecords

\* The receipt lands and the decision is answered.
CheckWritten(p, b, at) ==
  /\ Writes(p, b, at)
  /\ AppendLine(p, NewRecord(p, b, at))
  /\ Remember(p, b, at)
  /\ told' = IF Grants(p, b, at) THEN told \cup {NextPlace(p)} ELSE told
  /\ UNCHANGED <<torn, lock, opened, phase>>

\* The allow is answered again and nothing is written, broken chain or not.
CheckRepeated(p, b, at) ==
  /\ Reads(p, at)
  /\ Repeats(p, b, at)
  /\ told' = told \cup {Prior(p, b).place}
  /\ UNCHANGED <<disk, torn, lock, opened, phase, memory>>

\* What an append that did not complete leaves: nothing, part of the line, or
\* the whole line.
Leaves(p, r, left) ==
  /\ disk' = IF left = "line" THEN [disk EXCEPT ![memory[p].session] = Append(@, r)] ELSE disk
  /\ torn' = IF left = "part" THEN torn \cup {memory[p].session} ELSE torn

Lefts == {"nothing", "part", "line"}

\* Mutant: the chain is not marked broken.
CheckFailedUnmarked(p, b, at, left) ==
  /\ Writes(p, b, at)
  /\ Leaves(p, NewRecord(p, b, at), left)
  /\ UNCHANGED <<lock, opened, phase, memory, told>>

\* The append throws and the file cannot be cut back: record-failed, now and on
\* every later check.  (An append that is cut back, or arguments that cannot be
\* kept, are record-failed with nothing changed.)
CheckFailed(p, b, at, left) ==
  /\ Writes(p, b, at)
  /\ Leaves(p, NewRecord(p, b, at), left)
  /\ memory' = [memory EXCEPT ![p].broken = TRUE]
  /\ UNCHANGED <<lock, opened, phase, told>>

----------------------------------------------------------------------------
\* Ends

\* The process dies while check() writes: no answer is given.
DieWriting(p, b, at, left) ==
  /\ Writes(p, b, at)
  /\ Leaves(p, NewRecord(p, b, at), left)
  /\ phase' = [phase EXCEPT ![p] = "down"]
  /\ memory' = [memory EXCEPT ![p] = None]
  /\ UNCHANGED <<lock, opened, told>>

Die(p) ==
  /\ phase[p] # "down"
  /\ phase' = [phase EXCEPT ![p] = "down"]
  /\ memory' = [memory EXCEPT ![p] = None]
  /\ UNCHANGED <<disk, torn, lock, opened, told>>

\* close() waits for the last checkpoint; checks are record-failed meanwhile.
Close(p) ==
  /\ Enter(p, "open", "closing")
  /\ memory' = [memory EXCEPT ![p] = None]
  /\ UNCHANGED <<disk, torn, lock, opened, told>>

Closed(p) ==
  /\ Enter(p, "closing", "down")
  /\ lock' = None
  /\ UNCHANGED <<disk, torn, opened, memory, told>>

\* A lock left behind is never reclaimed: the operator removes it, having
\* checked that no process holds the directory.
OperatorRemovesLock ==
  /\ lock # None
  /\ \A p \in Procs : phase[p] = "down"
  /\ lock' = None
  /\ UNCHANGED <<disk, torn, opened, phase, memory, told>>

Check(p) ==
  \E b \in Purchases, at \in Instants :
    \/ CheckWritten(p, b, at)
    \/ CheckRepeated(p, b, at)
    \/ \E left \in Lefts : CheckFailed(p, b, at, left)
    \/ \E left \in Lefts : DieWriting(p, b, at, left)

Next ==
  \/ \E p \in Procs :
       \/ TakeLock(p)
       \/ Rebuild(p)
       \/ RebuildThrows(p)
       \/ Check(p)
       \/ Die(p)
       \/ Close(p)
       \/ Closed(p)
  \/ OperatorRemovesLock

Spec == Init /\ [][Next]_vars

----------------------------------------------------------------------------
\* Properties

\* No instruction is ever used more often than it says, counted over every
\* chain in the directory, whatever crashed in between (check.ts:278-319).
NoOverspend == \A i \in Instructions : Cardinality(AllowsOf(i)) <= MaxUses[i]

\* One order reference is allowed once under one instruction, in all sessions
\* together (check.ts:480-492).
OneAllowPerRef == \A x, y \in Allows : KeyOf(x) = KeyOf(y) => x = y

\* Every allow a caller was given, first or repeated, is in the files for good
\* (README.md:917): a rebuild cuts no line an answer was given on.
ToldIsKept == told \subseteq Allows

\* Opening never finds a chain it must refuse: whatever failed, the files still
\* verify (check.ts:471, 432-441).
FilesVerify == \A s \in Sessions : Verifies(s)

\* A line is added only to a file that ends in a complete line (check.ts:380).
NothingAfterATornLine == [][\A s \in torn : disk'[s] = disk[s]]_vars

\* To a provider all of this is one ledger.
Ledger == INSTANCE PurchaseLedger
            WITH granted <- {At(x).grants : x \in Allows},
                 used <- [i \in Instructions |-> Cardinality(AllowsOf(i))],
                 told <- {At(x).grants : x \in told}

KeepsLedger == Ledger!Spec
=============================================================================
