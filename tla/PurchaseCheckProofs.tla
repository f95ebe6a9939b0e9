------------------------ MODULE PurchaseCheckProofs ------------------------
(***************************************************************************)
(* Proofs about PurchaseCheck, for any processes, instructions, orders,      *)
(* limits and bounds: the files keep every promise because the one process   *)
(* past the lock holds in memory what the files say.                         *)
(***************************************************************************)
EXTENDS PurchaseCheck, FiniteSetTheorems, TLAPS

\* One process at a time is past the lock (check.ts:188-215).
OneHolder == \A p \in Procs : phase[p] # "down" => lock = p

\* A process that answers checks has a memory, of the latest session.
MemoryIsLatest ==
  \A p \in Procs :
    /\ phase[p] = "open" <=> memory[p] # None
    /\ memory[p] # None => memory[p].session = opened

\* No file of a session to come.
LaterIsEmpty == \A s \in Sessions : s > opened => disk[s] = <<>>

\* What a process holds of its own chain is the chain's end, while it may write.
EndIsKnown(p) ==
  LET s == memory[p].session IN
  /\ s \notin torn
  /\ memory[p].head = Len(disk[s])
  /\ \A n \in DOMAIN disk[s] : disk[s][n].at <= memory[p].lastTs

\* What it holds of uses is what the files say, and it misses no order reference.
CountsAreKnown(p) == \A i \in Instructions : memory[p].uses[i] = Cardinality(AllowsOf(i))
NoRefIsMissed(p) == \A x \in Allows : memory[p].allowed[KeyOf(x)] # None

\* The earlier allows it repeats, broken chain or not, are in the files.
Known(e, k) == e.place \in Allows /\ KeyOf(e.place) = k /\ At(e.place).grants.order = e.order
RepeatsAreKnown(p) == \A k \in Keys : memory[p].allowed[k] # None => Known(memory[p].allowed[k], k)

MemoryMatchesFiles ==
  \A p \in Procs : memory[p] # None =>
    /\ RepeatsAreKnown(p)
    /\ ~memory[p].broken => EndIsKnown(p) /\ CountsAreKnown(p) /\ NoRefIsMissed(p)

\* Inductive: what the runs check of the files, and why a process may rely on
\* its memory of them.
PurchaseInv ==
  /\ TypeOK
  /\ OneHolder
  /\ MemoryIsLatest
  /\ LaterIsEmpty
  /\ MemoryMatchesFiles
  /\ FilesVerify
  /\ NoOverspend
  /\ OneAllowPerRef
  /\ ToldIsKept

----------------------------------------------------------------------------
\* The allows of an instruction can be counted.
LEMMA AllowsAreFinite ==
  ASSUME NEW i
  PROVE  IsFiniteSet(AllowsOf(i)) /\ Cardinality(AllowsOf(i)) \in Nat
<1>1. IsFiniteSet(Sessions) /\ IsFiniteSet(1 .. MaxRecords)
  BY PurchaseAssumption, FS_Interval DEF Sessions
<1>2. IsFiniteSet(Places)
  BY <1>1, FS_Product DEF Places
<1>3. AllowsOf(i) \in SUBSET Places
  BY DEF AllowsOf, Allows, Written
<1> QED
  BY <1>2, <1>3, FS_Subset, FS_CardinalityType

\* A record on the disk is a record.
LEMMA WrittenIsRecord ==
  ASSUME TypeOK, NEW x \in Written
  PROVE  At(x) \in Records /\ x[1] \in Sessions /\ x[2] \in DOMAIN disk[x[1]]
BY DEF TypeOK, Written, Places, At

\* Appending a record adds one place, and changes what is at no other.
LEMMA OnePlaceMore ==
  ASSUME TypeOK, NEW s \in Sessions, NEW r \in Records,
         Len(disk[s]) < MaxRecords, disk' = [disk EXCEPT ![s] = Append(@, r)]
  PROVE  /\ disk' \in [Sessions -> Seq(Records)]
         /\ <<s, Len(disk[s]) + 1>> \in Places
         /\ <<s, Len(disk[s]) + 1>> \notin Written
         /\ Written' = Written \cup {<<s, Len(disk[s]) + 1>>}
         /\ \A x \in Written : disk'[x[1]][x[2]] = At(x)
         /\ disk'[s][Len(disk[s]) + 1] = r
         /\ DOMAIN disk'[s] = 1 .. Len(disk[s]) + 1
         /\ \A t \in Sessions : t # s => disk'[t] = disk[t]
<1>1. disk[s] \in Seq(Records) /\ Len(disk[s]) \in Nat /\ DOMAIN disk[s] = 1 .. Len(disk[s])
  BY DEF TypeOK
<1>2. disk' \in [Sessions -> Seq(Records)]
  BY <1>1 DEF TypeOK
<1>3. disk'[s] = Append(disk[s], r) /\ \A t \in Sessions : t # s => disk'[t] = disk[t]
  BY DEF TypeOK
<1>4. /\ DOMAIN disk'[s] = 1 .. Len(disk[s]) + 1
      /\ disk'[s][Len(disk[s]) + 1] = r
      /\ \A n \in DOMAIN disk[s] : disk'[s][n] = disk[s][n]
  BY <1>1, <1>3
<1>5. Len(disk[s]) + 1 \in 1 .. MaxRecords
  BY <1>1, PurchaseAssumption
<1>6. <<s, Len(disk[s]) + 1>> \in Places /\ <<s, Len(disk[s]) + 1>> \notin Written
  BY <1>1, <1>5 DEF Places, Written
<1>7. \A x \in Written : disk'[x[1]][x[2]] = At(x)
  BY <1>3, <1>4, WrittenIsRecord DEF At
<1>8. \A x \in Places : x[2] \in DOMAIN disk'[x[1]] <=> x \in Written \/ x = <<s, Len(disk[s]) + 1>>
  <2> SUFFICES ASSUME NEW x \in Places
               PROVE  x[2] \in DOMAIN disk'[x[1]] <=> x \in Written \/ x = <<s, Len(disk[s]) + 1>>
    OBVIOUS
  <2>1. x = <<x[1], x[2]>> /\ x[1] \in Sessions /\ x[2] \in Nat
    BY DEF Places
  <2>2. CASE x[1] = s
    BY <1>1, <1>4, <2>1, <2>2 DEF Written
  <2>3. CASE x[1] # s
    BY <1>3, <2>1, <2>3 DEF Written
  <2> QED
    BY <2>2, <2>3
<1> QED
  BY <1>2, <1>3, <1>4, <1>6, <1>7, <1>8 DEF Written

\* The allows are those there were, and the new place if it grants.
LEMMA AllowsAfterAppend ==
  ASSUME TypeOK, NEW s \in Sessions, NEW r \in Records,
         Len(disk[s]) < MaxRecords, disk' = [disk EXCEPT ![s] = Append(@, r)]
  PROVE  LET n == <<s, Len(disk[s]) + 1>> IN
         /\ Allows' = IF r.grants = None THEN Allows ELSE Allows \cup {n}
         /\ \A i : AllowsOf(i)' = IF r.grants # None /\ r.grants.instr = i THEN AllowsOf(i) \cup {n} ELSE AllowsOf(i)
         /\ n \notin Allows
         /\ \A x \in Allows : disk'[x[1]][x[2]] = At(x)
         /\ disk'[n[1]][n[2]] = r
<1> DEFINE n == <<s, Len(disk[s]) + 1>>
<1>1. /\ Written' = Written \cup {n} /\ n \notin Written
      /\ \A x \in Written : disk'[x[1]][x[2]] = At(x)
      /\ disk'[n[1]][n[2]] = r
  BY OnePlaceMore
<1> HIDE DEF n
<1>2. Allows' = {x \in Written' : disk'[x[1]][x[2]].grants # None}
  BY DEF Allows, At
<1>3. Allows' = IF r.grants = None THEN Allows ELSE Allows \cup {n}
  BY <1>1, <1>2 DEF Allows
<1>4. ASSUME NEW i
      PROVE  AllowsOf(i)' = IF r.grants # None /\ r.grants.instr = i THEN AllowsOf(i) \cup {n} ELSE AllowsOf(i)
  <2>1. AllowsOf(i)' = {x \in Allows' : disk'[x[1]][x[2]].grants.instr = i}
    BY DEF AllowsOf, At
  <2>2. \A x \in Allows : disk'[x[1]][x[2]] = At(x)
    BY <1>1 DEF Allows
  <2> QED
    BY <1>1, <1>3, <2>1, <2>2 DEF AllowsOf
<1> QED
  BY <1>1, <1>3, <1>4 DEF Allows, n

\* What a process may write on: its own latest session, whose end it knows.
LEMMA WriterKnows ==
  ASSUME PurchaseInv, NEW p \in Procs, NEW b \in Purchases, NEW at \in Instants, Writes(p, b, at)
  PROVE  /\ memory[p] \in Memory /\ memory[p] # None
         /\ EndIsKnown(p) /\ CountsAreKnown(p) /\ NoRefIsMissed(p) /\ RepeatsAreKnown(p)
         /\ at + Skew >= memory[p].lastTs
         /\ NewRecord(p, b, at) \in Records
<1>1. memory[p] # None /\ memory[p] \in Memory
  BY DEF PurchaseInv, MemoryIsLatest, TypeOK, Writes, Reads
<1>2. EndIsKnown(p) /\ CountsAreKnown(p) /\ NoRefIsMissed(p) /\ RepeatsAreKnown(p)
  BY <1>1 DEF PurchaseInv, MemoryMatchesFiles, Writes
<1>3. NewRecord(p, b, at) \in Records
  BY <1>1 DEF NewRecord, Records, Decision, Memory
<1> QED
  BY <1>1, <1>2, <1>3 DEF Writes, Reads

\* An order is granted only where nothing was, and with a use to spare.
LEMMA GrantIsNew ==
  ASSUME PurchaseInv, NEW p \in Procs, NEW b \in Purchases, NEW at \in Instants,
         Writes(p, b, at), Grants(p, b, at)
  PROVE  /\ \A x \in Allows : KeyOf(x) # <<b.instr, b.ref>>
         /\ Cardinality(AllowsOf(b.instr)) + 1 <= MaxUses[b.instr]
         /\ b.instr \in Instructions
<1>1. Prior(p, b) = None
  BY DEF Writes, Repeats, Grants, Judged
<1>2. \A x \in Allows : KeyOf(x) # <<b.instr, b.ref>>
  BY <1>1, WriterKnows DEF NoRefIsMissed, Prior
<1>3. b.instr \in Instructions
  BY DEF Purchases
<1> QED
  BY <1>2, <1>3, WriterKnows DEF CountsAreKnown, Grants, Judged

\* What holds of the files however the append of a decision ends: each property
\* of theirs, and every allow there was.
FilesHold ==
  /\ FilesVerify
  /\ NoOverspend
  /\ OneAllowPerRef
  /\ LaterIsEmpty

LEMMA AppendKeepsFiles ==
  ASSUME PurchaseInv, NEW p \in Procs, NEW b \in Purchases, NEW at \in Instants,
         Writes(p, b, at), AppendLine(p, NewRecord(p, b, at)), opened' = opened
  PROVE  FilesHold' /\ disk' \in [Sessions -> Seq(Records)] /\ Allows \subseteq Allows'
<1> DEFINE s == memory[p].session
           r == NewRecord(p, b, at)
           n == <<s, Len(disk[s]) + 1>>
<1>1. TypeOK /\ s \in Sessions /\ r \in Records /\ Len(disk[s]) < MaxRecords /\ disk' = [disk EXCEPT ![s] = Append(@, r)]
  BY WriterKnows DEF PurchaseInv, Writes, AppendLine, Memory
<1>2. /\ disk' \in [Sessions -> Seq(Records)]
      /\ DOMAIN disk'[s] = 1 .. Len(disk[s]) + 1
      /\ \A t \in Sessions : t # s => disk'[t] = disk[t]
      /\ \A x \in Written : disk'[x[1]][x[2]] = At(x)
      /\ disk'[s][Len(disk[s]) + 1] = r
  BY <1>1, OnePlaceMore
<1>3. /\ Allows' = IF r.grants = None THEN Allows ELSE Allows \cup {n}
      /\ \A i : AllowsOf(i)' = IF r.grants # None /\ r.grants.instr = i THEN AllowsOf(i) \cup {n} ELSE AllowsOf(i)
      /\ n \notin Allows
      /\ \A x \in Allows : disk'[x[1]][x[2]] = At(x)
      /\ disk'[n[1]][n[2]] = r
  BY <1>1, AllowsAfterAppend
<1>4. r.grants # None => r.grants = b /\ Grants(p, b, at)
  BY DEF NewRecord, Decision
<1>5. r.seq = Len(disk[s]) /\ r.at = at /\ \A m \in DOMAIN disk[s] : disk[s][m].at <= memory[p].lastTs
  BY WriterKnows DEF EndIsKnown, NewRecord
<1>6. memory[p].lastTs \in Int /\ at + Skew >= memory[p].lastTs /\ Skew \in Nat /\ at \in Nat
  BY WriterKnows, PurchaseAssumption DEF Memory, Instants, NeverWritten
<1>7. s = opened
  BY WriterKnows DEF PurchaseInv, MemoryIsLatest
<1> HIDE DEF s, r, n
<1>8. FilesVerify'
  <2> SUFFICES ASSUME NEW t \in Sessions, NEW k \in DOMAIN disk'[t]
               PROVE  /\ disk'[t][k].seq = k - 1
                      /\ \A m \in 1 .. k : disk'[t][k].at + Skew >= disk'[t][m].at
    BY DEF FilesVerify, Verifies
  <2>1. Verifies(t)
    BY DEF PurchaseInv, FilesVerify
  <2>2. CASE t # s
    BY <1>2, <2>1, <2>2 DEF Verifies
  <2>3. CASE t = s
    <3>1. disk[s] \in Seq(Records) /\ Len(disk[s]) \in Nat /\ DOMAIN disk[s] = 1 .. Len(disk[s])
      BY <1>1 DEF TypeOK
    <3>2. \A m \in DOMAIN disk[s] : disk'[s][m] = disk[s][m]
      BY <1>1, <3>1 DEF TypeOK
    <3>3. CASE k \in DOMAIN disk[s]
      <4>1. k \in Nat /\ \A m \in 1 .. k : m \in DOMAIN disk[s]
        BY <3>1, <3>3
      <4> QED
        BY <2>1, <2>3, <3>2, <3>3, <4>1 DEF Verifies
    <3>4. CASE k = Len(disk[s]) + 1
      <4>1. disk'[s][k].seq = k - 1 /\ disk'[s][k].at = at
        BY <1>2, <1>5, <3>1, <3>4
      <4>2. \A m \in 1 .. k : m \in DOMAIN disk[s] \/ m = k
        BY <3>1, <3>4
      <4>3. \A m \in DOMAIN disk[s] : disk'[s][m].at \in Nat /\ disk'[s][m].at <= memory[p].lastTs
        <5>1. \A m \in DOMAIN disk[s] : disk[s][m] \in Records
          BY <3>1
        <5> QED
          BY <1>5, <3>2, <5>1, PurchaseAssumption DEF Records, Instants
      <4>4. \A m \in 1 .. k : at + Skew >= disk'[s][m].at
        BY <1>6, <4>1, <4>2, <4>3
      <4> QED
        BY <2>3, <4>1, <4>4
    <3> QED
      BY <1>2, <2>3, <3>1, <3>3, <3>4
  <2> QED
    BY <2>2, <2>3
<1>9. NoOverspend'
  <2> SUFFICES ASSUME NEW i \in Instructions
               PROVE  Cardinality(AllowsOf(i)') <= MaxUses[i]
    BY DEF NoOverspend
  <2>1. Cardinality(AllowsOf(i)) <= MaxUses[i]
    BY DEF PurchaseInv, NoOverspend
  <2>2. CASE r.grants # None /\ r.grants.instr = i
    <3>1. AllowsOf(i)' = AllowsOf(i) \cup {n} /\ n \notin AllowsOf(i)
      BY <1>3, <2>2 DEF AllowsOf
    <3>2. Cardinality(AllowsOf(i)') = Cardinality(AllowsOf(i)) + 1
      BY <3>1, AllowsAreFinite, FS_AddElement
    <3>3. Cardinality(AllowsOf(i)) + 1 <= MaxUses[i]
      BY <1>4, <2>2, GrantIsNew
    <3> QED
      BY <3>2, <3>3
  <2>3. CASE ~(r.grants # None /\ r.grants.instr = i)
    BY <1>3, <2>1, <2>3
  <2> QED
    BY <2>2, <2>3
<1>10. OneAllowPerRef'
  <2> DEFINE Key(x) == <<disk'[x[1]][x[2]].grants.instr, disk'[x[1]][x[2]].grants.ref>>
  <2> SUFFICES ASSUME NEW x \in Allows', NEW y \in Allows', Key(x) = Key(y)
               PROVE  x = y
    BY DEF OneAllowPerRef, KeyOf, At
  <2>1. \A z \in Allows : Key(z) = KeyOf(z)
    BY <1>3 DEF KeyOf
  <2>2. r.grants # None => Key(n) = <<b.instr, b.ref>> /\ \A z \in Allows : KeyOf(z) # <<b.instr, b.ref>>
    BY <1>3, <1>4, GrantIsNew
  <2> HIDE DEF Key
  <2>3. \A z, w \in Allows : KeyOf(z) = KeyOf(w) => z = w
    BY DEF PurchaseInv, OneAllowPerRef
  <2> QED
    BY <1>3, <2>1, <2>2, <2>3
<1>11. LaterIsEmpty'
  <2>1. \A t \in Sessions : t > opened => t # s
    BY <1>7, <1>1 DEF TypeOK, Sessions
  <2> QED
    BY <1>2, <2>1 DEF PurchaseInv, LaterIsEmpty
<1> QED
  BY <1>2, <1>3, <1>8, <1>9, <1>10, <1>11 DEF FilesHold

\* Readers find the same in files that have not changed.
LEMMA SameFiles ==
  ASSUME disk' = disk, opened' = opened
  PROVE  /\ Allows' = Allows
         /\ \A i : AllowsOf(i)' = AllowsOf(i)
         /\ FilesHold' = FilesHold
<1>1. Allows' = Allows
  BY DEF Allows, Written, At
<1>2. \A i : AllowsOf(i)' = AllowsOf(i)
  BY <1>1 DEF AllowsOf, At
<1>3. FilesVerify' = FilesVerify /\ LaterIsEmpty' = LaterIsEmpty
  BY DEF FilesVerify, Verifies, LaterIsEmpty
<1>4. NoOverspend' = NoOverspend
  BY <1>2 DEF NoOverspend
<1>5. OneAllowPerRef' = OneAllowPerRef
  BY <1>1 DEF OneAllowPerRef, KeyOf, At
<1> QED
  BY <1>1, <1>2, <1>3, <1>4, <1>5 DEF FilesHold

\* Past the lock there is one process, and no other remembers anything.
LEMMA OthersAreDown ==
  ASSUME PurchaseInv, NEW p \in Procs, phase[p] # "down", NEW q \in Procs, q # p
  PROVE  phase[q] = "down" /\ memory[q] = None
BY PurchaseAssumption DEF PurchaseInv, OneHolder, MemoryIsLatest

\* What is known of the files stays known while they only grow.
LEMMA KnownStays ==
  ASSUME Allows \subseteq Allows', \A x \in Allows : disk'[x[1]][x[2]] = At(x),
         NEW e, NEW k, Known(e, k)
  PROVE  Known(e, k)'
BY DEF Known, KeyOf, At

LEMMA InitHolds == Init => PurchaseInv
<1> SUFFICES ASSUME Init PROVE PurchaseInv
  OBVIOUS
<1>1. TypeOK
  <2>1. disk \in [Sessions -> Seq(Records)]
    BY DEF Init
  <2> QED
    BY <2>1, PurchaseAssumption DEF TypeOK, Init
<1>2. OneHolder /\ MemoryIsLatest /\ LaterIsEmpty /\ MemoryMatchesFiles
  BY DEF Init, OneHolder, MemoryIsLatest, LaterIsEmpty, MemoryMatchesFiles
<1>3. \A s \in Sessions : DOMAIN disk[s] = {}
  BY DEF Init
<1>4. Allows = {}
  <2>1. \A x \in Places : x[1] \in Sessions
    BY DEF Places
  <2> QED
    BY <1>3, <2>1 DEF Allows, Written
<1>5. FilesVerify /\ OneAllowPerRef /\ ToldIsKept
  BY <1>3, <1>4 DEF Init, FilesVerify, Verifies, OneAllowPerRef, ToldIsKept
<1>6. NoOverspend
  <2>1. \A i : AllowsOf(i) = {}
    BY <1>4 DEF AllowsOf
  <2>2. Cardinality({}) = 0
    BY FS_EmptySet
  <2>3. \A i \in Instructions : 0 <= MaxUses[i]
    BY PurchaseAssumption
  <2> QED
    BY <2>1, <2>2, <2>3 DEF NoOverspend
<1> QED
  BY <1>1, <1>2, <1>5, <1>6 DEF PurchaseInv

\* A step of p that leaves the files alone and forgets p's memory, or has none.
LEMMA ForgettingStep ==
  ASSUME PurchaseInv, NEW p \in Procs, UNCHANGED <<disk, opened, told>>,
         torn' \subseteq torn, lock' \in Procs \cup {None},
         phase' \in [Procs -> {"down", "opening", "closing"}],
         memory' = [q \in Procs |-> None], OneHolder'
  PROVE  PurchaseInv'
<1>1. TypeOK'
  BY DEF PurchaseInv, TypeOK
<1>2. MemoryIsLatest' /\ MemoryMatchesFiles'
  BY DEF MemoryIsLatest, MemoryMatchesFiles
<1>3. FilesHold' /\ ToldIsKept'
  BY SameFiles DEF PurchaseInv, FilesHold, ToldIsKept
<1> QED
  BY <1>1, <1>2, <1>3 DEF PurchaseInv, FilesHold

LEMMA LockSteps ==
  ASSUME PurchaseInv, NEW p \in Procs,
         TakeLock(p) \/ RebuildThrows(p) \/ Closed(p) \/ Close(p)
  PROVE  PurchaseInv'
<1>1. phase \in [Procs -> {"down", "opening", "open", "closing"}] /\ memory \in [Procs -> Memory \cup {None}] /\ lock \in Procs \cup {None}
  BY DEF PurchaseInv, TypeOK
<1>2. /\ OneHolder
      /\ \A q \in Procs : phase[q] = "open" <=> memory[q] # None
      /\ \A q \in Procs : q # p => phase[q] = "down"
  <2>1. \A q \in Procs : phase[q] # "down" => lock = q
    BY DEF PurchaseInv, OneHolder
  <2>2. lock = None => \A q \in Procs : phase[q] = "down"
    BY <2>1, PurchaseAssumption
  <2>3. phase[p] # "down" => \A q \in Procs : q # p => phase[q] = "down"
    BY <2>1
  <2> QED
    BY <2>1, <2>2, <2>3 DEF PurchaseInv, OneHolder, MemoryIsLatest, TakeLock, RebuildThrows, Closed, Close, Enter
<1>3. memory' = [q \in Procs |-> None]
  BY <1>1, <1>2 DEF TakeLock, RebuildThrows, Closed, Close, Enter
<1>4. phase' \in [Procs -> {"down", "opening", "closing"}] /\ OneHolder' /\ lock' \in Procs \cup {None}
  BY <1>1, <1>2 DEF TakeLock, RebuildThrows, Closed, Close, Enter, OneHolder
<1> QED
  BY <1>3, <1>4, ForgettingStep DEF TakeLock, RebuildThrows, Closed, Close

LEMMA DieStep ==
  ASSUME PurchaseInv, NEW p \in Procs, Die(p)
  PROVE  PurchaseInv'
<1>1. phase \in [Procs -> {"down", "opening", "open", "closing"}] /\ memory \in [Procs -> Memory \cup {None}] /\ lock \in Procs \cup {None}
  BY DEF PurchaseInv, TypeOK
<1>2. \A q \in Procs : q # p => phase[q] = "down" /\ memory[q] = None
  BY OthersAreDown DEF Die
<1>3. memory' = [q \in Procs |-> None]
  BY <1>1, <1>2 DEF Die
<1>4. phase' \in [Procs -> {"down", "opening", "closing"}] /\ OneHolder' /\ lock' \in Procs \cup {None}
  BY <1>1, <1>2 DEF Die, OneHolder
<1> QED
  BY <1>3, <1>4, ForgettingStep DEF Die

LEMMA OperatorStep ==
  ASSUME PurchaseInv, OperatorRemovesLock
  PROVE  PurchaseInv'
<1>1. TypeOK' /\ OneHolder' /\ MemoryIsLatest' /\ MemoryMatchesFiles'
  BY DEF PurchaseInv, TypeOK, OneHolder, MemoryIsLatest, MemoryMatchesFiles, OperatorRemovesLock
<1>2. FilesHold' /\ ToldIsKept'
  BY SameFiles DEF PurchaseInv, FilesHold, ToldIsKept, OperatorRemovesLock
<1> QED
  BY <1>1, <1>2 DEF PurchaseInv, FilesHold

\* What the rebuild counts is what the files say.
LEMMA RecountIsRight ==
  ASSUME TypeOK, OneAllowPerRef, NEW s \in Sessions
  PROVE  /\ Recount(s) \in Memory
         /\ \A x \in Allows : Recount(s).allowed[KeyOf(x)] # None
         /\ \A k \in Keys : Recount(s).allowed[k] # None => Known(Recount(s).allowed[k], k)
<1>1. \A x \in Allows : KeyOf(x) \in Keys /\ At(x).grants.order \in Orders /\ x \in Places
  <2> SUFFICES ASSUME NEW x \in Allows PROVE KeyOf(x) \in Keys /\ At(x).grants.order \in Orders /\ x \in Places
    OBVIOUS
  <2>1. x \in Written /\ At(x).grants # None
    BY DEF Allows
  <2>2. At(x).grants \in Purchases
    BY <2>1, WrittenIsRecord DEF Records
  <2> QED
    BY <2>1, <2>2 DEF Keys, KeyOf, Purchases, Written
<1>2. ASSUME NEW x \in Allows
      PROVE  FirstAllow(KeyOf(x)) = [order |-> At(x).grants.order, place |-> x]
  <2> DEFINE found == {y \in Allows : KeyOf(y) = KeyOf(x)}
             Before(y, z) == y[1] < z[1] \/ (y[1] = z[1] /\ y[2] <= z[2])
  <2>1. found = {x}
    BY DEF OneAllowPerRef
  <2>2. x[2] <= x[2]
    BY <1>1 DEF Places
  <2>3. x = CHOOSE y \in found : \A z \in found : Before(y, z)
    BY <2>1, <2>2
  <2>4. found # {}
    BY <2>1
  <2> QED
    BY <2>3, <2>4 DEF FirstAllow
<1>3. ASSUME NEW k \in Keys, \A x \in Allows : KeyOf(x) # k
      PROVE  FirstAllow(k) = None
  <2>1. {x \in Allows : KeyOf(x) = k} = {}
    BY <1>3
  <2> QED
    BY <2>1 DEF FirstAllow
<1>4. \A x \in Allows : [order |-> At(x).grants.order, place |-> x] \in Entries
  BY <1>1 DEF Entries
<1>5. \A k \in Keys : FirstAllow(k) \in Entries \cup {None}
  BY <1>2, <1>3, <1>4
<1>6. Recount(s) \in Memory
  BY <1>5, AllowsAreFinite DEF Recount, Memory
<1>7. \A x \in Allows : Recount(s).allowed[KeyOf(x)] # None
  BY <1>1, <1>2, <1>4, PurchaseAssumption DEF Recount
<1>8. ASSUME NEW k \in Keys, FirstAllow(k) # None
      PROVE  Known(FirstAllow(k), k)
  <2>1. PICK x \in Allows : KeyOf(x) = k
    BY <1>3, <1>8
  <2>2. FirstAllow(k) = [order |-> At(x).grants.order, place |-> x]
    BY <1>2, <2>1
  <2> QED
    BY <2>1, <2>2 DEF Known
<1> QED
  BY <1>6, <1>7, <1>8 DEF Recount

LEMMA RebuildStep ==
  ASSUME PurchaseInv, NEW p \in Procs, Rebuild(p)
  PROVE  PurchaseInv'
<1> DEFINE s == opened + 1
<1>1. TypeOK /\ opened \in Nat /\ s \in Sessions /\ s > opened
  BY PurchaseAssumption DEF PurchaseInv, TypeOK, Rebuild, Sessions
<1>2. /\ Recount(s) \in Memory
      /\ \A x \in Allows : Recount(s).allowed[KeyOf(x)] # None
      /\ \A k \in Keys : Recount(s).allowed[k] # None => Known(Recount(s).allowed[k], k)
  BY <1>1, RecountIsRight DEF PurchaseInv
<1>3. \A q \in Procs : q # p => phase[q] = "down" /\ memory[q] = None
  BY OthersAreDown DEF Rebuild, Enter
<1>4. /\ memory' = [memory EXCEPT ![p] = Recount(s)] /\ phase' = [phase EXCEPT ![p] = "open"]
      /\ disk' = disk /\ torn' = {} /\ opened' = s /\ UNCHANGED <<lock, told>>
      /\ phase \in [Procs -> {"down", "opening", "open", "closing"}] /\ memory \in [Procs -> Memory \cup {None}]
      /\ phase[p] # "down"
  BY <1>1 DEF Rebuild, Enter, TypeOK
<1> HIDE DEF s
<1>5. /\ memory'[p] = Recount(s) /\ phase'[p] = "open"
      /\ \A q \in Procs : q # p => memory'[q] = None /\ phase'[q] = "down"
  BY <1>3, <1>4
<1>6. TypeOK'
  <2>1. memory' \in [Procs -> Memory \cup {None}] /\ phase' \in [Procs -> {"down", "opening", "open", "closing"}]
    BY <1>2, <1>4
  <2>2. opened' \in 0 .. MaxSessions
    BY <1>1, <1>4, PurchaseAssumption DEF Sessions
  <2> QED
    BY <1>1, <1>4, <2>1, <2>2 DEF TypeOK
<1>7. Recount(s) # None /\ Recount(s).session = s /\ Recount(s).head = 0 /\ disk[s] = <<>>
  <2>1. Recount(s).session = s /\ Recount(s).head = 0 /\ Recount(s) \in Memory
    BY <1>2 DEF Recount
  <2>2. disk[s] = <<>>
    BY <1>1 DEF PurchaseInv, LaterIsEmpty
  <2>3. Recount(s) # None
    BY <1>2, PurchaseAssumption
  <2> QED
    BY <2>1, <2>2, <2>3
<1>8. MemoryMatchesFiles'
  <2>1. /\ Allows' = Allows
        /\ \A i : AllowsOf(i)' = AllowsOf(i)
        /\ \A x : KeyOf(x)' = KeyOf(x) /\ At(x)' = At(x)
    BY <1>4 DEF Allows, AllowsOf, Written, KeyOf, At
  <2>2. \A i \in Instructions : Recount(s).uses[i] = Cardinality(AllowsOf(i))
    BY DEF Recount
  <2>3. EndIsKnown(p)'
    BY <1>4, <1>5, <1>7 DEF EndIsKnown
  <2>4. CountsAreKnown(p)' /\ NoRefIsMissed(p)' /\ RepeatsAreKnown(p)'
    BY <1>2, <1>5, <2>1, <2>2 DEF CountsAreKnown, NoRefIsMissed, RepeatsAreKnown, Known
  <2> QED
    BY <1>5, <2>3, <2>4 DEF MemoryMatchesFiles
<1>9. OneHolder' /\ MemoryIsLatest'
  BY <1>4, <1>5, <1>7 DEF PurchaseInv, OneHolder, MemoryIsLatest
<1>10. FilesVerify' /\ NoOverspend' /\ OneAllowPerRef' /\ ToldIsKept'
  <2>1. Allows' = Allows /\ \A i : AllowsOf(i)' = AllowsOf(i)
    BY <1>4 DEF Allows, AllowsOf, Written, At
  <2>2. FilesVerify'
    BY <1>4 DEF PurchaseInv, FilesVerify, Verifies
  <2>3. NoOverspend'
    BY <2>1 DEF PurchaseInv, NoOverspend
  <2>4. OneAllowPerRef'
    BY <1>4, <2>1 DEF PurchaseInv, OneAllowPerRef, KeyOf, At
  <2> QED
    BY <1>4, <2>1, <2>2, <2>3, <2>4 DEF PurchaseInv, ToldIsKept
<1>11. LaterIsEmpty'
  BY <1>1, <1>4 DEF PurchaseInv, LaterIsEmpty, TypeOK, Sessions, s
<1> QED
  BY <1>6, <1>8, <1>9, <1>10, <1>11 DEF PurchaseInv

\* Of a process that answers a check: it is alone, and what it holds is typed.
LEMMA Checker ==
  ASSUME PurchaseInv, NEW p \in Procs, phase[p] = "open"
  PROVE  /\ memory[p] # None /\ memory[p] \in Memory /\ memory[p].session = opened
         /\ RepeatsAreKnown(p)
         /\ \A q \in Procs : q # p => phase[q] = "down" /\ memory[q] = None
BY OthersAreDown DEF PurchaseInv, MemoryIsLatest, MemoryMatchesFiles, TypeOK

LEMMA CheckRepeatedStep ==
  ASSUME PurchaseInv, NEW p \in Procs, NEW b \in Purchases, NEW at \in Instants, CheckRepeated(p, b, at)
  PROVE  PurchaseInv'
<1>1. RepeatsAreKnown(p) /\ Prior(p, b) # None /\ <<b.instr, b.ref>> \in Keys
  BY Checker DEF CheckRepeated, Reads, Repeats, Purchases, Keys
<1>2. Prior(p, b).place \in Allows
  BY <1>1 DEF RepeatsAreKnown, Known, Prior
<1>3. Allows \subseteq Places
  BY DEF Allows, Written
<1>4. TypeOK' /\ OneHolder' /\ MemoryIsLatest'
  BY <1>2, <1>3 DEF PurchaseInv, TypeOK, OneHolder, MemoryIsLatest, CheckRepeated
<1>5. /\ Allows' = Allows
      /\ \A i : AllowsOf(i)' = AllowsOf(i)
      /\ FilesHold' = FilesHold
      /\ \A x : KeyOf(x)' = KeyOf(x) /\ At(x)' = At(x)
  BY SameFiles DEF CheckRepeated, KeyOf, At
<1>6. MemoryMatchesFiles'
  <2>1. ASSUME NEW q \in Procs
        PROVE  /\ EndIsKnown(q)' = EndIsKnown(q) /\ CountsAreKnown(q)' = CountsAreKnown(q)
               /\ NoRefIsMissed(q)' = NoRefIsMissed(q) /\ RepeatsAreKnown(q)' = RepeatsAreKnown(q)
    BY <1>5 DEF CheckRepeated, EndIsKnown, CountsAreKnown, NoRefIsMissed, RepeatsAreKnown, Known
  <2> QED
    BY <2>1 DEF PurchaseInv, MemoryMatchesFiles, CheckRepeated
<1>7. ToldIsKept' /\ FilesHold'
  BY <1>2, <1>5 DEF PurchaseInv, FilesHold, ToldIsKept, CheckRepeated
<1> QED
  BY <1>4, <1>6, <1>7 DEF PurchaseInv, FilesHold

\* However an append that failed left the file, the files hold what they held.
LEMMA FailedAppend ==
  ASSUME PurchaseInv, NEW p \in Procs, NEW b \in Purchases, NEW at \in Instants, NEW left \in Lefts,
         Writes(p, b, at), Leaves(p, NewRecord(p, b, at), left), UNCHANGED <<opened, told>>
  PROVE  /\ FilesHold' /\ ToldIsKept' /\ Allows \subseteq Allows'
         /\ disk' \in [Sessions -> Seq(Records)] /\ torn' \subseteq Sessions
         /\ \A x \in Allows : disk'[x[1]][x[2]] = At(x)
<1>1. memory[p].session \in Sessions /\ Len(disk[memory[p].session]) < MaxRecords /\ NewRecord(p, b, at) \in Records
  BY WriterKnows DEF Writes, Memory
<1>2. torn' \subseteq Sessions
  BY <1>1 DEF PurchaseInv, TypeOK, Leaves
<1>3. CASE left = "line"
  <2>1. AppendLine(p, NewRecord(p, b, at))
    BY <1>3 DEF Leaves, AppendLine
  <2>2. FilesHold' /\ disk' \in [Sessions -> Seq(Records)] /\ Allows \subseteq Allows'
    BY <2>1, AppendKeepsFiles
  <2>3. \A x \in Allows : disk'[x[1]][x[2]] = At(x)
    BY <1>1, <2>1, AllowsAfterAppend DEF AppendLine, PurchaseInv
  <2> QED
    BY <1>2, <2>2, <2>3 DEF PurchaseInv, ToldIsKept
<1>4. CASE left # "line"
  <2>1. disk' = disk
    BY <1>4 DEF Leaves
  <2>2. FilesHold' /\ Allows' = Allows /\ ToldIsKept'
    BY <2>1, SameFiles DEF PurchaseInv, FilesHold, ToldIsKept
  <2> QED
    BY <1>2, <2>1, <2>2 DEF PurchaseInv, TypeOK, At
<1> QED
  BY <1>3, <1>4

LEMMA CheckFailedStep ==
  ASSUME PurchaseInv, NEW p \in Procs, NEW b \in Purchases, NEW at \in Instants, NEW left \in Lefts,
         CheckFailed(p, b, at, left)
  PROVE  PurchaseInv'
<1>1. /\ FilesHold' /\ ToldIsKept' /\ Allows \subseteq Allows'
      /\ disk' \in [Sessions -> Seq(Records)] /\ torn' \subseteq Sessions
      /\ \A x \in Allows : disk'[x[1]][x[2]] = At(x)
  BY FailedAppend DEF CheckFailed
<1>2. /\ memory[p] # None /\ memory[p] \in Memory /\ memory[p].session = opened /\ RepeatsAreKnown(p)
      /\ \A q \in Procs : q # p => phase[q] = "down" /\ memory[q] = None
      /\ phase[p] = "open"
  BY Checker DEF CheckFailed, Writes, Reads
<1>3. /\ memory' = [memory EXCEPT ![p] = [memory[p] EXCEPT !.broken = TRUE]]
      /\ memory \in [Procs -> Memory \cup {None}]
  BY DEF CheckFailed, PurchaseInv, TypeOK
<1>4. /\ memory'[p] \in Memory /\ memory'[p].session = opened /\ memory'[p].broken
      /\ memory'[p].allowed = memory[p].allowed
      /\ \A q \in Procs : q # p => memory'[q] = None
  BY <1>2, <1>3 DEF Memory
<1>5. memory'[p] # None
  BY <1>4, PurchaseAssumption
<1>6. TypeOK'
  <2>1. memory' \in [Procs -> Memory \cup {None}]
    BY <1>3, <1>4
  <2> QED
    BY <1>1, <2>1 DEF PurchaseInv, TypeOK, CheckFailed
<1>7. OneHolder' /\ MemoryIsLatest'
  BY <1>2, <1>4, <1>5 DEF PurchaseInv, OneHolder, MemoryIsLatest, CheckFailed
<1>8. RepeatsAreKnown(p)'
  <2> SUFFICES ASSUME NEW k \in Keys, memory'[p].allowed[k] # None
               PROVE  Known(memory[p].allowed[k], k)'
    BY DEF RepeatsAreKnown
  <2>1. PICK e : e = memory[p].allowed[k]
    OBVIOUS
  <2>2. Known(e, k) /\ memory'[p].allowed[k] = e
    BY <1>2, <1>4, <2>1 DEF RepeatsAreKnown
  <2>3. Known(e, k)'
    BY <1>1, <2>2, KnownStays
  <2> QED
    BY <2>2, <2>3 DEF Known, KeyOf, At
<1>9. MemoryMatchesFiles'
  BY <1>4, <1>8 DEF MemoryMatchesFiles
<1> QED
  BY <1>1, <1>6, <1>7, <1>9 DEF PurchaseInv, FilesHold

LEMMA DieWritingStep ==
  ASSUME PurchaseInv, NEW p \in Procs, NEW b \in Purchases, NEW at \in Instants, NEW left \in Lefts,
         DieWriting(p, b, at, left)
  PROVE  PurchaseInv'
<1>1. FilesHold' /\ ToldIsKept' /\ disk' \in [Sessions -> Seq(Records)] /\ torn' \subseteq Sessions
  BY FailedAppend DEF DieWriting
<1>2. \A q \in Procs : q # p => phase[q] = "down" /\ memory[q] = None
  BY Checker DEF DieWriting, Writes, Reads
<1>3. \A q \in Procs : memory'[q] = None /\ phase'[q] = "down"
  BY <1>2 DEF DieWriting, PurchaseInv, TypeOK
<1>4. TypeOK'
  BY <1>1 DEF PurchaseInv, TypeOK, DieWriting
<1> QED
  BY <1>1, <1>3, <1>4 DEF PurchaseInv, FilesHold, OneHolder, MemoryIsLatest, MemoryMatchesFiles

LEMMA CheckWrittenStep ==
  ASSUME PurchaseInv, NEW p \in Procs, NEW b \in Purchases, NEW at \in Instants, CheckWritten(p, b, at)
  PROVE  PurchaseInv'
<1> DEFINE s == memory[p].session
           g == Grants(p, b, at)
           key == <<b.instr, b.ref>>
<1>a. PICK r, n : r = NewRecord(p, b, at) /\ n = <<s, Len(disk[s]) + 1>>
  OBVIOUS
<1>1. /\ memory[p] # None /\ memory[p] \in Memory /\ s = opened /\ RepeatsAreKnown(p)
      /\ \A q \in Procs : q # p => phase[q] = "down" /\ memory[q] = None
      /\ phase[p] = "open"
  BY Checker DEF CheckWritten, Writes, Reads
<1>2. EndIsKnown(p) /\ CountsAreKnown(p) /\ NoRefIsMissed(p) /\ r \in Records
  BY <1>a, WriterKnows DEF CheckWritten
<1>3. TypeOK /\ s \in Sessions /\ Len(disk[s]) < MaxRecords /\ disk' = [disk EXCEPT ![s] = Append(@, r)]
  BY <1>1, <1>a DEF PurchaseInv, CheckWritten, Writes, AppendLine, Memory
<1>4. /\ disk' \in [Sessions -> Seq(Records)]
      /\ DOMAIN disk'[s] = 1 .. Len(disk[s]) + 1
      /\ disk'[s][Len(disk[s]) + 1] = r
      /\ n \in Places
  BY <1>2, <1>3, <1>a, OnePlaceMore
<1>5. /\ Allows' = IF r.grants = None THEN Allows ELSE Allows \cup {n}
      /\ \A i : AllowsOf(i)' = IF r.grants # None /\ r.grants.instr = i THEN AllowsOf(i) \cup {n} ELSE AllowsOf(i)
      /\ n \notin Allows
      /\ \A x \in Allows : disk'[x[1]][x[2]] = At(x)
      /\ disk'[n[1]][n[2]] = r
  <2> DEFINE m == <<s, Len(disk[s]) + 1>>
  <2>1. /\ Allows' = IF r.grants = None THEN Allows ELSE Allows \cup {m}
        /\ \A i : AllowsOf(i)' = IF r.grants # None /\ r.grants.instr = i THEN AllowsOf(i) \cup {m} ELSE AllowsOf(i)
        /\ m \notin Allows
        /\ \A x \in Allows : disk'[x[1]][x[2]] = At(x)
        /\ disk'[m[1]][m[2]] = r
    BY <1>2, <1>3, AllowsAfterAppend
  <2>2. m = n
    BY <1>a
  <2> HIDE DEF m
  <2> QED
    BY <2>1, <2>2
<1>6. r.at = at /\ r.grants = (IF g THEN b ELSE None) /\ b # None /\ key \in Keys /\ b.instr \in Instructions /\ b.order \in Orders
  BY <1>a, PurchaseAssumption DEF NewRecord, Decision, Keys, Purchases
<1>7. memory' = [memory EXCEPT ![p] =
                   [memory[p] EXCEPT !.head = memory[p].head + 1,
                                     !.lastTs = IF at > memory[p].lastTs THEN at ELSE memory[p].lastTs,
                                     !.uses = IF g THEN [memory[p].uses EXCEPT ![b.instr] = memory[p].uses[b.instr] + 1] ELSE memory[p].uses,
                                     !.allowed = IF g THEN [memory[p].allowed EXCEPT ![key] = [order |-> b.order, place |-> n]] ELSE memory[p].allowed]]
  BY <1>a DEF CheckWritten, Remember, NextPlace
<1>8. \A q \in Procs : q # p => memory'[q] = None
  BY <1>1, <1>3, <1>7 DEF TypeOK
<1>9. /\ memory'[p].session = s
      /\ memory'[p].head = memory[p].head + 1
      /\ memory'[p].lastTs = (IF at > memory[p].lastTs THEN at ELSE memory[p].lastTs)
      /\ memory'[p].uses = (IF g THEN [memory[p].uses EXCEPT ![b.instr] = memory[p].uses[b.instr] + 1] ELSE memory[p].uses)
      /\ memory'[p].allowed = (IF g THEN [memory[p].allowed EXCEPT ![key] = [order |-> b.order, place |-> n]] ELSE memory[p].allowed)
  BY <1>1, <1>3, <1>7 DEF TypeOK, Memory
<1>10. [order |-> b.order, place |-> n] \in Entries /\ [order |-> b.order, place |-> n] # None
  BY <1>4, <1>6, PurchaseAssumption DEF Entries
<1>11. memory'[p] \in Memory
  <2>1. /\ memory[p].head + 1 \in Nat
        /\ (IF at > memory[p].lastTs THEN at ELSE memory[p].lastTs) \in Instants \cup {NeverWritten}
    BY <1>1 DEF Memory
  <2>2. (IF g THEN [memory[p].uses EXCEPT ![b.instr] = memory[p].uses[b.instr] + 1] ELSE memory[p].uses) \in [Instructions -> Nat]
    BY <1>1, <1>6 DEF Memory
  <2>3. (IF g THEN [memory[p].allowed EXCEPT ![key] = [order |-> b.order, place |-> n]] ELSE memory[p].allowed) \in [Keys -> Entries \cup {None}]
    BY <1>1, <1>6, <1>10 DEF Memory
  <2> QED
    BY <1>1, <1>3, <1>7, <2>1, <2>2, <2>3 DEF TypeOK, Memory
<1>12. FilesHold' /\ Allows \subseteq Allows'
  BY AppendKeepsFiles DEF CheckWritten
<1>13. memory[p].lastTs \in Int /\ at \in Int /\ memory[p].head = Len(disk[s]) /\ s \notin torn
  BY <1>1, <1>2, PurchaseAssumption DEF Memory, Instants, NeverWritten, EndIsKnown
<1>14. \A k \in DOMAIN disk[s] : disk[s][k].at <= memory[p].lastTs /\ disk[s][k].at \in Int
  <2>1. \A k \in DOMAIN disk[s] : disk[s][k] \in Records
    BY <1>3 DEF TypeOK
  <2> QED
    BY <1>2, <2>1, PurchaseAssumption DEF EndIsKnown, Records, Instants
<1>15. told' = (IF g THEN told \cup {n} ELSE told)
  BY <1>a DEF CheckWritten, NextPlace
<1>16. g => \A x \in Allows : KeyOf(x) # key
  BY GrantIsNew DEF CheckWritten
<1>17. DOMAIN disk[s] = 1 .. Len(disk[s]) /\ Len(disk[s]) \in Nat /\ \A k \in DOMAIN disk[s] : disk'[s][k] = disk[s][k]
  <2>1. disk[s] \in Seq(Records) /\ disk'[s] = Append(disk[s], r)
    BY <1>3 DEF TypeOK
  <2> QED
    BY <1>2, <2>1
<1>18. UNCHANGED <<torn, lock, opened, phase>>
  BY DEF CheckWritten
<1> HIDE DEF s, g, key
<1>19. EndIsKnown(p)'
  <2>1. memory'[p].head = Len(disk'[s])
    <3>1. Len(disk'[s]) = Len(disk[s]) + 1
      BY <1>3, <1>4, <1>17
    <3> QED
      BY <1>9, <1>13, <3>1
  <2>2. ASSUME NEW k \in DOMAIN disk'[s]
        PROVE  disk'[s][k].at <= memory'[p].lastTs
    <3>1. CASE k \in DOMAIN disk[s]
      BY <1>9, <1>13, <1>14, <1>17, <3>1
    <3>2. CASE k = Len(disk[s]) + 1
      BY <1>4, <1>6, <1>9, <1>13, <3>2
    <3> QED
      BY <1>4, <1>17, <3>1, <3>2
  <2> QED
    BY <1>9, <1>13, <1>18, <2>1, <2>2 DEF EndIsKnown
<1>20. CountsAreKnown(p)'
  <2> SUFFICES ASSUME NEW i \in Instructions
               PROVE  memory'[p].uses[i] = Cardinality(AllowsOf(i)')
    BY DEF CountsAreKnown
  <2>1. memory[p].uses[i] = Cardinality(AllowsOf(i)) /\ memory[p].uses \in [Instructions -> Nat]
    BY <1>1, <1>2 DEF CountsAreKnown, Memory
  <2>2. CASE g /\ b.instr = i
    <3>1. AllowsOf(i)' = AllowsOf(i) \cup {n} /\ n \notin AllowsOf(i)
      BY <1>5, <1>6, <2>2 DEF AllowsOf
    <3>2. Cardinality(AllowsOf(i)') = Cardinality(AllowsOf(i)) + 1
      BY <3>1, AllowsAreFinite, FS_AddElement
    <3> QED
      BY <1>9, <2>1, <2>2, <3>2
  <2>3. CASE ~(g /\ b.instr = i)
    <3>1. AllowsOf(i)' = AllowsOf(i)
      BY <1>5, <1>6, <2>3
    <3>2. memory'[p].uses[i] = memory[p].uses[i]
      BY <1>9, <2>1, <2>3
    <3> QED
      BY <2>1, <3>1, <3>2
  <2> QED
    BY <2>2, <2>3
<1>21. /\ \A x \in Allows : At(x)' = At(x) /\ KeyOf(x)' = KeyOf(x)
       /\ At(n)' = r
       /\ g => KeyOf(n)' = key
  <2>1. At(n)' = r /\ \A x \in Allows : At(x)' = At(x)
    BY <1>5 DEF At
  <2>2. g => r.grants = b
    BY <1>6
  <2> QED
    BY <2>1, <2>2 DEF KeyOf, key
<1>22. memory[p].allowed \in [Keys -> Entries \cup {None}] /\ memory'[p].allowed \in [Keys -> Entries \cup {None}]
  BY <1>1, <1>11 DEF Memory
<1>23. NoRefIsMissed(p)'
  <2> SUFFICES ASSUME NEW x \in Allows'
               PROVE  memory'[p].allowed[KeyOf(x)'] # None
    BY DEF NoRefIsMissed
  <2>1. CASE x \in Allows
    <3>1. KeyOf(x)' = KeyOf(x) /\ memory[p].allowed[KeyOf(x)] # None
      BY <1>2, <1>21, <2>1 DEF NoRefIsMissed
    <3> QED
      BY <1>9, <1>16, <1>22, <2>1, <3>1
  <2>2. CASE g /\ x = n
    BY <1>6, <1>9, <1>10, <1>21, <1>22, <2>2
  <2> QED
    BY <1>5, <1>6, <2>1, <2>2
<1>24. RepeatsAreKnown(p)'
  <2> SUFFICES ASSUME NEW k \in Keys, memory'[p].allowed[k] # None
               PROVE  Known(memory[p].allowed[k], k)'
    BY DEF RepeatsAreKnown
  <2>1. PICK e : e = memory'[p].allowed[k]
    OBVIOUS
  <2>2. CASE g /\ k = key
    <3>1. e = [order |-> b.order, place |-> n]
      BY <1>9, <1>22, <2>1, <2>2
    <3>2. Known(e, k)'
      BY <1>5, <1>6, <1>21, <2>2, <3>1 DEF Known
    <3> QED
      BY <2>1, <3>2 DEF Known, KeyOf, At
  <2>3. CASE ~(g /\ k = key)
    <3>1. e = memory[p].allowed[k] /\ e # None
      BY <1>9, <1>22, <2>1, <2>3
    <3>2. Known(e, k)
      BY <1>1, <3>1 DEF RepeatsAreKnown
    <3>3. Known(e, k)'
      BY <1>5, <1>12, <3>2, KnownStays
    <3> QED
      BY <2>1, <3>3 DEF Known, KeyOf, At
  <2> QED
    BY <2>2, <2>3
<1>25. MemoryMatchesFiles'
  BY <1>8, <1>19, <1>20, <1>23, <1>24 DEF MemoryMatchesFiles
<1>26. TypeOK'
  <2>1. memory' \in [Procs -> Memory \cup {None}]
    BY <1>3, <1>7, <1>11 DEF TypeOK
  <2>2. told' \subseteq Places
    BY <1>3, <1>4, <1>15 DEF TypeOK
  <2> QED
    BY <1>3, <1>4, <1>18, <2>1, <2>2 DEF TypeOK
<1>27. OneHolder' /\ MemoryIsLatest'
  <2>1. memory'[p] # None
    BY <1>11, PurchaseAssumption
  <2> QED
    BY <1>1, <1>8, <1>9, <1>18, <2>1 DEF PurchaseInv, OneHolder, MemoryIsLatest
<1>28. ToldIsKept'
  BY <1>5, <1>6, <1>15 DEF PurchaseInv, ToldIsKept
<1> QED
  BY <1>12, <1>25, <1>26, <1>27, <1>28 DEF PurchaseInv, FilesHold

LEMMA StepHolds == PurchaseInv /\ [Next]_vars => PurchaseInv'
<1> SUFFICES ASSUME PurchaseInv, [Next]_vars PROVE PurchaseInv'
  OBVIOUS
<1>1. CASE UNCHANGED vars
  <2>1. /\ TypeOK' /\ OneHolder' /\ MemoryIsLatest'
        /\ FilesHold' /\ ToldIsKept'
    BY <1>1, SameFiles DEF vars, PurchaseInv, TypeOK, OneHolder, MemoryIsLatest, FilesHold, ToldIsKept
  <2>2. /\ Allows' = Allows
        /\ \A i : AllowsOf(i)' = AllowsOf(i)
        /\ \A x : KeyOf(x)' = KeyOf(x) /\ At(x)' = At(x)
    BY <1>1, SameFiles DEF vars, KeyOf, At
  <2>3. ASSUME NEW q \in Procs
        PROVE  /\ EndIsKnown(q)' = EndIsKnown(q) /\ CountsAreKnown(q)' = CountsAreKnown(q)
               /\ NoRefIsMissed(q)' = NoRefIsMissed(q) /\ RepeatsAreKnown(q)' = RepeatsAreKnown(q)
    BY <1>1, <2>2 DEF vars, EndIsKnown, CountsAreKnown, NoRefIsMissed, RepeatsAreKnown, Known
  <2>4. MemoryMatchesFiles'
    BY <1>1, <2>3 DEF vars, PurchaseInv, MemoryMatchesFiles
  <2> QED
    BY <2>1, <2>4 DEF PurchaseInv, FilesHold
<1>2. CASE OperatorRemovesLock
  BY <1>2, OperatorStep
<1>3. ASSUME NEW p \in Procs,
             TakeLock(p) \/ RebuildThrows(p) \/ Closed(p) \/ Close(p) \/ Rebuild(p) \/ Die(p)
      PROVE  PurchaseInv'
  BY <1>3, LockSteps, RebuildStep, DieStep
<1>4. ASSUME NEW p \in Procs, Check(p)
      PROVE  PurchaseInv'
  BY <1>4, CheckWrittenStep, CheckRepeatedStep, CheckFailedStep, DieWritingStep DEF Check
<1> QED
  BY <1>1, <1>2, <1>3, <1>4 DEF Next

----------------------------------------------------------------------------
\* The properties the run checks, for any processes, instructions and bounds

THEOREM PurchaseInvCorrect == Spec => []PurchaseInv
BY InitHolds, StepHolds, PTL DEF Spec

\* Every variable keeps its type through crashes, rebuilds and failed appends
\* (check.ts:254-459).
THEOREM TypeCorrect == Spec => []TypeOK
BY PurchaseInvCorrect, PTL DEF PurchaseInv

\* No instruction is used more often than it says, over all sessions
\* (check.ts:278-319).
THEOREM NoOverspendHolds == Spec => []NoOverspend
<1>1. PurchaseInv => NoOverspend
  BY DEF PurchaseInv
<1> QED
  BY <1>1, PurchaseInvCorrect, PTL

\* An order reference is allowed once under one instruction (check.ts:480-492).
THEOREM OneAllowPerRefHolds == Spec => []OneAllowPerRef
<1>1. PurchaseInv => OneAllowPerRef
  BY DEF PurchaseInv
<1> QED
  BY <1>1, PurchaseInvCorrect, PTL

\* An allow a caller was given stays in the files (README.md:917).
THEOREM ToldIsKeptHolds == Spec => []ToldIsKept
<1>1. PurchaseInv => ToldIsKept
  BY DEF PurchaseInv
<1> QED
  BY <1>1, PurchaseInvCorrect, PTL

\* The files verify whatever failed, so that a directory opens again
\* (check.ts:471, 432-441).
THEOREM FilesVerifyHolds == Spec => []FilesVerify
<1>1. PurchaseInv => FilesVerify
  BY DEF PurchaseInv
<1> QED
  BY <1>1, PurchaseInvCorrect, PTL

\* No line is added behind a torn one (check.ts:380).
THEOREM NothingAfterATornLineHolds == Spec => NothingAfterATornLine
<1>1. PurchaseInv /\ [Next]_vars => [\A s \in torn : disk'[s] = disk[s]]_vars
  <2> SUFFICES ASSUME PurchaseInv, Next, NEW s \in torn
               PROVE  disk'[s] = disk[s]
    BY DEF vars
  <2>1. ASSUME NEW p \in Procs, NEW b \in Purchases, NEW at \in Instants, Writes(p, b, at),
               \/ disk' = disk
               \/ disk' = [disk EXCEPT ![memory[p].session] = Append(@, NewRecord(p, b, at))]
        PROVE  disk'[s] = disk[s]
    <3>1. memory[p].session # s
      BY <2>1, WriterKnows DEF EndIsKnown
    <3> QED
      BY <2>1, <3>1 DEF PurchaseInv, TypeOK
  <2>2. ASSUME NEW p \in Procs, Check(p)
        PROVE  disk'[s] = disk[s]
    BY <2>1, <2>2 DEF Check, CheckWritten, CheckRepeated, CheckFailed, DieWriting, AppendLine, Leaves
  <2>3. ASSUME NEW p \in Procs, TakeLock(p) \/ Rebuild(p) \/ RebuildThrows(p) \/ Die(p) \/ Close(p) \/ Closed(p)
        PROVE  disk'[s] = disk[s]
    BY <2>3 DEF TakeLock, Rebuild, RebuildThrows, Die, Close, Closed
  <2> QED
    BY <2>2, <2>3 DEF Next, OperatorRemovesLock
<1> QED
  BY <1>1, PurchaseInvCorrect, PTL DEF Spec, NothingAfterATornLine

----------------------------------------------------------------------------
\* The purchase check implements PurchaseLedger

Granted == {At(x).grants : x \in Allows}
Told == {At(x).grants : x \in told}

Used == [i \in Instructions |-> Cardinality(AllowsOf(i))]

\* An append of a decision is a grant of the ledger, or nothing to it.
LEMMA AppendGrants ==
  ASSUME PurchaseInv, NEW p \in Procs, NEW b \in Purchases, NEW at \in Instants,
         Writes(p, b, at), AppendLine(p, NewRecord(p, b, at))
  PROVE  /\ Grants(p, b, at) =>
              /\ Granted' = Granted \cup {b}
              /\ \A q \in Granted : q.instr = b.instr => q.ref # b.ref
              /\ Used[b.instr] < MaxUses[b.instr]
              /\ Used' = [Used EXCEPT ![b.instr] = Used[b.instr] + 1]
              /\ told' = told \cup {NextPlace(p)} => Told' = Told \cup {b}
         /\ ~Grants(p, b, at) => Granted' = Granted /\ Used' = Used
         /\ told' = told => Told' = Told
<1>a. PICK r, n : r = NewRecord(p, b, at) /\ n = <<memory[p].session, Len(disk[memory[p].session]) + 1>>
  OBVIOUS
<1>1. TypeOK /\ memory[p].session \in Sessions /\ r \in Records /\ Len(disk[memory[p].session]) < MaxRecords
  BY <1>a, WriterKnows DEF PurchaseInv, Writes, Memory
<1>2. /\ Allows' = IF r.grants = None THEN Allows ELSE Allows \cup {n}
      /\ \A i : AllowsOf(i)' = IF r.grants # None /\ r.grants.instr = i THEN AllowsOf(i) \cup {n} ELSE AllowsOf(i)
      /\ n \notin Allows
      /\ \A x \in Allows : disk'[x[1]][x[2]] = At(x)
      /\ disk'[n[1]][n[2]] = r
  <2> DEFINE m == <<memory[p].session, Len(disk[memory[p].session]) + 1>>
  <2>1. /\ Allows' = IF r.grants = None THEN Allows ELSE Allows \cup {m}
        /\ \A i : AllowsOf(i)' = IF r.grants # None /\ r.grants.instr = i THEN AllowsOf(i) \cup {m} ELSE AllowsOf(i)
        /\ m \notin Allows
        /\ \A x \in Allows : disk'[x[1]][x[2]] = At(x)
        /\ disk'[m[1]][m[2]] = r
    <3>1. disk' = [disk EXCEPT ![memory[p].session] = Append(@, r)]
      BY <1>a DEF AppendLine
    <3> QED
      BY <1>1, <3>1, AllowsAfterAppend, ZenonT(60)
  <2>2. m = n
    BY <1>a
  <2> HIDE DEF m
  <2> QED
    BY <2>1, <2>2
<1>3. r.grants = (IF Grants(p, b, at) THEN b ELSE None) /\ b # None
  BY <1>a, PurchaseAssumption DEF NewRecord, Decision
<1>4. /\ \A q : q \in Granted' <=> \E x \in Allows' : disk'[x[1]][x[2]].grants = q
      /\ \A q : q \in Granted <=> \E x \in Allows : At(x).grants = q
      /\ \A q : q \in Told' <=> \E x \in told' : disk'[x[1]][x[2]].grants = q
      /\ \A q : q \in Told <=> \E x \in told : At(x).grants = q
  BY DEF Granted, Told, At
<1>5. told \subseteq Allows /\ NextPlace(p) = n
  BY <1>a DEF PurchaseInv, ToldIsKept, NextPlace
<1>6. told' = told => Told' = Told
  <2> SUFFICES ASSUME told' = told PROVE \A q : q \in Told' <=> q \in Told
    BY DEF Told
  <2> QED
    BY <1>2, <1>4, <1>5
<1>7. ASSUME ~Grants(p, b, at)
      PROVE  Granted' = Granted /\ Used' = Used
  <2>1. \A q : q \in Granted' <=> q \in Granted
    BY <1>2, <1>3, <1>4, <1>7
  <2>2. \A i : AllowsOf(i)' = AllowsOf(i)
    BY <1>2, <1>3, <1>7
  <2> QED
    BY <2>1, <2>2 DEF Granted, Used
<1>8. ASSUME Grants(p, b, at)
      PROVE  /\ Granted' = Granted \cup {b}
             /\ \A q \in Granted : q.instr = b.instr => q.ref # b.ref
             /\ Used[b.instr] < MaxUses[b.instr]
             /\ Used' = [Used EXCEPT ![b.instr] = Used[b.instr] + 1]
             /\ told' = told \cup {NextPlace(p)} => Told' = Told \cup {b}
  <2>1. \A q : q \in Granted' <=> q \in Granted \/ q = b
    BY <1>2, <1>3, <1>4, <1>8
  <2>2. \A q \in Granted : q.instr = b.instr => q.ref # b.ref
    BY <1>8, GrantIsNew DEF Granted, KeyOf
  <2>3. ASSUME told' = told \cup {n}
        PROVE  \A q : q \in Told' <=> q \in Told \/ q = b
    BY <1>2, <1>3, <1>4, <1>5, <1>8, <2>3
  <2>4. Used[b.instr] < MaxUses[b.instr]
    <3>1. Cardinality(AllowsOf(b.instr)) + 1 <= MaxUses[b.instr] /\ MaxUses[b.instr] \in Nat /\ b.instr \in Instructions
      BY <1>8, GrantIsNew, PurchaseAssumption
    <3> QED
      BY <3>1, AllowsAreFinite DEF Used
  <2>5. \A i \in Instructions : Cardinality(AllowsOf(i)') = IF i = b.instr THEN Cardinality(AllowsOf(i)) + 1 ELSE Cardinality(AllowsOf(i))
    <3>1. \A i : n \notin AllowsOf(i)
      BY <1>2 DEF AllowsOf
    <3>2. \A i : Cardinality(AllowsOf(i) \cup {n}) = Cardinality(AllowsOf(i)) + 1
      BY <3>1, AllowsAreFinite, FS_AddElement
    <3> QED
      BY <1>2, <1>3, <1>8, <3>2
  <2>6. Used' = [Used EXCEPT ![b.instr] = Used[b.instr] + 1]
    BY <2>5 DEF Used
  <2>7. Granted' = Granted \cup {b}
    BY <2>1 DEF Granted
  <2>8. told' = told \cup {NextPlace(p)} => Told' = Told \cup {b}
    BY <1>5, <2>3 DEF Told
  <2> QED
    BY <2>2, <2>4, <2>6, <2>7, <2>8
<1> QED
  BY <1>6, <1>7, <1>8

LEMMA LedgerStep ==
  ASSUME PurchaseInv, [Next]_vars
  PROVE  [Ledger!Next]_(Ledger!vars)
<1>0. UNCHANGED <<Granted, Used, Told>> => UNCHANGED Ledger!vars
  BY DEF Ledger!vars, Granted, Told, Used
<1>1. ASSUME disk' = disk, told' = told
      PROVE  UNCHANGED <<Granted, Used, Told>>
  BY <1>1 DEF Granted, Told, Used, AllowsOf, Allows, Written, At
<1>2. ASSUME NEW p \in Procs, NEW b \in Purchases, NEW at \in Instants,
             Writes(p, b, at), AppendLine(p, NewRecord(p, b, at)),
             told' = told \/ (told' = IF Grants(p, b, at) THEN told \cup {NextPlace(p)} ELSE told)
      PROVE  Ledger!Next \/ UNCHANGED <<Granted, Used, Told>>
  <2>1. CASE Grants(p, b, at)
    <3>1. /\ \A q \in Granted : q.instr = b.instr => q.ref # b.ref
          /\ Used[b.instr] < MaxUses[b.instr]
          /\ Granted' = Granted \cup {b}
          /\ Used' = [Used EXCEPT ![b.instr] = Used[b.instr] + 1]
          /\ Told' \in {Told, Told \cup {b}}
      BY <1>2, <2>1, AppendGrants
    <3>2. Ledger!Grant(b)
      BY <3>1 DEF Ledger!Grant, Granted, Used, Told
    <3> QED
      BY <3>2 DEF Ledger!Next
  <2>2. CASE ~Grants(p, b, at)
    BY <1>2, <2>2, AppendGrants
  <2> QED
    BY <2>1, <2>2
<1>3. ASSUME NEW p \in Procs, NEW b \in Purchases, NEW at \in Instants, CheckRepeated(p, b, at)
      PROVE  Ledger!Next
  <2>1. PICK x : x = Prior(p, b).place
    OBVIOUS
  <2>2. RepeatsAreKnown(p) /\ Prior(p, b) # None /\ <<b.instr, b.ref>> \in Keys
    BY <1>3, Checker DEF CheckRepeated, Reads, Repeats, Purchases, Keys
  <2>3. x \in Allows
    BY <2>1, <2>2 DEF RepeatsAreKnown, Known, Prior
  <2>4. At(x).grants \in Purchases
    <3>1. x \in Written /\ At(x).grants # None
      BY <2>3 DEF Allows
    <3> QED
      BY <3>1, WrittenIsRecord DEF PurchaseInv, Records
  <2>5. disk' = disk /\ told' = told \cup {x}
    BY <1>3, <2>1 DEF CheckRepeated
  <2>6. UNCHANGED <<Granted, Used>>
    BY <2>5 DEF Granted, Used, AllowsOf, Allows, Written, At
  <2>7. Told' = Told \cup {At(x).grants}
    <3>1. Told' = {At(y).grants : y \in told'}
      BY <2>5 DEF Told, At
    <3> QED
      BY <2>5, <3>1 DEF Told
  <2>8. Ledger!Tell(At(x).grants)
    BY <2>3, <2>6, <2>7 DEF Ledger!Tell, Granted, Used, Told
  <2> QED
    BY <2>4, <2>8 DEF Ledger!Next
<1>4. ASSUME NEW p \in Procs, Check(p)
      PROVE  Ledger!Next \/ UNCHANGED <<Granted, Used, Told>>
  <2>1. ASSUME NEW b \in Purchases, NEW at \in Instants, CheckWritten(p, b, at)
        PROVE  Ledger!Next \/ UNCHANGED <<Granted, Used, Told>>
    BY <1>2, <2>1 DEF CheckWritten
  <2>2. ASSUME NEW b \in Purchases, NEW at \in Instants, NEW left \in Lefts,
               Writes(p, b, at), Leaves(p, NewRecord(p, b, at), left), told' = told
        PROVE  Ledger!Next \/ UNCHANGED <<Granted, Used, Told>>
    BY <1>1, <1>2, <2>2 DEF Leaves, AppendLine
  <2> QED
    BY <1>3, <1>4, <2>1, <2>2 DEF Check, CheckFailed, DieWriting
<1>5. ASSUME NEW p \in Procs, TakeLock(p) \/ Rebuild(p) \/ RebuildThrows(p) \/ Die(p) \/ Close(p) \/ Closed(p)
      PROVE  UNCHANGED <<Granted, Used, Told>>
  BY <1>1, <1>5 DEF TakeLock, Rebuild, RebuildThrows, Die, Close, Closed
<1>6. ASSUME OperatorRemovesLock \/ UNCHANGED vars
      PROVE  UNCHANGED <<Granted, Used, Told>>
  BY <1>1, <1>6 DEF OperatorRemovesLock, vars
<1>7. Ledger!Next \/ UNCHANGED <<Granted, Used, Told>>
  BY <1>4, <1>5, <1>6 DEF Next
<1> QED
  BY <1>0, <1>7

\* The purchase check implements PurchaseLedger: to a provider crashes, failed
\* appends and restarts are one ledger.
THEOREM KeepsLedgerHolds == Spec => KeepsLedger
<1>1. Init => Ledger!Init
  <2> SUFFICES ASSUME Init PROVE Ledger!Init
    OBVIOUS
  <2>1. Allows = {}
    <3>1. \A x \in Places : x[1] \in Sessions
      BY DEF Places
    <3> QED
      BY <3>1 DEF Init, Allows, Written
  <2>2. \A i : Cardinality(AllowsOf(i)) = 0
    <3>1. \A i : AllowsOf(i) = {}
      BY <2>1 DEF AllowsOf
    <3> QED
      BY <3>1, FS_EmptySet
  <2> QED
    BY <2>1, <2>2 DEF Init, Ledger!Init
<1>2. PurchaseInv /\ [Next]_vars => [Ledger!Next]_(Ledger!vars)
  BY LedgerStep
<1> QED
  BY <1>1, <1>2, PurchaseInvCorrect, PTL DEF Spec, KeepsLedger, Ledger!Spec
=============================================================================
