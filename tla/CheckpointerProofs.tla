------------------------- MODULE CheckpointerProofs -------------------------
(***************************************************************************)
(* Proofs about Checkpointer, for any --checkpoint-every, any number of      *)
(* receipts and any faults.  Checkpoints are named by the order they are     *)
(* built in, so the sidecar, the queue and what is scheduled are always one  *)
(* run of numbers cut in three: order and completeness both follow.          *)
(***************************************************************************)
EXTENDS Checkpointer, TLAPS

\* Each checkpoint is in one place: appended, then queued, then scheduled.
Pipeline ==
  /\ \A n \in DOMAIN appends : appends[n].cp = n
  /\ \A n \in DOMAIN queue : queue[n] = Len(appends) + n
  /\ \A n \in DOMAIN scheduled : scheduled[n] = Len(appends) + Len(queue) + n
  /\ Len(built) = Len(appends) + Len(queue) + Len(scheduled)

\* A checkpoint is built with a receipt, or once more by the shutdown.
BuiltIsBounded == Len(built) <= count + (IF phase = "running" THEN 0 ELSE 1)

\* `last` is of the newest head.
LastIsNewest ==
  /\ last.state # "none" => Len(built) > 0 /\ last.count = built[Len(built)]
  /\ last.state = "none" => built = <<>>

\* A head whose last append carried an error is not held for one that is taken.
ErrorIsFailure ==
  phase = "running" /\ Len(appends) > 0 /\ Len(appends) = Len(built) /\ appends[Len(appends)].got = "error"
    => last.state = "failed"

\* The shutdown waits for all that was built before it.
NothingIsLeft ==
  /\ phase # "running" => shut.upto <= Len(appends) + Len(queue) /\ shut.appends <= Len(appends)
  /\ phase = "ended" => queue = <<>>

\* The head of the shutdown was built, or could not be.
HeadIsCovered ==
  phase # "running" /\ shut.count > 0 =>
    \/ \E n \in 1 .. shut.upto : built[n] = shut.count
    \/ shut.count \in unbuilt

\* A head whose last append carried an error was built again by the shutdown.
HeadIsRetried ==
  /\ phase # "running" /\ shut.appends > 0
  /\ built[shut.appends] = shut.count /\ appends[shut.appends].got = "error"
  => \/ \E n \in 1 .. shut.upto : n > shut.appends /\ built[n] = shut.count
     \/ shut.count \in unbuilt

CheckpointerInv ==
  /\ TypeOK
  /\ Pipeline
  /\ BuiltIsBounded
  /\ LastIsNewest
  /\ ErrorIsFailure
  /\ NothingIsLeft
  /\ HeadIsCovered
  /\ HeadIsRetried

----------------------------------------------------------------------------
LEMMA InitHolds == Init => CheckpointerInv
BY CheckpointerAssumption DEF Init, CheckpointerInv, TypeOK, Pipeline, BuiltIsBounded, LastIsNewest, ErrorIsFailure,
   NothingIsLeft, HeadIsCovered, HeadIsRetried, Counts

\* The lengths of typed sequences.
LEMMA Lengths ==
  ASSUME TypeOK
  PROVE  /\ Len(built) \in Nat /\ DOMAIN built = 1 .. Len(built)
         /\ Len(queue) \in Nat /\ DOMAIN queue = 1 .. Len(queue)
         /\ Len(scheduled) \in Nat /\ DOMAIN scheduled = 1 .. Len(scheduled)
         /\ Len(appends) \in Nat /\ DOMAIN appends = 1 .. Len(appends)
         /\ count \in Nat /\ MaxReceipts \in Nat
BY CheckpointerAssumption DEF TypeOK, Counts

\* A head is built while there is a number left for it.
LEMMA BuiltType ==
  ASSUME CheckpointerInv, NEW n \in Counts \ {0}, Len(built) <= MaxReceipts, Build(n)
  PROVE  /\ built' \in Seq(Counts \ {0}) /\ NewId \in Ids
         /\ last' \in [count : Counts, state : {"none", "pending", "ok", "failed"}]
         /\ Len(built') = Len(built) + 1 /\ built'[Len(built')] = n
         /\ \A i \in DOMAIN built : built'[i] = built[i]
<1>1. /\ TypeOK /\ built \in Seq(Counts \ {0}) /\ built' = Append(built, n)
      /\ last' = [count |-> n, state |-> "pending"]
  BY DEF CheckpointerInv, TypeOK, Build
<1>2. /\ built' \in Seq(Counts \ {0})
      /\ Len(built') = Len(built) + 1 /\ built'[Len(built')] = n
      /\ \A i \in DOMAIN built : built'[i] = built[i]
  BY <1>1
<1>3. NewId \in Ids
  BY <1>1, Lengths DEF NewId, Ids
<1>4. last' \in [count : Counts, state : {"none", "pending", "ok", "failed"}]
  BY <1>1
<1> QED
  BY <1>2, <1>3, <1>4

LEMMA WriteReceiptStep ==
  ASSUME CheckpointerInv, WriteReceipt
  PROVE  CheckpointerInv'
<1>0. TypeOK /\ count' \in Counts \ {0} /\ Len(built) <= MaxReceipts /\ count < MaxReceipts /\ count' = count + 1
  <2>1. TypeOK /\ count < MaxReceipts /\ count' = count + 1 /\ BuiltIsBounded
        /\ (phase = "running" \/ Waiting)
    BY DEF CheckpointerInv, WriteReceipt
  <2>2. count \in Nat /\ MaxReceipts \in Nat /\ Len(built) \in Nat /\ count >= 0
    BY <2>1, Lengths
  <2>3. count' \in Counts \ {0}
    BY <2>1, <2>2 DEF Counts
  <2>4. Len(built) <= MaxReceipts
    BY <2>1, <2>2 DEF BuiltIsBounded, Waiting
  <2> QED
    BY <2>1, <2>3, <2>4
<1>1. CASE UNCHANGED <<built, scheduled, last>> /\ unbuilt' \in {unbuilt, unbuilt \cup {count'}}
  <2>1. TypeOK'
    BY <1>0, <1>1 DEF TypeOK, WriteReceipt, Counts
  <2>2. Pipeline' /\ LastIsNewest' /\ ErrorIsFailure' /\ NothingIsLeft'
    BY <1>1 DEF CheckpointerInv, Pipeline, LastIsNewest, ErrorIsFailure, NothingIsLeft, WriteReceipt
  <2>3. HeadIsCovered' /\ HeadIsRetried'
    <3>1. UNCHANGED <<built, appends, phase, shut>> /\ \A c : c \in unbuilt => c \in unbuilt'
      BY <1>1 DEF WriteReceipt
    <3> QED
      BY <3>1 DEF CheckpointerInv, HeadIsCovered, HeadIsRetried
  <2>4. BuiltIsBounded'
    <3>1. UNCHANGED <<built, phase>>
      BY <1>1 DEF WriteReceipt
    <3> QED
      BY <1>0, <3>1, Lengths DEF CheckpointerInv, BuiltIsBounded
  <2> QED
    BY <2>1, <2>2, <2>3, <2>4 DEF CheckpointerInv
<1>2. CASE Build(count') /\ scheduled' = Append(scheduled, NewId)
  <2>1. /\ built' \in Seq(Counts \ {0}) /\ NewId \in Ids
        /\ last' \in [count : Counts, state : {"none", "pending", "ok", "failed"}]
        /\ Len(built') = Len(built) + 1 /\ built'[Len(built')] = count'
        /\ \A i \in DOMAIN built : built'[i] = built[i]
        /\ last' = [count |-> count', state |-> "pending"] /\ unbuilt' = unbuilt
    BY <1>0, <1>2, BuiltType DEF Build
  <2>2. UNCHANGED <<queue, appends, phase, shut>>
    BY DEF WriteReceipt
  <2>3. /\ scheduled' \in Seq(Ids) /\ Len(scheduled') = Len(scheduled) + 1 /\ scheduled'[Len(scheduled')] = Len(built) + 1
        /\ DOMAIN scheduled' = 1 .. Len(scheduled) + 1
        /\ \A i \in DOMAIN scheduled : scheduled'[i] = scheduled[i]
    BY <1>0, <1>2, <2>1, Lengths DEF TypeOK, NewId
  <2>4. TypeOK'
    BY <1>0, <2>1, <2>2, <2>3 DEF TypeOK
  <2>5. Pipeline'
    <3>1. Len(built) = Len(appends) + Len(queue) + Len(scheduled)
      BY DEF CheckpointerInv, Pipeline
    <3>2. ASSUME NEW n \in DOMAIN scheduled' PROVE scheduled'[n] = Len(appends) + Len(queue) + n
      <4>1. CASE n \in DOMAIN scheduled
        BY <2>3, <4>1 DEF CheckpointerInv, Pipeline
      <4>2. CASE n \notin DOMAIN scheduled
        <5>1. n = Len(scheduled) + 1 /\ n = Len(scheduled')
          BY <1>0, <2>3, <4>2, Lengths
        <5> QED
          BY <1>0, <2>3, <3>1, <5>1, Lengths
      <4> QED
        BY <4>1, <4>2
    <3>3. Len(built') = Len(appends) + Len(queue) + Len(scheduled')
      BY <1>0, <2>1, <2>3, <3>1, Lengths
    <3> QED
      BY <2>2, <3>2, <3>3 DEF CheckpointerInv, Pipeline
  <2>6. BuiltIsBounded' /\ LastIsNewest' /\ NothingIsLeft'
    BY <1>0, <2>1, <2>2, Lengths DEF CheckpointerInv, BuiltIsBounded, LastIsNewest, NothingIsLeft
  <2>7. ErrorIsFailure'
    BY <1>0, <2>1, <2>2, Lengths DEF CheckpointerInv, ErrorIsFailure, Pipeline
  <2>8. phase # "running" => shut.upto \in Nat /\ shut.appends \in Nat /\ shut.upto <= Len(built) /\ shut.appends <= Len(built)
    BY <1>0, Lengths DEF CheckpointerInv, NothingIsLeft, Pipeline, TypeOK
  <2>9. HeadIsCovered' /\ HeadIsRetried'
    <3>1. phase # "running" => \A n \in 1 .. shut.upto : built'[n] = built[n]
      BY <1>0, <2>1, <2>8, Lengths
    <3>2. phase # "running" /\ shut.appends > 0 => built'[shut.appends] = built[shut.appends]
      BY <1>0, <2>1, <2>8, Lengths
    <3> QED
      BY <2>1, <2>2, <3>1, <3>2 DEF CheckpointerInv, HeadIsCovered, HeadIsRetried
  <2> QED
    BY <2>4, <2>5, <2>6, <2>7, <2>9 DEF CheckpointerInv
<1> QED
  BY <1>1, <1>2 DEF WriteReceipt, BuildFails

LEMMA ImmediateStep ==
  ASSUME CheckpointerInv, Immediate
  PROVE  CheckpointerInv'
<1>0. TypeOK /\ scheduled # <<>> /\ UNCHANGED <<count, built, unbuilt, last, appends, phase, shut>>
  BY DEF CheckpointerInv, Immediate
<1>1. /\ queue' \in Seq(Ids) /\ Len(queue') = Len(queue) + 1 /\ queue'[Len(queue')] = scheduled[1]
      /\ DOMAIN queue' = 1 .. Len(queue) + 1
      /\ \A i \in DOMAIN queue : queue'[i] = queue[i]
  BY <1>0, Lengths DEF TypeOK, Immediate
<1>2. /\ scheduled' \in Seq(Ids) /\ Len(scheduled') = Len(scheduled) - 1 /\ DOMAIN scheduled' = 1 .. Len(scheduled) - 1
      /\ \A i \in DOMAIN scheduled' : scheduled'[i] = scheduled[i + 1]
  BY <1>0, Lengths DEF TypeOK, Immediate
<1>3. TypeOK'
  BY <1>0, <1>1, <1>2 DEF TypeOK
<1>4. Pipeline'
  <2>1. /\ scheduled[1] = Len(appends) + Len(queue) + 1
        /\ Len(built) = Len(appends) + Len(queue) + Len(scheduled) /\ Len(scheduled) > 0
    BY <1>0, Lengths DEF CheckpointerInv, Pipeline, TypeOK
  <2>2. ASSUME NEW n \in DOMAIN queue' PROVE queue'[n] = Len(appends) + n
    <3>1. CASE n \in DOMAIN queue
      BY <1>1, <3>1 DEF CheckpointerInv, Pipeline
    <3>2. CASE n \notin DOMAIN queue
      <4>1. n = Len(queue) + 1 /\ n = Len(queue')
        BY <1>0, <1>1, <3>2, Lengths
      <4> QED
        BY <1>0, <1>1, <2>1, <4>1, Lengths
    <3> QED
      BY <3>1, <3>2
  <2>3. ASSUME NEW n \in DOMAIN scheduled' PROVE scheduled'[n] = Len(appends) + Len(queue') + n
    <3>1. n \in Nat /\ n + 1 \in DOMAIN scheduled /\ scheduled'[n] = scheduled[n + 1]
      BY <1>0, <1>2, Lengths
    <3>2. scheduled[n + 1] = Len(appends) + Len(queue) + (n + 1)
      BY <3>1 DEF CheckpointerInv, Pipeline
    <3> QED
      BY <1>0, <1>1, <3>1, <3>2, Lengths
  <2>4. Len(built) = Len(appends) + Len(queue') + Len(scheduled')
    BY <1>0, <1>1, <1>2, <2>1, Lengths
  <2> QED
    BY <1>0, <2>2, <2>3, <2>4 DEF CheckpointerInv, Pipeline
<1>5. BuiltIsBounded' /\ LastIsNewest' /\ ErrorIsFailure' /\ HeadIsCovered' /\ HeadIsRetried'
  BY <1>0 DEF CheckpointerInv, BuiltIsBounded, LastIsNewest, ErrorIsFailure, HeadIsCovered, HeadIsRetried
<1>6. NothingIsLeft'
  <2>1. phase # "ended"
    BY DEF Immediate, Waiting
  <2> QED
    BY <1>0, <1>1, <2>1, Lengths DEF CheckpointerInv, NothingIsLeft, TypeOK
<1> QED
  BY <1>3, <1>4, <1>5, <1>6 DEF CheckpointerInv

\* What an append adds to what was appended.
LEMMA PostReturnsStep ==
  ASSUME CheckpointerInv, NEW ok \in BOOLEAN, PostReturns(ok)
  PROVE  CheckpointerInv'
<1>0. TypeOK /\ queue # <<>> /\ UNCHANGED <<count, built, unbuilt, scheduled, phase, shut>>
  BY DEF CheckpointerInv, PostReturns
<1>1. /\ Len(queue) > 0 /\ Head(queue) = Len(appends) + 1 /\ Head(queue) \in Ids
      /\ queue' \in Seq(Ids) /\ Len(queue') = Len(queue) - 1 /\ DOMAIN queue' = 1 .. Len(queue) - 1
      /\ \A i \in DOMAIN queue' : queue'[i] = queue[i + 1]
  BY <1>0, Lengths DEF TypeOK, PostReturns, CheckpointerInv, Pipeline
<1>2. PICK line \in Appends :
        /\ line.cp = Len(appends) + 1 /\ appends' = Append(appends, line)
        /\ line.got # "no line" => last' = IF last.state # "none" /\ last.count = built[Head(queue)]
                                         THEN [last EXCEPT !.state = IF line.got = "receipt" THEN "ok" ELSE "failed"]
                                         ELSE last
        /\ line.got = "no line" => last' = last
  <2>1. CASE Recorded(Head(queue), ok)
    <3>1. [cp |-> Head(queue), got |-> IF ok THEN "receipt" ELSE "error"] \in Appends
      BY <1>1 DEF Appends
    <3> QED
      BY <1>1, <2>1, <3>1 DEF Recorded
  <2>2. CASE NotRecorded(Head(queue))
    <3>1. [cp |-> Head(queue), got |-> "no line"] \in Appends
      BY <1>1 DEF Appends
    <3> QED
      BY <1>1, <2>2, <3>1 DEF NotRecorded
  <2> QED
    BY <2>1, <2>2 DEF PostReturns
<1>3. /\ appends' \in Seq(Appends) /\ Len(appends') = Len(appends) + 1 /\ DOMAIN appends' = 1 .. Len(appends) + 1
      /\ appends'[Len(appends) + 1] = line
      /\ \A i \in DOMAIN appends : appends'[i] = appends[i]
  <2>1. appends \in Seq(Appends)
    BY <1>0 DEF TypeOK
  <2>2. appends' = Append(appends, line) /\ line \in Appends
    BY <1>2
  <2> QED
    BY <2>1, <2>2
<1>4. /\ last' \in [count : Counts, state : {"none", "pending", "ok", "failed"}]
      /\ last'.count = last.count /\ (last'.state = "none" <=> last.state = "none")
      /\ line.got = "error" /\ last.state # "none" /\ last.count = built[Head(queue)] => last'.state = "failed"
  <2>1. last \in [count : Counts, state : {"none", "pending", "ok", "failed"}]
    BY <1>0 DEF TypeOK
  <2>2. last' = last \/ (last.state # "none" /\ \E s \in {"ok", "failed"} : last' = [last EXCEPT !.state = s])
    BY <1>2
  <2>3. line.got = "error" /\ last.state # "none" /\ last.count = built[Head(queue)]
          => last' = [last EXCEPT !.state = "failed"]
    BY <1>2
  <2> QED
    BY <2>1, <2>2, <2>3
<1>5. TypeOK'
  BY <1>0, <1>1, <1>3, <1>4 DEF TypeOK
<1>6. Pipeline'
  <2>1. ASSUME NEW n \in DOMAIN appends' PROVE appends'[n].cp = n
    <3>1. CASE n \in DOMAIN appends
      BY <1>3, <3>1 DEF CheckpointerInv, Pipeline
    <3>2. CASE n \notin DOMAIN appends
      <4>1. n = Len(appends) + 1
        BY <1>0, <1>3, <3>2, Lengths
      <4> QED
        BY <1>2, <1>3, <4>1
    <3> QED
      BY <3>1, <3>2
  <2>2. ASSUME NEW n \in DOMAIN queue' PROVE queue'[n] = Len(appends') + n
    <3>1. n \in Nat /\ n + 1 \in DOMAIN queue /\ queue'[n] = queue[n + 1]
      BY <1>0, <1>1, Lengths
    <3>2. queue[n + 1] = Len(appends) + (n + 1)
      BY <3>1 DEF CheckpointerInv, Pipeline
    <3> QED
      BY <1>0, <1>3, <3>1, <3>2, Lengths
  <2>3. Len(appends') + Len(queue') = Len(appends) + Len(queue)
    BY <1>0, <1>1, <1>3, Lengths
  <2> QED
    BY <1>0, <2>1, <2>2, <2>3 DEF CheckpointerInv, Pipeline
<1>7. BuiltIsBounded' /\ LastIsNewest' /\ HeadIsCovered'
  BY <1>0, <1>4 DEF CheckpointerInv, BuiltIsBounded, LastIsNewest, HeadIsCovered
<1>8. ErrorIsFailure'
  <2> SUFFICES ASSUME Len(appends') = Len(built), appends'[Len(appends')].got = "error"
               PROVE  last'.state = "failed"
    BY <1>0 DEF ErrorIsFailure
  <2>1. line.got = "error" /\ Head(queue) = Len(built) /\ Len(built) > 0
    <3>1. Len(built) = Len(appends) + 1 /\ Len(appends') = Len(appends) + 1
      BY <1>0, <1>1, <1>3, Lengths
    <3> QED
      BY <1>0, <1>1, <1>3, <3>1, Lengths
  <2>2. last.state # "none" /\ last.count = built[Len(built)]
    BY <2>1, Lengths, <1>0 DEF CheckpointerInv, LastIsNewest
  <2> QED
    BY <1>4, <2>1, <2>2
<1>9. NothingIsLeft'
  <2>1. phase # "ended"
    BY <1>0 DEF CheckpointerInv, NothingIsLeft
  <2> QED
    BY <1>0, <1>1, <1>3, <2>1, Lengths DEF CheckpointerInv, NothingIsLeft, TypeOK
<1>10. HeadIsRetried'
  <2>1. phase # "running" /\ shut.appends > 0 => shut.appends \in DOMAIN appends
    BY <1>0, Lengths DEF CheckpointerInv, NothingIsLeft, TypeOK
  <2> QED
    BY <1>0, <1>3, <2>1 DEF CheckpointerInv, HeadIsRetried
<1> QED
  BY <1>5, <1>6, <1>7, <1>8, <1>9, <1>10 DEF CheckpointerInv

LEMMA EndStep ==
  ASSUME CheckpointerInv, NEW lost, End(lost)
  PROVE  CheckpointerInv'
<1>0. /\ TypeOK /\ UNCHANGED <<count, built, unbuilt, scheduled, shut>>
      /\ phase = "draining" /\ phase' = "ended" /\ queue' = <<>>
  BY DEF CheckpointerInv, End
<1> DEFINE rest == [n \in DOMAIN queue |-> [cp |-> queue[n], got |-> IF queue[n] \in lost THEN "no line" ELSE "error"]]
<1>1. appends' = appends \o rest
  BY DEF End
<1>2. rest \in Seq(Appends) /\ Len(rest) = Len(queue) /\ \A n \in DOMAIN queue : rest[n].cp = queue[n]
  <2>1. DOMAIN queue = 1 .. Len(queue) /\ Len(queue) \in Nat
    BY <1>0, Lengths
  <2>2. \A n \in DOMAIN queue : rest[n] \in Appends /\ rest[n].cp = queue[n]
    <3>1. \A n \in DOMAIN queue : queue[n] \in Ids
      BY <1>0 DEF TypeOK
    <3> QED
      BY <3>1 DEF Appends
  <2>3. rest \in [1 .. Len(queue) -> Appends]
    BY <2>1, <2>2
  <2> HIDE DEF rest
  <2> QED
    BY <2>1, <2>2, <2>3
<1> HIDE DEF rest
<1>3. /\ appends' \in Seq(Appends) /\ Len(appends') = Len(appends) + Len(queue)
      /\ DOMAIN appends' = 1 .. Len(appends) + Len(queue)
      /\ \A n \in DOMAIN appends : appends'[n] = appends[n]
      /\ \A n \in 1 .. Len(appends) + Len(queue) : n \notin DOMAIN appends => appends'[n] = rest[n - Len(appends)]
  BY <1>0, <1>1, <1>2, Lengths DEF TypeOK
<1>4. /\ last' \in [count : Counts, state : {"none", "pending", "ok", "failed"}]
      /\ last'.count = last.count /\ (last'.state = "none" => last.state = "none")
      /\ last.state = "none" => last'.state = "none"
  <2>1. last' = last \/ (last' = [last EXCEPT !.state = "failed"] /\ queue # <<>>)
    <3>1. CASE queue = <<>>
      BY <3>1 DEF End
    <3>2. CASE queue # <<>>
      BY <3>2 DEF End
    <3> QED
      BY <3>1, <3>2
  <2>2. last.state = "none" => queue = <<>>
    <3>1. last.state = "none" => Len(built) = 0
      BY DEF CheckpointerInv, LastIsNewest
    <3>2. last.state = "none" => Len(queue) = 0
      BY <1>0, <3>1, Lengths DEF CheckpointerInv, Pipeline
    <3> QED
      BY <1>0, <3>2, Lengths DEF TypeOK
  <2> QED
    BY <1>0, <2>1, <2>2 DEF TypeOK
<1>5. TypeOK'
  BY <1>0, <1>3, <1>4 DEF TypeOK
<1>6. Pipeline'
  <2>1. \A n \in DOMAIN appends' : appends'[n].cp = n
    <3> SUFFICES ASSUME NEW n \in DOMAIN appends' PROVE appends'[n].cp = n
      OBVIOUS
    <3>1. CASE n \in DOMAIN appends
      BY <1>3, <3>1 DEF CheckpointerInv, Pipeline
    <3>2. CASE n \notin DOMAIN appends
      <4>1. n - Len(appends) \in DOMAIN queue /\ n \in Nat
        BY <1>0, <1>3, <3>2, Lengths
      <4>2. appends'[n].cp = queue[n - Len(appends)]
        BY <1>2, <1>3, <3>2, <4>1
      <4>3. queue[n - Len(appends)] = Len(appends) + (n - Len(appends))
        BY <4>1 DEF CheckpointerInv, Pipeline
      <4> QED
        BY <1>0, <4>1, <4>2, <4>3, Lengths
    <3> QED
      BY <3>1, <3>2
  <2> QED
    BY <1>0, <1>3, <2>1, Lengths DEF CheckpointerInv, Pipeline
<1>7. BuiltIsBounded' /\ LastIsNewest' /\ HeadIsCovered' /\ ErrorIsFailure'
  BY <1>0, <1>4 DEF CheckpointerInv, BuiltIsBounded, LastIsNewest, HeadIsCovered, ErrorIsFailure
<1>8. NothingIsLeft'
  BY <1>0, <1>3, Lengths DEF CheckpointerInv, NothingIsLeft, TypeOK
<1>9. HeadIsRetried'
  <2>1. shut.appends > 0 => shut.appends \in DOMAIN appends
    BY <1>0, Lengths DEF CheckpointerInv, NothingIsLeft, TypeOK
  <2> QED
    BY <1>0, <1>3, <2>1 DEF CheckpointerInv, HeadIsRetried
<1> QED
  BY <1>5, <1>6, <1>7, <1>8, <1>9 DEF CheckpointerInv

\* The shutdown queues what is scheduled, which keeps the numbers in one run.
LEMMA Flushed ==
  ASSUME CheckpointerInv, phase = "running"
  PROVE  /\ queue \o scheduled \in Seq(Ids) /\ Len(queue \o scheduled) = Len(queue) + Len(scheduled)
         /\ DOMAIN (queue \o scheduled) = 1 .. Len(queue) + Len(scheduled)
         /\ \A n \in 1 .. Len(queue) + Len(scheduled) : (queue \o scheduled)[n] = Len(appends) + n
<1>1. queue \in Seq(Ids) /\ scheduled \in Seq(Ids) /\ TypeOK
  BY DEF CheckpointerInv, TypeOK
<1>2. ASSUME NEW n \in 1 .. Len(queue) + Len(scheduled) PROVE (queue \o scheduled)[n] = Len(appends) + n
  <2>1. CASE n \in DOMAIN queue
    BY <1>1, <2>1, Lengths DEF CheckpointerInv, Pipeline
  <2>2. CASE n \notin DOMAIN queue
    <3>1. n - Len(queue) \in DOMAIN scheduled /\ (queue \o scheduled)[n] = scheduled[n - Len(queue)] /\ n \in Nat
      BY <1>1, <2>2, Lengths
    <3>2. scheduled[n - Len(queue)] = Len(appends) + Len(queue) + (n - Len(queue))
      BY <3>1 DEF CheckpointerInv, Pipeline
    <3> QED
      BY <1>1, <3>1, <3>2, Lengths
  <2> QED
    BY <2>1, <2>2
<1> QED
  BY <1>1, <1>2, Lengths

LEMMA ShutdownStep ==
  ASSUME CheckpointerInv, Shutdown
  PROVE  CheckpointerInv'
<1>0. /\ TypeOK /\ phase = "running" /\ UNCHANGED <<count, appends>> /\ scheduled' = <<>> /\ phase' = "draining"
      /\ shut' = [count |-> count, upto |-> Len(built'), appends |-> Len(appends)]
  BY DEF CheckpointerInv, Shutdown, BeginWaiting
<1>1. /\ Len(built) = Len(appends) + Len(queue) + Len(scheduled) /\ Len(built) <= count
      /\ \A n \in DOMAIN appends : appends[n].cp = n
  BY <1>0, Lengths DEF CheckpointerInv, Pipeline, BuiltIsBounded
<1>2. CASE count > 0 /\ Build(count) /\ queue' = queue \o scheduled \o <<NewId>>
  <2>1. /\ built' \in Seq(Counts \ {0}) /\ NewId \in Ids
        /\ last' \in [count : Counts, state : {"none", "pending", "ok", "failed"}]
        /\ Len(built') = Len(built) + 1 /\ built'[Len(built')] = count
        /\ \A i \in DOMAIN built : built'[i] = built[i]
        /\ last' = [count |-> count, state |-> "pending"] /\ unbuilt' = unbuilt
    <3>1. count \in Counts \ {0} /\ Len(built) <= MaxReceipts
      BY <1>0, <1>1, <1>2, Lengths DEF TypeOK, Counts
    <3> QED
      BY <1>2, <3>1, BuiltType DEF Build
  <2>2. /\ queue' \in Seq(Ids) /\ Len(queue') = Len(built') - Len(appends)
        /\ \A n \in DOMAIN queue' : queue'[n] = Len(appends) + n
    <3> DEFINE flushed == queue \o scheduled
    <3>1. /\ flushed \in Seq(Ids) /\ Len(flushed) = Len(queue) + Len(scheduled)
          /\ DOMAIN flushed = 1 .. Len(flushed) /\ Len(flushed) \in Nat
          /\ \A n \in DOMAIN flushed : flushed[n] = Len(appends) + n
      BY <1>0, Flushed, Lengths
    <3>2. queue' = Append(flushed, NewId) /\ NewId = Len(appends) + Len(flushed) + 1
      BY <1>0, <1>1, <1>2, <2>1, <3>1, Lengths DEF NewId
    <3> HIDE DEF flushed
    <3>3. /\ queue' \in Seq(Ids) /\ Len(queue') = Len(flushed) + 1 /\ DOMAIN queue' = 1 .. Len(flushed) + 1
          /\ queue'[Len(flushed) + 1] = NewId /\ \A n \in DOMAIN flushed : queue'[n] = flushed[n]
      BY <2>1, <3>1, <3>2
    <3>4. ASSUME NEW n \in DOMAIN queue' PROVE queue'[n] = Len(appends) + n
      <4>1. CASE n \in DOMAIN flushed
        BY <3>1, <3>3, <4>1
      <4>2. CASE n \notin DOMAIN flushed
        <5>1. n = Len(flushed) + 1
          BY <3>1, <3>3, <4>2
        <5> QED
          BY <1>0, <3>1, <3>2, <3>3, <5>1, Lengths
      <4> QED
        BY <4>1, <4>2
    <3> QED
      BY <1>0, <1>1, <2>1, <3>1, <3>3, <3>4, Lengths
  <2>3. TypeOK'
    <3>1. shut' \in [count : Counts, upto : Nat, appends : Nat]
      BY <1>0, <2>1, Lengths DEF TypeOK
    <3> QED
      BY <1>0, <2>1, <2>2, <3>1 DEF TypeOK
  <2>4. Pipeline' /\ BuiltIsBounded'
    <3>1. Len(scheduled') = 0 /\ DOMAIN scheduled' = {}
      BY <1>0
    <3> QED
      BY <1>0, <1>1, <2>1, <2>2, <3>1, Lengths DEF Pipeline, BuiltIsBounded
  <2>5. LastIsNewest' /\ ErrorIsFailure' /\ NothingIsLeft'
    BY <1>0, <1>1, <2>1, <2>2, Lengths DEF LastIsNewest, ErrorIsFailure, NothingIsLeft
  <2>6. HeadIsCovered' /\ HeadIsRetried'
    <3>1. /\ Len(built') \in 1 .. shut'.upto /\ Len(built') > shut'.appends
          /\ built'[Len(built')] = shut'.count
      BY <1>0, <1>1, <2>1, Lengths
    <3> QED
      BY <3>1 DEF HeadIsCovered, HeadIsRetried
  <2> QED
    BY <2>3, <2>4, <2>5, <2>6 DEF CheckpointerInv
<1>3. CASE UNCHANGED <<built, last>> /\ queue' = queue \o scheduled /\ (count > 0 => HeadIsTaken \/ count \in unbuilt')
           /\ unbuilt' \subseteq Counts
  <2>1. /\ queue' \in Seq(Ids) /\ Len(queue') = Len(built') - Len(appends)
        /\ \A n \in DOMAIN queue' : queue'[n] = Len(appends) + n
    <3> DEFINE flushed == queue \o scheduled
    <3>1. /\ flushed \in Seq(Ids) /\ Len(flushed) = Len(queue) + Len(scheduled)
          /\ DOMAIN flushed = 1 .. Len(queue) + Len(scheduled)
          /\ \A n \in DOMAIN flushed : flushed[n] = Len(appends) + n
      BY <1>0, Flushed
    <3>2. queue' = flushed /\ built' = built
      BY <1>3
    <3> HIDE DEF flushed
    <3> QED
      BY <1>0, <1>1, <3>1, <3>2, Lengths
  <2>2. TypeOK'
    <3>1. shut' \in [count : Counts, upto : Nat, appends : Nat]
      BY <1>0, <1>3, Lengths DEF TypeOK
    <3> QED
      BY <1>0, <1>3, <2>1, <3>1 DEF TypeOK
  <2>3. Pipeline' /\ BuiltIsBounded'
    <3>1. Len(scheduled') = 0 /\ DOMAIN scheduled' = {}
      BY <1>0
    <3> QED
      BY <1>0, <1>1, <1>3, <2>1, <3>1, Lengths DEF Pipeline, BuiltIsBounded
  <2>4. LastIsNewest' /\ ErrorIsFailure' /\ NothingIsLeft'
    BY <1>0, <1>1, <1>3, <2>1, Lengths DEF CheckpointerInv, LastIsNewest, ErrorIsFailure, NothingIsLeft
  <2>5. count > 0 /\ count \notin unbuilt' =>
          Len(built) \in DOMAIN built /\ built[Len(built)] = count /\ last.state \in {"pending", "ok"}
    BY <1>0, <1>3, Lengths DEF HeadIsTaken, CheckpointerInv, LastIsNewest
  <2>6. HeadIsCovered'
    BY <1>0, <1>3, <2>5, Lengths DEF HeadIsCovered
  <2>7. HeadIsRetried'
    <3> SUFFICES ASSUME Len(appends) > 0, built[Len(appends)] = count, appends[Len(appends)].got = "error",
                        count \notin unbuilt'
                 PROVE  \E n \in 1 .. Len(built) : n > Len(appends) /\ built[n] = count
      BY <1>0, <1>3 DEF HeadIsRetried
    <3>1. Len(appends) \in DOMAIN built
      BY <1>0, <1>1, Lengths
    <3>2. count > 0
      BY <1>0, <3>1, Lengths DEF TypeOK, Counts
    <3>3. Len(appends) # Len(built)
      BY <1>0, <2>5, <3>2 DEF CheckpointerInv, ErrorIsFailure
    <3> QED
      BY <1>0, <1>1, <2>5, <3>2, <3>3, Lengths
  <2> QED
    BY <2>2, <2>3, <2>4, <2>6, <2>7 DEF CheckpointerInv
<1> QED
  <2>1. unbuilt \subseteq Counts /\ count \in Counts
    BY <1>0 DEF TypeOK
  <2> QED
    BY <1>2, <1>3, <2>1 DEF Shutdown, BuildFails

LEMMA StepHolds ==
  ASSUME CheckpointerInv, [Next]_vars
  PROVE  CheckpointerInv'
<1>1. CASE WriteReceipt
  BY <1>1, WriteReceiptStep
<1>2. CASE Immediate
  BY <1>2, ImmediateStep
<1>3. CASE \E ok \in BOOLEAN : PostReturns(ok)
  BY <1>3, PostReturnsStep
<1>4. CASE Shutdown
  BY <1>4, ShutdownStep
<1>5. CASE \E lost \in SUBSET ToSet(queue) : End(lost)
  BY <1>5, EndStep
<1>6. CASE UNCHANGED vars
  BY <1>6 DEF vars, CheckpointerInv, TypeOK, Pipeline, BuiltIsBounded, LastIsNewest, ErrorIsFailure, NothingIsLeft,
     HeadIsCovered, HeadIsRetried
<1> QED
  BY <1>1, <1>2, <1>3, <1>4, <1>5, <1>6 DEF Next

\* The driver never leaves CheckpointerInv, whatever is slow, fails or is lost.
THEOREM CheckpointerInvCorrect == Spec => []CheckpointerInv
<1>1. Init => CheckpointerInv
  BY InitHolds
<1>2. CheckpointerInv /\ [Next]_vars => CheckpointerInv'
  BY StepHolds
<1> QED
  BY <1>1, <1>2, PTL DEF Spec

----------------------------------------------------------------------------
\* Every variable of the driver (checkpoint.ts:84-134) keeps its type: what is
\* built is never more than the receipts and one head at the shutdown.
THEOREM TypeCorrect == Spec => []TypeOK
<1>1. CheckpointerInv => TypeOK
  BY DEF CheckpointerInv
<1> QED
  BY <1>1, CheckpointerInvCorrect, PTL

\* Sidecar lines land in the order their checkpoints were built, each once
\* (checkpoint.ts:91-92).
THEOREM SidecarInOrderHolds == Spec => []SidecarInOrder
<1>1. CheckpointerInv => SidecarInOrder
  BY Lengths DEF CheckpointerInv, Pipeline, SidecarInOrder
<1> QED
  BY <1>1, CheckpointerInvCorrect, PTL

\* At the end every checkpoint built by the clean shutdown is in the sidecar or
\* was reported as not written (checkpoint.ts:135-137).
THEOREM NothingIsLostHolds == Spec => []NothingIsLost
<1>1. CheckpointerInv => NothingIsLost
  <2> SUFFICES ASSUME CheckpointerInv, phase = "ended", NEW n \in DOMAIN built, n <= shut.upto
               PROVE  n \in Accounted
    BY DEF NothingIsLost
  <2>1. shut.upto \in Nat /\ TypeOK
    BY DEF CheckpointerInv, TypeOK
  <2>2. shut.upto <= Len(appends)
    BY <2>1, Lengths DEF CheckpointerInv, NothingIsLeft
  <2>3. n \in DOMAIN appends
    BY <2>1, <2>2, Lengths
  <2> QED
    BY <2>3 DEF CheckpointerInv, Pipeline, Accounted
<1> QED
  BY <1>1, CheckpointerInvCorrect, PTL

\* A clean shutdown accounts for the head it found (README.md:396).
THEOREM ShutdownCoversHeadHolds == Spec => []ShutdownCoversHead
<1>1. CheckpointerInv => ShutdownCoversHead
  <2> SUFFICES ASSUME CheckpointerInv, phase = "ended", shut.count > 0, shut.count \notin unbuilt
               PROVE  \E n \in Accounted : built[n] = shut.count
    BY DEF ShutdownCoversHead
  <2>1. PICK n \in 1 .. shut.upto : built[n] = shut.count
    BY DEF CheckpointerInv, HeadIsCovered
  <2>2. shut.upto \in Nat /\ TypeOK
    BY DEF CheckpointerInv, TypeOK
  <2>3. shut.upto <= Len(appends)
    BY <2>2, Lengths DEF CheckpointerInv, NothingIsLeft
  <2>4. n \in DOMAIN appends
    BY <2>2, <2>3, Lengths
  <2>5. n \in Accounted
    BY <2>4 DEF CheckpointerInv, Pipeline, Accounted
  <2> QED
    BY <2>1, <2>5
<1> QED
  BY <1>1, CheckpointerInvCorrect, PTL

\* A head the witness refused before the shutdown is built and posted again by
\* it (checkpoint.ts:135-139).
THEOREM FailedHeadIsRetriedHolds == Spec => []FailedHeadIsRetried
<1>1. CheckpointerInv => FailedHeadIsRetried
  <2> SUFFICES ASSUME CheckpointerInv, phase = "ended", shut.appends > 0, shut.count \notin unbuilt,
                      built[appends[shut.appends].cp] = shut.count, appends[shut.appends].got = "error"
               PROVE  \E n \in Accounted : n > appends[shut.appends].cp /\ built[n] = shut.count
    BY DEF FailedHeadIsRetried
  <2>1. /\ TypeOK /\ shut.upto \in Nat /\ shut.appends \in Nat
        /\ shut.upto <= Len(appends) /\ shut.appends <= Len(appends)
    BY Lengths DEF CheckpointerInv, NothingIsLeft, TypeOK
  <2>2. appends[shut.appends].cp = shut.appends
    BY <2>1, Lengths DEF CheckpointerInv, Pipeline
  <2>3. PICK n \in 1 .. shut.upto : n > shut.appends /\ built[n] = shut.count
    BY <2>2 DEF CheckpointerInv, HeadIsRetried
  <2>4. n \in DOMAIN appends
    BY <2>1, Lengths
  <2>5. n \in Accounted
    BY <2>4 DEF CheckpointerInv, Pipeline, Accounted
  <2> QED
    BY <2>2, <2>3, <2>5
<1> QED
  BY <1>1, CheckpointerInvCorrect, PTL
=============================================================================
