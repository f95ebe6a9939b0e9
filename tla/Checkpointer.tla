---------------------------- MODULE Checkpointer ----------------------------
(***************************************************************************)
(* The checkpoint driver of src/checkpoint.ts (class ProxyCheckpointer): a   *)
(* checkpoint of the chain's head is built in the step that writes every     *)
(* Nth receipt, waits for setImmediate, is posted to the witness in a queue  *)
(* and recorded in the sidecar; a clean shutdown adds the head and waits for *)
(* the queue or its deadline.                                                *)
(*                                                                          *)
(* Each callback of the event loop is one action.  A checkpoint is named by  *)
(* the order it was built in; two may carry the same head.                   *)
(***************************************************************************)
EXTENDS Naturals, Sequences, SequencesExt

CONSTANTS
  Every,        \* --checkpoint-every, or 0 when it is not given
  MaxReceipts,  \* bound: receipts of one session
  Faults        \* "unreadable": the chain cannot be read back when a head is
                \*   built; "sidecar": an append to the sidecar fails; "late":
                \*   receipts are written while the shutdown waits

ASSUME CheckpointerAssumption ==
  /\ Every \in Nat
  /\ MaxReceipts \in Nat
  /\ Faults \subseteq {"unreadable", "sidecar", "late"}

VARIABLES
  count,      \* receipts in the chain, all written by this process
  built,      \* the checkpoints built: for each the count it carries
  unbuilt,    \* counts at which a head could not be built (logged)
  scheduled,  \* checkpoints waiting for setImmediate, in order
  queue,      \* inflight: checkpoints queued or being posted, in order
  last,       \* what `last` holds: the newest head and its state
  appends,    \* the appends to the sidecar, in order, the failed ones too
  phase,      \* "running", "draining" in shutdown(), "ended"
  shut        \* where count, built and appends stood when shutdown() waited

vars == <<count, built, unbuilt, scheduled, queue, last, appends, phase, shut>>

Counts == 0 .. MaxReceipts
\* A receipt may build one checkpoint and the shutdown one more.
Ids == 1 .. (MaxReceipts + 1)
\* An append is of a line with a receipt or with an error; when it throws there
\* is no line, and that is logged.
Appends == [cp : Ids, got : {"receipt", "error", "no line"}]

TypeOK ==
  /\ count \in Counts
  /\ built \in Seq(Counts \ {0})
  /\ unbuilt \subseteq Counts
  /\ scheduled \in Seq(Ids)
  /\ queue \in Seq(Ids)
  /\ last \in [count : Counts, state : {"none", "pending", "ok", "failed"}]
  /\ appends \in Seq(Appends)
  /\ phase \in {"running", "draining", "ended"}
  /\ shut \in [count : Counts, upto : Nat, appends : Nat]

Init ==
  /\ count = 0
  /\ built = <<>>
  /\ unbuilt = {}
  /\ scheduled = <<>>
  /\ queue = <<>>
  /\ last = [count |-> 0, state |-> "none"]
  /\ appends = <<>>
  /\ phase = "running"
  /\ shut = [count |-> 0, upto |-> 0, appends |-> 0]

----------------------------------------------------------------------------
NewId == Len(built) + 1

\* buildHead and noteBuilt: the head now in the chain, at count n.
Build(n) ==
  /\ built' = Append(built, n)
  /\ last' = [count |-> n, state |-> "pending"]
  /\ UNCHANGED unbuilt

BuildFails(n) ==
  /\ "unreadable" \in Faults
  /\ unbuilt' = unbuilt \cup {n}
  /\ UNCHANGED <<built, last>>

Due(n) == Every # 0 /\ n % Every = 0

\* shutdown() waits for the queue as it found it, and no longer.
Waiting == phase = "draining" /\ queue # <<>> /\ Head(queue) <= shut.upto

\* A receipt is written and afterReceipt called with it.  The client's and the
\* downstream's handlers stay attached while the shutdown waits.
WriteReceipt ==
  /\ phase = "running" \/ (Waiting /\ "late" \in Faults)
  /\ count < MaxReceipts
  /\ count' = count + 1
  /\ \/ /\ ~Due(count')
        /\ UNCHANGED <<built, unbuilt, scheduled, last>>
     \/ /\ Due(count')
        /\ Build(count')
        /\ scheduled' = Append(scheduled, NewId)
     \/ /\ Due(count')
        /\ BuildFails(count')
        /\ UNCHANGED scheduled
  /\ UNCHANGED <<queue, appends, phase, shut>>

\* setImmediate: the next scheduled checkpoint joins the queue.
Immediate ==
  /\ phase = "running" \/ Waiting
  /\ scheduled # <<>>
  /\ queue' = Append(queue, Head(scheduled))
  /\ scheduled' = Tail(scheduled)
  /\ UNCHANGED <<count, built, unbuilt, last, appends, phase, shut>>

\* record: the line lands, and the state of the newest head follows it.
Recorded(cp, ok) ==
  /\ appends' = Append(appends, [cp |-> cp, got |-> IF ok THEN "receipt" ELSE "error"])
  /\ last' = IF last.state # "none" /\ last.count = built[cp]
             THEN [last EXCEPT !.state = IF ok THEN "ok" ELSE "failed"]
             ELSE last

\* The append to the sidecar throws: the checkpoint is gone from inflight, and
\* the newest head stays pending.
NotRecorded(cp) ==
  /\ "sidecar" \in Faults
  /\ appends' = Append(appends, [cp |-> cp, got |-> "no line"])
  /\ UNCHANGED last

\* Mutant: each POST is awaited on its own, so a later one may answer first.
PostReturnsUnordered(ok) ==
  \E n \in DOMAIN queue :
    /\ phase = "running" \/ Waiting
    /\ queue' = RemoveAt(queue, n)
    /\ Recorded(queue[n], ok) \/ NotRecorded(queue[n])
    /\ UNCHANGED <<count, built, unbuilt, scheduled, phase, shut>>

\* Mutant: a failed POST rejects the queue, and all behind it is skipped.
PostReturnsRejecting(ok) ==
  /\ phase = "running" \/ Waiting
  /\ queue # <<>>
  /\ queue' = IF ok THEN Tail(queue) ELSE <<>>
  /\ IF ok THEN Recorded(Head(queue), ok) ELSE UNCHANGED <<appends, last>>
  /\ UNCHANGED <<count, built, unbuilt, scheduled, phase, shut>>

\* The witness answers, or the POST fails or times out.  (Without a witness the
\* checkpoint is recorded at once, with neither receipt nor error.)
PostReturns(ok) ==
  /\ phase = "running" \/ Waiting
  /\ queue # <<>>
  /\ queue' = Tail(queue)
  /\ Recorded(Head(queue), ok) \/ NotRecorded(Head(queue))
  /\ UNCHANGED <<count, built, unbuilt, scheduled, phase, shut>>

----------------------------------------------------------------------------
\* Shutdown

BeginWaiting ==
  /\ phase' = "draining"
  /\ shut' = [count |-> count, upto |-> Len(built'), appends |-> Len(appends)]

\* Mutant: a head recorded with an error counts as taken.
HeadIsTakenOnceTried == last.state # "none" /\ last.count = count

\* Mutant: any head at all counts as this one.
HeadIsTakenByAny == last.state \in {"pending", "ok"}

\* The head this process already has pending or recorded with a receipt.
HeadIsTaken == last.state \in {"pending", "ok"} /\ last.count = count

\* Mutant: the head is built for a session that wrote nothing.
ShutdownOfNothing ==
  /\ phase = "running"
  /\ IF HeadIsTaken
     THEN queue' = queue \o scheduled /\ UNCHANGED <<built, unbuilt, last>>
     ELSE Build(count) /\ queue' = queue \o scheduled \o <<NewId>>
  /\ scheduled' = <<>>
  /\ BeginWaiting
  /\ UNCHANGED <<count, appends>>

\* What is scheduled is queued first, then the head unless it is taken.
Shutdown ==
  /\ phase = "running"
  /\ \/ /\ count > 0 /\ ~HeadIsTaken
        /\ Build(count)
        /\ queue' = queue \o scheduled \o <<NewId>>
     \/ /\ count > 0
        /\ BuildFails(count)
        /\ queue' = queue \o scheduled
     \/ /\ count > 0 => HeadIsTaken
        /\ queue' = queue \o scheduled
        /\ UNCHANGED <<built, unbuilt, last>>
  /\ scheduled' = <<>>
  /\ BeginWaiting
  /\ UNCHANGED <<count, appends>>

\* Mutant: what is still in flight at the deadline is dropped.
EndDropping(lost) ==
  /\ phase = "draining"
  /\ phase' = "ended"
  /\ queue' = <<>>
  /\ UNCHANGED <<count, built, unbuilt, scheduled, last, appends, shut>>

\* The queue as it stood at the shutdown is done, or the deadline has come:
\* everything still in flight is recorded as witness_timeout, those in `lost`
\* not even that.  Then the process ends.
End(lost) ==
  /\ phase = "draining"
  /\ phase' = "ended"
  /\ lost # {} => "sidecar" \in Faults
  /\ appends' = appends \o [n \in DOMAIN queue |->
                               [cp |-> queue[n], got |-> IF queue[n] \in lost THEN "no line" ELSE "error"]]
  /\ last' = IF \E n \in DOMAIN queue : queue[n] \notin lost /\ built[queue[n]] = last.count
             THEN [last EXCEPT !.state = "failed"] ELSE last
  /\ queue' = <<>>
  /\ UNCHANGED <<count, built, unbuilt, scheduled, shut>>

Next ==
  \/ WriteReceipt
  \/ Immediate
  \/ \E ok \in BOOLEAN : PostReturns(ok)
  \/ Shutdown
  \/ \E lost \in SUBSET ToSet(queue) : End(lost)

Spec == Init /\ [][Next]_vars

\* The event loop reaches setImmediate, every POST ends (each has a timeout),
\* and the deadline's timer fires.  Receipts and the shutdown itself may never
\* come.
FairSpec ==
  /\ Spec
  /\ WF_vars(Immediate)
  /\ WF_vars(\E ok \in BOOLEAN : PostReturns(ok))
  /\ WF_vars(\E lost \in SUBSET ToSet(queue) : End(lost))

----------------------------------------------------------------------------
\* Properties

\* In the sidecar, or reported as not written.
Accounted == {appends[n].cp : n \in DOMAIN appends}

\* Sidecar lines land in the order their checkpoints were built, each once
\* (checkpoint.ts:91-92), whatever fails and whenever the shutdown comes.
SidecarInOrder ==
  \A m, n \in DOMAIN appends : m < n => appends[m].cp < appends[n].cp

\* Every checkpoint built before a clean shutdown, and the one it builds, is in
\* the sidecar at the end or was reported as not written (checkpoint.ts:135-137).
NothingIsLost ==
  phase = "ended" =>
    \A n \in DOMAIN built : n <= shut.upto => n \in Accounted

\* A clean shutdown covers the head it found: the sidecar ends with a line for
\* it, or the failure to build or to write one was reported (README.md:396).
ShutdownCoversHead ==
  phase = "ended" /\ shut.count > 0 =>
    \/ \E n \in Accounted : built[n] = shut.count
    \/ shut.count \in unbuilt

\* A head the witness refused before the shutdown is tried again by it.
FailedHeadIsRetried ==
  phase = "ended" /\ shut.appends > 0 =>
    LET line == appends[shut.appends]
    IN built[line.cp] = shut.count /\ line.got = "error" =>
         \/ \E n \in Accounted : n > line.cp /\ built[n] = shut.count
         \/ shut.count \in unbuilt

\* While the process runs, every checkpoint it builds reaches the sidecar, or
\* the failure to write it is reported: a slow or dead witness delays no line
\* forever.
CheckpointsAreRecorded ==
  \A n \in Ids : (phase = "running" /\ n <= Len(built)) ~> n \in Accounted

\* What README.md:396-397 says without a reservation: at the end of a clean
\* shutdown the head of the chain has been checkpointed.
CleanEndCoversHead ==
  phase = "ended" /\ count > 0 => \E n \in Accounted : built[n] = count
=============================================================================
