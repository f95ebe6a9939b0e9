------------------------ MODULE TrialRecorderProofs ------------------------
(***************************************************************************)
(* Proofs about TrialRecorder, for any number of sessions, entries, callers  *)
(* and faults: what a recorder answers is on file, and what it leaves behind *)
(* says what became of its head, because every head in flight is one that a  *)
(* chain really had and no sidecar holds a later one.                        *)
(***************************************************************************)
EXTENDS TrialRecorder, FiniteSetTheorems, WellFoundedInduction, TLAPS

(***************************************************************************)
(* The invariant of a session s whose recorder holds d, over all phases ph,  *)
(* chain lengths ln, kept arguments ar, sidecars sc and damaged sidecars dm. *)
(* These are parameters, so that a lemma speaks of any state, primed or not. *)
(***************************************************************************)
IsGone(ph, s) == ph[s] \in {"closed", "dead"}

HasLine(w, n) == \E i \in DOMAIN w : w[i].count = n
HasReceipt(w, n) == \E i \in DOMAIN w : w[i] = [count |-> n, result |-> "ok"]
NotBeyond(line, n) == line.count <= n
UpTo(w, n) == \A i \in DOMAIN w : w[i].count <= n
Rising(w) == \A i, j \in DOMAIN w : i <= j => w[i].count <= w[j].count

\* Nothing is in flight once close has stopped waiting.
IdleAtTheEnd(s, d, ph) == ph[s] \in {"ending", "closed", "dead"} => d.inflight = None

\* What a recorder knows of its chain is what the file says, until an append
\* has broken it, and the entries of the file have their arguments.
ChainIsKnown(s, d, ph, ln, ar) ==
  /\ ph[s] = "new" => ln[s] = 0
  /\ d.count <= ln[s]
  /\ ~IsGone(ph, s) /\ ~d.broken => ln[s] = d.count
  /\ 1 .. d.count \subseteq ar[s]
  /\ ~d.broken => 1 .. ln[s] \subseteq ar[s]

\* A head of its own chain is one it had, and no line of its sidecar is beyond
\* it; a head of another chain is the last of a recorder that is gone.
HeadIsReal(s, h, d, ph, ln, sc) ==
  IF h.of = s THEN h.count <= d.count /\ UpTo(sc[s], h.count) ELSE IsGone(ph, h.of) /\ h.count = ln[h.of]

HeadsAreReal(s, d, ph, ln, sc) ==
  /\ d.inflight # None => HeadIsReal(s, d.inflight, d, ph, ln, sc)
  /\ \A i \in DOMAIN d.queue : d.queue[i].of # s /\ HeadIsReal(s, d.queue[i], d, ph, ln, sc)

SidecarIsSound(s, d, ph, ln, sc) ==
  /\ UpTo(sc[s], ln[s])
  /\ ~IsGone(ph, s) => UpTo(sc[s], d.count)
  /\ Rising(sc[s])

\* The receipts it answers from are in the sidecar, and the greatest one is
\* among them or covers only entries that nobody may ask for any more.
ReceiptsAreOnFile(s, d, sc, dm) ==
  /\ \A r \in d.receipts : r <= d.count /\ (s \in dm \/ HasReceipt(sc[s], r))
  /\ d.ok = 0 \/ d.ok \in d.receipts \/ d.ok + Remembered <= d.count

\* A head that was tried is in flight or has its line, and the head of a
\* recorder that was closed has one.
HeadIsAccountedFor(s, d, ph, sc, dm) ==
  /\ ~IsGone(ph, s) => d.tried <= d.count
  /\ ~IsGone(ph, s) /\ d.tried = d.count /\ d.count > 0 =>
       d.inflight = [of |-> s, count |-> d.count] \/ s \in dm \/ HasLine(sc[s], d.count)
  /\ ph[s] = "closed" /\ d.count > 0 => s \in dm \/ HasLine(sc[s], d.count)

Sound(s, d, ph, ln, ar, sc, dm) ==
  /\ IdleAtTheEnd(s, d, ph)
  /\ ChainIsKnown(s, d, ph, ln, ar)
  /\ HeadsAreReal(s, d, ph, ln, sc)
  /\ SidecarIsSound(s, d, ph, ln, sc)
  /\ ReceiptsAreOnFile(s, d, sc, dm)
  /\ HeadIsAccountedFor(s, d, ph, sc, dm)

SessionsAreSound == \A s \in Sessions : Sound(s, driver[s], phase, lines, args, sidecar, damaged)

\* Inductive.
TrialInv == TypeOK /\ SessionsAreSound /\ AnswersAreWitnessed /\ NoForgottenWaiter

----------------------------------------------------------------------------
\* Counts, and the driver's own step

LEMMA CountIsNat ==
  ASSUME NEW n \in Counts
  PROVE  n \in Nat /\ n >= 0
BY TrialAssumption DEF Counts

LEMMA CountBefore ==
  ASSUME NEW n \in Counts, n > 0
  PROVE  n - 1 \in Counts
<1>1. PICK x \in Sessions : n \in 0 .. MaxEntries[x]
  BY DEF Counts
<1>2. n - 1 \in 0 .. MaxEntries[x]
  BY <1>1, TrialAssumption
<1> QED
  BY <1>2 DEF Counts

LEMMA HeadFacts ==
  ASSUME NEW h \in Heads
  PROVE  h # None /\ h.of \in Sessions /\ h.count \in Counts \ {0} /\ h.count > 0 /\ h.count \in Nat
<1>1. h.of \in Sessions /\ h.count \in Counts \ {0}
  BY DEF Heads
<1>2. h # None
  BY TrialAssumption
<1> QED
  BY <1>1, <1>2, CountIsNat

\* What pump makes of a driver d: nothing, or it sends the next head.
Pumped(s, d, e) ==
  /\ e \in Driver
  /\ e.count = d.count /\ e.ok = d.ok /\ e.receipts = d.receipts
  /\ e.stopped = d.stopped /\ e.broken = d.broken
  /\ \/ e.inflight = d.inflight /\ e.tried = d.tried /\ e.queue = d.queue
     \/ /\ d.inflight = None /\ d.queue # <<>>
        /\ e.inflight = Head(d.queue) /\ e.queue = Tail(d.queue) /\ e.tried = d.tried
     \/ /\ d.inflight = None /\ d.count > d.tried
        /\ e.inflight = [of |-> s, count |-> d.count] /\ e.queue = d.queue /\ e.tried = d.count

LEMMA PumpIsPumped ==
  ASSUME NEW s \in Sessions, NEW d \in Driver
  PROVE  Pumped(s, d, Pump(s, d))
<1> DEFINE queued == [d EXCEPT !.inflight = Head(d.queue), !.queue = Tail(d.queue), !.lastOwn = FALSE]
           own == [d EXCEPT !.inflight = [of |-> s, count |-> d.count], !.tried = d.count, !.lastOwn = TRUE]
<1>0. d.queue \in Seq(Heads) /\ d.count \in Counts /\ d.tried \in Counts
      /\ d.count \in Nat /\ d.tried \in Nat
  BY CountIsNat DEF Driver
<1>1. Pumped(s, d, d)
  BY DEF Pumped
<1>2. ASSUME d.inflight = None, d.queue # <<>> PROVE Pumped(s, d, queued)
  <2>1. Head(d.queue) \in Heads /\ Tail(d.queue) \in Seq(Heads)
    BY <1>0, <1>2
  <2>2. queued \in Driver
    BY <2>1 DEF Driver
  <2>3. /\ queued.count = d.count /\ queued.ok = d.ok /\ queued.receipts = d.receipts
        /\ queued.stopped = d.stopped /\ queued.broken = d.broken /\ queued.tried = d.tried
        /\ queued.inflight = Head(d.queue) /\ queued.queue = Tail(d.queue)
    BY DEF Driver
  <2> HIDE DEF queued
  <2> QED
    BY <1>2, <2>2, <2>3 DEF Pumped
<1>3. ASSUME d.inflight = None, d.count > d.tried PROVE Pumped(s, d, own)
  <2>1. [of |-> s, count |-> d.count] \in Heads
    BY <1>0, <1>3 DEF Heads
  <2>2. own \in Driver
    BY <2>1 DEF Driver
  <2>3. /\ own.count = d.count /\ own.ok = d.ok /\ own.receipts = d.receipts
        /\ own.stopped = d.stopped /\ own.broken = d.broken /\ own.tried = d.count
        /\ own.inflight = [of |-> s, count |-> d.count] /\ own.queue = d.queue
    BY DEF Driver
  <2> HIDE DEF own
  <2> QED
    BY <1>3, <2>2, <2>3 DEF Pumped
<1>4. Pump(s, d) = d \/ (d.inflight = None /\ d.queue # <<>> /\ Pump(s, d) = queued)
      \/ (d.inflight = None /\ d.count > d.tried /\ Pump(s, d) = own)
  BY DEF Pump
<1> QED
  BY <1>1, <1>2, <1>3, <1>4

\* A pump keeps a session sound while its recorder runs.
LEMMA PumpIsSound ==
  ASSUME NEW s \in Sessions, NEW d \in Driver, NEW ph, NEW ln, NEW ar, NEW sc, NEW dm,
         Sound(s, d, ph, ln, ar, sc, dm), ph[s] \in {"open", "closing"}
  PROVE  Sound(s, Pump(s, d), ph, ln, ar, sc, dm)
<1>e. PICK e : e = Pump(s, d)
  OBVIOUS
<1>0. /\ d.queue \in Seq(Heads) /\ d.count \in Nat /\ d.tried \in Nat /\ ~IsGone(ph, s)
      /\ UpTo(sc[s], d.count)
  BY CountIsNat DEF Driver, Sound, SidecarIsSound, IsGone
<1>p. Pumped(s, d, e)
  BY <1>e, PumpIsPumped
<1>1. IdleAtTheEnd(s, e, ph) /\ ChainIsKnown(s, e, ph, ln, ar) /\ SidecarIsSound(s, e, ph, ln, sc)
      /\ ReceiptsAreOnFile(s, e, sc, dm)
  BY <1>p DEF Pumped, Sound, IdleAtTheEnd, ChainIsKnown, SidecarIsSound, ReceiptsAreOnFile
<1>2. HeadsAreReal(s, e, ph, ln, sc)
  <2>0. HeadsAreReal(s, d, ph, ln, sc) /\ e.count = d.count
    BY <1>p DEF Sound, Pumped
  <2>1. CASE e.inflight = d.inflight /\ e.queue = d.queue
    BY <2>0, <2>1 DEF HeadsAreReal, HeadIsReal
  <2>2. CASE d.queue # <<>> /\ e.inflight = Head(d.queue) /\ e.queue = Tail(d.queue)
    <3>1. /\ 1 \in DOMAIN d.queue /\ Head(d.queue) = d.queue[1]
          /\ \A i \in DOMAIN Tail(d.queue) : i + 1 \in DOMAIN d.queue /\ Tail(d.queue)[i] = d.queue[i + 1]
      BY <1>0, <2>2
    <3>2. HeadIsReal(s, e.inflight, e, ph, ln, sc)
      BY <2>0, <2>2, <3>1 DEF HeadsAreReal, HeadIsReal
    <3>3. ASSUME NEW i \in DOMAIN e.queue PROVE e.queue[i].of # s /\ HeadIsReal(s, e.queue[i], e, ph, ln, sc)
      BY <2>0, <2>2, <3>1 DEF HeadsAreReal, HeadIsReal
    <3> QED
      BY <3>2, <3>3 DEF HeadsAreReal
  <2>3. CASE e.inflight = [of |-> s, count |-> d.count] /\ e.queue = d.queue
    <3>1. HeadIsReal(s, e.inflight, e, ph, ln, sc)
      BY <1>0, <2>0, <2>3 DEF HeadIsReal
    <3>2. ASSUME NEW i \in DOMAIN e.queue PROVE e.queue[i].of # s /\ HeadIsReal(s, e.queue[i], e, ph, ln, sc)
      BY <2>0, <2>3 DEF HeadsAreReal, HeadIsReal
    <3> QED
      BY <3>1, <3>2 DEF HeadsAreReal
  <2> QED
    BY <1>p, <2>1, <2>2, <2>3 DEF Pumped
<1>3. HeadIsAccountedFor(s, e, ph, sc, dm)
  <2>0. HeadIsAccountedFor(s, d, ph, sc, dm) /\ e.count = d.count /\ s \in Sessions
    BY <1>p DEF Sound, Pumped
  <2>1. CASE e.inflight = d.inflight /\ e.tried = d.tried
    BY <2>0, <2>1 DEF HeadIsAccountedFor
  <2>2. CASE d.inflight = None /\ e.tried = d.tried
    <3>1. d.count > 0 => d.inflight # [of |-> s, count |-> d.count]
      <4> SUFFICES ASSUME d.count > 0 PROVE [of |-> s, count |-> d.count] \in Heads
        BY <2>2, HeadFacts
      <4> QED
        BY DEF Heads, Driver
    <3> QED
      BY <2>0, <2>2, <3>1 DEF HeadIsAccountedFor
  <2>3. CASE e.inflight = [of |-> s, count |-> d.count] /\ e.tried = d.count
    BY <1>0, <2>0, <2>3 DEF HeadIsAccountedFor
  <2> QED
    BY <1>p, <2>1, <2>2, <2>3 DEF Pumped
<1> QED
  BY <1>1, <1>2, <1>3, <1>e DEF Sound


----------------------------------------------------------------------------
\* A line more in a sidecar

LEMMA LineAdded ==
  ASSUME NEW w \in Seq(SidecarLines), NEW line \in SidecarLines
  PROVE  LET w2 == Append(w, line) IN
         /\ w2 \in Seq(SidecarLines)
         /\ \A n : HasLine(w, n) => HasLine(w2, n)
         /\ \A n : HasReceipt(w, n) => HasReceipt(w2, n)
         /\ HasLine(w2, line.count)
         /\ line.result = "ok" => HasReceipt(w2, line.count)
         /\ \A n : UpTo(w, n) /\ NotBeyond(line, n) => UpTo(w2, n)
         /\ Rising(w) /\ UpTo(w, line.count) => Rising(w2)
<1> DEFINE w2 == Append(w, line)
           k == Len(w) + 1
<1>1. /\ w2 \in Seq(SidecarLines) /\ DOMAIN w = 1 .. Len(w) /\ DOMAIN w2 = 1 .. k /\ w2[k] = line
      /\ \A i \in DOMAIN w : i \in DOMAIN w2 /\ w2[i] = w[i]
      /\ \A i \in DOMAIN w2 : i \in DOMAIN w \/ i = k
      /\ k \in DOMAIN w2 /\ Len(w) \in Nat /\ line.count \in Nat
      /\ \A i \in DOMAIN w : w[i].count \in Nat
  <2>1. /\ w2 \in Seq(SidecarLines) /\ DOMAIN w = 1 .. Len(w) /\ DOMAIN w2 = 1 .. k /\ w2[k] = line
        /\ \A i \in DOMAIN w : w2[i] = w[i]
        /\ Len(w) \in Nat
    OBVIOUS
  <2>2. \A x \in SidecarLines : x.count \in Nat
    BY CountIsNat DEF SidecarLines
  <2> QED
    BY <2>1, <2>2
<1> HIDE DEF w2, k
<1>2. \A n : HasLine(w, n) => HasLine(w2, n)
  BY <1>1 DEF HasLine
<1>3. \A n : HasReceipt(w, n) => HasReceipt(w2, n)
  BY <1>1 DEF HasReceipt
<1>4. HasLine(w2, line.count)
  BY <1>1 DEF HasLine
<1>5. line.result = "ok" => HasReceipt(w2, line.count)
  <2>1. line.result = "ok" => line = [count |-> line.count, result |-> "ok"]
    BY DEF SidecarLines
  <2> QED
    BY <1>1, <2>1 DEF HasReceipt
<1>6. \A n : UpTo(w, n) /\ NotBeyond(line, n) => UpTo(w2, n)
  BY <1>1 DEF UpTo, NotBeyond
<1>7. Rising(w) /\ UpTo(w, line.count) => Rising(w2)
  <2> SUFFICES ASSUME Rising(w), UpTo(w, line.count), NEW i \in DOMAIN w2, NEW j \in DOMAIN w2, i <= j
               PROVE  w2[i].count <= w2[j].count
    BY DEF Rising
  <2>1. CASE j \in DOMAIN w
    <3>1. i \in DOMAIN w
      BY <1>1, <2>1 DEF k
    <3> QED
      BY <1>1, <2>1, <3>1 DEF Rising
  <2>2. CASE j = k
    BY <1>1, <2>2 DEF UpTo
  <2> QED
    BY <1>1, <2>1, <2>2
<1> QED
  BY <1>1, <1>2, <1>3, <1>4, <1>5, <1>6, <1>7 DEF w2

\* What writeSidecar makes of the sidecar of f.
Written(f, line, sc, sc2, dm, dm2) ==
  \/ sc2 = [sc EXCEPT ![f] = Append(@, line)] /\ dm2 = dm
  \/ sc2 = sc /\ dm2 = dm \cup {f}

\* What a write of a line to the sidecar of f has done.
WriteDone(f, line, sc, sc2, dm, dm2) ==
  /\ dm \subseteq dm2
  /\ \A t \in Sessions : t # f => sc2[t] = sc[t]
  /\ \A t \in Sessions : \A n : HasLine(sc[t], n) => HasLine(sc2[t], n)
  /\ \A t \in Sessions : \A n : HasReceipt(sc[t], n) => HasReceipt(sc2[t], n)
  /\ f \in dm2 \/ HasLine(sc2[f], line.count)
  /\ line.result = "ok" => f \in dm2 \/ HasReceipt(sc2[f], line.count)
  /\ \A n : UpTo(sc[f], n) /\ NotBeyond(line, n) => UpTo(sc2[f], n)
  /\ Rising(sc[f]) /\ UpTo(sc[f], line.count) => Rising(sc2[f])

LEMMA WrittenFacts ==
  ASSUME NEW sc \in [Sessions -> Seq(SidecarLines)], NEW dm \in SUBSET Sessions, NEW sc2, NEW dm2,
         NEW f \in Sessions, NEW line \in SidecarLines, Written(f, line, sc, sc2, dm, dm2)
  PROVE  sc2 \in [Sessions -> Seq(SidecarLines)] /\ dm2 \in SUBSET Sessions /\ WriteDone(f, line, sc, sc2, dm, dm2)
<1>1. CASE sc2 = [sc EXCEPT ![f] = Append(@, line)] /\ dm2 = dm
  <2>1. sc2[f] = Append(sc[f], line) /\ (\A t \in Sessions : t # f => sc2[t] = sc[t]) /\ sc[f] \in Seq(SidecarLines)
    BY <1>1
  <2>2. /\ sc2[f] \in Seq(SidecarLines)
        /\ \A n : HasLine(sc[f], n) => HasLine(sc2[f], n)
        /\ \A n : HasReceipt(sc[f], n) => HasReceipt(sc2[f], n)
        /\ HasLine(sc2[f], line.count)
        /\ line.result = "ok" => HasReceipt(sc2[f], line.count)
        /\ \A n : UpTo(sc[f], n) /\ NotBeyond(line, n) => UpTo(sc2[f], n)
        /\ Rising(sc[f]) /\ UpTo(sc[f], line.count) => Rising(sc2[f])
    BY <2>1, LineAdded
  <2>3. sc2 \in [Sessions -> Seq(SidecarLines)]
    BY <1>1, <2>1, <2>2
  <2>4. WriteDone(f, line, sc, sc2, dm, dm2)
    BY <1>1, <2>1, <2>2 DEF WriteDone
  <2> QED
    BY <1>1, <2>3, <2>4
<1>2. CASE sc2 = sc /\ dm2 = dm \cup {f}
  BY <1>2 DEF WriteDone
<1> QED
  BY <1>1, <1>2 DEF Written

----------------------------------------------------------------------------
\* What keeps a session sound

\* Recorders that are gone stay gone, and nobody writes to their chains.
GoneForGood(ph, ph2, ln, ln2) == \A x \in Sessions : IsGone(ph, x) => IsGone(ph2, x) /\ ln2[x] = ln[x]

\* A sidecar keeps its lines, and stays in order up to n.
Extended(s, n, sc, sc2, dm, dm2) ==
  /\ \A k : HasLine(sc[s], k) => HasLine(sc2[s], k)
  /\ \A k : HasReceipt(sc[s], k) => HasReceipt(sc2[s], k)
  /\ s \in dm => s \in dm2
  /\ UpTo(sc[s], n) /\ Rising(sc[s]) => UpTo(sc2[s], n) /\ Rising(sc2[s])

LEMMA WrittenExtends ==
  ASSUME NEW sc \in [Sessions -> Seq(SidecarLines)], NEW dm \in SUBSET Sessions, NEW sc2, NEW dm2,
         NEW s \in Sessions, NEW line \in SidecarLines, Written(s, line, sc, sc2, dm, dm2)
  PROVE  Extended(s, line.count, sc, sc2, dm, dm2)
<1>1. NotBeyond(line, line.count)
  BY CountIsNat DEF NotBeyond, SidecarLines
<1>2. /\ dm \subseteq dm2
      /\ \A n : HasLine(sc[s], n) => HasLine(sc2[s], n)
      /\ \A n : HasReceipt(sc[s], n) => HasReceipt(sc2[s], n)
      /\ \A n : UpTo(sc[s], n) /\ NotBeyond(line, n) => UpTo(sc2[s], n)
      /\ Rising(sc[s]) /\ UpTo(sc[s], line.count) => Rising(sc2[s])
  BY WrittenFacts DEF WriteDone
<1> QED
  BY <1>1, <1>2 DEF Extended

\* Another recorder's step: nothing of s changes, but the sidecar of one that
\* is gone may be given the head it left.
LEMMA OthersStaySound ==
  ASSUME NEW s \in Sessions, NEW d \in Driver, NEW ph, NEW ph2, NEW ln, NEW ln2, NEW ar, NEW ar2,
         NEW sc, NEW sc2, NEW dm, NEW dm2,
         Sound(s, d, ph, ln, ar, sc, dm), GoneForGood(ph, ph2, ln, ln2),
         ph2[s] = ph[s], ln2[s] = ln[s], ar2[s] = ar[s],
         Extended(s, ln[s], sc, sc2, dm, dm2), sc2[s] = sc[s] \/ IsGone(ph, s)
  PROVE  Sound(s, d, ph2, ln2, ar2, sc2, dm2)
<1>0. /\ \A n : HasLine(sc[s], n) => HasLine(sc2[s], n)
      /\ \A n : HasReceipt(sc[s], n) => HasReceipt(sc2[s], n)
      /\ s \in dm => s \in dm2
      /\ UpTo(sc[s], ln[s]) /\ Rising(sc[s]) => UpTo(sc2[s], ln[s]) /\ Rising(sc2[s])
      /\ sc2[s] = sc[s] \/ IsGone(ph, s)
  BY DEF Extended
<1>1. IdleAtTheEnd(s, d, ph2) /\ ChainIsKnown(s, d, ph2, ln2, ar2)
  BY DEF Sound, IdleAtTheEnd, ChainIsKnown, IsGone
<1>2. HeadsAreReal(s, d, ph2, ln2, sc2)
  <2>1. ASSUME NEW h \in Heads, h.of # s, HeadIsReal(s, h, d, ph, ln, sc)
        PROVE  HeadIsReal(s, h, d, ph2, ln2, sc2)
    BY <2>1, HeadFacts DEF HeadIsReal, GoneForGood
  <2>2. ASSUME NEW i \in DOMAIN d.queue
        PROVE  d.queue[i] \in Heads
    BY DEF Driver
  <2>3. d.inflight # None => d.inflight \in Heads
    BY DEF Driver
  <2>4. d.inflight # None => sc2[s] = sc[s]
    BY <1>0 DEF Sound, IdleAtTheEnd, IsGone
  <2>5. d.inflight # None => HeadIsReal(s, d.inflight, d, ph2, ln2, sc2)
    <3>1. CASE d.inflight # None /\ d.inflight.of = s
      BY <2>4, <3>1 DEF Sound, HeadsAreReal, HeadIsReal
    <3>2. CASE d.inflight # None /\ d.inflight.of # s
      BY <2>1, <2>3, <3>2 DEF Sound, HeadsAreReal
    <3> QED
      BY <3>1, <3>2
  <2>6. \A i \in DOMAIN d.queue : d.queue[i].of # s /\ HeadIsReal(s, d.queue[i], d, ph2, ln2, sc2)
    BY <2>1, <2>2 DEF Sound, HeadsAreReal
  <2> QED
    BY <2>5, <2>6 DEF HeadsAreReal
<1>3. SidecarIsSound(s, d, ph2, ln2, sc2)
  BY <1>0 DEF Sound, SidecarIsSound, IsGone
<1>4. ReceiptsAreOnFile(s, d, sc2, dm2)
  BY <1>0 DEF Sound, ReceiptsAreOnFile
<1>5. HeadIsAccountedFor(s, d, ph2, sc2, dm2)
  BY <1>0 DEF Sound, HeadIsAccountedFor, IsGone
<1> QED
  BY <1>1, <1>2, <1>3, <1>4, <1>5 DEF Sound

\* What a driver's flags say does not matter, nor that the queue is dropped or
\* the head is to be tried again, nor that a recorder that is not gone goes on.
LEMMA StaysSound ==
  ASSUME NEW s \in Sessions, NEW d \in Driver, NEW e \in Driver, NEW ph, NEW ph2, NEW ln, NEW ar, NEW sc, NEW dm,
         Sound(s, d, ph, ln, ar, sc, dm), GoneForGood(ph, ph2, ln, ln),
         e.count = d.count, e.broken = d.broken, e.inflight = d.inflight, e.ok = d.ok, e.receipts = d.receipts,
         e.queue \in {d.queue, <<>>}, e.tried = d.tried \/ e.tried < d.count,
         \/ ph2[s] = ph[s]
         \/ ~IsGone(ph, s) /\ ph2[s] \in {"open", "closing"}
         \/ ~IsGone(ph, s) /\ ph2[s] = "ending" /\ d.inflight = None
  PROVE  Sound(s, e, ph2, ln, ar, sc, dm)
<1>1. IdleAtTheEnd(s, e, ph2) /\ ChainIsKnown(s, e, ph2, ln, ar) /\ SidecarIsSound(s, e, ph2, ln, sc)
      /\ ReceiptsAreOnFile(s, e, sc, dm)
  BY DEF Sound, IdleAtTheEnd, ChainIsKnown, SidecarIsSound, ReceiptsAreOnFile, IsGone
<1>2. HeadsAreReal(s, e, ph2, ln, sc)
  <2>1. ASSUME NEW h \in Heads, HeadIsReal(s, h, d, ph, ln, sc)
        PROVE  HeadIsReal(s, h, e, ph2, ln, sc)
    BY <2>1, HeadFacts DEF HeadIsReal, GoneForGood
  <2>2. e.inflight # None => e.inflight \in Heads
    BY DEF Driver
  <2>3. e.inflight # None => HeadIsReal(s, e.inflight, e, ph2, ln, sc)
    BY <2>1, <2>2 DEF Sound, HeadsAreReal
  <2>4. \A i \in DOMAIN d.queue : d.queue[i] \in Heads
    BY DEF Driver
  <2>5. \A i \in DOMAIN d.queue : d.queue[i].of # s /\ HeadIsReal(s, d.queue[i], e, ph2, ln, sc)
    BY <2>1, <2>4 DEF Sound, HeadsAreReal
  <2>6. \A i \in DOMAIN <<>> : FALSE
    OBVIOUS
  <2> QED
    BY <2>3, <2>5, <2>6 DEF HeadsAreReal
<1>3. HeadIsAccountedFor(s, e, ph2, sc, dm)
  <2>0. d.count \in Nat /\ e.tried \in Nat
    BY CountIsNat DEF Driver
  <2>1. e.tried < d.count => e.tried <= d.count /\ e.tried # d.count
    BY <2>0
  <2> QED
    BY <2>1 DEF Sound, HeadIsAccountedFor, IsGone
<1> QED
  BY <1>1, <1>2, <1>3 DEF Sound

\* The recorder of s is done with the head f it had in flight: its sidecar, or
\* that of a recorder that is gone, is given the line.
LEMMA FinishIsSound ==
  ASSUME NEW s \in Sessions, NEW d \in Driver, NEW e \in Driver, NEW f \in Heads, NEW line \in SidecarLines,
         NEW ph, NEW ph2, NEW ln, NEW ar, NEW sc \in [Sessions -> Seq(SidecarLines)], NEW sc2,
         NEW dm \in SUBSET Sessions, NEW dm2,
         ln[s] \in Nat, Sound(s, d, ph, ln, ar, sc, dm), GoneForGood(ph, ph2, ln, ln),
         ph[s] \in {"open", "closing"}, ph2[s] \in {"open", "closing", "ending"},
         d.inflight = f, line.count = f.count, Written(f.of, line, sc, sc2, dm, dm2),
         e.count = d.count, e.broken = d.broken, e.tried = d.tried, e.inflight = None, e.queue \in {d.queue, <<>>},
         \/ e.receipts = d.receipts /\ e.ok = d.ok
         \/ /\ f.of = s /\ line.result = "ok"
            /\ e.receipts = d.receipts \cup {f.count} /\ e.ok \in {d.ok, f.count}
  PROVE  Sound(s, e, ph2, ln, ar, sc2, dm2)
<1>0. /\ ~IsGone(ph, s) /\ ~IsGone(ph2, s) /\ f # None /\ f.of \in Sessions
      /\ d.count \in Nat /\ f.count \in Nat /\ d.count <= ln[s]
  BY HeadFacts, CountIsNat DEF Driver, Sound, ChainIsKnown, IsGone
<1>w. /\ dm \subseteq dm2
      /\ \A t \in Sessions : t # f.of => sc2[t] = sc[t]
      /\ \A t \in Sessions : \A n : HasLine(sc[t], n) => HasLine(sc2[t], n)
      /\ \A t \in Sessions : \A n : HasReceipt(sc[t], n) => HasReceipt(sc2[t], n)
      /\ f.of \in dm2 \/ HasLine(sc2[f.of], line.count)
      /\ line.result = "ok" => f.of \in dm2 \/ HasReceipt(sc2[f.of], line.count)
      /\ \A n : UpTo(sc[f.of], n) /\ NotBeyond(line, n) => UpTo(sc2[f.of], n)
      /\ Rising(sc[f.of]) /\ UpTo(sc[f.of], line.count) => Rising(sc2[f.of])
  <2>1. WriteDone(f.of, line, sc, sc2, dm, dm2)
    BY <1>0, WrittenFacts
  <2> QED
    BY <2>1 DEF WriteDone
<1>f. HeadIsReal(s, f, d, ph, ln, sc)
  BY <1>0 DEF Sound, HeadsAreReal
<1>1. IdleAtTheEnd(s, e, ph2) /\ ChainIsKnown(s, e, ph2, ln, ar)
  BY <1>0 DEF Sound, IdleAtTheEnd, ChainIsKnown, IsGone
<1>2. HeadsAreReal(s, e, ph2, ln, sc2)
  <2>1. \A i \in DOMAIN d.queue : d.queue[i] \in Heads
    BY DEF Driver
  <2>2. \A i \in DOMAIN d.queue : d.queue[i].of # s /\ HeadIsReal(s, d.queue[i], e, ph2, ln, sc2)
    BY <2>1, HeadFacts DEF Sound, HeadsAreReal, HeadIsReal, GoneForGood
  <2>3. \A i \in DOMAIN <<>> : FALSE
    OBVIOUS
  <2> QED
    BY <2>2, <2>3 DEF HeadsAreReal
<1>3. SidecarIsSound(s, e, ph2, ln, sc2)
  <2>1. CASE f.of # s
    BY <1>0, <1>w, <2>1 DEF Sound, SidecarIsSound
  <2>2. CASE f.of = s
    <3>1. f.count <= d.count /\ UpTo(sc[s], f.count)
      BY <1>f, <2>2 DEF HeadIsReal
    <3>2. NotBeyond(line, d.count) /\ NotBeyond(line, ln[s])
      BY <1>0, <3>1 DEF NotBeyond
    <3>3. UpTo(sc[s], ln[s]) /\ UpTo(sc[s], d.count) /\ Rising(sc[s])
      BY <1>0 DEF Sound, SidecarIsSound
    <3> QED
      BY <1>0, <1>w, <2>2, <3>1, <3>2, <3>3 DEF SidecarIsSound
  <2> QED
    BY <2>1, <2>2
<1>4. ReceiptsAreOnFile(s, e, sc2, dm2)
  <2>1. \A r \in d.receipts : r <= d.count /\ (s \in dm2 \/ HasReceipt(sc2[s], r))
    BY <1>w DEF Sound, ReceiptsAreOnFile
  <2>2. d.ok = 0 \/ d.ok \in d.receipts \/ d.ok + Remembered <= d.count
    BY DEF Sound, ReceiptsAreOnFile
  <2>3. CASE e.receipts = d.receipts /\ e.ok = d.ok
    BY <2>1, <2>2, <2>3 DEF ReceiptsAreOnFile
  <2>4. CASE f.of = s /\ line.result = "ok" /\ e.receipts = d.receipts \cup {f.count} /\ e.ok \in {d.ok, f.count}
    <3>1. f.count <= d.count /\ (s \in dm2 \/ HasReceipt(sc2[s], f.count))
      BY <1>f, <1>w, <2>4 DEF HeadIsReal
    <3> QED
      BY <2>1, <2>2, <2>4, <3>1 DEF ReceiptsAreOnFile
  <2> QED
    BY <2>3, <2>4
<1>5. HeadIsAccountedFor(s, e, ph2, sc2, dm2)
  <2>1. d.tried <= d.count /\ ph2[s] # "closed"
    BY <1>0 DEF Sound, HeadIsAccountedFor
  <2>2. ASSUME d.tried = d.count, d.count > 0 PROVE s \in dm2 \/ HasLine(sc2[s], d.count)
    <3>1. f = [of |-> s, count |-> d.count] \/ s \in dm \/ HasLine(sc[s], d.count)
      BY <1>0, <2>2 DEF Sound, HeadIsAccountedFor
    <3>2. CASE f = [of |-> s, count |-> d.count]
      BY <1>w, <3>2
    <3> QED
      BY <1>w, <3>1, <3>2
  <2> QED
    BY <2>1, <2>2 DEF HeadIsAccountedFor
<1> QED
  BY <1>1, <1>2, <1>3, <1>4, <1>5 DEF Sound

\* Heads that recorders other than s left when they ended.
Left(s, heads, ph, ln) ==
  \A i \in DOMAIN heads : heads[i].of # s /\ IsGone(ph, heads[i].of) /\ heads[i].count = ln[heads[i].of]

\* The catch-up adds to the queue what recorders that are gone have left.
LEMMA QueueIsSound ==
  ASSUME NEW s \in Sessions, NEW d \in Driver, NEW e \in Driver, NEW heads \in Seq(Heads),
         NEW ph, NEW ln, NEW ar, NEW sc, NEW dm, Sound(s, d, ph, ln, ar, sc, dm),
         Left(s, heads, ph, ln), e = [d EXCEPT !.catchUpDue = FALSE, !.queue = @ \o heads]
  PROVE  Sound(s, e, ph, ln, ar, sc, dm)
<1>1. /\ e.count = d.count /\ e.broken = d.broken /\ e.tried = d.tried /\ e.inflight = d.inflight /\ e.ok = d.ok
      /\ e.receipts = d.receipts /\ e.queue = d.queue \o heads /\ d.queue \in Seq(Heads)
  BY DEF Driver
<1>2. IdleAtTheEnd(s, e, ph) /\ ChainIsKnown(s, e, ph, ln, ar) /\ SidecarIsSound(s, e, ph, ln, sc)
      /\ ReceiptsAreOnFile(s, e, sc, dm) /\ HeadIsAccountedFor(s, e, ph, sc, dm)
  BY <1>1 DEF Sound, IdleAtTheEnd, ChainIsKnown, SidecarIsSound, ReceiptsAreOnFile, HeadIsAccountedFor
<1>3. HeadsAreReal(s, e, ph, ln, sc)
  <2>1. \A i \in DOMAIN e.queue : \/ i \in DOMAIN d.queue /\ e.queue[i] = d.queue[i]
                                  \/ i - Len(d.queue) \in DOMAIN heads /\ e.queue[i] = heads[i - Len(d.queue)]
    BY <1>1
  <2>2. \A i \in DOMAIN d.queue : d.queue[i].of # s /\ HeadIsReal(s, d.queue[i], e, ph, ln, sc)
    BY <1>1 DEF Sound, HeadsAreReal, HeadIsReal
  <2>3. \A i \in DOMAIN heads : heads[i].of # s /\ HeadIsReal(s, heads[i], e, ph, ln, sc)
    BY DEF HeadIsReal, Left
  <2>4. e.inflight # None => HeadIsReal(s, e.inflight, e, ph, ln, sc)
    BY <1>1 DEF Sound, HeadsAreReal, HeadIsReal
  <2> QED
    BY <2>1, <2>2, <2>3, <2>4 DEF HeadsAreReal
<1> QED
  BY <1>2, <1>3 DEF Sound

----------------------------------------------------------------------------
\* The parts of a step

Phases == {"new", "open", "closing", "ending", "closed", "dead"}

LEMMA StateFacts ==
  ASSUME TypeOK, NEW s \in Sessions
  PROVE  /\ driver[s] \in Driver /\ phase[s] \in Phases
         /\ lines[s] \in Counts /\ lines[s] \in Nat
         /\ sidecar \in [Sessions -> Seq(SidecarLines)] /\ damaged \in SUBSET Sessions
BY CountIsNat DEF TypeOK, Phases

LEMMA SetDriverFacts ==
  ASSUME TypeOK, NEW s \in Sessions, NEW e \in Driver, SetDriver(s, e)
  PROVE  /\ driver' \in [Sessions -> Driver]
         /\ driver'[s] = e
         /\ \A t \in Sessions : t # s => driver'[t] = driver[t]
BY DEF TypeOK, SetDriver

LEMMA UnchangedExtends ==
  ASSUME NEW s, NEW n, NEW sc, NEW sc2, NEW dm, NEW dm2, sc2[s] = sc[s], s \in dm => s \in dm2
  PROVE  Extended(s, n, sc, sc2, dm, dm2)
BY DEF Extended

\* Every session is sound after a step of the recorder of s.
LEMMA AllStaySound ==
  ASSUME TypeOK, SessionsAreSound, NEW s \in Sessions, NEW e \in Driver, SetDriver(s, e),
         GoneForGood(phase, phase', lines, lines'),
         \A t \in Sessions : t # s => /\ phase'[t] = phase[t] /\ lines'[t] = lines[t] /\ args'[t] = args[t]
                                      /\ Extended(t, lines[t], sidecar, sidecar', damaged, damaged')
                                      /\ sidecar'[t] = sidecar[t] \/ IsGone(phase, t),
         Sound(s, e, phase', lines', args', sidecar', damaged')
  PROVE  SessionsAreSound'
<1> SUFFICES ASSUME NEW t \in Sessions
             PROVE  Sound(t, driver'[t], phase', lines', args', sidecar', damaged')
  BY DEF SessionsAreSound
<1>1. CASE t = s
  BY <1>1, SetDriverFacts
<1>2. CASE t # s
  <2>1. driver'[t] = driver[t] /\ driver[t] \in Driver /\ Sound(t, driver[t], phase, lines, args, sidecar, damaged)
    BY <1>2, SetDriverFacts, StateFacts DEF SessionsAreSound
  <2> QED
    BY <1>2, <2>1, OthersStaySound
<1> QED
  BY <1>1, <1>2

\* Nobody is told anything, and whoever still waits has reason to.
LEMMA NobodyIsForgotten ==
  ASSUME NoForgottenWaiter, TypeOK,
         \A c \in Callers : wait'[c] # None =>
           /\ wait'[c] = wait[c]
           /\ phase'[wait[c].of] \in {"open", "closing", "ending"}
           /\ driver'[wait[c].of].ok = driver[wait[c].of].ok
           /\ driver'[wait[c].of].stopped => driver[wait[c].of].stopped
  PROVE  NoForgottenWaiter'
<1> SUFFICES ASSUME NEW c \in Callers, wait'[c] # None
             PROVE  /\ wait'[c].of \in Live'
                    /\ wait'[c].count > driver'[wait'[c].of].ok
                    /\ ~driver'[wait'[c].of].stopped
  BY DEF NoForgottenWaiter
<1>1. wait[c] \in Heads /\ wait'[c] = wait[c]
  BY DEF TypeOK
<1>2. wait[c].of \in Sessions
  BY <1>1, HeadFacts
<1> QED
  BY <1>1, <1>2 DEF NoForgottenWaiter, Live

\* A step in which one driver moves, its recorder runs, and no file changes.
LEMMA DriverStep ==
  ASSUME TrialInv, NEW s \in Sessions, NEW e \in Driver, SetDriver(s, e),
         told' = {}, UNCHANGED <<files, sidecar, damaged, faults, wait>>,
         phase' \in [Sessions -> Phases], \A t \in Sessions : t # s => phase'[t] = phase[t],
         ~IsGone(phase, s), phase'[s] \in {"open", "closing"},
         e.ok = driver[s].ok, e.stopped = driver[s].stopped,
         Sound(s, e, phase', lines, args, sidecar, damaged)
  PROVE  TrialInv'
<1>0. TypeOK /\ SessionsAreSound /\ NoForgottenWaiter
  BY DEF TrialInv
<1>1. TypeOK'
  BY <1>0, SetDriverFacts DEF TypeOK, files, Phases
<1>2. SessionsAreSound'
  <2>1. UNCHANGED <<lines, args, sidecar, damaged>>
    BY DEF files
  <2>2. GoneForGood(phase, phase', lines, lines')
    BY <2>1 DEF GoneForGood, IsGone
  <2>3. \A t \in Sessions : Extended(t, lines[t], sidecar, sidecar', damaged, damaged')
    BY <2>1, UnchangedExtends
  <2> QED
    BY <1>0, <2>1, <2>2, <2>3, AllStaySound
<1>3. AnswersAreWitnessed'
  BY DEF AnswersAreWitnessed
<1>4. NoForgottenWaiter'
  <2>1. ASSUME NEW c \in Callers, wait[c] # None
        PROVE  /\ phase'[wait[c].of] \in {"open", "closing", "ending"}
               /\ driver'[wait[c].of].ok = driver[wait[c].of].ok
               /\ driver'[wait[c].of].stopped => driver[wait[c].of].stopped
    <3>1. wait[c].of \in Live
      BY <1>0, <2>1 DEF NoForgottenWaiter
    <3> QED
      BY <1>0, <3>1, SetDriverFacts DEF Live
  <2> QED
    BY <1>0, <2>1, NobodyIsForgotten
<1> QED
  BY <1>1, <1>2, <1>3, <1>4 DEF TrialInv

----------------------------------------------------------------------------
\* Steps of the driver

LEMMA TouchedFacts ==
  ASSUME TypeOK, NEW s \in Sessions, Touched(s)
  PROVE  quiet' \subseteq Sessions /\ newer' \in [Sessions -> SUBSET Sessions]
BY DEF TypeOK, Touched

LEMMA SessionFacts ==
  ASSUME TrialInv, NEW s \in Sessions
  PROVE  Sound(s, driver[s], phase, lines, args, sidecar, damaged)
BY DEF TrialInv, SessionsAreSound

LEMMA OpenStep ==
  ASSUME TrialInv, NEW s \in Sessions, Quietly, Open(s)
  PROVE  TrialInv'
<1>1. TypeOK /\ driver[s] \in Driver /\ Sound(s, driver[s], phase, lines, args, sidecar, damaged)
  BY SessionFacts, StateFacts DEF TrialInv
<1>2. /\ phase' \in [Sessions -> Phases] /\ (\A t \in Sessions : t # s => phase'[t] = phase[t])
      /\ ~IsGone(phase, s) /\ phase'[s] = "open"
  BY <1>1 DEF Open, TypeOK, Phases, IsGone
<1>3. SetDriver(s, driver[s])
  BY <1>1 DEF Open, TypeOK, SetDriver
<1>4. GoneForGood(phase, phase', lines, lines)
  BY <1>2 DEF GoneForGood, IsGone
<1>5. Sound(s, driver[s], phase', lines, args, sidecar, damaged)
  BY <1>1, <1>2, <1>4, StaysSound
<1> QED
  BY <1>1, <1>2, <1>3, <1>5, DriverStep DEF Open, Quietly

LEMMA ImmediateStep ==
  ASSUME TrialInv, NEW s \in Sessions, Quietly, Immediate(s)
  PROVE  TrialInv'
<1> DEFINE d == [driver[s] EXCEPT !.scheduled = FALSE]
<1>1. TypeOK /\ driver[s] \in Driver /\ Sound(s, driver[s], phase, lines, args, sidecar, damaged)
  BY SessionFacts, StateFacts DEF TrialInv
<1>2. /\ d \in Driver /\ d.count = driver[s].count /\ d.broken = driver[s].broken /\ d.inflight = driver[s].inflight
      /\ d.ok = driver[s].ok /\ d.receipts = driver[s].receipts /\ d.queue = driver[s].queue
      /\ d.tried = driver[s].tried /\ d.stopped = driver[s].stopped
  BY <1>1 DEF Driver
<1>3. SetDriver(s, Pump(s, d)) /\ phase[s] \in {"open", "closing"} /\ phase' = phase
  BY DEF Immediate
<1> HIDE DEF d
<1>4. GoneForGood(phase, phase, lines, lines)
  BY DEF GoneForGood
<1>5. Sound(s, d, phase, lines, args, sidecar, damaged)
  BY <1>1, <1>2, <1>4, StaysSound
<1>6. Sound(s, Pump(s, d), phase, lines, args, sidecar, damaged) /\ Pumped(s, d, Pump(s, d))
  BY <1>2, <1>3, <1>5, PumpIsSound, PumpIsPumped
<1>7. Pump(s, d) \in Driver /\ Pump(s, d).ok = driver[s].ok /\ Pump(s, d).stopped = driver[s].stopped
  BY <1>2, <1>6 DEF Pumped
<1>8. phase' \in [Sessions -> Phases] /\ ~IsGone(phase, s)
  BY <1>1, <1>3 DEF TypeOK, Phases, IsGone
<1> QED
  BY <1>3, <1>6, <1>7, <1>8, DriverStep DEF Immediate, Quietly

\* What the catch-up finds are the last heads of recorders that are gone.
LEMMA FoundHeads ==
  ASSUME TrialInv, NEW s \in Sessions, NEW heads \in CatchUpHeads(s)
  PROVE  heads \in Seq(Heads) /\ Left(s, heads, phase, lines)
<1> DEFINE looked == {x \in Sessions \ {s} : Cardinality(newer[x] \ {s}) < CatchUpChains}
           needed == {x \in looked : NeedsCatchUp(x)}
           queued == {x \in needed : Cardinality(newer[x] \cap needed) < CatchUpPosts}
<1>1. heads \in Seq(Heads)
  <2>1. IsFiniteSet(Sessions)
    BY TrialAssumption, FS_Interval DEF Sessions
  <2>2. Cardinality(queued) \in Nat
    BY <2>1, FS_Subset, FS_CardinalityType
  <2>3. heads \in [1 .. Cardinality(queued) -> Heads]
    BY DEF CatchUpHeads
  <2> HIDE DEF queued
  <2> QED
    BY <2>2, <2>3
<1>2. \A i \in DOMAIN heads : heads[i].of \in Sessions \ {s} /\ NeedsCatchUp(heads[i].of) /\ heads[i].count = lines[heads[i].of]
  BY DEF CatchUpHeads
<1>3. ASSUME NEW x \in Sessions, NeedsCatchUp(x)
      PROVE  IsGone(phase, x)
  <2>1. phase[x] \in Phases /\ lines[x] > 0 /\ x \notin Live
    BY <1>3, StateFacts DEF TrialInv, NeedsCatchUp, LockIsLive
  <2>2. phase[x] = "new" => lines[x] = 0
    BY SessionFacts DEF Sound, ChainIsKnown
  <2> QED
    BY <2>1, <2>2 DEF Live, Phases, IsGone
<1> QED
  BY <1>1, <1>2, <1>3 DEF Left

LEMMA RunCatchUpStep ==
  ASSUME TrialInv, NEW s \in Sessions, Quietly, RunCatchUp(s)
  PROVE  TrialInv'
<1>1. TypeOK /\ driver[s] \in Driver /\ Sound(s, driver[s], phase, lines, args, sidecar, damaged)
  BY SessionFacts, StateFacts DEF TrialInv
<1>2. PICK heads \in CatchUpHeads(s) :
        SetDriver(s, IF heads = <<>> THEN [driver[s] EXCEPT !.catchUpDue = FALSE, !.queue = @ \o heads]
                     ELSE Pump(s, [driver[s] EXCEPT !.catchUpDue = FALSE, !.queue = @ \o heads]))
  BY DEF RunCatchUp
<1>d. PICK d : d = [driver[s] EXCEPT !.catchUpDue = FALSE, !.queue = @ \o heads]
  OBVIOUS
<1>3. heads \in Seq(Heads)
  BY FoundHeads
<1>4. d \in Driver /\ d.ok = driver[s].ok /\ d.stopped = driver[s].stopped
  <2>1. driver[s].queue \o heads \in Seq(Heads)
    BY <1>1, <1>3 DEF Driver
  <2> QED
    BY <1>1, <1>d, <2>1 DEF Driver
<1>5. phase[s] \in {"open", "closing"} /\ phase' = phase
  BY DEF RunCatchUp
<1>6. Sound(s, d, phase, lines, args, sidecar, damaged)
  <2>1. Left(s, heads, phase, lines)
    BY FoundHeads
  <2> QED
    BY <1>1, <1>3, <1>4, <1>d, <2>1, QueueIsSound
<1>7. Sound(s, Pump(s, d), phase, lines, args, sidecar, damaged) /\ Pumped(s, d, Pump(s, d))
  BY <1>4, <1>5, <1>6, PumpIsSound, PumpIsPumped
<1>8. PICK e \in Driver : /\ SetDriver(s, e) /\ e.ok = driver[s].ok /\ e.stopped = driver[s].stopped
                          /\ Sound(s, e, phase, lines, args, sidecar, damaged)
  BY <1>2, <1>4, <1>6, <1>7, <1>d DEF Pumped
<1>9. phase' \in [Sessions -> Phases] /\ ~IsGone(phase, s)
  BY <1>1, <1>5 DEF TypeOK, Phases, IsGone
<1> QED
  BY <1>5, <1>8, <1>9, DriverStep DEF RunCatchUp, Quietly

LEMMA CloseStep ==
  ASSUME TrialInv, NEW s \in Sessions, Quietly, Close(s)
  PROVE  TrialInv'
<1>1. TypeOK /\ driver[s] \in Driver /\ Sound(s, driver[s], phase, lines, args, sidecar, damaged)
  BY SessionFacts, StateFacts DEF TrialInv
<1>2. PICK d : /\ SetDriver(s, Pump(s, d))
               /\ \/ d = [driver[s] EXCEPT !.queue = <<>>]
                  \/ /\ driver[s].ok < driver[s].count
                     /\ d = [driver[s] EXCEPT !.queue = <<>>, !.tried = driver[s].count - 1]
  <2>1. CASE driver[s].ok < driver[s].count /\ driver[s].tried >= driver[s].count
             /\ driver[s].inflight # [of |-> s, count |-> driver[s].count]
    <3>1. SetDriver(s, Pump(s, [driver[s] EXCEPT !.queue = <<>>, !.tried = driver[s].count - 1]))
      BY <1>1, <2>1 DEF Close, Driver
    <3> QED
      BY <2>1, <3>1
  <2>2. CASE ~(driver[s].ok < driver[s].count /\ driver[s].tried >= driver[s].count
               /\ driver[s].inflight # [of |-> s, count |-> driver[s].count])
    <3>1. SetDriver(s, Pump(s, [driver[s] EXCEPT !.queue = <<>>]))
      BY <1>1, <2>2 DEF Close, Driver
    <3> QED
      BY <3>1
  <2> QED
    BY <2>1, <2>2
<1>3. /\ d \in Driver /\ d.count = driver[s].count /\ d.broken = driver[s].broken /\ d.inflight = driver[s].inflight
      /\ d.ok = driver[s].ok /\ d.receipts = driver[s].receipts /\ d.queue = <<>>
      /\ d.tried = driver[s].tried \/ d.tried < driver[s].count
      /\ d.stopped = driver[s].stopped
  <2>1. /\ driver[s].count \in Counts /\ driver[s].count \in Nat /\ driver[s].ok \in Nat
        /\ driver[s].queue \in Seq(Heads)
    BY <1>1, CountIsNat DEF Driver
  <2>2. driver[s].ok < driver[s].count => driver[s].count - 1 \in Counts /\ driver[s].count - 1 < driver[s].count
    BY <2>1, CountBefore
  <2>3. <<>> \in Seq(Heads)
    OBVIOUS
  <2>4. CASE d = [driver[s] EXCEPT !.queue = <<>>]
    BY <1>1, <2>3, <2>4 DEF Driver
  <2>5. CASE driver[s].ok < driver[s].count /\ d = [driver[s] EXCEPT !.queue = <<>>, !.tried = driver[s].count - 1]
    BY <1>1, <2>2, <2>3, <2>5 DEF Driver
  <2> QED
    BY <1>2, <2>4, <2>5
<1>4. /\ phase' \in [Sessions -> Phases] /\ (\A t \in Sessions : t # s => phase'[t] = phase[t])
      /\ ~IsGone(phase, s) /\ phase'[s] = "closing"
  BY <1>1 DEF Close, TypeOK, Phases, IsGone
<1>5. GoneForGood(phase, phase', lines, lines)
  BY <1>4 DEF GoneForGood, IsGone
<1>6. Sound(s, d, phase', lines, args, sidecar, damaged)
  BY <1>1, <1>3, <1>4, <1>5, StaysSound
<1>7. Sound(s, Pump(s, d), phase', lines, args, sidecar, damaged) /\ Pumped(s, d, Pump(s, d))
  BY <1>3, <1>4, <1>6, PumpIsSound, PumpIsPumped
<1>8. Pump(s, d) \in Driver /\ Pump(s, d).ok = driver[s].ok /\ Pump(s, d).stopped = driver[s].stopped
  BY <1>3, <1>7 DEF Pumped
<1> QED
  BY <1>2, <1>4, <1>7, <1>8, DriverStep DEF Close, Quietly

----------------------------------------------------------------------------
\* Time, and those who wait

LEMMA NothingOnFile ==
  ASSUME SessionsAreSound, UNCHANGED <<driver, phase, lines, args, sidecar, damaged>>
  PROVE  SessionsAreSound'
BY DEF SessionsAreSound

LEMMA GoesQuietStep ==
  ASSUME TrialInv, NEW s \in Sessions, Quietly, GoesQuiet(s)
  PROVE  TrialInv'
<1>1. TypeOK'
  BY DEF TrialInv, TypeOK, GoesQuiet, Quietly
<1>2. SessionsAreSound'
  BY NothingOnFile DEF TrialInv, GoesQuiet
<1>3. AnswersAreWitnessed'
  BY DEF AnswersAreWitnessed, Quietly
<1>4. NoForgottenWaiter'
  BY DEF TrialInv, NoForgottenWaiter, GoesQuiet, Live
<1> QED
  BY <1>1, <1>2, <1>3, <1>4 DEF TrialInv

LEMMA MidnightStep ==
  ASSUME TrialInv, Quietly, Midnight
  PROVE  TrialInv'
<1>0. TypeOK /\ SessionsAreSound /\ NoForgottenWaiter
  BY DEF TrialInv
<1>1. ASSUME NEW t \in Sessions
      PROVE  /\ driver'[t] \in Driver /\ driver[t] \in Driver
             /\ driver'[t].count = driver[t].count /\ driver'[t].broken = driver[t].broken
             /\ driver'[t].inflight = driver[t].inflight /\ driver'[t].ok = driver[t].ok
             /\ driver'[t].receipts = driver[t].receipts /\ driver'[t].queue = driver[t].queue
             /\ driver'[t].tried = driver[t].tried /\ ~driver'[t].stopped
  <2>1. driver[t] \in Driver /\ driver'[t] = [driver[t] EXCEPT !.stopped = FALSE]
    BY <1>0, StateFacts DEF Midnight
  <2> QED
    BY <2>1 DEF Driver
<1>2. TypeOK'
  <2>1. driver' \in [Sessions -> Driver]
    BY <1>1 DEF Midnight
  <2> QED
    BY <1>0, <2>1 DEF TypeOK, Midnight, Quietly, files
<1>3. SessionsAreSound'
  <2>1. UNCHANGED <<phase, lines, args, sidecar, damaged>>
    BY DEF Midnight, files
  <2>2. GoneForGood(phase, phase, lines, lines)
    BY DEF GoneForGood
  <2> SUFFICES ASSUME NEW t \in Sessions PROVE Sound(t, driver'[t], phase, lines, args, sidecar, damaged)
    BY <2>1 DEF SessionsAreSound
  <2>3. Sound(t, driver[t], phase, lines, args, sidecar, damaged)
    BY <1>0 DEF SessionsAreSound
  <2> QED
    BY <1>1, <2>2, <2>3, StaysSound
<1>4. AnswersAreWitnessed'
  BY DEF AnswersAreWitnessed, Quietly
<1>5. NoForgottenWaiter'
  <2> SUFFICES ASSUME NEW c \in Callers, wait'[c] # None
               PROVE  /\ wait'[c] = wait[c]
                      /\ phase'[wait[c].of] \in {"open", "closing", "ending"}
                      /\ driver'[wait[c].of].ok = driver[wait[c].of].ok
                      /\ driver'[wait[c].of].stopped => driver[wait[c].of].stopped
    BY <1>0, NobodyIsForgotten
  <2>1. wait'[c] = wait[c] /\ phase' = phase
    BY DEF Midnight
  <2>2. wait[c].of \in Live
    BY <1>0, <2>1 DEF NoForgottenWaiter
  <2> QED
    BY <1>1, <2>1, <2>2 DEF Live
<1> QED
  BY <1>2, <1>3, <1>4, <1>5 DEF TrialInv

LEMMA SettleFacts ==
  ASSUME TypeOK, NEW done, Settle(done)
  PROVE  /\ wait' \in [Callers -> Heads \cup {None}]
         /\ \A c \in Callers : wait'[c] = IF c \in done THEN None ELSE wait[c]
BY DEF TypeOK, Settle

LEMMA WaiterTimesOutStep ==
  ASSUME TrialInv, NEW c \in Callers, Quietly, WaiterTimesOut(c)
  PROVE  TrialInv'
<1>1. TypeOK'
  BY SettleFacts DEF TrialInv, TypeOK, WaiterTimesOut, Quietly, files
<1>2. SessionsAreSound'
  BY NothingOnFile DEF TrialInv, WaiterTimesOut, files
<1>3. AnswersAreWitnessed'
  BY DEF AnswersAreWitnessed, Quietly
<1>4. NoForgottenWaiter'
  <2>1. \A b \in Callers : wait'[b] = IF b \in {c} THEN None ELSE wait[b]
    BY SettleFacts DEF TrialInv, WaiterTimesOut
  <2>2. UNCHANGED <<phase, driver>>
    BY DEF WaiterTimesOut
  <2> QED
    BY <2>1, <2>2 DEF TrialInv, NoForgottenWaiter, Live
<1> QED
  BY <1>1, <1>2, <1>3, <1>4 DEF TrialInv

LEMMA LeastOf ==
  ASSUME NEW T \in SUBSET Nat, T # {}
  PROVE  \E n \in T : \A q \in T : n <= q
<1>1. PICK n \in T : \A q \in T : ~(<<q, n>> \in OpToRel(<, Nat))
  BY NatLessThanWellFounded, WFMin
<1>2. \A q \in T : ~(q < n)
  BY <1>1 DEF OpToRel
<1> QED
  BY <1>2

LEMMA AwaitWitnessStep ==
  ASSUME TrialInv, NEW c \in Callers, NEW s \in Sessions, NEW n \in Counts, AwaitWitness(c, s, n)
  PROVE  TrialInv'
<1> DEFINE hits == {r \in driver[s].receipts : r >= n}
           first == CHOOSE r \in hits : \A q \in hits : r <= q
<1>0. /\ TypeOK /\ NoForgottenWaiter /\ driver[s] \in Driver /\ n \in Nat /\ n > 0
      /\ driver[s].count \in Nat /\ driver[s].ok \in Nat /\ driver[s].receipts \subseteq Counts
      /\ n <= driver[s].count /\ n > driver[s].count - Remembered
  BY StateFacts, CountIsNat DEF TrialInv, AwaitWitness, Known, Driver
<1>s. Sound(s, driver[s], phase, lines, args, sidecar, damaged)
  BY SessionFacts
<1>u. UNCHANGED <<phase, lines, args, quiet, newer, sidecar, damaged, faults, driver>>
  BY DEF AwaitWitness, files
<1>1. SessionsAreSound'
  BY <1>u, NothingOnFile DEF TrialInv
<1>2. CASE hits # {} /\ told' = {[of |-> s, count |-> n, covering |-> first]} /\ UNCHANGED wait
  <2>1. hits \in SUBSET Nat
    BY <1>0, CountIsNat
  <2>2. first \in driver[s].receipts /\ first >= n /\ first \in Counts
    <3>1. \E r \in hits : \A q \in hits : r <= q
      BY <1>2, <2>1, LeastOf
    <3>2. first \in hits
      BY <3>1
    <3> QED
      BY <1>0, <3>2
  <2> HIDE DEF first
  <2>3. TypeOK'
    BY <1>0, <1>2, <1>u, <2>2 DEF TypeOK
  <2>4. first <= lines[s] /\ (s \in damaged \/ HasReceipt(sidecar[s], first))
    <3>1. first <= driver[s].count /\ driver[s].count <= lines[s] /\ (s \in damaged \/ HasReceipt(sidecar[s], first))
      BY <1>s, <2>2 DEF Sound, ReceiptsAreOnFile, ChainIsKnown
    <3>2. lines[s] \in Nat /\ first \in Nat
      BY <1>0, <2>2, StateFacts, CountIsNat
    <3> QED
      BY <1>0, <3>1, <3>2
  <2>5. AnswersAreWitnessed'
    BY <1>0, <1>2, <1>u, <2>2, <2>4 DEF AnswersAreWitnessed, HasReceipt
  <2>6. NoForgottenWaiter'
    BY <1>0, <1>2, <1>u DEF NoForgottenWaiter, Live
  <2> QED
    BY <1>1, <2>3, <2>5, <2>6 DEF TrialInv
<1>3. CASE hits = {} /\ ~driver[s].stopped /\ wait' = [wait EXCEPT ![c] = [of |-> s, count |-> n]] /\ told' = {}
  <2>1. [of |-> s, count |-> n] \in Heads
    BY <1>0 DEF Heads
  <2>2. TypeOK'
    BY <1>0, <1>3, <1>u, <2>1 DEF TypeOK
  <2>3. AnswersAreWitnessed'
    BY <1>3 DEF AnswersAreWitnessed
  <2>4. n > driver[s].ok
    <3>1. driver[s].ok = 0 \/ driver[s].ok \in driver[s].receipts \/ driver[s].ok + Remembered <= driver[s].count
      BY <1>s DEF Sound, ReceiptsAreOnFile
    <3>2. driver[s].ok \in driver[s].receipts => driver[s].ok < n
      BY <1>0, <1>3
    <3> QED
      BY <1>0, <3>1, <3>2, TrialAssumption
  <2>5. s \in Live
    BY DEF AwaitWitness, Live
  <2>6. NoForgottenWaiter'
    <3> SUFFICES ASSUME NEW b \in Callers, wait'[b] # None
                 PROVE  wait'[b].of \in Live /\ wait'[b].count > driver[wait'[b].of].ok /\ ~driver[wait'[b].of].stopped
      BY <1>u DEF NoForgottenWaiter, Live
    <3>1. CASE b = c
      <4>1. wait'[b] = [of |-> s, count |-> n]
        BY <1>0, <1>3, <3>1 DEF TypeOK
      <4> QED
        BY <1>3, <2>4, <2>5, <4>1
    <3>2. CASE b # c
      <4>1. wait'[b] = wait[b]
        BY <1>0, <1>3, <3>2 DEF TypeOK
      <4> QED
        BY <1>0, <4>1 DEF NoForgottenWaiter
    <3> QED
      BY <3>1, <3>2
  <2> QED
    BY <1>1, <2>2, <2>3, <2>6 DEF TrialInv
<1> QED
  BY <1>2, <1>3 DEF AwaitWitness

----------------------------------------------------------------------------
\* Steps on the chain

LEMMA MayBeLonger ==
  ASSUME NEW w \in Seq(SidecarLines), NEW m \in Nat, NEW n \in Nat, m <= n, UpTo(w, m)
  PROVE  UpTo(w, n)
<1>1. \A x \in SidecarLines : x.count \in Nat
  BY CountIsNat DEF SidecarLines
<1>2. \A i \in DOMAIN w : w[i] \in SidecarLines
  OBVIOUS
<1> QED
  BY <1>1, <1>2 DEF UpTo

\* A session whose chain grows or whose arguments change is the only one that
\* does, and is not gone.
LEMMA ChainStep ==
  ASSUME TrialInv, TypeOK', NEW s \in Sessions, NEW e \in Driver, SetDriver(s, e),
         told' = {}, UNCHANGED <<phase, sidecar, damaged, wait>>, phase[s] = "open",
         \A t \in Sessions : t # s => lines'[t] = lines[t] /\ args'[t] = args[t],
         e.ok = driver[s].ok, e.stopped = driver[s].stopped,
         Sound(s, e, phase, lines', args', sidecar, damaged)
  PROVE  TrialInv'
<1>0. TypeOK /\ SessionsAreSound /\ NoForgottenWaiter
  BY DEF TrialInv
<1>1. SessionsAreSound'
  <2>1. GoneForGood(phase, phase', lines, lines')
    BY DEF GoneForGood, IsGone
  <2>2. \A t \in Sessions : Extended(t, lines[t], sidecar, sidecar', damaged, damaged')
    BY UnchangedExtends
  <2> QED
    BY <1>0, <2>1, <2>2, AllStaySound
<1>2. AnswersAreWitnessed'
  BY DEF AnswersAreWitnessed
<1>3. NoForgottenWaiter'
  <2>1. ASSUME NEW c \in Callers, wait[c] # None
        PROVE  /\ phase'[wait[c].of] \in {"open", "closing", "ending"}
               /\ driver'[wait[c].of].ok = driver[wait[c].of].ok
               /\ driver'[wait[c].of].stopped => driver[wait[c].of].stopped
    <3>1. wait[c].of \in Live
      BY <1>0, <2>1 DEF NoForgottenWaiter
    <3> QED
      BY <1>0, <3>1, SetDriverFacts DEF Live
  <2> QED
    BY <1>0, <2>1, NobodyIsForgotten
<1> QED
  BY <1>1, <1>2, <1>3 DEF TrialInv

LEMMA RecordStep ==
  ASSUME TrialInv, NEW s \in Sessions, Quietly, Record(s)
  PROVE  TrialInv'
<1>a. PICK d, n : d = driver[s] /\ n = d.count + 1
  OBVIOUS
<1>0. /\ TypeOK /\ d \in Driver /\ d.count \in Nat /\ d.tried \in Nat /\ d.ok \in Nat /\ d.receipts \subseteq Counts
      /\ phase[s] = "open" /\ ~d.broken /\ d.count < MaxEntries[s] /\ sidecar[s] \in Seq(SidecarLines)
  BY <1>a, StateFacts, CountIsNat DEF TrialInv, Record, CanRecord, Driver
<1>s. Sound(s, d, phase, lines, args, sidecar, damaged)
  BY <1>a, SessionFacts
<1>1. n \in Counts /\ n \in Nat /\ n = d.count + 1
  BY <1>0, <1>a, TrialAssumption DEF Counts
<1>e. PICK e : e = [d EXCEPT !.count = n, !.scheduled = TRUE, !.receipts = {r \in @ : r > n - Remembered}]
  OBVIOUS
<1>2. /\ e \in Driver /\ e.count = n /\ e.broken = d.broken /\ e.inflight = d.inflight /\ e.tried = d.tried
      /\ e.queue = d.queue /\ e.ok = d.ok /\ e.stopped = d.stopped
      /\ e.receipts = {r \in d.receipts : r > n - Remembered}
  BY <1>0, <1>1, <1>e DEF Driver
<1>3. /\ SetDriver(s, e) /\ lines' = [lines EXCEPT ![s] = n] /\ args' = [args EXCEPT ![s] = @ \cup {n}]
      /\ Touched(s) /\ UNCHANGED <<phase, sidecar, damaged, faults, wait>> /\ told' = {}
  BY <1>a, <1>e DEF Record, Quietly
<1>4. /\ lines'[s] = n /\ args'[s] = args[s] \cup {n}
      /\ \A t \in Sessions : t # s => lines'[t] = lines[t] /\ args'[t] = args[t]
      /\ lines' \in [Sessions -> Counts] /\ args' \in [Sessions -> SUBSET Counts]
  BY <1>0, <1>1, <1>3 DEF TypeOK
<1>5. TypeOK'
  BY <1>0, <1>2, <1>3, <1>4, SetDriverFacts, TouchedFacts DEF TypeOK
<1>6. IdleAtTheEnd(s, e, phase) /\ ChainIsKnown(s, e, phase, lines', args')
  <2>1. 1 .. d.count \subseteq args[s]
    BY <1>s DEF Sound, ChainIsKnown
  <2>2. 1 .. n \subseteq args'[s]
    BY <1>0, <1>1, <1>4, <2>1
  <2> QED
    BY <1>0, <1>1, <1>2, <1>4, <2>2 DEF IdleAtTheEnd, ChainIsKnown
<1>7. HeadsAreReal(s, e, phase, lines', sidecar)
  <2>1. ASSUME NEW h \in Heads, HeadIsReal(s, h, d, phase, lines, sidecar)
        PROVE  HeadIsReal(s, h, e, phase, lines', sidecar)
    <3>1. h.of \in Sessions /\ h.count \in Nat
      BY HeadFacts
    <3>2. CASE h.of = s
      BY <1>0, <1>1, <1>2, <2>1, <3>1, <3>2 DEF HeadIsReal
    <3>3. CASE h.of # s
      BY <1>4, <2>1, <3>1, <3>3 DEF HeadIsReal
    <3> QED
      BY <3>2, <3>3
  <2>2. d.inflight # None => d.inflight \in Heads
    BY <1>0 DEF Driver
  <2>3. \A i \in DOMAIN d.queue : d.queue[i] \in Heads
    BY <1>0 DEF Driver
  <2>4. HeadsAreReal(s, d, phase, lines, sidecar)
    BY <1>s DEF Sound
  <2> QED
    BY <1>2, <2>1, <2>2, <2>3, <2>4 DEF HeadsAreReal
<1>8. SidecarIsSound(s, e, phase, lines', sidecar)
  <2>1. UpTo(sidecar[s], d.count) /\ Rising(sidecar[s])
    BY <1>0, <1>s DEF Sound, SidecarIsSound, IsGone
  <2>2. UpTo(sidecar[s], n)
    BY <1>0, <1>1, <2>1, MayBeLonger
  <2> QED
    BY <1>2, <1>4, <2>1, <2>2 DEF SidecarIsSound
<1>9. ReceiptsAreOnFile(s, e, sidecar, damaged)
  <2>1. /\ \A r \in d.receipts : r <= d.count /\ (s \in damaged \/ HasReceipt(sidecar[s], r))
        /\ d.ok = 0 \/ d.ok \in d.receipts \/ d.ok + Remembered <= d.count
    BY <1>s DEF Sound, ReceiptsAreOnFile
  <2>2. \A r \in d.receipts : r \in Nat
    BY <1>0, CountIsNat
  <2>3. \A r \in e.receipts : r <= n /\ (s \in damaged \/ HasReceipt(sidecar[s], r))
    BY <1>0, <1>1, <1>2, <2>1, <2>2
  <2>4. d.ok = 0 \/ d.ok \in e.receipts \/ d.ok + Remembered <= n
    BY <1>0, <1>1, <1>2, <2>1, TrialAssumption
  <2> QED
    BY <1>2, <2>3, <2>4 DEF ReceiptsAreOnFile
<1>10. HeadIsAccountedFor(s, e, phase, sidecar, damaged)
  <2>1. d.tried <= d.count
    BY <1>0, <1>s DEF Sound, HeadIsAccountedFor, IsGone
  <2>2. e.tried <= e.count /\ e.tried # e.count
    BY <1>0, <1>1, <1>2, <2>1
  <2> QED
    BY <1>0, <2>2 DEF HeadIsAccountedFor
<1>11. Sound(s, e, phase, lines', args', sidecar, damaged)
  BY <1>6, <1>7, <1>8, <1>9, <1>10 DEF Sound
<1> QED
  BY <1>0, <1>2, <1>3, <1>4, <1>5, <1>11, <1>a, ChainStep

LEMMA RecordFailsStep ==
  ASSUME TrialInv, NEW s \in Sessions, Quietly, RecordFails(s)
  PROVE  TrialInv'
<1>a. PICK d, n : d = driver[s] /\ n = d.count + 1
  OBVIOUS
<1>0. /\ TypeOK /\ d \in Driver /\ d.count \in Nat
      /\ phase[s] = "open" /\ ~d.broken /\ d.count < MaxEntries[s] /\ sidecar[s] \in Seq(SidecarLines)
  BY <1>a, StateFacts, CountIsNat DEF TrialInv, RecordFails, CanRecord, Driver
<1>s. Sound(s, d, phase, lines, args, sidecar, damaged)
  BY <1>a, SessionFacts
<1>1. n \in Counts /\ n \in Nat /\ n = d.count + 1
  BY <1>0, <1>a, TrialAssumption DEF Counts
<1>2. PICK e : /\ SetDriver(s, e)
               /\ \/ e = d /\ lines' = lines
                  \/ e = [d EXCEPT !.broken = TRUE] /\ lines' \in {lines, [lines EXCEPT ![s] = n]}
  <2>1. CASE UNCHANGED <<lines, driver>>
    <3>1. SetDriver(s, d)
      BY <1>0, <1>a, <2>1 DEF SetDriver, TypeOK
    <3> QED
      BY <2>1, <3>1
  <2>2. CASE /\ lines' \in {lines, [lines EXCEPT ![s] = n]}
             /\ SetDriver(s, [d EXCEPT !.broken = TRUE])
    BY <2>2
  <2> QED
    BY <1>a, <2>1, <2>2 DEF RecordFails
<1>3. /\ e \in Driver /\ e.count = d.count /\ e.inflight = d.inflight /\ e.tried = d.tried
      /\ e.queue = d.queue /\ e.ok = d.ok /\ e.stopped = d.stopped /\ e.receipts = d.receipts
      /\ e.broken \/ lines' = lines
  BY <1>0, <1>2 DEF Driver
<1>q. quiet' \subseteq Sessions /\ newer' \in [Sessions -> SUBSET Sessions]
  <2>1. Touched(s) \/ UNCHANGED <<quiet, newer>>
    BY <1>a DEF RecordFails
  <2> QED
    BY <1>0, <2>1, TouchedFacts DEF TypeOK
<1>4. /\ args' = [args EXCEPT ![s] = @ \ {n}] /\ told' = {}
      /\ UNCHANGED <<phase, sidecar, damaged, wait>> /\ faults' = faults + 1 /\ faults < MaxFaults
  BY <1>a DEF RecordFails, Quietly, Fault
<1>5. /\ lines' \in [Sessions -> Counts] /\ args' \in [Sessions -> SUBSET Counts]
      /\ args'[s] = args[s] \ {n} /\ lines'[s] \in {lines[s], n}
      /\ \A t \in Sessions : t # s => lines'[t] = lines[t] /\ args'[t] = args[t]
  <2>0. lines \in [Sessions -> Counts] /\ args \in [Sessions -> SUBSET Counts]
    BY <1>0 DEF TypeOK
  <2>1. /\ args' \in [Sessions -> SUBSET Counts] /\ args'[s] = args[s] \ {n}
        /\ \A t \in Sessions : t # s => args'[t] = args[t]
    BY <1>4, <2>0
  <2>2. lines' = lines \/ lines' = [lines EXCEPT ![s] = n]
    BY <1>2
  <2>3. /\ lines' \in [Sessions -> Counts] /\ lines'[s] \in {lines[s], n}
        /\ \A t \in Sessions : t # s => lines'[t] = lines[t]
    BY <1>1, <2>0, <2>2
  <2> QED
    BY <2>1, <2>3
<1>6. TypeOK'
  <2>1. faults' \in 0 .. MaxFaults
    BY <1>0, <1>4, TrialAssumption DEF TypeOK
  <2> QED
    BY <1>0, <1>2, <1>3, <1>4, <1>5, <1>q, <2>1, SetDriverFacts DEF TypeOK
<1>7. /\ lines[s] = d.count /\ d.count <= lines'[s] /\ lines'[s] \in Nat
      /\ 1 .. d.count \subseteq args'[s]
  <2>1. lines[s] = d.count /\ 1 .. d.count \subseteq args[s]
    BY <1>0, <1>s DEF Sound, ChainIsKnown, IsGone
  <2>2. n \notin 1 .. d.count
    BY <1>0, <1>1
  <2> QED
    BY <1>0, <1>1, <1>5, <2>1, <2>2
<1>8. IdleAtTheEnd(s, e, phase) /\ ChainIsKnown(s, e, phase, lines', args')
  BY <1>0, <1>3, <1>7 DEF IdleAtTheEnd, ChainIsKnown
<1>9. HeadsAreReal(s, e, phase, lines', sidecar)
  <2>1. ASSUME NEW h \in Heads, HeadIsReal(s, h, d, phase, lines, sidecar)
        PROVE  HeadIsReal(s, h, e, phase, lines', sidecar)
    <3>1. h.of \in Sessions /\ h.count \in Nat
      BY HeadFacts
    <3> QED
      BY <1>3, <1>5, <2>1, <3>1 DEF HeadIsReal
  <2>2. d.inflight # None => d.inflight \in Heads
    BY <1>0 DEF Driver
  <2>3. \A i \in DOMAIN d.queue : d.queue[i] \in Heads
    BY <1>0 DEF Driver
  <2>4. HeadsAreReal(s, d, phase, lines, sidecar)
    BY <1>s DEF Sound
  <2> QED
    BY <1>3, <2>1, <2>2, <2>3, <2>4 DEF HeadsAreReal
<1>10. SidecarIsSound(s, e, phase, lines', sidecar)
  <2>1. UpTo(sidecar[s], d.count) /\ Rising(sidecar[s])
    BY <1>0, <1>s DEF Sound, SidecarIsSound, IsGone
  <2>2. UpTo(sidecar[s], lines'[s])
    BY <1>0, <1>7, <2>1, MayBeLonger
  <2> QED
    BY <1>3, <2>1, <2>2 DEF SidecarIsSound
<1>11. ReceiptsAreOnFile(s, e, sidecar, damaged) /\ HeadIsAccountedFor(s, e, phase, sidecar, damaged)
  BY <1>3, <1>s DEF Sound, ReceiptsAreOnFile, HeadIsAccountedFor
<1>12. Sound(s, e, phase, lines', args', sidecar, damaged)
  BY <1>8, <1>9, <1>10, <1>11 DEF Sound
<1> QED
  BY <1>0, <1>2, <1>3, <1>4, <1>5, <1>6, <1>12, <1>a, ChainStep

----------------------------------------------------------------------------
\* Answers of the witness, and the end of a recorder

\* A line about a head the recorder of s had in flight.
LEMMA SidecarStep ==
  ASSUME TypeOK, NEW s \in Sessions, NEW d, NEW f \in Heads, NEW line \in SidecarLines, line.count = f.count,
         HeadIsReal(s, f, d, phase, lines, sidecar), Sidecar(f.of, line)
  PROVE  /\ Written(f.of, line, sidecar, sidecar', damaged, damaged')
         /\ sidecar' \in [Sessions -> Seq(SidecarLines)] /\ damaged' \in SUBSET Sessions /\ faults' \in 0 .. MaxFaults
         /\ WriteDone(f.of, line, sidecar, sidecar', damaged, damaged')
         /\ \A t \in Sessions : t # s => /\ Extended(t, lines[t], sidecar, sidecar', damaged, damaged')
                                         /\ sidecar'[t] = sidecar[t] \/ IsGone(phase, t)
<1>0. /\ f.of \in Sessions /\ sidecar \in [Sessions -> Seq(SidecarLines)] /\ damaged \in SUBSET Sessions
  BY HeadFacts DEF TypeOK
<1>1. Written(f.of, line, sidecar, sidecar', damaged, damaged') /\ faults' \in 0 .. MaxFaults
  BY TrialAssumption DEF TypeOK, Sidecar, Written, Fault
<1>2. /\ sidecar' \in [Sessions -> Seq(SidecarLines)] /\ damaged' \in SUBSET Sessions
      /\ WriteDone(f.of, line, sidecar, sidecar', damaged, damaged')
  BY <1>0, <1>1, WrittenFacts
<1>3. ASSUME NEW t \in Sessions, t # s
      PROVE  /\ Extended(t, lines[t], sidecar, sidecar', damaged, damaged')
             /\ sidecar'[t] = sidecar[t] \/ IsGone(phase, t)
  <2>1. CASE t = f.of
    <3>1. IsGone(phase, t) /\ line.count = lines[t]
      BY <1>3, <2>1 DEF HeadIsReal
    <3>2. Extended(t, line.count, sidecar, sidecar', damaged, damaged')
      BY <1>0, <1>1, <2>1, WrittenExtends
    <3> QED
      BY <3>1, <3>2
  <2>2. CASE t # f.of
    <3>1. sidecar'[t] = sidecar[t] /\ (t \in damaged => t \in damaged')
      BY <1>2, <2>2 DEF WriteDone
    <3> QED
      BY <3>1, UnchangedExtends
  <2> QED
    BY <2>1, <2>2
<1> QED
  BY <1>1, <1>2, <1>3

LEMMA PostReturnsStep ==
  ASSUME TrialInv, NEW s \in Sessions, PostReturns(s)
  PROVE  TrialInv'
<1>a. PICK d, f : d = driver[s] /\ f = d.inflight
  OBVIOUS
<1>2. PICK result \in Outcomes :
        /\ Sidecar(f.of, [count |-> f.count, result |-> IF result = "stop" THEN "error" ELSE result])
        /\ told' = {[of |-> s, count |-> wait[c].count, covering |-> f.count] :
                      c \in {c \in Waiting(s) : (result = "ok" /\ f.of = s) /\ wait[c].count <= f.count}}
        /\ Settle(IF result = "stop" THEN Waiting(s)
                  ELSE {c \in Waiting(s) : (result = "ok" /\ f.of = s) /\ wait[c].count <= f.count})
        /\ SetDriver(s, Pump(s,
             IF result = "stop"
             THEN [(IF result = "ok" /\ f.of = s
                    THEN [d EXCEPT !.inflight = None, !.receipts = @ \cup {f.count},
                                   !.ok = IF f.count > @ THEN f.count ELSE @]
                    ELSE [d EXCEPT !.inflight = None]) EXCEPT !.stopped = TRUE, !.queue = <<>>]
             ELSE IF result = "ok" /\ f.of = s
                  THEN [d EXCEPT !.inflight = None, !.receipts = @ \cup {f.count},
                                 !.ok = IF f.count > @ THEN f.count ELSE @]
                  ELSE [d EXCEPT !.inflight = None]))
  BY <1>a DEF PostReturns
<1>3. /\ phase[s] \in {"open", "closing"} /\ f # None /\ UNCHANGED <<phase, lines, args, quiet, newer>>
  BY <1>a DEF PostReturns, Returns, files
<1>0. /\ TypeOK /\ NoForgottenWaiter /\ d \in Driver /\ f \in Heads /\ f.count \in Counts \ {0} /\ f.count \in Nat
      /\ d.count \in Nat /\ d.ok \in Counts /\ d.ok \in Nat /\ d.receipts \subseteq Counts /\ lines[s] \in Nat
      /\ ~IsGone(phase, s)
  BY <1>3, <1>a, StateFacts, HeadFacts, CountIsNat DEF TrialInv, Driver, IsGone
<1>s. Sound(s, d, phase, lines, args, sidecar, damaged) /\ HeadIsReal(s, f, d, phase, lines, sidecar)
  BY <1>3, <1>a, SessionFacts DEF Sound, HeadsAreReal
<1>l. PICK line : line = [count |-> f.count, result |-> IF result = "stop" THEN "error" ELSE result]
  OBVIOUS
<1>4. line \in SidecarLines /\ line.count = f.count /\ (result = "ok" => line.result = "ok") /\ Sidecar(f.of, line)
  BY <1>0, <1>2, <1>l DEF SidecarLines, Outcomes
<1>5. /\ Written(f.of, line, sidecar, sidecar', damaged, damaged')
      /\ sidecar' \in [Sessions -> Seq(SidecarLines)] /\ damaged' \in SUBSET Sessions /\ faults' \in 0 .. MaxFaults
      /\ WriteDone(f.of, line, sidecar, sidecar', damaged, damaged')
      /\ \A t \in Sessions : t # s => /\ Extended(t, lines[t], sidecar, sidecar', damaged, damaged')
                                      /\ sidecar'[t] = sidecar[t] \/ IsGone(phase, t)
  BY <1>0, <1>4, <1>s, SidecarStep
<1>6. PICK g \in Driver :
        /\ SetDriver(s, Pump(s, g))
        /\ g.count = d.count /\ g.broken = d.broken /\ g.tried = d.tried /\ g.inflight = None
        /\ g.queue \in {d.queue, <<>>} /\ (result # "stop" => g.stopped = d.stopped)
        /\ \/ g.receipts = d.receipts /\ g.ok = d.ok
           \/ result = "ok" /\ f.of = s /\ g.receipts = d.receipts \cup {f.count} /\ g.ok \in {d.ok, f.count}
  <2>0. <<>> \in Seq(Heads) /\ d.receipts \cup {f.count} \in SUBSET Counts
    BY <1>0
  <2>1. CASE result = "stop"
    <3>1. SetDriver(s, Pump(s, [[d EXCEPT !.inflight = None] EXCEPT !.stopped = TRUE, !.queue = <<>>]))
      BY <1>2, <2>1
    <3>2. [[d EXCEPT !.inflight = None] EXCEPT !.stopped = TRUE, !.queue = <<>>] \in Driver
      BY <1>0, <2>0 DEF Driver
    <3> QED
      BY <1>0, <2>1, <3>1, <3>2 DEF Driver
  <2>2. CASE result = "ok" /\ f.of = s
    <3>1. PICK g : g = [d EXCEPT !.inflight = None, !.receipts = @ \cup {f.count}, !.ok = IF f.count > @ THEN f.count ELSE @]
      OBVIOUS
    <3>2. SetDriver(s, Pump(s, g))
      BY <1>2, <2>2, <3>1
    <3>3. /\ g \in Driver
          /\ g.count = d.count /\ g.broken = d.broken /\ g.tried = d.tried /\ g.inflight = None
          /\ g.queue = d.queue /\ g.stopped = d.stopped
          /\ g.receipts = d.receipts \cup {f.count} /\ g.ok \in {d.ok, f.count}
      BY <1>0, <2>0, <3>1 DEF Driver
    <3> QED
      BY <2>2, <3>2, <3>3
  <2>3. CASE result # "stop" /\ ~(result = "ok" /\ f.of = s)
    <3>1. SetDriver(s, Pump(s, [d EXCEPT !.inflight = None]))
      BY <1>2, <2>3
    <3> QED
      BY <1>0, <2>3, <3>1 DEF Driver
  <2> QED
    BY <2>1, <2>2, <2>3
<1>7. GoneForGood(phase, phase, lines, lines)
  BY DEF GoneForGood
<1>8. Sound(s, g, phase, lines, args, sidecar', damaged')
  <2>1. \/ g.receipts = d.receipts /\ g.ok = d.ok
        \/ /\ f.of = s /\ line.result = "ok"
           /\ g.receipts = d.receipts \cup {f.count} /\ g.ok \in {d.ok, f.count}
    BY <1>4, <1>6
  <2>2. sidecar \in [Sessions -> Seq(SidecarLines)] /\ damaged \in SUBSET Sessions
    BY <1>0 DEF TypeOK
  <2> QED
    <3>1. /\ lines[s] \in Nat /\ phase[s] \in {"open", "closing"} /\ phase[s] \in {"open", "closing", "ending"}
          /\ d \in Driver /\ g \in Driver /\ f \in Heads /\ line \in SidecarLines
          /\ d.inflight = f /\ line.count = f.count /\ Written(f.of, line, sidecar, sidecar', damaged, damaged')
          /\ g.count = d.count /\ g.broken = d.broken /\ g.tried = d.tried /\ g.inflight = None
          /\ g.queue \in {d.queue, <<>>}
      BY <1>0, <1>3, <1>4, <1>5, <1>6, <1>a
    <3>2. Sound(s, d, phase, lines, args, sidecar, damaged)
      BY <1>s
    <3> QED
      BY <1>7, <2>1, <2>2, <3>1, <3>2, FinishIsSound
<1>e. PICK e : e = Pump(s, g)
  OBVIOUS
<1>9. /\ e \in Driver /\ SetDriver(s, e) /\ e.ok = g.ok /\ e.stopped = g.stopped
      /\ Sound(s, e, phase, lines, args, sidecar', damaged')
  BY <1>3, <1>6, <1>8, <1>e, PumpIsSound, PumpIsPumped DEF Pumped
<1>w. \A c \in Waiting(s) : wait[c] \in Heads /\ wait[c].of = s /\ wait[c].count \in Nat /\ wait[c].count \in Counts
  BY <1>0, HeadFacts DEF Waiting, TypeOK
<1>10. TypeOK'
  <2>1. told' \subseteq [of : Sessions, count : Counts, covering : Counts]
    BY <1>0, <1>2, <1>w
  <2>2. wait' \in [Callers -> Heads \cup {None}]
    BY <1>0, <1>2, SettleFacts
  <2>3. driver' \in [Sessions -> Driver]
    BY <1>0, <1>9, SetDriverFacts
  <2> QED
    BY <1>0, <1>3, <1>5, <2>1, <2>2, <2>3 DEF TypeOK
<1>11. SessionsAreSound'
  BY <1>0, <1>3, <1>5, <1>7, <1>9, AllStaySound DEF TrialInv
<1>12. AnswersAreWitnessed'
  <2> SUFFICES ASSUME NEW x \in told'
               PROVE  /\ x.count <= x.covering
                      /\ x.covering <= lines'[x.of]
                      /\ \/ x.of \in damaged'
                         \/ \E i \in DOMAIN sidecar'[x.of] : sidecar'[x.of][i] = [count |-> x.covering, result |-> "ok"]
    BY DEF AnswersAreWitnessed
  <2>1. /\ x.of = s /\ x.covering = f.count /\ x.count <= f.count /\ result = "ok" /\ f.of = s
    BY <1>2, <1>w
  <2>2. f.count <= d.count /\ d.count <= lines[s]
    BY <1>s, <2>1 DEF HeadIsReal, Sound, ChainIsKnown
  <2>3. s \in damaged' \/ HasReceipt(sidecar'[s], f.count)
    BY <1>4, <1>5, <2>1 DEF WriteDone
  <2> QED
    BY <1>0, <1>3, <2>1, <2>2, <2>3 DEF HasReceipt
<1>13. NoForgottenWaiter'
  <2> SUFFICES ASSUME NEW c \in Callers, wait'[c] # None
               PROVE  /\ wait'[c].of \in Live'
                      /\ wait'[c].count > driver'[wait'[c].of].ok
                      /\ ~driver'[wait'[c].of].stopped
    BY DEF NoForgottenWaiter
  <2>1. /\ wait'[c] = wait[c] /\ wait[c] \in Heads
        /\ c \notin (IF result = "stop" THEN Waiting(s)
                     ELSE {b \in Waiting(s) : (result = "ok" /\ f.of = s) /\ wait[b].count <= f.count})
    BY <1>0, <1>2, SettleFacts DEF TypeOK
  <2>2. /\ wait[c].of \in Live /\ wait[c].count > driver[wait[c].of].ok /\ ~driver[wait[c].of].stopped
        /\ wait[c].count \in Nat /\ wait[c].of \in Sessions
    BY <1>0, <2>1, HeadFacts DEF NoForgottenWaiter
  <2>3. wait'[c].of \in Live'
    BY <1>3, <2>1, <2>2 DEF Live
  <2>4. CASE wait[c].of # s
    BY <1>0, <1>9, <2>1, <2>2, <2>3, <2>4, SetDriverFacts
  <2>5. CASE wait[c].of = s
    <3>1. c \in Waiting(s) /\ driver'[s] = e
      BY <1>0, <1>9, <2>1, <2>5, SetDriverFacts, HeadFacts DEF Waiting
    <3>2. result # "stop" /\ ~(result = "ok" /\ f.of = s /\ wait[c].count <= f.count)
      BY <2>1, <3>1
    <3>3. e.stopped = d.stopped
      BY <1>6, <1>9, <3>2
    <3>4. wait[c].count > e.ok
      BY <1>0, <1>6, <1>9, <1>a, <2>2, <2>5, <3>2
    <3> QED
      BY <1>a, <2>1, <2>2, <2>3, <2>5, <3>1, <3>3, <3>4
  <2> QED
    BY <2>4, <2>5
<1> QED
  BY <1>10, <1>11, <1>12, <1>13 DEF TrialInv

LEMMA StopWaitingStep ==
  ASSUME TrialInv, NEW s \in Sessions, Quietly, StopWaiting(s)
  PROVE  TrialInv'
<1>a. PICK d, f : d = driver[s] /\ f = d.inflight
  OBVIOUS
<1>e. PICK e : e = [d EXCEPT !.inflight = None]
  OBVIOUS
<1>0. TypeOK /\ SessionsAreSound /\ NoForgottenWaiter /\ d \in Driver /\ lines[s] \in Nat
  BY <1>a, StateFacts DEF TrialInv
<1>s. Sound(s, d, phase, lines, args, sidecar, damaged)
  BY <1>a, SessionFacts
<1>1. /\ e \in Driver /\ e.count = d.count /\ e.broken = d.broken /\ e.tried = d.tried /\ e.inflight = None
      /\ e.queue = d.queue /\ e.receipts = d.receipts /\ e.ok = d.ok /\ e.stopped = d.stopped
  BY <1>0, <1>e DEF Driver
<1>2. /\ phase[s] = "closing" /\ phase' = [phase EXCEPT ![s] = "ending"] /\ SetDriver(s, e) /\ told' = {}
      /\ UNCHANGED <<lines, args, quiet, newer, wait>>
      /\ IF f = None THEN UNCHANGED <<sidecar, damaged, faults>>
         ELSE Sidecar(f.of, [count |-> f.count, result |-> "error"])
  BY <1>a, <1>e DEF StopWaiting, Quietly, files
<1>3. /\ phase' \in [Sessions -> Phases] /\ phase'[s] = "ending" /\ ~IsGone(phase, s)
      /\ \A t \in Sessions : t # s => phase'[t] = phase[t]
  BY <1>0, <1>2 DEF TypeOK, Phases, IsGone
<1>4. GoneForGood(phase, phase', lines, lines)
  BY <1>3 DEF GoneForGood, IsGone
<1>5. /\ sidecar' \in [Sessions -> Seq(SidecarLines)] /\ damaged' \in SUBSET Sessions /\ faults' \in 0 .. MaxFaults
      /\ \A t \in Sessions : t # s => /\ Extended(t, lines[t], sidecar, sidecar', damaged, damaged')
                                      /\ sidecar'[t] = sidecar[t] \/ IsGone(phase, t)
      /\ Sound(s, e, phase', lines, args, sidecar', damaged')
  <2>1. CASE f = None
    <3>1. UNCHANGED <<sidecar, damaged, faults>>
      BY <1>2, <2>1
    <3>2. Sound(s, e, phase', lines, args, sidecar, damaged)
      BY <1>0, <1>1, <1>3, <1>4, <1>a, <1>s, <2>1, StaysSound
    <3> QED
      BY <1>0, <3>1, <3>2, UnchangedExtends DEF TypeOK
  <2>2. CASE f # None
    <3>l. PICK line : line = [count |-> f.count, result |-> "error"]
      OBVIOUS
    <3>1. f \in Heads /\ HeadIsReal(s, f, d, phase, lines, sidecar)
      BY <1>0, <1>a, <1>s, <2>2 DEF Driver, Sound, HeadsAreReal
    <3>2. line \in SidecarLines /\ line.count = f.count /\ Sidecar(f.of, line)
      BY <1>2, <2>2, <3>1, <3>l, HeadFacts DEF SidecarLines
    <3>3. /\ Written(f.of, line, sidecar, sidecar', damaged, damaged')
          /\ sidecar' \in [Sessions -> Seq(SidecarLines)] /\ damaged' \in SUBSET Sessions /\ faults' \in 0 .. MaxFaults
          /\ \A t \in Sessions : t # s => /\ Extended(t, lines[t], sidecar, sidecar', damaged, damaged')
                                          /\ sidecar'[t] = sidecar[t] \/ IsGone(phase, t)
      BY <1>0, <3>1, <3>2, SidecarStep
    <3>4. Sound(s, e, phase', lines, args, sidecar', damaged')
      <4>1. /\ phase[s] \in {"open", "closing"} /\ phase'[s] \in {"open", "closing", "ending"}
            /\ d.inflight = f /\ e.queue \in {d.queue, <<>>}
            /\ sidecar \in [Sessions -> Seq(SidecarLines)] /\ damaged \in SUBSET Sessions
        BY <1>0, <1>1, <1>2, <1>3, <1>a DEF TypeOK
      <4>2. Written(f.of, line, sidecar, sidecar', damaged, damaged')
        BY <3>3
      <4> QED
        BY <1>0, <1>1, <1>4, <1>s, <3>1, <3>2, <4>1, <4>2, FinishIsSound
    <3> QED
      BY <3>3, <3>4
  <2> QED
    BY <2>1, <2>2
<1>6. TypeOK'
  <2>1. driver' \in [Sessions -> Driver]
    BY <1>0, <1>1, <1>2, SetDriverFacts
  <2> QED
    BY <1>0, <1>2, <1>3, <1>5, <2>1 DEF TypeOK, Phases
<1>7. SessionsAreSound'
  <2>1. lines' = lines /\ args' = args
    BY <1>2
  <2> QED
    BY <1>0, <1>1, <1>2, <1>3, <1>4, <1>5, <2>1, AllStaySound
<1>8. AnswersAreWitnessed'
  BY <1>2 DEF AnswersAreWitnessed
<1>9. NoForgottenWaiter'
  <2>1. ASSUME NEW c \in Callers, wait[c] # None
        PROVE  /\ phase'[wait[c].of] \in {"open", "closing", "ending"}
               /\ driver'[wait[c].of].ok = driver[wait[c].of].ok
               /\ driver'[wait[c].of].stopped => driver[wait[c].of].stopped
    <3>1. wait[c].of \in Live
      BY <1>0, <2>1 DEF NoForgottenWaiter
    <3>2. driver'[s] = e /\ \A t \in Sessions : t # s => driver'[t] = driver[t]
      BY <1>0, <1>1, <1>2, SetDriverFacts
    <3> QED
      BY <1>1, <1>3, <1>a, <3>1, <3>2 DEF Live
  <2> QED
    BY <1>0, <1>2, <2>1, NobodyIsForgotten
<1> QED
  BY <1>6, <1>7, <1>8, <1>9 DEF TrialInv

\* A recorder that has ended holds no head, no queue and no receipts.
LEMMA EndedIsSound ==
  ASSUME NEW s \in Sessions, NEW d \in Driver, NEW e, e = Ended(d), NEW ph, NEW ln, NEW ar, NEW sc, NEW dm,
         ph[s] \in {"closed", "dead"}, ChainIsKnown(s, e, ph, ln, ar),
         UpTo(sc[s], ln[s]), Rising(sc[s]),
         ph[s] = "closed" /\ d.count > 0 => s \in dm \/ HasLine(sc[s], d.count)
  PROVE  e \in Driver /\ Sound(s, e, ph, ln, ar, sc, dm)
<1>0. 0 \in Counts /\ <<>> \in Seq(Heads)
  BY CountIsNat, TrialAssumption DEF Counts, Driver
<1>1. /\ e \in Driver /\ e.count = d.count /\ e.broken = d.broken /\ e.inflight = None /\ e.queue = <<>>
      /\ e.receipts = {} /\ e.ok = 0
  BY <1>0 DEF Ended, Fresh, Driver
<1>2. IdleAtTheEnd(s, e, ph) /\ HeadsAreReal(s, e, ph, ln, sc) /\ SidecarIsSound(s, e, ph, ln, sc)
      /\ ReceiptsAreOnFile(s, e, sc, dm) /\ HeadIsAccountedFor(s, e, ph, sc, dm)
  BY <1>1 DEF IdleAtTheEnd, HeadsAreReal, SidecarIsSound, ReceiptsAreOnFile, HeadIsAccountedFor, IsGone
<1> QED
  BY <1>1, <1>2 DEF Sound

\* A recorder ends, and answers those who wait on it.
LEMMA EndStep ==
  ASSUME TrialInv, TypeOK', SessionsAreSound', NEW s \in Sessions, told' = {}, Settle(Waiting(s)),
         \A t \in Sessions : t # s => phase'[t] = phase[t] /\ driver'[t] = driver[t]
  PROVE  TrialInv'
<1>0. TypeOK /\ NoForgottenWaiter
  BY DEF TrialInv
<1>1. AnswersAreWitnessed'
  BY DEF AnswersAreWitnessed
<1>2. NoForgottenWaiter'
  <2>1. ASSUME NEW c \in Callers, wait'[c] # None
        PROVE  /\ wait'[c] = wait[c]
               /\ phase'[wait[c].of] \in {"open", "closing", "ending"}
               /\ driver'[wait[c].of].ok = driver[wait[c].of].ok
               /\ driver'[wait[c].of].stopped => driver[wait[c].of].stopped
    <3>1. wait'[c] = wait[c] /\ c \notin Waiting(s)
      BY <1>0, <2>1, SettleFacts
    <3>2. wait[c].of \in Live /\ wait[c].of # s
      BY <1>0, <2>1, <3>1 DEF NoForgottenWaiter, Waiting
    <3> QED
      BY <3>1, <3>2 DEF Live
  <2> QED
    BY <1>0, <2>1, NobodyIsForgotten
<1> QED
  BY <1>1, <1>2 DEF TrialInv

LEMMA CloseEndsStep ==
  ASSUME TrialInv, NEW s \in Sessions, Quietly, CloseEnds(s)
  PROVE  TrialInv'
<1>a. PICK d, e : d = driver[s] /\ e = Ended(d)
  OBVIOUS
<1>0. /\ TypeOK /\ SessionsAreSound /\ d \in Driver /\ lines[s] \in Nat /\ d.count \in Nat /\ d.count \in Counts
      /\ sidecar \in [Sessions -> Seq(SidecarLines)] /\ damaged \in SUBSET Sessions /\ d.tried \in Nat
  BY <1>a, StateFacts, CountIsNat DEF TrialInv, Driver
<1>s. Sound(s, d, phase, lines, args, sidecar, damaged)
  BY <1>a, SessionFacts
<1>1. /\ phase[s] = "ending" /\ phase' = [phase EXCEPT ![s] = "closed"] /\ SetDriver(s, e) /\ told' = {}
      /\ Settle(Waiting(s)) /\ UNCHANGED <<lines, args, quiet, newer>>
      /\ IF d.count > d.tried THEN Sidecar(s, [count |-> d.count, result |-> "error"])
         ELSE UNCHANGED <<sidecar, damaged, faults>>
  BY <1>a DEF CloseEnds, Quietly, files
<1>2. /\ phase' \in [Sessions -> Phases] /\ phase'[s] = "closed" /\ ~IsGone(phase, s)
      /\ \A t \in Sessions : t # s => phase'[t] = phase[t]
  BY <1>0, <1>1 DEF TypeOK, Phases, IsGone
<1>3. GoneForGood(phase, phase', lines, lines)
  BY <1>2 DEF GoneForGood, IsGone
<1>4. /\ d.count <= lines[s] /\ d.inflight = None /\ d.tried <= d.count
      /\ UpTo(sidecar[s], lines[s]) /\ UpTo(sidecar[s], d.count) /\ Rising(sidecar[s])
      /\ d.tried = d.count /\ d.count > 0 => s \in damaged \/ HasLine(sidecar[s], d.count)
  <2>1. d.inflight = None
    BY <1>1, <1>s DEF Sound, IdleAtTheEnd
  <2>2. d.count > 0 => d.inflight # [of |-> s, count |-> d.count]
    <3> SUFFICES ASSUME d.count > 0 PROVE [of |-> s, count |-> d.count] \in Heads
      BY <2>1, HeadFacts
    <3> QED
      BY <1>0 DEF Heads
  <2> QED
    BY <1>2, <1>s, <2>1, <2>2 DEF Sound, ChainIsKnown, SidecarIsSound, HeadIsAccountedFor
<1>5. /\ sidecar' \in [Sessions -> Seq(SidecarLines)] /\ damaged' \in SUBSET Sessions /\ faults' \in 0 .. MaxFaults
      /\ \A t \in Sessions : t # s => sidecar'[t] = sidecar[t] /\ (t \in damaged => t \in damaged')
      /\ UpTo(sidecar'[s], lines[s]) /\ Rising(sidecar'[s])
      /\ d.count > 0 => s \in damaged' \/ HasLine(sidecar'[s], d.count)
  <2>1. CASE ~(d.count > d.tried)
    <3>1. UNCHANGED <<sidecar, damaged, faults>>
      BY <1>1, <2>1
    <3>2. d.count > 0 => s \in damaged \/ HasLine(sidecar[s], d.count)
      BY <1>0, <1>4, <2>1
    <3> QED
      BY <1>0, <1>4, <3>1, <3>2 DEF TypeOK
  <2>2. CASE d.count > d.tried
    <3>l. PICK line : line = [count |-> d.count, result |-> "error"]
      OBVIOUS
    <3>1. line \in SidecarLines /\ line.count = d.count /\ Sidecar(s, line)
      BY <1>0, <1>1, <2>2, <3>l DEF SidecarLines
    <3>2. Written(s, line, sidecar, sidecar', damaged, damaged') /\ faults' \in 0 .. MaxFaults
      BY <1>0, <3>1, TrialAssumption DEF TypeOK, Sidecar, Written, Fault
    <3>3. /\ sidecar' \in [Sessions -> Seq(SidecarLines)] /\ damaged' \in SUBSET Sessions
          /\ WriteDone(s, line, sidecar, sidecar', damaged, damaged')
      BY <1>0, <3>1, <3>2, WrittenFacts
    <3>4. NotBeyond(line, lines[s])
      BY <1>4, <3>1 DEF NotBeyond
    <3> QED
      BY <1>4, <3>1, <3>2, <3>3, <3>4 DEF WriteDone
  <2> QED
    BY <2>1, <2>2
<1>6. e \in Driver /\ Sound(s, e, phase', lines, args, sidecar', damaged')
  <2>1. e.count = d.count /\ e.broken = d.broken
    BY <1>a DEF Ended, Fresh
  <2>2. ChainIsKnown(s, e, phase', lines, args)
    BY <1>2, <1>s, <2>1 DEF Sound, ChainIsKnown, IsGone
  <2>3. /\ e = Ended(d) /\ phase'[s] \in {"closed", "dead"} /\ UpTo(sidecar'[s], lines[s]) /\ Rising(sidecar'[s])
        /\ phase'[s] = "closed" /\ d.count > 0 => s \in damaged' \/ HasLine(sidecar'[s], d.count)
    BY <1>2, <1>5, <1>a
  <2> QED
    BY <1>0, <2>2, <2>3, EndedIsSound
<1>7. driver' \in [Sessions -> Driver] /\ \A t \in Sessions : t # s => driver'[t] = driver[t]
  BY <1>0, <1>1, <1>6, SetDriverFacts
<1>8. TypeOK'
  <2>1. wait' \in [Callers -> Heads \cup {None}]
    BY <1>0, <1>1, SettleFacts
  <2> QED
    BY <1>0, <1>1, <1>2, <1>5, <1>7, <2>1 DEF TypeOK, Phases
<1>9. SessionsAreSound'
  <2>1. \A t \in Sessions : t # s => Extended(t, lines[t], sidecar, sidecar', damaged, damaged')
    BY <1>5, UnchangedExtends
  <2>2. lines' = lines /\ args' = args
    BY <1>1
  <2> QED
    BY <1>0, <1>1, <1>2, <1>3, <1>5, <1>6, <2>1, <2>2, AllStaySound
<1> QED
  BY <1>1, <1>2, <1>7, <1>8, <1>9, EndStep

LEMMA DieStep ==
  ASSUME TrialInv, NEW s \in Sessions, Quietly, Die(s)
  PROVE  TrialInv'
<1>a. PICK d, e, n : d = driver[s] /\ e = Ended(d) /\ n = d.count + 1
  OBVIOUS
<1>0. /\ TypeOK /\ SessionsAreSound /\ d \in Driver /\ lines[s] \in Nat /\ d.count \in Nat
      /\ sidecar[s] \in Seq(SidecarLines)
  BY <1>a, StateFacts, CountIsNat DEF TrialInv, Driver
<1>s. Sound(s, d, phase, lines, args, sidecar, damaged)
  BY <1>a, SessionFacts
<1>1. /\ s \in Live /\ faults < MaxFaults /\ faults' = faults + 1 /\ phase' = [phase EXCEPT ![s] = "dead"]
      /\ Settle(Waiting(s)) /\ SetDriver(s, e) /\ UNCHANGED <<sidecar, damaged>> /\ told' = {}
  BY <1>a DEF Die, Fault, Quietly
<1>2. /\ phase' \in [Sessions -> Phases] /\ phase'[s] = "dead" /\ ~IsGone(phase, s)
      /\ \A t \in Sessions : t # s => phase'[t] = phase[t]
  BY <1>0, <1>1 DEF TypeOK, Phases, IsGone, Live
<1>3. \/ UNCHANGED <<lines, args, quiet, newer>>
      \/ /\ phase[s] = "open" /\ ~d.broken /\ d.count < MaxEntries[s]
         /\ args' = [args EXCEPT ![s] = @ \cup {n}]
         /\ lines' \in {lines, [lines EXCEPT ![s] = n]}
  BY <1>a DEF Die, CanRecord, files
<1>q. quiet' \subseteq Sessions /\ newer' \in [Sessions -> SUBSET Sessions]
  <2>1. Touched(s) \/ UNCHANGED <<quiet, newer>>
    BY <1>a DEF Die, files
  <2> QED
    BY <1>0, <2>1, TouchedFacts DEF TypeOK
<1>4. /\ d.count <= lines[s] /\ (~d.broken => lines[s] = d.count)
      /\ 1 .. d.count \subseteq args[s] /\ (~d.broken => 1 .. lines[s] \subseteq args[s])
      /\ UpTo(sidecar[s], lines[s]) /\ Rising(sidecar[s]) /\ UpTo(sidecar[s], d.count)
  BY <1>2, <1>s DEF Sound, ChainIsKnown, SidecarIsSound
<1>5. /\ lines' \in [Sessions -> Counts] /\ args' \in [Sessions -> SUBSET Counts]
      /\ \A t \in Sessions : t # s => lines'[t] = lines[t] /\ args'[t] = args[t]
      /\ d.count <= lines'[s] /\ UpTo(sidecar[s], lines'[s])
      /\ 1 .. d.count \subseteq args'[s] /\ (~d.broken => 1 .. lines'[s] \subseteq args'[s])
  <2>0. lines \in [Sessions -> Counts] /\ args \in [Sessions -> SUBSET Counts]
    BY <1>0 DEF TypeOK
  <2>1. CASE UNCHANGED <<lines, args, quiet, newer>>
    BY <1>4, <2>0, <2>1
  <2>2. CASE /\ phase[s] = "open" /\ ~d.broken /\ d.count < MaxEntries[s]
             /\ args' = [args EXCEPT ![s] = @ \cup {n}]
             /\ lines' \in {lines, [lines EXCEPT ![s] = n]}
    <3>1. n \in Counts /\ n \in Nat /\ n = d.count + 1
      BY <1>0, <1>a, <2>2, TrialAssumption DEF Counts
    <3>2. /\ args' \in [Sessions -> SUBSET Counts] /\ args'[s] = args[s] \cup {n}
          /\ \A t \in Sessions : t # s => args'[t] = args[t]
      BY <2>0, <2>2, <3>1
    <3>3. /\ lines' \in [Sessions -> Counts] /\ lines'[s] \in {lines[s], n}
          /\ \A t \in Sessions : t # s => lines'[t] = lines[t]
      <4>1. lines' = lines \/ lines' = [lines EXCEPT ![s] = n]
        BY <2>2
      <4> QED
        BY <2>0, <3>1, <4>1
    <3>4. 1 .. n \subseteq args'[s]
      BY <1>0, <1>4, <3>1, <3>2
    <3>5. d.count <= lines'[s] /\ 1 .. lines'[s] \subseteq args'[s] /\ 1 .. d.count \subseteq args'[s]
      BY <1>0, <1>4, <2>2, <3>1, <3>2, <3>3, <3>4
    <3>6. UpTo(sidecar[s], n)
      BY <1>0, <1>4, <3>1, MayBeLonger
    <3> QED
      BY <1>4, <3>2, <3>3, <3>5, <3>6
  <2> QED
    BY <1>3, <2>1, <2>2
<1>6. GoneForGood(phase, phase', lines, lines')
  BY <1>2, <1>5 DEF GoneForGood, IsGone
<1>7. e \in Driver /\ Sound(s, e, phase', lines', args', sidecar, damaged)
  <2>1. e.count = d.count /\ e.broken = d.broken
    BY <1>a DEF Ended, Fresh
  <2>2. ChainIsKnown(s, e, phase', lines', args')
    BY <1>2, <1>5, <2>1 DEF ChainIsKnown, IsGone
  <2>3. /\ e = Ended(d) /\ phase'[s] \in {"closed", "dead"} /\ UpTo(sidecar[s], lines'[s]) /\ Rising(sidecar[s])
        /\ phase'[s] # "closed"
    BY <1>2, <1>4, <1>5, <1>a
  <2> QED
    BY <1>0, <2>2, <2>3, EndedIsSound
<1>8. driver' \in [Sessions -> Driver] /\ \A t \in Sessions : t # s => driver'[t] = driver[t]
  BY <1>0, <1>1, <1>7, SetDriverFacts
<1>9. TypeOK'
  <2>1. wait' \in [Callers -> Heads \cup {None}]
    BY <1>0, <1>1, SettleFacts
  <2>2. faults' \in 0 .. MaxFaults
    BY <1>0, <1>1, TrialAssumption DEF TypeOK
  <2> QED
    BY <1>0, <1>1, <1>2, <1>5, <1>8, <1>q, <2>1, <2>2 DEF TypeOK, Phases
<1>10. SessionsAreSound'
  <2>1. \A t \in Sessions : Extended(t, lines[t], sidecar, sidecar', damaged, damaged')
    BY <1>1, UnchangedExtends
  <2>2. sidecar' = sidecar /\ damaged' = damaged
    BY <1>1
  <2> QED
    BY <1>0, <1>1, <1>2, <1>5, <1>6, <1>7, <2>1, <2>2, AllStaySound
<1> QED
  BY <1>1, <1>2, <1>8, <1>9, <1>10, EndStep

----------------------------------------------------------------------------
\* The invariant, and what follows from it

LEMMA InitHolds == Init => TrialInv
<1> SUFFICES ASSUME Init PROVE TrialInv
  OBVIOUS
<1>1. \A s \in Sessions : 0 \in Counts
  BY TrialAssumption DEF Counts
<1>2. \A s \in Sessions : Fresh \in Driver
  BY <1>1 DEF Fresh, Driver
<1>3. TypeOK
  BY <1>1, <1>2, TrialAssumption DEF Init, TypeOK
<1>4. SessionsAreSound
  <2> SUFFICES ASSUME NEW s \in Sessions PROVE Sound(s, driver[s], phase, lines, args, sidecar, damaged)
    BY DEF SessionsAreSound
  <2>1. /\ driver[s] = Fresh /\ phase[s] = "new" /\ lines[s] = 0 /\ sidecar[s] = <<>>
        /\ Fresh.count = 0 /\ Fresh.tried = 0 /\ Fresh.ok = 0 /\ Fresh.receipts = {} /\ Fresh.queue = <<>>
        /\ Fresh.inflight = None
    BY DEF Init, Fresh
  <2> QED
    BY <2>1 DEF Sound, IdleAtTheEnd, ChainIsKnown, HeadsAreReal, SidecarIsSound, ReceiptsAreOnFile,
       HeadIsAccountedFor, UpTo, Rising, IsGone
<1>5. AnswersAreWitnessed /\ NoForgottenWaiter
  BY DEF Init, AnswersAreWitnessed, NoForgottenWaiter
<1> QED
  BY <1>3, <1>4, <1>5 DEF TrialInv

LEMMA NextHolds == TrialInv /\ [Next]_vars => TrialInv'
<1> SUFFICES ASSUME TrialInv, [Next]_vars PROVE TrialInv'
  OBVIOUS
<1>1. CASE UNCHANGED vars
  <2>1. SessionsAreSound'
    BY <1>1, NothingOnFile DEF TrialInv, vars
  <2> QED
    BY <1>1, <2>1 DEF TrialInv, TypeOK, AnswersAreWitnessed, NoForgottenWaiter, Live, vars
<1>2. ASSUME NEW s \in Sessions, PostReturns(s) PROVE TrialInv'
  BY <1>2, PostReturnsStep
<1>3. ASSUME NEW s \in Sessions, Quietly, Open(s) PROVE TrialInv'
  BY <1>3, OpenStep
<1>4. ASSUME NEW s \in Sessions, Quietly, Record(s) PROVE TrialInv'
  BY <1>4, RecordStep
<1>5. ASSUME NEW s \in Sessions, Quietly, RecordFails(s) PROVE TrialInv'
  BY <1>5, RecordFailsStep
<1>6. ASSUME NEW s \in Sessions, Quietly, Immediate(s) PROVE TrialInv'
  BY <1>6, ImmediateStep
<1>7. ASSUME NEW s \in Sessions, Quietly, RunCatchUp(s) PROVE TrialInv'
  BY <1>7, RunCatchUpStep
<1>8. ASSUME NEW s \in Sessions, Quietly, GoesQuiet(s) PROVE TrialInv'
  BY <1>8, GoesQuietStep
<1>9. ASSUME NEW s \in Sessions, Quietly, Close(s) PROVE TrialInv'
  BY <1>9, CloseStep
<1>10. ASSUME NEW s \in Sessions, Quietly, StopWaiting(s) PROVE TrialInv'
  BY <1>10, StopWaitingStep
<1>11. ASSUME NEW s \in Sessions, Quietly, CloseEnds(s) PROVE TrialInv'
  BY <1>11, CloseEndsStep
<1>12. ASSUME NEW s \in Sessions, Quietly, Die(s) PROVE TrialInv'
  BY <1>12, DieStep
<1>13. ASSUME NEW c \in Callers, NEW s \in Sessions, NEW n \in Counts, AwaitWitness(c, s, n) PROVE TrialInv'
  BY <1>13, AwaitWitnessStep
<1>14. ASSUME NEW c \in Callers, Quietly, WaiterTimesOut(c) PROVE TrialInv'
  BY <1>14, WaiterTimesOutStep
<1>15. ASSUME Quietly, Midnight PROVE TrialInv'
  BY <1>15, MidnightStep
<1> QED
  BY <1>1, <1>2, <1>3, <1>4, <1>5, <1>6, <1>7, <1>8, <1>9, <1>10, <1>11, <1>12, <1>13, <1>14, <1>15 DEF Next

\* The invariant holds of every recorder, chain, caller and fault.
THEOREM TrialInvCorrect == Spec => []TrialInv
BY InitHolds, NextHolds, PTL DEF Spec

\* Every variable keeps its type.
THEOREM TypeCorrect == Spec => []TypeOK
<1>1. TrialInv => TypeOK
  BY DEF TrialInv
<1> QED
  BY <1>1, TrialInvCorrect, PTL

\* An ok answer of awaitWitness is about an entry on file and a receipt on file
\* (recorder.ts:563).
THEOREM AnswersAreWitnessedHolds == Spec => []AnswersAreWitnessed
<1>1. TrialInv => AnswersAreWitnessed
  BY DEF TrialInv
<1> QED
  BY <1>1, TrialInvCorrect, PTL

\* Nobody waits for what has been decided.
THEOREM NoForgottenWaiterHolds == Spec => []NoForgottenWaiter
<1>1. TrialInv => NoForgottenWaiter
  BY DEF TrialInv
<1> QED
  BY <1>1, TrialInvCorrect, PTL

\* After a close the sidecar says what became of the last head.
THEOREM CloseAccountsForHeadHolds == Spec => []CloseAccountsForHead
<1>1. TrialInv => CloseAccountsForHead
  <2> SUFFICES ASSUME TrialInv, NEW s \in Sessions, phase[s] = "closed", driver[s].count > 0, s \notin damaged
               PROVE  \E i \in DOMAIN sidecar[s] : sidecar[s][i].count = driver[s].count
    BY DEF CloseAccountsForHead
  <2> QED
    BY SessionFacts DEF Sound, HeadIsAccountedFor, HasLine
<1> QED
  BY <1>1, TrialInvCorrect, PTL

\* Every entry a reader finds in a chain has its arguments kept.
THEOREM EntriesKeepTheirArgumentsHolds == Spec => []EntriesKeepTheirArguments
<1>1. TrialInv => EntriesKeepTheirArguments
  <2> SUFFICES ASSUME TrialInv, NEW s \in Sessions
               PROVE  1 .. (IF driver[s].broken THEN driver[s].count ELSE lines[s]) \subseteq args[s]
    BY DEF EntriesKeepTheirArguments
  <2>1. /\ 1 .. driver[s].count \subseteq args[s]
        /\ ~driver[s].broken => 1 .. lines[s] \subseteq args[s]
    BY SessionFacts DEF Sound, ChainIsKnown
  <2> QED
    BY <2>1
<1> QED
  BY <1>1, TrialInvCorrect, PTL

\* The heads of a sidecar never go back, whoever writes to it.
THEOREM SidecarInOrderHolds == Spec => []SidecarInOrder
<1>1. TrialInv => SidecarInOrder
  <2> SUFFICES ASSUME TrialInv, NEW s \in Sessions
               PROVE  \A i, j \in DOMAIN sidecar[s] : i <= j => sidecar[s][i].count <= sidecar[s][j].count
    BY DEF SidecarInOrder
  <2> QED
    BY SessionFacts DEF Sound, SidecarIsSound, Rising
<1> QED
  BY <1>1, TrialInvCorrect, PTL

=============================================================================
