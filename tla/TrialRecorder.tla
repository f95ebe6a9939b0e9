--------------------------- MODULE TrialRecorder ---------------------------
(***************************************************************************)
(* The trial recorder of src/trial/recorder.ts: recorders that share one     *)
(* data directory, each with a chain, a witness sidecar and a lock of its    *)
(* own.  A recorder appends entries, sends checkpoints of its head to the    *)
(* witness one at a time, answers callers who wait for a receipt, and sends  *)
(* once the heads earlier recorders left unwitnessed.  Appends and sidecar   *)
(* writes fail, the witness refuses, forks or stops, processes die.          *)
(*                                                                          *)
(* The recorder runs in one JavaScript thread: an action is what happens     *)
(* between two awaits.  Checkpoints, hashes and times are not modelled; a    *)
(* head is the session it belongs to and how many entries it covers.         *)
(***************************************************************************)
EXTENDS Integers, Sequences, FiniteSets

CONSTANTS
  MaxSessions,    \* bound: recorders opened on the directory
  MaxOpen,        \* bound: recorders open at a time
  MaxEntries,     \* bound: entries of each session's chain
  MaxFaults,      \* bound: failed appends, lost sidecar lines and deaths
  Callers,        \* calls of awaitWitness
  Remembered,     \* REMEMBERED_ENTRIES
  CatchUpChains,  \* CATCH_UP_CHAINS
  CatchUpPosts,   \* CATCH_UP_POSTS
  None            \* nothing in flight, nobody waiting

Sessions == 1 .. MaxSessions
Counts == UNION {0 .. MaxEntries[s] : s \in Sessions}
Heads == [of : Sessions, count : Counts \ {0}]

ASSUME TrialAssumption ==
  /\ MaxSessions \in Nat
  /\ MaxOpen \in Nat
  /\ MaxEntries \in [Sessions -> Nat]
  /\ MaxFaults \in Nat
  /\ Remembered \in Nat \ {0}
  /\ CatchUpChains \in Nat
  /\ CatchUpPosts \in Nat
  /\ None \notin Heads

VARIABLES
  phase,    \* session -> where its process is in its life
  lines,    \* session -> complete lines of its chain file
  args,     \* session -> entries whose arguments are kept under args/
  sidecar,  \* session -> the lines of its witness sidecar
  damaged,  \* sessions whose sidecar lost a line or holds part of one
  quiet,    \* chains not written for CATCH_UP_QUIET_MS
  newer,    \* session -> the chains written after its own last was (the order of the mtimes)
  driver,   \* session -> what its recorder holds in memory
  wait,     \* caller -> the head it waits to see covered, or None
  told,     \* the ok answers the last step gave: the entry asked for, the covering count
  faults    \* how many faults there were

vars == <<phase, lines, args, sidecar, damaged, quiet, newer, driver, wait, told, faults>>
files == <<lines, args, quiet, newer>>

\* A recorder's memory.  pendingOwn is the head of its own chain, so only its
\* count is kept; an own head is one `of` this session.
Driver == [count : Counts, tried : Counts, ok : Counts, receipts : SUBSET Counts,
           queue : Seq(Heads), inflight : Heads \cup {None}, lastOwn : BOOLEAN, scheduled : BOOLEAN,
           catchUpDue : BOOLEAN, stopped : BOOLEAN, broken : BOOLEAN]

\* What the witness answers: a receipt, a receipt that names a fork, an error,
\* or an error of STOP_CODES.  A POST times out at the latest.
Outcomes == {"ok", "fork", "error", "stop"}
\* A sidecar line holds a receipt, a receipt of a fork, or an error: what the
\* witness said, witness_timeout, witness_stopped.
SidecarLines == [count : Counts \ {0}, result : {"ok", "fork", "error"}]

Live == {s \in Sessions : phase[s] \in {"open", "closing", "ending"}}

TypeOK ==
  /\ phase \in [Sessions -> {"new", "open", "closing", "ending", "closed", "dead"}]
  /\ lines \in [Sessions -> Counts]
  /\ args \in [Sessions -> SUBSET Counts]
  /\ sidecar \in [Sessions -> Seq(SidecarLines)]
  /\ damaged \subseteq Sessions
  /\ quiet \subseteq Sessions
  /\ newer \in [Sessions -> SUBSET Sessions]
  /\ driver \in [Sessions -> Driver]
  /\ wait \in [Callers -> Heads \cup {None}]
  /\ told \subseteq [of : Sessions, count : Counts, covering : Counts]
  /\ faults \in 0 .. MaxFaults

Fresh == [count |-> 0, tried |-> 0, ok |-> 0, receipts |-> {}, queue |-> <<>>, inflight |-> None, lastOwn |-> FALSE,
          scheduled |-> FALSE, catchUpDue |-> TRUE, stopped |-> FALSE, broken |-> FALSE]

Init ==
  /\ phase = [s \in Sessions |-> "new"]
  /\ lines = [s \in Sessions |-> 0]
  /\ args = [s \in Sessions |-> {}]
  /\ sidecar = [s \in Sessions |-> <<>>]
  /\ damaged = {}
  /\ quiet = {}
  /\ newer = [s \in Sessions |-> {}]
  /\ driver = [s \in Sessions |-> Fresh]
  /\ wait = [c \in Callers |-> None]
  /\ told = {}
  /\ faults = 0

----------------------------------------------------------------------------
\* The driver

\* Mutant: an own head counts as tried one entry too far.
PumpOffByOne(s, d) ==
  IF d.inflight = None /\ d.count > d.tried
  THEN [d EXCEPT !.inflight = [of |-> s, count |-> d.count], !.tried = d.count + 1, !.lastOwn = TRUE] ELSE d

\* At most one POST in flight.  The newest own head goes first, but after each
\* own POST one head of the queue goes before the next own one.
\* (A checkpoint that cannot be built would be passed over: one for a head of an
\* entry or more always can, checkpoint.ts:56.)
Pump(s, d) ==
  LET ownReady == d.count > d.tried
      Queued == [d EXCEPT !.inflight = Head(d.queue), !.queue = Tail(d.queue), !.lastOwn = FALSE]
      Own == [d EXCEPT !.inflight = [of |-> s, count |-> d.count], !.tried = d.count, !.lastOwn = TRUE]
  IN  CASE d.inflight # None \/ d.stopped -> d
        [] OTHER -> IF d.queue # <<>> /\ (d.lastOwn \/ ~ownReady) THEN Queued
                    ELSE IF ownReady THEN Own ELSE d

SetDriver(s, d) == driver' = [driver EXCEPT ![s] = d]

Fault == faults < MaxFaults /\ faults' = faults + 1

\* writeSidecar: an append that fails is logged once and its line dropped or
\* left in part.
Sidecar(of, line) ==
  \/ /\ sidecar' = [sidecar EXCEPT ![of] = Append(@, line)]
     /\ UNCHANGED <<damaged, faults>>
  \/ /\ Fault
     /\ damaged' = damaged \cup {of}
     /\ UNCHANGED sidecar

\* settleWaiters, for the callers that wait on s
Waiting(s) == {c \in Callers : wait[c] # None /\ wait[c].of = s}
Settle(done) == wait' = [c \in Callers |-> IF c \in done THEN None ELSE wait[c]]

----------------------------------------------------------------------------
\* Opening and recording

\* openTrialRecorder: the lock is written and the catch-up asked for.
Open(s) ==
  /\ phase[s] = "new"
  /\ s > 1 => phase[s - 1] # "new"
  /\ Cardinality(Live) < MaxOpen
  /\ phase' = [phase EXCEPT ![s] = "open"]
  /\ UNCHANGED <<files, sidecar, damaged, faults, driver, wait>>

\* The chain file of s is written: none is newer.
Touched(s) ==
  /\ quiet' = quiet \ {s}
  /\ newer' = [x \in Sessions |-> IF x = s THEN {} ELSE newer[x] \cup {s}]

CanRecord(s) == phase[s] = "open" /\ ~driver[s].broken /\ driver[s].count < MaxEntries[s]

\* record: the arguments are kept, the line is appended, the head moves.
\* Receipts below the oldest remembered entry answer nobody and are dropped.
Record(s) ==
  LET n == driver[s].count + 1 IN
  /\ CanRecord(s)
  /\ lines' = [lines EXCEPT ![s] = n]
  /\ args' = [args EXCEPT ![s] = @ \cup {n}]
  /\ Touched(s)
  /\ SetDriver(s, [driver[s] EXCEPT !.count = n, !.scheduled = TRUE,
                                    !.receipts = {r \in @ : r > n - Remembered}])
  /\ UNCHANGED <<phase, sidecar, damaged, faults, wait>>

\* Mutant: the arguments removed are those of the entry before.
RecordFailsRemovingLast(s) ==
  /\ CanRecord(s)
  /\ Fault
  /\ args' = [args EXCEPT ![s] = @ \ {driver[s].count}]
  /\ Touched(s)
  /\ UNCHANGED <<lines, driver, phase, sidecar, damaged, wait>>

\* An append that throws, with none, part or all of its line in the file: the
\* kept arguments are removed and the file is cut back; a file that cannot be
\* cut back is broken for good.  One that took no byte keeps its mtime.
RecordFails(s) ==
  LET n == driver[s].count + 1 IN
  /\ CanRecord(s)
  /\ Fault
  /\ args' = [args EXCEPT ![s] = @ \ {n}]
  /\ \/ UNCHANGED <<lines, driver, quiet, newer>>
     \/ Touched(s) /\ UNCHANGED <<lines, driver>>
     \/ /\ Touched(s)
        /\ lines' \in {lines, [lines EXCEPT ![s] = n]}
        /\ SetDriver(s, [driver[s] EXCEPT !.broken = TRUE])
  /\ UNCHANGED <<phase, sidecar, damaged, wait>>

\* The immediate of schedule.
Immediate(s) ==
  /\ phase[s] \in {"open", "closing"}
  /\ driver[s].scheduled
  /\ SetDriver(s, Pump(s, [driver[s] EXCEPT !.scheduled = FALSE]))
  /\ UNCHANGED <<phase, files, sidecar, damaged, faults, wait>>

----------------------------------------------------------------------------
\* The catch-up of earlier sessions

\* Mutant: a lock never keeps a chain from the catch-up.
LockIgnored(s) == FALSE

\* lockIsLive: the lock names a running process.
LockIsLive(s) == s \in Live

\* A receipt in the sidecar covers the whole chain; a fork's does too.
Covered(s) == \E i \in DOMAIN sidecar[s] : sidecar[s][i].result \in {"ok", "fork"} /\ sidecar[s][i].count >= lines[s]

\* A chain that is not empty, not live, not written of late, with a sidecar
\* that parses and no receipt for its head.
NeedsCatchUp(s) == lines[s] > 0 /\ s \in quiet /\ ~LockIsLive(s) /\ s \notin damaged /\ ~Covered(s)

\* Mutant: of the chains that need it, those written longest ago.
CatchUpHeadsOldestFirst(s) ==
  LET needed == {x \in Sessions \ {s} : NeedsCatchUp(x)}
      queued == {x \in needed : Cardinality({y \in needed : x \in newer[y]}) < CatchUpPosts}
  IN  {heads \in [1 .. Cardinality(queued) -> Heads] :
         /\ \A i \in DOMAIN heads : heads[i].of \in queued /\ heads[i].count = lines[heads[i].of]
         /\ \A i, j \in DOMAIN heads : i < j => heads[j].of \in newer[heads[i].of]}

\* runCatchUp: of the CATCH_UP_CHAINS chains written last, its own left out,
\* those that need it, newest first and CATCH_UP_POSTS of them at most.
CatchUpHeads(s) ==
  LET looked == {x \in Sessions \ {s} : Cardinality(newer[x] \ {s}) < CatchUpChains}
      needed == {x \in looked : NeedsCatchUp(x)}
      queued == {x \in needed : Cardinality(newer[x] \cap needed) < CatchUpPosts}
  IN  {heads \in [1 .. Cardinality(queued) -> Heads] :
         /\ \A i \in DOMAIN heads : heads[i].of \in queued /\ heads[i].count = lines[heads[i].of]
         /\ \A i, j \in DOMAIN heads : i < j => heads[i].of \in newer[heads[j].of]}

\* The immediate of openTrialRecorder, once.
RunCatchUp(s) ==
  /\ phase[s] \in {"open", "closing"}
  /\ driver[s].catchUpDue
  /\ \E heads \in CatchUpHeads(s) :
       LET d == [driver[s] EXCEPT !.catchUpDue = FALSE, !.queue = @ \o heads]
       IN  SetDriver(s, IF heads = <<>> THEN d ELSE Pump(s, d))
  /\ UNCHANGED <<phase, files, sidecar, damaged, faults, wait>>

\* A recorder with nothing to do: ten minutes outlast every timeout.
Idle(s) ==
  /\ phase[s] = "open"
  /\ driver[s].inflight = None
  /\ ~driver[s].scheduled
  /\ ~driver[s].catchUpDue

\* Time passes, and nothing is written to a chain; those written before it are
\* quiet by then.
GoesQuiet(s) ==
  /\ lines[s] > 0
  /\ s \notin quiet
  /\ \A t \in Sessions : s \in newer[t] /\ lines[t] > 0 => t \in quiet
  /\ \A t \in Live : Idle(t)
  /\ \A c \in Callers : wait[c] = None
  /\ quiet' = quiet \cup {s}
  /\ UNCHANGED <<phase, lines, args, newer, sidecar, damaged, faults, driver, wait>>

\* stoppedUntil is 00:00 UTC.
Midnight ==
  /\ \E s \in Sessions : driver[s].stopped
  /\ driver' = [s \in Sessions |-> [driver[s] EXCEPT !.stopped = FALSE]]
  /\ UNCHANGED <<phase, files, sidecar, damaged, faults, wait>>

----------------------------------------------------------------------------
\* The witness answers

Returns(s) == phase[s] \in {"open", "closing"} /\ driver[s].inflight # None

\* Mutant: nothing is sent once a POST has been answered.
PostReturnsWithoutPump(s) ==
  LET f == driver[s].inflight IN
  /\ Returns(s)
  /\ Sidecar(f.of, [count |-> f.count, result |-> "ok"])
  /\ SetDriver(s, [driver[s] EXCEPT !.inflight = None])
  /\ Settle(Waiting(s))
  /\ told' = {}
  /\ UNCHANGED <<phase, files>>

\* Mutant: any receipt answers the callers who wait.
PostReturnsTrusting(s) ==
  LET d == driver[s]
      f == d.inflight
      covers == {c \in Waiting(s) : wait[c].count <= f.count}
  IN
  /\ Returns(s)
  /\ Sidecar(f.of, [count |-> f.count, result |-> "fork"])
  /\ Settle(covers)
  /\ told' = {[of |-> s, count |-> wait[c].count, covering |-> f.count] : c \in covers}
  /\ SetDriver(s, Pump(s, [d EXCEPT !.inflight = None]))
  /\ UNCHANGED <<phase, files>>

\* finish: the sidecar line, then the receipt, then the stop, then the next POST.
\* Only a receipt for the recorder's own chain that names no fork answers those
\* who wait; a stop answers all of them and empties the queue.
PostReturns(s) ==
  LET d == driver[s]
      f == d.inflight
  IN
  /\ Returns(s)
  /\ \E result \in Outcomes :
       LET vouched == result = "ok" /\ f.of = s
           covered == {c \in Waiting(s) : vouched /\ wait[c].count <= f.count}
           seen == IF vouched
                   THEN [d EXCEPT !.inflight = None, !.receipts = @ \cup {f.count}, !.ok = IF f.count > @ THEN f.count ELSE @]
                   ELSE [d EXCEPT !.inflight = None]
       IN  /\ Sidecar(f.of, [count |-> f.count, result |-> IF result = "stop" THEN "error" ELSE result])
           /\ told' = {[of |-> s, count |-> wait[c].count, covering |-> f.count] : c \in covered}
           /\ Settle(IF result = "stop" THEN Waiting(s) ELSE covered)
           /\ SetDriver(s, Pump(s, IF result = "stop" THEN [seen EXCEPT !.stopped = TRUE, !.queue = <<>>] ELSE seen))
  /\ UNCHANGED <<phase, files>>

\* An entry the recorder still remembers; any other is answered unknown-entry.
Known(s) == {n \in 1 .. driver[s].count : n > driver[s].count - Remembered}

\* Mutant: the receipts at hand are not looked at.
AwaitWithoutLooking(c, s, n) ==
  /\ wait[c] = None
  /\ phase[s] \in {"open", "closing"}
  /\ n \in Known(s)
  /\ wait' = [wait EXCEPT ![c] = [of |-> s, count |-> n]]
  /\ told' = {}
  /\ UNCHANGED <<phase, files, sidecar, damaged, faults, driver>>

\* awaitWitness: the first receipt that covers the entry answers at once;
\* stopped answers at once; otherwise the caller waits.
AwaitWitness(c, s, n) ==
  LET hits == {r \in driver[s].receipts : r >= n} IN
  /\ wait[c] = None
  /\ phase[s] \in {"open", "closing"}
  /\ n \in Known(s)
  /\ \/ /\ hits # {}
        /\ told' = {[of |-> s, count |-> n, covering |-> CHOOSE r \in hits : \A q \in hits : r <= q]}
        /\ UNCHANGED wait
     \/ /\ hits = {}
        /\ ~driver[s].stopped
        /\ wait' = [wait EXCEPT ![c] = [of |-> s, count |-> n]]
        /\ told' = {}
  /\ UNCHANGED <<phase, files, sidecar, damaged, faults, driver>>

\* A caller waits at most MAX_AWAIT_MS.
WaiterTimesOut(c) ==
  /\ wait[c] # None
  /\ Settle({c})
  /\ UNCHANGED <<phase, files, sidecar, damaged, faults, driver>>

----------------------------------------------------------------------------
\* The end of a recorder

\* close: the queue is dropped, and a head that was tried and not receipted is
\* to be tried once more.
Close(s) ==
  LET d == [driver[s] EXCEPT !.queue = <<>>]
      retry == d.ok < d.count /\ d.tried >= d.count /\ d.inflight # [of |-> s, count |-> d.count]
  IN
  /\ phase[s] = "open"
  /\ phase' = [phase EXCEPT ![s] = "closing"]
  /\ SetDriver(s, Pump(s, IF retry THEN [d EXCEPT !.tried = d.count - 1] ELSE d))
  /\ UNCHANGED <<files, sidecar, damaged, faults, wait>>

\* The driver is idle or the time is up; a POST still in flight is abandoned.
StopWaiting(s) ==
  LET f == driver[s].inflight IN
  /\ phase[s] = "closing"
  /\ phase' = [phase EXCEPT ![s] = "ending"]
  /\ SetDriver(s, [driver[s] EXCEPT !.inflight = None])
  /\ IF f = None THEN UNCHANGED <<sidecar, damaged, faults>> ELSE Sidecar(f.of, [count |-> f.count, result |-> "error"])
  /\ UNCHANGED <<files, wait>>

\* Mutant: a head that was never sent leaves no line.
CloseEndsSilently(s) ==
  /\ phase[s] = "ending"
  /\ phase' = [phase EXCEPT ![s] = "closed"]
  /\ Settle(Waiting(s))
  /\ UNCHANGED <<files, sidecar, damaged, faults, driver>>

\* A process that has ended holds nothing; what it knew is kept for the properties.
Ended(d) == [Fresh EXCEPT !.count = d.count, !.broken = d.broken]

\* A head never sent is written as such, everyone is answered and the lock goes.
CloseEnds(s) ==
  LET d == driver[s] IN
  /\ phase[s] = "ending"
  /\ phase' = [phase EXCEPT ![s] = "closed"]
  /\ IF d.count > d.tried THEN Sidecar(s, [count |-> d.count, result |-> "error"]) ELSE UNCHANGED <<sidecar, damaged, faults>>
  /\ Settle(Waiting(s))
  /\ SetDriver(s, Ended(d))
  /\ UNCHANGED files

\* The process dies, in the middle of a record perhaps: the arguments are kept
\* before the line is written.  The lock stays and names no running process.
Die(s) ==
  LET n == driver[s].count + 1 IN
  /\ s \in Live
  /\ Fault
  /\ phase' = [phase EXCEPT ![s] = "dead"]
  /\ Settle(Waiting(s))
  /\ \/ UNCHANGED files
     \/ /\ CanRecord(s)
        /\ args' = [args EXCEPT ![s] = @ \cup {n}]
        /\ \/ UNCHANGED <<lines, quiet, newer>>
           \/ Touched(s) /\ lines' \in {lines, [lines EXCEPT ![s] = n]}
  /\ SetDriver(s, Ended(driver[s]))
  /\ UNCHANGED <<sidecar, damaged>>

Quietly == told' = {}

Next ==
  \/ \E s \in Sessions :
       \/ PostReturns(s)
       \/ Quietly /\ Open(s)
       \/ Quietly /\ Record(s)
       \/ Quietly /\ RecordFails(s)
       \/ Quietly /\ Immediate(s)
       \/ Quietly /\ RunCatchUp(s)
       \/ Quietly /\ GoesQuiet(s)
       \/ Quietly /\ Close(s)
       \/ Quietly /\ StopWaiting(s)
       \/ Quietly /\ CloseEnds(s)
       \/ Quietly /\ Die(s)
  \/ \E c \in Callers, s \in Sessions, n \in Counts : AwaitWitness(c, s, n)
  \/ \E c \in Callers : Quietly /\ WaiterTimesOut(c)
  \/ Quietly /\ Midnight

\* Immediates run, a POST is answered or times out, and so does close.
Fairness ==
  \A s \in Sessions :
    /\ WF_vars(Quietly /\ Immediate(s))
    /\ WF_vars(Quietly /\ RunCatchUp(s))
    /\ WF_vars(PostReturns(s))
    /\ WF_vars(Quietly /\ StopWaiting(s))
    /\ WF_vars(Quietly /\ CloseEnds(s))

Spec == Init /\ [][Next]_vars /\ Fairness

----------------------------------------------------------------------------
\* What the recorder promises

\* An ok answer of awaitWitness is about an entry that is in the chain file,
\* and a receipt that names no fork and covers it is in the sidecar, unless
\* a sidecar line could not be written.
AnswersAreWitnessed ==
  \A a \in told :
    /\ a.count <= a.covering
    /\ a.covering <= lines[a.of]
    /\ \/ a.of \in damaged
       \/ \E i \in DOMAIN sidecar[a.of] : sidecar[a.of][i] = [count |-> a.covering, result |-> "ok"]

\* Nobody waits for what has been decided: on an entry a receipt has covered,
\* on a recorder that has stopped sending, or on one that has ended.
NoForgottenWaiter ==
  \A c \in Callers :
    wait[c] # None => /\ wait[c].of \in Live
                      /\ wait[c].count > driver[wait[c].of].ok
                      /\ ~driver[wait[c].of].stopped

\* After a close the sidecar says what became of the last head, whatever the
\* witness did and however the close was cut short (recorder.ts:605).
CloseAccountsForHead ==
  \A s \in Sessions :
    phase[s] = "closed" /\ driver[s].count > 0 /\ s \notin damaged
      => \E i \in DOMAIN sidecar[s] : sidecar[s][i].count = driver[s].count

\* Every entry a reader finds in a chain has its arguments kept (files.ts:69);
\* the one line a broken append may leave is no entry of the recorder's.
EntriesKeepTheirArguments ==
  \A s \in Sessions : 1 .. (IF driver[s].broken THEN driver[s].count ELSE lines[s]) \subseteq args[s]

\* The heads of a sidecar never go back, though a recorder writes to its own
\* and to those of earlier ones: the lock keeps the catch-up off a live chain.
SidecarInOrder ==
  \A s \in Sessions : \A i, j \in DOMAIN sidecar[s] : i <= j => sidecar[s][i].count <= sidecar[s][j].count

\* A head recorded while the witness has not stopped the recorder is sent, or a
\* later one is, while the recorder stays open, though an earlier session's head
\* may go before it.  (A head recorded while it is stopped waits for the next
\* record: midnight sends nothing by itself.)
HeadsAreSent ==
  \A s \in Sessions : \A n \in 1 .. MaxEntries[s] :
    driver[s].scheduled /\ driver[s].count = n /\ ~driver[s].stopped
      ~> driver[s].tried >= n \/ driver[s].stopped \/ phase[s] # "open"

\* The tails t promises to pick up: that of s, if fewer than CATCH_UP_CHAINS other
\* chains were written after it and fewer than CATCH_UP_POSTS of those are
\* unwitnessed tails themselves (recorder.ts:441-442).
Promised(t, s) ==
  LET later == {x \in Sessions \ {s, t} : x \in newer[s]} IN
  /\ NeedsCatchUp(s)
  /\ Cardinality(later) < CatchUpChains
  /\ Cardinality({x \in later : NeedsCatchUp(x)}) < CatchUpPosts

\* A quiet, unwitnessed tail that a dead or closed recorder left, within the
\* limits of one catch-up, is sent to the witness by the next recorder that
\* opens, unless that one is stopped or ends, or the tail is covered, spoiled or
\* displaced by later ones before its catch-up runs.
TailIsPickedUp ==
  \A t \in Sessions : \A s \in 1 .. t - 1 :
    (phase[t] = "open" /\ driver[t].catchUpDue /\ ~driver[t].stopped /\ Promised(t, s))
      ~> \/ driver[t].inflight = [of |-> s, count |-> lines[s]]
         \/ driver[t].stopped \/ phase[t] # "open"
         \/ driver[t].catchUpDue /\ ~Promised(t, s)
=============================================================================
