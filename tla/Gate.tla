-------------------------------- MODULE Gate --------------------------------
(***************************************************************************)
(* The stdio proxy of src/proxy.ts: it reads lines from the client, refuses *)
(* or denies or forwards each one, pairs the downstream server's answers    *)
(* with the calls it forwarded, and writes a receipt to the chain file for  *)
(* every tools/call.                                                        *)
(*                                                                          *)
(* The event loop runs one handler at a time to its end, so each handler is *)
(* one action.  A client line is named by its number; its text is reduced   *)
(* to the class the gate's checks put it in, its id and its tool.           *)
(***************************************************************************)
EXTENDS Naturals, Sequences

CONSTANTS
  Ids,        \* the usable JSON-RPC ids: strings and integers
  Tools,      \* the tool names
  MaxLines,   \* bound: client lines read in one session
  MaxBatch,   \* bound: tools/call elements of one JSON-RPC batch
  Faults,     \* how an append to the chain file may fail
  Peers       \* what the client and the downstream server may do with ids

ASSUME GateAssumption ==
  /\ MaxLines \in Nat
  /\ MaxBatch \in Nat
  /\ Faults \subseteq {"refused", "cut", "landed", "unended"}
  /\ Peers \subseteq {"serverRequest", "sharedId"}

VARIABLES
  lines,       \* how many client lines have been read
  policy,      \* what loadPolicy() would return now: the denied tools, or a load failure
  pending,     \* pendingAllows: id -> the line of the forwarded tools/call, or NoLine
  inbox,       \* requests the downstream has received and not answered
  ran,         \* lines the downstream received as a tools/call
  chain,       \* the receipts a reader of the chain file finds
  tail,        \* how the file ends: "clean", "unended" with a receipt that lacks its
               \*   newline, "broken" once a line of it cannot be parsed
  answers,     \* per line, what the client has been sent for it
  clientOpen,  \* the client's stream is open
  downUp,      \* the downstream process runs
  exited       \* the proxy process has ended

vars == <<lines, policy, pending, inbox, ran, chain, tail, answers,
          clientOpen, downUp, exited>>

Line == 1 .. MaxLines
NoLine == 0

Policies == [loads : BOOLEAN, denied : SUBSET Tools]
Message == [id : Ids, line : Line \cup {NoLine}, call : BOOLEAN]
Receipt == [decision : {"allow", "deny"}, line : Line, answer : Line \cup {NoLine}]
Tails == {"clean", "unended", "broken"}
Answers == {"error", "denied", "result", "withheld"}

TypeOK ==
  /\ lines \in 0 .. MaxLines
  /\ policy \in Policies
  /\ pending \in [Ids -> Line \cup {NoLine}]
  /\ inbox \subseteq Message
  /\ ran \subseteq Line
  /\ chain \in Seq(Receipt)
  /\ tail \in Tails
  /\ answers \in [Line -> SUBSET Answers]
  /\ clientOpen \in BOOLEAN
  /\ downUp \in BOOLEAN
  /\ exited \in BOOLEAN

Init ==
  /\ lines = 0
  /\ policy = [loads |-> TRUE, denied |-> {}]
  /\ pending = [id \in Ids |-> NoLine]
  /\ inbox = {}
  /\ ran = {}
  /\ chain = <<>>
  /\ tail = "clean"
  /\ answers = [l \in Line |-> {}]
  /\ clientOpen = TRUE
  /\ downUp = TRUE
  /\ exited = FALSE

----------------------------------------------------------------------------
\* Receipts

\* Mutant: a refusal recorded under a decision of its own.
DenyReceiptMislabelled(l) == [decision |-> "refuse", line |-> l, answer |-> NoLine]

DenyReceipt(l) == [decision |-> "deny", line |-> l, answer |-> NoLine]
AllowReceipt(l, m) == [decision |-> "allow", line |-> l, answer |-> m.line]

Copies(r, k) == [i \in 1 .. k |-> r]

\* Tries to append n copies of receipt r, one after another, of which k stay
\* readable.  Each first reads the whole file, and fails if a line of it cannot
\* be parsed; the append itself
\*   - is refused with nothing written ("refused": ENOSPC, EACCES), or
\*   - leaves part of the line ("cut"), or
\*   - leaves all of it and throws all the same ("landed": the close fails), or
\*   - leaves all but the newline ("unended"): a reader still parses that
\*     receipt, until the next one is written behind it on the same line.
WriteReceiptSafely(r, n, k) ==
  \/ /\ tail' = tail
     /\ chain' = chain \o Copies(r, k)
     /\ tail # "clean" => k = 0
     /\ k < n => tail = "broken" \/ "refused" \in Faults
  \/ /\ tail = "clean" /\ tail' = "broken"
     /\ chain' = chain \o Copies(r, k)
     /\ \/ k < n /\ "cut" \in Faults
        \/ k + 2 <= n /\ "unended" \in Faults
  \/ /\ tail = "clean" /\ tail' = "unended"
     /\ chain' = chain \o Copies(r, k)
     /\ "unended" \in Faults
     /\ k > 0
     /\ k < n => "refused" \in Faults
  \/ /\ tail = "unended" /\ tail' = "broken"
     /\ chain' = SubSeq(chain, 1, Len(chain) - 1)
     /\ n > 0 /\ k = 0

\* Mutant: the handler of a failed append does not return false.
ReturnsTrue(k, ok) == ok

\* What the write of one receipt, of which k stay readable, may return: TRUE
\* when no call threw, also for a receipt glued to a line without its newline.
Returns(k, ok) ==
  /\ ok => (k = 1 /\ tail' = "clean") \/ (tail = "unended" /\ tail' = "broken")
  /\ (k = 1 /\ ~ok) => tail' = "unended" \/ "landed" \in Faults

Tell(l, what) == answers' = [answers EXCEPT ![l] = @ \cup {what}]

----------------------------------------------------------------------------
\* Client lines

This == lines + 1

ReadClientLine ==
  /\ ~exited
  /\ clientOpen
  /\ lines < MaxLines
  /\ lines' = This

\* A line that is refused: n receipts owed, an error to the client if replies.
Refuse(n, k, replies) ==
  /\ ReadClientLine
  /\ WriteReceiptSafely(DenyReceipt(This), n, k)
  /\ IF replies THEN Tell(This, "error") ELSE answers' = answers
  /\ UNCHANGED <<policy, pending, inbox, ran, clientOpen, downUp, exited>>

\* Not JSON, or a carriage return inside the line: no tool can be named.
RefuseLine == Refuse(0, 0, TRUE)

\* A JSON array with n elements that read as tools/call.
RefuseBatch(n, k) == Refuse(n, k, TRUE)

\* Duplicate, case-clashing or __proto__ members, or a method that is not the
\* plain string: a receipt when some reader could take it for a tools/call.
RefuseMessage(claims, k) == Refuse(claims, k, TRUE)

\* A tools/call with no id (a notification, not answered) or an unusable one.
\* owed is 0 when its arguments hold a number no receipt can hash.
RefuseWithoutId(hasId, owed, k) == Refuse(owed, k, hasId)

\* A tools/call with a usable id and numbers, a name or a depth the gate
\* refuses before it consults the policy.
RefuseFlawedCall(owed, k) == Refuse(owed, k, TRUE)

\* A tools/call whose id is that of a call still waiting for its result.
RefuseInFlight(id, k) ==
  /\ pending[id] # NoLine
  /\ Refuse(1, k, TRUE)

\* The policy file is read again for every call; a load failure denies.
Permits(tool) == policy.loads /\ tool \notin policy.denied

\* Mutant: no return after the denial, the call is forwarded too.
DenyCallAndForward(id, tool, k) ==
  /\ pending[id] = NoLine
  /\ ~Permits(tool)
  /\ ReadClientLine
  /\ Tell(This, "denied")
  /\ WriteReceiptSafely(DenyReceipt(This), 1, k)
  /\ inbox' = inbox \cup {[id |-> id, line |-> This, call |-> TRUE]}
  /\ ran' = ran \cup {This}
  /\ UNCHANGED <<policy, pending, clientOpen, downUp, exited>>

\* Mutant: the denial is sent and not recorded.
DenyCallUnrecorded(id, tool, k) ==
  /\ pending[id] = NoLine
  /\ ~Permits(tool)
  /\ ReadClientLine
  /\ Tell(This, "denied")
  /\ UNCHANGED <<policy, pending, inbox, ran, chain, tail, clientOpen, downUp, exited>>

DenyCall(id, tool, k) ==
  /\ pending[id] = NoLine
  /\ ~Permits(tool)
  /\ ReadClientLine
  /\ Tell(This, "denied")
  /\ WriteReceiptSafely(DenyReceipt(This), 1, k)
  /\ UNCHANGED <<policy, pending, inbox, ran, clientOpen, downUp, exited>>

\* A client that follows MCP never has two requests with one id in flight.
IdUnused(id) == "sharedId" \in Peers \/ \A m \in inbox : m.id # id

\* Once the downstream is gone its stdin takes nothing.
Forward(m) == inbox' = IF downUp THEN inbox \cup {m} ELSE inbox

\* Mutant: the receipt is written when the call is forwarded, and again when
\* its result comes back.
AllowCallReceiptedEarly(id, tool) ==
  /\ pending[id] = NoLine
  /\ IdUnused(id)
  /\ Permits(tool)
  /\ ReadClientLine
  /\ pending' = [pending EXCEPT ![id] = This]
  /\ inbox' = inbox \cup {[id |-> id, line |-> This, call |-> TRUE]}
  /\ ran' = ran \cup {This}
  /\ WriteReceiptSafely([decision |-> "allow", line |-> This, answer |-> This], 1, 1)
  /\ UNCHANGED <<policy, answers, clientOpen, downUp, exited>>

AllowCall(id, tool) ==
  /\ pending[id] = NoLine
  /\ IdUnused(id)
  /\ Permits(tool)
  /\ ReadClientLine
  /\ pending' = [pending EXCEPT ![id] = This]
  /\ Forward([id |-> id, line |-> This, call |-> TRUE])
  /\ ran' = IF downUp THEN ran \cup {This} ELSE ran
  /\ UNCHANGED <<policy, chain, tail, answers, clientOpen, downUp, exited>>

\* Any request that is not a tools/call is forwarded as it came.
RelayRequest(id) ==
  /\ "sharedId" \in Peers \/ pending[id] = NoLine
  /\ IdUnused(id)
  /\ ReadClientLine
  /\ Forward([id |-> id, line |-> This, call |-> FALSE])
  /\ UNCHANGED <<policy, pending, ran, chain, tail, answers, clientOpen, downUp, exited>>

\* So is a notification, a response or a line that is no object.
RelayNotification ==
  /\ ReadClientLine
  /\ UNCHANGED <<policy, pending, inbox, ran, chain, tail, answers, clientOpen, downUp, exited>>

----------------------------------------------------------------------------
\* Downstream lines

Relay(m) == IF m.line = NoLine THEN answers' = answers ELSE Tell(m.line, "result")

\* Mutant: the id is not taken out of pendingAllows.
HandleDownstreamLineKeepingId(m, k, ok) ==
  IF pending[m.id] = NoLine
  THEN /\ Relay(m)
       /\ UNCHANGED <<pending, chain, tail>>
  ELSE /\ WriteReceiptSafely(AllowReceipt(pending[m.id], m), 1, k)
       /\ Returns(k, ok)
       /\ IF ok THEN Relay(m) ELSE Tell(pending[m.id], "withheld")
       /\ UNCHANGED pending

\* Mutant: the result of the write is not looked at.
HandleDownstreamLineReleasing(m, k, ok) ==
  IF pending[m.id] = NoLine
  THEN /\ Relay(m)
       /\ UNCHANGED <<pending, chain, tail>>
  ELSE /\ pending' = [pending EXCEPT ![m.id] = NoLine]
       /\ WriteReceiptSafely(AllowReceipt(pending[m.id], m), 1, k)
       /\ Returns(k, ok)
       /\ Relay(m)

\* Mutant: no return after the withheld answer.
HandleDownstreamLineTellingTwice(m, k, ok) ==
  IF pending[m.id] = NoLine
  THEN /\ Relay(m)
       /\ UNCHANGED <<pending, chain, tail>>
  ELSE /\ pending' = [pending EXCEPT ![m.id] = NoLine]
       /\ WriteReceiptSafely(AllowReceipt(pending[m.id], m), 1, k)
       /\ Returns(k, ok)
       /\ answers' = [answers EXCEPT ![pending[m.id]] =
                        @ \cup (IF ok THEN {"result"} ELSE {"result", "withheld"})]

\* Mutant: a receipted result is dropped.
HandleDownstreamLineDropping(m, k, ok) ==
  IF pending[m.id] = NoLine
  THEN /\ Relay(m)
       /\ UNCHANGED <<pending, chain, tail>>
  ELSE /\ pending' = [pending EXCEPT ![m.id] = NoLine]
       /\ WriteReceiptSafely(AllowReceipt(pending[m.id], m), 1, k)
       /\ Returns(k, ok)
       /\ answers' = answers

\* The gate looks at the line's id alone, whatever kind of message it is.
HandleDownstreamLine(m, k, ok) ==
  IF pending[m.id] = NoLine
  THEN /\ Relay(m)
       /\ UNCHANGED <<pending, chain, tail>>
  ELSE /\ pending' = [pending EXCEPT ![m.id] = NoLine]
       /\ WriteReceiptSafely(AllowReceipt(pending[m.id], m), 1, k)
       /\ Returns(k, ok)
       /\ IF ok THEN Relay(m) ELSE Tell(pending[m.id], "withheld")

\* The downstream answers a request.  What it wrote before it died is still
\* read, so downUp is not asked for.
DownstreamAnswers(m, k, ok) ==
  /\ ~exited
  /\ m \in inbox
  /\ inbox' = inbox \ {m}
  /\ HandleDownstreamLine(m, k, ok)
  /\ UNCHANGED <<lines, policy, ran, clientOpen, downUp, exited>>

\* The downstream sends a request of its own (ping, sampling, elicitation);
\* its ids are its own and may equal one the client uses.
ServerRequest(id, k, ok) ==
  /\ ~exited
  /\ downUp
  /\ "serverRequest" \in Peers
  /\ HandleDownstreamLine([id |-> id, line |-> NoLine, call |-> FALSE], k, ok)
  /\ UNCHANGED <<lines, policy, inbox, ran, clientOpen, downUp, exited>>

----------------------------------------------------------------------------
\* The rest of the world

EditPolicy(p) ==
  /\ ~exited
  /\ policy' = p
  /\ UNCHANGED <<lines, pending, inbox, ran, chain, tail, answers, clientOpen, downUp, exited>>

ClientEnds ==
  /\ clientOpen /\ clientOpen' = FALSE
  /\ ~exited
  /\ UNCHANGED <<lines, policy, pending, inbox, ran, chain, tail, answers, downUp, exited>>

DownstreamExits ==
  /\ downUp /\ downUp' = FALSE
  /\ ~exited
  /\ UNCHANGED <<lines, policy, pending, inbox, ran, chain, tail, answers, clientOpen, exited>>

\* Either end closing resolves `done`; until the process ends (up to 5 s for
\* the shutdown checkpoint) the stream handlers above stay attached.
Exit ==
  /\ ~clientOpen \/ ~downUp
  /\ ~exited /\ exited' = TRUE
  /\ UNCHANGED <<lines, policy, pending, inbox, ran, chain, tail, answers, clientOpen, downUp>>

ClientLine ==
  \/ RefuseLine
  \/ \E n \in 0 .. MaxBatch : \E k \in 0 .. n : RefuseBatch(n, k)
  \/ \E claims \in {0, 1} : \E k \in 0 .. claims : RefuseMessage(claims, k)
  \/ \E hasId \in BOOLEAN, owed \in {0, 1} : \E k \in 0 .. owed : RefuseWithoutId(hasId, owed, k)
  \/ \E owed \in {0, 1} : \E k \in 0 .. owed : RefuseFlawedCall(owed, k)
  \/ \E id \in Ids, k \in {0, 1} : RefuseInFlight(id, k)
  \/ \E id \in Ids, tool \in Tools, k \in {0, 1} : DenyCall(id, tool, k)
  \/ \E id \in Ids, tool \in Tools : AllowCall(id, tool)
  \/ \E id \in Ids : RelayRequest(id)
  \/ RelayNotification

DownstreamLine ==
  \/ \E m \in inbox, k \in {0, 1}, ok \in BOOLEAN : DownstreamAnswers(m, k, ok)
  \/ \E id \in Ids, k \in {0, 1}, ok \in BOOLEAN : ServerRequest(id, k, ok)

Next ==
  \/ ClientLine
  \/ DownstreamLine
  \/ \E p \in Policies : EditPolicy(p)
  \/ ClientEnds
  \/ DownstreamExits
  \/ Exit

Spec == Init /\ [][Next]_vars

\* The downstream answers each request it holds while it runs; the event loop
\* delivers the answer.  Nothing else is assumed to happen.
Answered(l) ==
  \E m \in inbox, k \in {0, 1}, ok \in BOOLEAN : m.line = l /\ DownstreamAnswers(m, k, ok)

FairSpec == Spec /\ \A l \in Line : WF_vars(Answered(l))

----------------------------------------------------------------------------
\* Properties

\* The receipts and what ran agree (proxy.ts:798-833, 937-958): a deny
\* receipt's line never reached the downstream as a call, an allow receipt's
\* line did.
ReceiptsMatchExecution ==
  \A i \in DOMAIN chain : chain[i].decision = "allow" <=> chain[i].line \in ran

\* A call's result reaches the client only when its allow receipt, over that
\* very result, is in the chain (README.md:37-39, proxy.ts:931-932).
ResultsAreReceipted ==
  \A l \in ran :
    "result" \in answers[l] =>
      \E i \in DOMAIN chain : chain[i] = [decision |-> "allow", line |-> l, answer |-> l]

\* Nothing else is on record as executed: an allow receipt hashes the call's
\* own result, and the client was sent it, or told that it is withheld when the
\* receipt landed by an append that threw.
AllowsAreDelivered ==
  LET Sent(l) == "result" \in answers[l]
      Held(l) == "withheld" \in answers[l] /\ Faults \cap {"landed", "unended"} # {}
  IN \A i \in DOMAIN chain :
       chain[i].decision = "allow" =>
         /\ chain[i].answer = chain[i].line
         /\ Sent(chain[i].line) \/ Held(chain[i].line)

\* A call that ran has at most one receipt, whatever ids were used again and
\* whatever appends failed.
OneReceiptPerRun ==
  \A i, j \in DOMAIN chain :
    chain[i].line = chain[j].line /\ chain[i].line \in ran => i = j

\* The client is told one thing about each line: no result after a denial, no
\* withheld result that is delivered after all.
OneAnswerPerLine ==
  \A l \in Line : \A a, b \in answers[l] : a = b

\* pendingAllows holds exactly the calls the downstream holds, as long as it
\* runs: none is forgotten, and no id stays taken (proxy.ts:230, 555-569).
PendingIsInFlight ==
  downUp =>
    \A id \in Ids, l \in Line :
      pending[id] = l <=> [id |-> id, line |-> l, call |-> TRUE] \in inbox

\* Once the chain file cannot be read back no result of a call is released for
\* the rest of the session (proxy.ts:958-971).
BrokenChainReleasesNothing ==
  [][tail = "broken" =>
       \A l \in ran : "result" \in answers'[l] => "result" \in answers[l]]_vars

\* Every call that ran is answered, or the downstream or the proxy is gone.  A
\* client that has two requests under one id in flight loses that once an append
\* fails: the withheld notice then goes to the later of the two alone.
EveryRunIsAnswered ==
  \A l \in Line :
    l \in ran ~> \/ answers[l] # {} \/ ~downUp \/ exited
                 \/ "sharedId" \in Peers /\ tail # "clean"

\* As long as no append was refused or lost, every denial the client was sent
\* is on record, although the reply goes out before the receipt (proxy.ts:802-813).
DenialsAreReceipted ==
  "refused" \notin Faults /\ tail # "broken" =>
    \A l \in Line : "denied" \in answers[l] =>
      \E i \in DOMAIN chain : chain[i] = DenyReceipt(l)

----------------------------------------------------------------------------
\* The inductive invariant behind the properties above, for peers that keep
\* their ids apart (Peers = {}) and appends that never stop at the newline.

\* Lines not read yet have left no trace.
UnreadLinesAreFresh ==
  /\ \A l \in Line : l > lines => answers[l] = {}
  /\ \A l \in ran : l <= lines
  /\ \A i \in DOMAIN chain : chain[i].line <= lines
  /\ \A id \in Ids : pending[id] <= lines
  /\ \A m \in inbox : m.line \in 1 .. lines

\* Every request the downstream holds is unanswered, alone under its id, and
\* in pendingAllows exactly if it is a tools/call.
InboxIsOpen ==
  /\ \A m \in inbox :
       /\ answers[m.line] = {}
       /\ m.call <=> m.line \in ran
       /\ pending[m.id] = IF m.call THEN m.line ELSE NoLine
  /\ \A m, n \in inbox : m.id = n.id \/ m.line = n.line => m = n

\* While the downstream runs it holds every call of pendingAllows.
PendingIsHeld ==
  downUp => \A id \in Ids :
    pending[id] # NoLine => [id |-> id, line |-> pending[id], call |-> TRUE] \in inbox

GateInv ==
  /\ TypeOK
  /\ tail = "unended" => "unended" \in Faults
  /\ UnreadLinesAreFresh
  /\ InboxIsOpen
  /\ PendingIsHeld
  /\ ReceiptsMatchExecution
  /\ ResultsAreReceipted
  /\ AllowsAreDelivered
  /\ OneReceiptPerRun
  /\ OneAnswerPerLine

----------------------------------------------------------------------------
\* The gate keeps its promise

Fate(l) ==
  IF l > lines THEN "unread"
  ELSE IF l \notin ran THEN "settled"
  ELSE IF "result" \in answers[l] THEN "released"
  ELSE IF "withheld" \in answers[l] THEN "withheld"
  ELSE "running"

Recorded == {[decision |-> chain[i].decision, line |-> chain[i].line] : i \in DOMAIN chain}

Promise == INSTANCE GatePromise
             WITH fate <- [l \in Line |-> Fate(l)], receipts <- Recorded

\* Each line goes through the lifecycle of GatePromise: at most one run, and a
\* result released only in the very step that records it.
KeepsPromise == Promise!Spec
=============================================================================
