----------------------------- MODULE GateProofs -----------------------------
(***************************************************************************)
(* Proofs about Gate, for any ids, tools, bounds and append faults.         *)
(***************************************************************************)
EXTENDS Gate, TLAPS

----------------------------------------------------------------------------
\* Appending k copies of a receipt keeps what was there and adds only copies.
LEMMA CopiesAppended ==
  ASSUME NEW s \in Seq(Receipt), NEW r \in Receipt, NEW k \in Nat
  PROVE  /\ s \o Copies(r, k) \in Seq(Receipt)
         /\ DOMAIN (s \o Copies(r, k)) = 1 .. (Len(s) + k)
         /\ \A i \in DOMAIN s : (s \o Copies(r, k))[i] = s[i]
         /\ \A i \in DOMAIN (s \o Copies(r, k)) :
              i \notin DOMAIN s => (s \o Copies(r, k))[i] = r
<1>1. Copies(r, k) \in Seq(Receipt) /\ Len(Copies(r, k)) = k
  BY DEF Copies
<1>2. \A i \in 1 .. k : Copies(r, k)[i] = r
  BY DEF Copies
<1>3. /\ s \o Copies(r, k) \in Seq(Receipt)
      /\ DOMAIN (s \o Copies(r, k)) = 1 .. (Len(s) + k)
      /\ DOMAIN s = 1 .. Len(s)
      /\ Len(s) \in Nat
  BY <1>1
<1>4. ASSUME NEW i \in DOMAIN s
      PROVE  (s \o Copies(r, k))[i] = s[i]
  BY <1>1, <1>3
<1>5. ASSUME NEW i \in DOMAIN (s \o Copies(r, k)), i \notin DOMAIN s
      PROVE  (s \o Copies(r, k))[i] = r
  <2>1. i - Len(s) \in 1 .. k
    BY <1>3, <1>5
  <2>2. (s \o Copies(r, k))[i] = Copies(r, k)[i - Len(s)]
    BY <1>1, <1>3, <1>5, <2>1
  <2> QED
    BY <1>2, <2>1, <2>2
<1> QED
  BY <1>3, <1>4, <1>5

\* A write leaves a sequence of receipts, however its appends end.
LEMMA WriteType ==
  ASSUME TypeOK, NEW r \in Receipt, NEW n \in Nat, NEW k \in 0 .. n,
         WriteReceiptSafely(r, n, k)
  PROVE  chain' \in Seq(Receipt) /\ tail' \in Tails
<1>1. k \in Nat /\ chain \in Seq(Receipt) /\ tail \in Tails
  BY DEF TypeOK
<1>2. CASE chain' = chain \o Copies(r, k)
  BY <1>1, <1>2, CopiesAppended DEF WriteReceiptSafely, Tails
<1>3. CASE chain' = SubSeq(chain, 1, Len(chain) - 1) /\ tail' = "broken"
  <2>1. SubSeq(chain, 1, Len(chain) - 1) \in Seq(Receipt)
    BY <1>1
  <2> QED
    BY <1>3, <2>1 DEF Tails
<1> QED
  BY <1>2, <1>3 DEF WriteReceiptSafely

\* When no append stops at the newline, a write adds at most n of its receipts
\* to what was there, and none once the chain is broken.
LEMMA WriteEffect ==
  ASSUME TypeOK, tail # "unended", "unended" \notin Faults,
         NEW r \in Receipt, NEW n \in Nat, NEW k \in 0 .. n,
         WriteReceiptSafely(r, n, k)
  PROVE  /\ chain' \in Seq(Receipt)
         /\ tail' # "unended"
         /\ \A i \in DOMAIN chain : i \in DOMAIN chain' /\ chain'[i] = chain[i]
         /\ \A i \in DOMAIN chain' : i \notin DOMAIN chain => chain'[i] = r
         /\ DOMAIN chain' = 1 .. (Len(chain) + k)
         /\ DOMAIN chain = 1 .. Len(chain)
         /\ Len(chain) \in Nat
         /\ tail = "broken" => tail' = "broken" /\ k = 0
<1>1. k \in Nat /\ chain \in Seq(Receipt) /\ chain' = chain \o Copies(r, k)
  BY DEF TypeOK, WriteReceiptSafely
<1>2. tail' # "unended" /\ (tail = "broken" => tail' = "broken" /\ k = 0)
  BY DEF TypeOK, WriteReceiptSafely
<1>3. /\ chain' \in Seq(Receipt)
      /\ DOMAIN chain' = 1 .. (Len(chain) + k)
      /\ \A i \in DOMAIN chain : i \in DOMAIN chain' /\ chain'[i] = chain[i]
      /\ \A i \in DOMAIN chain' : i \notin DOMAIN chain => chain'[i] = r
  <2> DEFINE t == chain \o Copies(r, k)
  <2>1. /\ t \in Seq(Receipt)
        /\ DOMAIN t = 1 .. (Len(chain) + k)
        /\ \A i \in DOMAIN chain : t[i] = chain[i]
        /\ \A i \in DOMAIN t : i \notin DOMAIN chain => t[i] = r
    BY <1>1, CopiesAppended
  <2>2. DOMAIN chain = 1 .. Len(chain) /\ Len(chain) \in Nat /\ chain' = t
    BY <1>1
  <2> HIDE DEF t
  <2>3. DOMAIN chain \subseteq DOMAIN t
    BY <1>1, <2>1, <2>2
  <2> QED
    BY <2>1, <2>2, <2>3
<1> QED
  BY <1>1, <1>2, <1>3

----------------------------------------------------------------------------
\* Every reachable state has the types of TypeOK.

LEMMA RefuseType ==
  ASSUME TypeOK, NEW n \in Nat, NEW k \in 0 .. n, NEW replies \in BOOLEAN,
         Refuse(n, k, replies)
  PROVE  TypeOK'
<1>1. This \in Line /\ lines' \in 0 .. MaxLines
  BY GateAssumption DEF TypeOK, Refuse, ReadClientLine, This, Line
<1>2. DenyReceipt(This) \in Receipt
  BY <1>1 DEF DenyReceipt, Receipt
<1>3. chain' \in Seq(Receipt) /\ tail' \in Tails
  BY <1>2, WriteType DEF Refuse
<1>4. answers' \in [Line -> SUBSET Answers]
  BY <1>1 DEF TypeOK, Refuse, Tell, Answers
<1> QED
  BY <1>1, <1>3, <1>4 DEF TypeOK, Refuse

LEMMA HandleDownstreamType ==
  ASSUME TypeOK, NEW m \in Message, NEW k \in {0, 1}, NEW ok \in BOOLEAN,
         HandleDownstreamLine(m, k, ok)
  PROVE  /\ pending' \in [Ids -> Line \cup {NoLine}]
         /\ chain' \in Seq(Receipt)
         /\ tail' \in Tails
         /\ answers' \in [Line -> SUBSET Answers]
<1>0. m.id \in Ids /\ m.line \in Line \cup {NoLine}
  BY DEF Message
<1>1. CASE pending[m.id] = NoLine
  BY <1>0, <1>1 DEF HandleDownstreamLine, Relay, Tell, TypeOK, Answers
<1>2. CASE pending[m.id] # NoLine
  <2>1. pending[m.id] \in Line
    BY <1>0, <1>2 DEF TypeOK
  <2>2. AllowReceipt(pending[m.id], m) \in Receipt
    BY <1>0, <2>1 DEF AllowReceipt, Receipt
  <2>3. chain' \in Seq(Receipt) /\ tail' \in Tails
    BY <1>2, <2>2, WriteType DEF HandleDownstreamLine
  <2>4. pending' \in [Ids -> Line \cup {NoLine}]
    BY <1>0, <1>2 DEF HandleDownstreamLine, TypeOK
  <2>5. answers' \in [Line -> SUBSET Answers]
    BY <1>0, <1>2, <2>1 DEF HandleDownstreamLine, Relay, Tell, TypeOK, Answers
  <2> QED
    BY <2>3, <2>4, <2>5
<1> QED
  BY <1>1, <1>2

LEMMA ForwardType ==
  ASSUME TypeOK, NEW id \in Ids, NEW call \in BOOLEAN, This \in Line,
         Forward([id |-> id, line |-> This, call |-> call])
  PROVE  inbox' \subseteq Message
BY DEF TypeOK, Forward, Message

LEMMA TypeStep == TypeOK /\ [Next]_vars => TypeOK'
<1> SUFFICES ASSUME TypeOK, [Next]_vars PROVE TypeOK'
  OBVIOUS
<1>1. CASE ClientLine
  <2>1. CASE RefuseLine
    BY <2>1, 0 \in 0 .. 0, RefuseType DEF RefuseLine
  <2>2. ASSUME NEW n \in 0 .. MaxBatch, NEW k \in 0 .. n, RefuseBatch(n, k)
        PROVE  TypeOK'
    BY <2>2, n \in Nat, RefuseType, GateAssumption DEF RefuseBatch
  <2>3. ASSUME NEW claims \in {0, 1}, NEW k \in 0 .. claims, RefuseMessage(claims, k)
        PROVE  TypeOK'
    BY <2>3, RefuseType DEF RefuseMessage
  <2>4. ASSUME NEW hasId \in BOOLEAN, NEW owed \in {0, 1}, NEW k \in 0 .. owed,
               RefuseWithoutId(hasId, owed, k)
        PROVE  TypeOK'
    BY <2>4, RefuseType DEF RefuseWithoutId
  <2>5. ASSUME NEW owed \in {0, 1}, NEW k \in 0 .. owed, RefuseFlawedCall(owed, k)
        PROVE  TypeOK'
    BY <2>5, RefuseType DEF RefuseFlawedCall
  <2>6. ASSUME NEW id \in Ids, NEW k \in {0, 1}, RefuseInFlight(id, k)
        PROVE  TypeOK'
    BY <2>6, k \in 0 .. 1, RefuseType DEF RefuseInFlight
  <2>7. ASSUME NEW id \in Ids, NEW tool \in Tools, NEW k \in {0, 1}, DenyCall(id, tool, k)
        PROVE  TypeOK'
    <3>1. This \in Line /\ lines' \in 0 .. MaxLines
      BY <2>7, GateAssumption DEF TypeOK, DenyCall, ReadClientLine, This, Line
    <3>2. DenyReceipt(This) \in Receipt
      BY <3>1 DEF DenyReceipt, Receipt
    <3>3. chain' \in Seq(Receipt) /\ tail' \in Tails
      BY <2>7, <3>2, WriteType DEF DenyCall
    <3> QED
      BY <2>7, <3>1, <3>3 DEF TypeOK, DenyCall, Tell, Answers
  <2>8. ASSUME NEW id \in Ids, NEW tool \in Tools, AllowCall(id, tool)
        PROVE  TypeOK'
    <3>1. This \in Line /\ lines' \in 0 .. MaxLines
      BY <2>8, GateAssumption DEF TypeOK, AllowCall, ReadClientLine, This, Line
    <3>2. inbox' \subseteq Message
      BY <2>8, <3>1, ForwardType DEF AllowCall
    <3> QED
      BY <2>8, <3>1, <3>2 DEF TypeOK, AllowCall
  <2>9. ASSUME NEW id \in Ids, RelayRequest(id)
        PROVE  TypeOK'
    <3>1. This \in Line /\ lines' \in 0 .. MaxLines
      BY <2>9, GateAssumption DEF TypeOK, RelayRequest, ReadClientLine, This, Line
    <3>2. inbox' \subseteq Message
      BY <2>9, <3>1, ForwardType DEF RelayRequest
    <3> QED
      BY <2>9, <3>1, <3>2 DEF TypeOK, RelayRequest
  <2>10. CASE RelayNotification
    BY <2>10, GateAssumption DEF TypeOK, RelayNotification, ReadClientLine, This
  <2> QED
    BY <1>1, <2>1, <2>2, <2>3, <2>4, <2>5, <2>6, <2>7, <2>8, <2>9, <2>10 DEF ClientLine
<1>2. CASE DownstreamLine
  <2>1. ASSUME NEW m \in inbox, NEW k \in {0, 1}, NEW ok \in BOOLEAN,
               DownstreamAnswers(m, k, ok)
        PROVE  TypeOK'
    <3>1. m \in Message
      BY DEF TypeOK
    <3> QED
      BY <2>1, <3>1, HandleDownstreamType DEF TypeOK, DownstreamAnswers
  <2>2. ASSUME NEW id \in Ids, NEW k \in {0, 1}, NEW ok \in BOOLEAN,
               ServerRequest(id, k, ok)
        PROVE  TypeOK'
    <3>1. [id |-> id, line |-> NoLine, call |-> FALSE] \in Message
      BY DEF Message
    <3> QED
      BY <2>2, <3>1, HandleDownstreamType DEF TypeOK, ServerRequest
  <2> QED
    BY <1>2, <2>1, <2>2 DEF DownstreamLine
<1>3. ASSUME NEW p \in Policies, EditPolicy(p)
      PROVE  TypeOK'
  BY <1>3 DEF TypeOK, EditPolicy
<1>4. CASE ClientEnds
  BY <1>4 DEF TypeOK, ClientEnds
<1>5. CASE DownstreamExits
  BY <1>5 DEF TypeOK, DownstreamExits
<1>6. CASE Exit
  BY <1>6 DEF TypeOK, Exit
<1>7. CASE UNCHANGED vars
  BY <1>7 DEF TypeOK, vars
<1> QED
  BY <1>1, <1>2, <1>3, <1>4, <1>5, <1>6, <1>7 DEF Next

LEMMA TypeInit == Init => TypeOK
<1> SUFFICES ASSUME Init PROVE TypeOK
  OBVIOUS
<1>1. lines \in 0 .. MaxLines /\ policy \in Policies
  BY GateAssumption DEF Init, Policies
<1>2. pending \in [Ids -> Line \cup {NoLine}] /\ answers \in [Line -> SUBSET Answers]
  BY DEF Init
<1>3. inbox \subseteq Message /\ ran \subseteq Line /\ chain \in Seq(Receipt)
  BY DEF Init
<1> QED
  BY <1>1, <1>2, <1>3 DEF Init, TypeOK, Tails

\* Each variable keeps its type, whatever the peers and the disk do.
THEOREM TypeCorrect == Spec => []TypeOK
BY TypeInit, TypeStep, PTL DEF Spec

----------------------------------------------------------------------------
\* With peers that keep their ids apart and appends that never stop at the
\* newline, GateInv is inductive.

\* Where the lines named by each part of the state lie.
LEMMA NamedLines ==
  ASSUME GateInv
  PROVE  /\ lines \in Nat
         /\ \A l \in ran : l \in Line /\ l <= lines
         /\ \A i \in DOMAIN chain :
              /\ chain[i] \in Receipt
              /\ chain[i].line <= lines
              /\ chain[i].line \in Line
         /\ \A m \in inbox :
              m.line \in 1 .. lines /\ m.line \in Line /\ m.id \in Ids /\ m.call \in BOOLEAN
         /\ \A id \in Ids : pending[id] <= lines /\ pending[id] \in Nat
<1>1. \A i \in DOMAIN chain : chain[i] \in Receipt
  BY DEF GateInv, TypeOK
<1>2. \A r \in Receipt : r.line \in Line
  BY DEF Receipt
<1>3. \A m \in inbox : m.id \in Ids /\ m.call \in BOOLEAN /\ m.line \in 1 .. lines
  BY DEF GateInv, TypeOK, UnreadLinesAreFresh, Message
<1>4. lines \in 0 .. MaxLines /\ MaxLines \in Nat
  BY GateAssumption DEF GateInv, TypeOK
<1>5. \A m \in inbox : m.line \in Line
  BY <1>3, <1>4 DEF Line
<1>6. \A id \in Ids : pending[id] <= lines /\ pending[id] \in Nat
  <2>1. \A id \in Ids : pending[id] \in Line \cup {NoLine}
    BY DEF GateInv, TypeOK
  <2>2. \A id \in Ids : pending[id] <= lines
    BY DEF GateInv, UnreadLinesAreFresh
  <2>3. Line \cup {NoLine} \subseteq Nat
    BY DEF Line, NoLine
  <2> QED
    BY <2>1, <2>2, <2>3
<1>7. \A l \in ran : l \in Line /\ l <= lines
  BY DEF GateInv, TypeOK, UnreadLinesAreFresh
<1> QED
  BY <1>1, <1>2, <1>3, <1>4, <1>5, <1>6, <1>7 DEF GateInv, UnreadLinesAreFresh

\* A line that is settled at once, with deny receipts and at most one answer.
LEMMA SettledLineKeepsInv ==
  ASSUME "unended" \notin Faults, GateInv, TypeOK', NEW n \in Nat, NEW k \in 0 .. n,
         ReadClientLine,
         WriteReceiptSafely(DenyReceipt(This), n, k),
         \A l \in Line : l # This => answers'[l] = answers[l],
         \A a, b \in answers'[This] : a = b,
         UNCHANGED <<pending, inbox, ran, downUp>>
  PROVE  GateInv'
<1>1. This \in Line /\ lines' = This /\ This = lines + 1 /\ lines \in Nat
  BY GateAssumption DEF GateInv, TypeOK, ReadClientLine, This, Line
<1>2. DenyReceipt(This) \in Receipt /\ DenyReceipt(This).line = This
      /\ DenyReceipt(This).decision = "deny"
  BY <1>1 DEF DenyReceipt, Receipt
<1>3. TypeOK /\ tail # "unended"
  BY DEF GateInv
<1>4. /\ tail' # "unended"
      /\ \A i \in DOMAIN chain : i \in DOMAIN chain' /\ chain'[i] = chain[i]
      /\ \A i \in DOMAIN chain' : i \notin DOMAIN chain => chain'[i] = DenyReceipt(This)
  BY <1>2, <1>3, WriteEffect
<1>5. /\ \A l \in ran : l \in Line /\ l <= lines
      /\ \A i \in DOMAIN chain : chain[i].line <= lines /\ chain[i].line \in Line
      /\ \A m \in inbox : m.line \in 1 .. lines /\ m.line \in Line
      /\ \A id \in Ids : pending[id] <= lines /\ pending[id] \in Nat
  BY NamedLines
<1>6. This \notin ran
  BY <1>1, <1>5
<1>7. UnreadLinesAreFresh'
  <2>1. \A l \in Line : l > lines' => answers'[l] = {}
    BY <1>1 DEF GateInv, UnreadLinesAreFresh, Line
  <2>2. \A i \in DOMAIN chain' : chain'[i].line <= lines'
    BY <1>1, <1>2, <1>4, <1>5 DEF Line
  <2> QED
    BY <1>1, <1>5, <2>1, <2>2 DEF UnreadLinesAreFresh, Line
<1>8. InboxIsOpen' /\ PendingIsHeld'
  <2>1. \A m \in inbox : m.line # This
    BY <1>1, <1>5
  <2> QED
    BY <1>5, <2>1 DEF GateInv, InboxIsOpen, PendingIsHeld
<1>9. ReceiptsMatchExecution'
  BY <1>2, <1>4, <1>6 DEF GateInv, ReceiptsMatchExecution
<1>10. ResultsAreReceipted'
  <2> SUFFICES ASSUME NEW l \in ran, "result" \in answers'[l]
               PROVE  \E i \in DOMAIN chain' :
                        chain'[i] = [decision |-> "allow", line |-> l, answer |-> l]
    BY DEF ResultsAreReceipted
  <2>1. "result" \in answers[l]
    BY <1>5, <1>6
  <2> QED
    BY <1>4, <2>1 DEF GateInv, ResultsAreReceipted
<1>11. AllowsAreDelivered'
  <2> SUFFICES ASSUME NEW i \in DOMAIN chain', chain'[i].decision = "allow"
               PROVE  /\ chain'[i].answer = chain'[i].line
                      /\ \/ "result" \in answers'[chain'[i].line]
                         \/ /\ "withheld" \in answers'[chain'[i].line]
                            /\ Faults \cap {"landed", "unended"} # {}
    BY DEF AllowsAreDelivered
  <2>1. i \in DOMAIN chain /\ chain'[i] = chain[i]
    BY <1>2, <1>4
  <2>2. chain[i].line # This
    BY <1>1, <1>5, <2>1
  <2> QED
    BY <1>5, <2>1, <2>2 DEF GateInv, AllowsAreDelivered
<1>12. OneReceiptPerRun'
  BY <1>2, <1>4, <1>6 DEF GateInv, OneReceiptPerRun
<1>13. OneAnswerPerLine'
  BY DEF GateInv, OneAnswerPerLine
<1> QED
  BY <1>4, <1>7, <1>8, <1>9, <1>10, <1>11, <1>12, <1>13 DEF GateInv

LEMMA RefuseKeepsInv ==
  ASSUME "unended" \notin Faults, GateInv, TypeOK', NEW n \in Nat, NEW k \in 0 .. n, NEW replies \in BOOLEAN,
         Refuse(n, k, replies)
  PROVE  GateInv'
<1>1. This \in Line /\ answers[This] = {}
  BY GateAssumption
  DEF GateInv, TypeOK, UnreadLinesAreFresh, Refuse, ReadClientLine, This, Line
<1>2. /\ \A l \in Line : l # This => answers'[l] = answers[l]
      /\ \A a, b \in answers'[This] : a = b
  BY <1>1 DEF GateInv, TypeOK, Refuse, Tell
<1> QED
  BY <1>2, SettledLineKeepsInv DEF Refuse

LEMMA DenyKeepsInv ==
  ASSUME "unended" \notin Faults, GateInv, TypeOK', NEW id \in Ids, NEW tool \in Tools, NEW k \in {0, 1},
         DenyCall(id, tool, k)
  PROVE  GateInv'
<1>1. This \in Line /\ answers[This] = {}
  BY GateAssumption
  DEF GateInv, TypeOK, UnreadLinesAreFresh, DenyCall, ReadClientLine, This, Line
<1>2. /\ \A l \in Line : l # This => answers'[l] = answers[l]
      /\ \A a, b \in answers'[This] : a = b
  BY <1>1 DEF GateInv, TypeOK, DenyCall, Tell
<1> QED
  BY <1>2, SettledLineKeepsInv, k \in 0 .. 1 DEF DenyCall

\* A line that is forwarded under an id no request in flight has.
LEMMA ForwardKeepsInv ==
  ASSUME GateInv, TypeOK', NEW id \in Ids, NEW call \in BOOLEAN,
         pending[id] = NoLine,
         \A m \in inbox : m.id # id,
         ReadClientLine,
         Forward([id |-> id, line |-> This, call |-> call]),
         pending' = IF call THEN [pending EXCEPT ![id] = This] ELSE pending,
         ran' = IF call /\ downUp THEN ran \cup {This} ELSE ran,
         UNCHANGED <<chain, tail, answers, downUp>>
  PROVE  GateInv'
<1> DEFINE new == [id |-> id, line |-> This, call |-> call]
<1>1. This \in Line /\ lines' = This /\ This = lines + 1 /\ lines \in Nat /\ This # NoLine
  BY GateAssumption DEF GateInv, TypeOK, ReadClientLine, This, Line, NoLine
<1>2. /\ \A l \in ran : l \in Line /\ l <= lines
      /\ \A i \in DOMAIN chain : chain[i].line <= lines /\ chain[i].line \in Line
      /\ \A m \in inbox : m.line \in 1 .. lines /\ m.line \in Line /\ m.id \in Ids
      /\ \A j \in Ids : pending[j] <= lines /\ pending[j] \in Nat
      /\ answers[This] = {}
  BY <1>1, NamedLines DEF GateInv, UnreadLinesAreFresh
<1>3. new.id = id /\ new.line = This /\ new.call = call
  OBVIOUS
<1>4. inbox' = IF downUp THEN inbox \cup {new} ELSE inbox
  BY DEF Forward
<1>5. /\ pending' \in [Ids -> Nat]
      /\ pending'[id] = IF call THEN This ELSE NoLine
      /\ \A j \in Ids : j # id => pending'[j] = pending[j]
  BY <1>1 DEF GateInv, TypeOK, Line, NoLine
<1> HIDE DEF new
<1>6. UnreadLinesAreFresh'
  <2>1. \A l \in Line : l > lines' => answers'[l] = {}
    BY <1>1 DEF GateInv, UnreadLinesAreFresh, Line
  <2>2. \A l \in ran' : l <= lines'
    BY <1>1, <1>2 DEF Line
  <2>3. \A j \in Ids : pending'[j] <= lines'
    BY <1>1, <1>2, <1>5 DEF Line, NoLine
  <2>4. \A m \in inbox' : m.line \in 1 .. lines'
    BY <1>1, <1>2, <1>3, <1>4 DEF Line
  <2>5. \A i \in DOMAIN chain' : chain'[i].line <= lines'
    BY <1>1, <1>2 DEF Line
  <2> QED
    BY <2>1, <2>2, <2>3, <2>4, <2>5 DEF UnreadLinesAreFresh
<1>7. InboxIsOpen'
  <2>1. ASSUME NEW m \in inbox', m # new
        PROVE  /\ m \in inbox /\ m.id # id /\ m.line # This
               /\ answers'[m.line] = {}
               /\ m.call <=> m.line \in ran'
               /\ pending'[m.id] = IF m.call THEN m.line ELSE NoLine
    <3>1. m \in inbox /\ m.id # id /\ m.line # This
      BY <1>1, <1>2, <1>4, <2>1
    <3>2. pending'[m.id] = pending[m.id]
      BY <1>2, <1>5, <3>1
    <3> QED
      BY <3>1, <3>2 DEF GateInv, InboxIsOpen
  <2>2. ASSUME new \in inbox'
        PROVE  /\ answers'[new.line] = {}
               /\ new.call <=> new.line \in ran'
               /\ pending'[new.id] = IF new.call THEN new.line ELSE NoLine
    <3>1. downUp /\ This \notin ran
      BY <1>1, <1>2, <1>3, <1>4, <2>2
    <3> QED
      BY <1>2, <1>3, <1>5, <3>1
  <2>3. \A m, n \in inbox' : m.id = n.id \/ m.line = n.line => m = n
    BY <1>3, <2>1 DEF GateInv, InboxIsOpen
  <2> QED
    BY <2>1, <2>2, <2>3 DEF InboxIsOpen
<1>8. PendingIsHeld'
  <2> SUFFICES ASSUME downUp', NEW j \in Ids, pending'[j] # NoLine
               PROVE  [id |-> j, line |-> pending'[j], call |-> TRUE] \in inbox'
    BY DEF PendingIsHeld
  <2>1. CASE j = id
    BY <1>4, <1>5, <2>1 DEF new
  <2>2. CASE j # id
    BY <1>4, <1>5, <2>2 DEF GateInv, PendingIsHeld
  <2> QED
    BY <2>1, <2>2
<1>9. ReceiptsMatchExecution'
  BY <1>1, <1>2 DEF GateInv, ReceiptsMatchExecution
<1>10. ResultsAreReceipted'
  BY <1>2 DEF GateInv, ResultsAreReceipted
<1>11. AllowsAreDelivered'
  BY DEF GateInv, AllowsAreDelivered
<1>12. OneReceiptPerRun'
  BY <1>1, <1>2 DEF GateInv, OneReceiptPerRun
<1>13. OneAnswerPerLine'
  BY DEF GateInv, OneAnswerPerLine
<1> QED
  BY <1>6, <1>7, <1>8, <1>9, <1>10, <1>11, <1>12, <1>13 DEF GateInv

\* The downstream's answer to a request it holds.
LEMMA AnswerKeepsInv ==
  ASSUME "unended" \notin Faults, GateInv, TypeOK', NEW m \in inbox, NEW k \in {0, 1}, NEW ok \in BOOLEAN,
               DownstreamAnswers(m, k, ok)
  PROVE  GateInv'
<1>1. /\ m.id \in Ids /\ m.line \in Line /\ m.line # NoLine
      /\ answers[m.line] = {}
      /\ m.call <=> m.line \in ran
      /\ pending[m.id] = IF m.call THEN m.line ELSE NoLine
      /\ m.call \in BOOLEAN
  BY NamedLines DEF GateInv, InboxIsOpen, Line, NoLine
<1>2. /\ \A n \in inbox' : n \in inbox /\ n # m /\ n.id # m.id /\ n.line # m.line
      /\ UNCHANGED <<lines, ran, downUp>>
  BY DEF GateInv, InboxIsOpen, DownstreamAnswers
<1>3. /\ lines \in Nat
      /\ \A l \in ran : l \in Line /\ l <= lines
      /\ \A i \in DOMAIN chain : chain[i].line <= lines /\ chain[i].line \in Line
      /\ \A n \in inbox : n.line \in 1 .. lines /\ n.line \in Line /\ n.id \in Ids
      /\ \A j \in Ids : pending[j] <= lines /\ pending[j] \in Nat
  BY NamedLines
<1>4. TypeOK /\ tail # "unended"
  BY DEF GateInv
<1> DEFINE r == AllowReceipt(m.line, m)
\* What the step does, whether or not the line was a tools/call.
<1>5. /\ \A l \in Line : l # m.line => answers'[l] = answers[l]
      /\ answers'[m.line] \in {{"result"}, {"withheld"}}
  BY <1>1, <1>4 DEF DownstreamAnswers, HandleDownstreamLine, Relay, Tell, TypeOK
<1>6. /\ pending'[m.id] = NoLine
      /\ \A j \in Ids : j # m.id => pending'[j] = pending[j]
  BY <1>1, <1>4 DEF DownstreamAnswers, HandleDownstreamLine, TypeOK
<1>7. r.line = m.line /\ r.answer = m.line /\ r.decision = "allow" /\ r \in Receipt
  BY <1>1 DEF AllowReceipt, Receipt
<1>8. CASE ~m.call
  <2>1. UNCHANGED <<chain, tail>> /\ m.line \notin ran
    BY <1>1, <1>8 DEF DownstreamAnswers, HandleDownstreamLine
  <2>2. \A i \in DOMAIN chain : chain[i].decision = "allow" => chain[i].line \in ran
    BY DEF GateInv, ReceiptsMatchExecution
  <2>3. UnreadLinesAreFresh'
    <3>1. \A l \in Line : l > lines' => answers'[l] = {}
      BY <1>1, <1>2, <1>3, <1>5 DEF GateInv, UnreadLinesAreFresh, Line
    <3>2. \A j \in Ids : pending'[j] <= lines'
      BY <1>2, <1>3, <1>6 DEF NoLine
    <3> QED
      BY <1>2, <1>3, <2>1, <3>1, <3>2 DEF UnreadLinesAreFresh
  <2>4. InboxIsOpen'
    BY <1>2, <1>3, <1>5, <1>6 DEF GateInv, InboxIsOpen
  <2>5. PendingIsHeld'
    <3> SUFFICES ASSUME downUp', NEW j \in Ids, pending'[j] # NoLine
                 PROVE  [id |-> j, line |-> pending'[j], call |-> TRUE] \in inbox'
      BY DEF PendingIsHeld
    <3>1. j # m.id /\ pending'[j] = pending[j]
      BY <1>6
    <3>2. [id |-> j, line |-> pending[j], call |-> TRUE] \in inbox
      BY <1>2, <3>1 DEF GateInv, PendingIsHeld
    <3> QED
      BY <3>1, <3>2 DEF DownstreamAnswers
  <2>6. ReceiptsMatchExecution' /\ OneReceiptPerRun'
    BY <1>2, <2>1 DEF GateInv, ReceiptsMatchExecution, OneReceiptPerRun
  <2>7. ResultsAreReceipted'
    BY <1>2, <1>3, <1>5, <2>1 DEF GateInv, ResultsAreReceipted
  <2>8. AllowsAreDelivered'
    BY <1>3, <1>5, <2>1, <2>2 DEF GateInv, AllowsAreDelivered
  <2>9. OneAnswerPerLine'
    BY <1>1, <1>5 DEF GateInv, OneAnswerPerLine
  <2> QED
    BY <2>1, <2>3, <2>4, <2>5, <2>6, <2>7, <2>8, <2>9 DEF GateInv
<1>9. CASE m.call
  <2>1. /\ WriteReceiptSafely(r, 1, k)
        /\ Returns(k, ok)
        /\ answers'[m.line] = IF ok THEN {"result"} ELSE {"withheld"}
        /\ m.line \in ran
    <3>1. /\ pending[m.id] = m.line
          /\ WriteReceiptSafely(AllowReceipt(m.line, m), 1, k)
          /\ Returns(k, ok)
          /\ IF ok THEN Relay(m) ELSE Tell(m.line, "withheld")
      BY <1>1, <1>9 DEF DownstreamAnswers, HandleDownstreamLine
    <3>2. answers' = [answers EXCEPT ![m.line] = @ \cup {IF ok THEN "result" ELSE "withheld"}]
      BY <1>1, <3>1 DEF Relay, Tell
    <3>3. answers'[m.line] = IF ok THEN {"result"} ELSE {"withheld"}
      BY <1>1, <1>4, <3>2 DEF TypeOK
    <3> QED
      BY <1>1, <1>9, <3>1, <3>3
  <2>2. /\ \A i \in DOMAIN chain : i \in DOMAIN chain' /\ chain'[i] = chain[i]
        /\ \A i \in DOMAIN chain' : i \notin DOMAIN chain => chain'[i] = r
        /\ DOMAIN chain' = 1 .. (Len(chain) + k)
        /\ DOMAIN chain = 1 .. Len(chain)
        /\ Len(chain) \in Nat
        /\ tail' # "unended"
    BY <1>4, <1>7, <2>1, WriteEffect, k \in 0 .. 1
  \* A result is released with its receipt; one withheld has none unless the
  \* append threw after its line had landed.
  <2>12. (ok => k = 1) /\ (k = 1 /\ ~ok => "landed" \in Faults)
    BY <1>4, <2>1, <2>2 DEF Returns
  \* Until now nothing was on record for this line.
  <2>3. \A i \in DOMAIN chain : chain[i].line # m.line
    BY <1>1, <2>1 DEF GateInv, ReceiptsMatchExecution, AllowsAreDelivered
  <2> HIDE DEF r
  <2>4. UnreadLinesAreFresh'
    <3>1. \A l \in Line : l > lines' => answers'[l] = {}
      BY <1>1, <1>2, <1>3, <1>5 DEF GateInv, UnreadLinesAreFresh, Line
    <3>2. \A i \in DOMAIN chain' : chain'[i].line <= lines'
      BY <1>2, <1>3, <1>7, <2>1, <2>2
    <3>3. \A j \in Ids : pending'[j] <= lines'
      BY <1>2, <1>3, <1>6 DEF NoLine
    <3> QED
      BY <1>2, <1>3, <3>1, <3>2, <3>3 DEF UnreadLinesAreFresh
  <2>5. InboxIsOpen'
    BY <1>2, <1>3, <1>5, <1>6 DEF GateInv, InboxIsOpen
  <2>6. PendingIsHeld'
    <3> SUFFICES ASSUME downUp', NEW j \in Ids, pending'[j] # NoLine
                 PROVE  [id |-> j, line |-> pending'[j], call |-> TRUE] \in inbox'
      BY DEF PendingIsHeld
    <3>1. j # m.id /\ pending'[j] = pending[j]
      BY <1>6
    <3>2. [id |-> j, line |-> pending[j], call |-> TRUE] \in inbox
      BY <1>2, <3>1 DEF GateInv, PendingIsHeld
    <3> QED
      BY <3>1, <3>2 DEF DownstreamAnswers
  <2>7. ReceiptsMatchExecution'
    BY <1>2, <1>7, <2>1, <2>2 DEF GateInv, ReceiptsMatchExecution
  <2>8. ResultsAreReceipted'
    <3> SUFFICES ASSUME NEW l \in ran, "result" \in answers'[l]
                 PROVE  \E i \in DOMAIN chain' :
                          chain'[i] = [decision |-> "allow", line |-> l, answer |-> l]
      BY <1>2 DEF ResultsAreReceipted
    <3>1. CASE l # m.line
      BY <1>3, <1>5, <2>2, <3>1 DEF GateInv, ResultsAreReceipted
    <3>2. CASE l = m.line
      <4>1. k = 1
        BY <2>1, <2>12, <3>2
      <4>2. Len(chain) + 1 \in DOMAIN chain' /\ Len(chain) + 1 \notin DOMAIN chain
        BY <2>2, <4>1
      <4>3. chain'[Len(chain) + 1] = [decision |-> "allow", line |-> l, answer |-> l]
        BY <2>2, <3>2, <4>2 DEF r, AllowReceipt
      <4> QED
        BY <4>2, <4>3
    <3> QED
      BY <3>1, <3>2
  <2>9. AllowsAreDelivered'
    <3> SUFFICES ASSUME NEW i \in DOMAIN chain', chain'[i].decision = "allow"
                 PROVE  /\ chain'[i].answer = chain'[i].line
                        /\ \/ "result" \in answers'[chain'[i].line]
                           \/ /\ "withheld" \in answers'[chain'[i].line]
                              /\ Faults \cap {"landed", "unended"} # {}
      BY DEF AllowsAreDelivered
    <3>1. CASE i \in DOMAIN chain
      BY <1>3, <1>5, <2>2, <2>3, <3>1 DEF GateInv, AllowsAreDelivered
    <3>2. CASE i \notin DOMAIN chain
      <4>1. k = 1
        BY <2>2, <3>2
      <4> QED
        BY <1>7, <2>1, <2>2, <2>12, <3>2, <4>1
    <3> QED
      BY <3>1, <3>2
  <2>10. OneReceiptPerRun'
    <3> SUFFICES ASSUME NEW i \in DOMAIN chain', NEW j \in DOMAIN chain',
                        chain'[i].line = chain'[j].line, chain'[i].line \in ran
                 PROVE  i = j
      BY <1>2 DEF OneReceiptPerRun
    <3>1. CASE i \in DOMAIN chain /\ j \in DOMAIN chain
      BY <2>2, <3>1 DEF GateInv, OneReceiptPerRun
    <3>2. CASE i \notin DOMAIN chain /\ j \notin DOMAIN chain
      BY <2>2, <3>2
    <3>3. CASE ~(i \in DOMAIN chain <=> j \in DOMAIN chain)
      BY <1>7, <2>2, <2>3, <3>3
    <3> QED
      BY <3>1, <3>2, <3>3
  <2>11. OneAnswerPerLine'
    BY <1>1, <1>5 DEF GateInv, OneAnswerPerLine
  <2> QED
    BY <2>2, <2>4, <2>5, <2>6, <2>7, <2>8, <2>9, <2>10, <2>11 DEF GateInv
<1> QED
  BY <1>1, <1>8, <1>9

LEMMA InvInit == Init => GateInv
<1> SUFFICES ASSUME Init PROVE GateInv
  OBVIOUS
<1>1. TypeOK
  BY TypeInit
<1>2. UnreadLinesAreFresh
  BY DEF Init, UnreadLinesAreFresh, Line, NoLine
<1>3. InboxIsOpen /\ PendingIsHeld
  BY DEF Init, InboxIsOpen, PendingIsHeld
<1>4. /\ ReceiptsMatchExecution /\ ResultsAreReceipted /\ AllowsAreDelivered
      /\ OneReceiptPerRun /\ OneAnswerPerLine
  BY DEF Init, ReceiptsMatchExecution, ResultsAreReceipted, AllowsAreDelivered,
         OneReceiptPerRun, OneAnswerPerLine
<1>5. tail # "unended"
  BY DEF Init
<1> QED
  BY <1>1, <1>2, <1>3, <1>4, <1>5 DEF GateInv

\* Nothing the invariant speaks of changes, except that the downstream may go.
LEMMA AsideKeepsInv ==
  ASSUME GateInv, TypeOK',
         UNCHANGED <<lines, pending, inbox, ran, chain, tail, answers>>,
         downUp' \in {downUp, FALSE}
  PROVE  GateInv'
<1>1. UnreadLinesAreFresh' /\ InboxIsOpen' /\ PendingIsHeld'
  <2>1. UnreadLinesAreFresh'
    BY DEF GateInv, UnreadLinesAreFresh
  <2>2. InboxIsOpen'
    BY DEF GateInv, InboxIsOpen
  <2>3. PendingIsHeld'
    BY DEF GateInv, PendingIsHeld
  <2> QED
    BY <2>1, <2>2, <2>3
<1>2. /\ ReceiptsMatchExecution' /\ ResultsAreReceipted' /\ AllowsAreDelivered'
      /\ OneReceiptPerRun' /\ OneAnswerPerLine'
  BY DEF GateInv, ReceiptsMatchExecution, ResultsAreReceipted, AllowsAreDelivered,
         OneReceiptPerRun, OneAnswerPerLine
<1> QED
  BY <1>1, <1>2 DEF GateInv

LEMMA InvStep ==
  ASSUME Peers = {}, "unended" \notin Faults, GateInv, [Next]_vars
  PROVE  GateInv'
<1>0. TypeOK /\ TypeOK'
  BY TypeStep DEF GateInv
<1>1. CASE ClientLine
  <2>1. CASE RefuseLine
    BY <1>0, <2>1, 0 \in 0 .. 0, RefuseKeepsInv DEF RefuseLine
  <2>2. ASSUME NEW n \in 0 .. MaxBatch, NEW k \in 0 .. n, RefuseBatch(n, k)
        PROVE  GateInv'
    BY <1>0, <2>2, n \in Nat, RefuseKeepsInv, GateAssumption DEF RefuseBatch
  <2>3. ASSUME NEW claims \in {0, 1}, NEW k \in 0 .. claims, RefuseMessage(claims, k)
        PROVE  GateInv'
    BY <1>0, <2>3, RefuseKeepsInv DEF RefuseMessage
  <2>4. ASSUME NEW hasId \in BOOLEAN, NEW owed \in {0, 1}, NEW k \in 0 .. owed,
               RefuseWithoutId(hasId, owed, k)
        PROVE  GateInv'
    BY <1>0, <2>4, RefuseKeepsInv DEF RefuseWithoutId
  <2>5. ASSUME NEW owed \in {0, 1}, NEW k \in 0 .. owed, RefuseFlawedCall(owed, k)
        PROVE  GateInv'
    BY <1>0, <2>5, RefuseKeepsInv DEF RefuseFlawedCall
  <2>6. ASSUME NEW id \in Ids, NEW k \in {0, 1}, RefuseInFlight(id, k)
        PROVE  GateInv'
    BY <1>0, <2>6, k \in 0 .. 1, RefuseKeepsInv DEF RefuseInFlight
  <2>7. ASSUME NEW id \in Ids, NEW tool \in Tools, NEW k \in {0, 1}, DenyCall(id, tool, k)
        PROVE  GateInv'
    BY <1>0, <2>7, DenyKeepsInv
  <2>8. ASSUME NEW id \in Ids, NEW tool \in Tools, AllowCall(id, tool)
        PROVE  GateInv'
    <3>1. /\ \A m \in inbox : m.id # id
          /\ ran' = IF TRUE /\ downUp THEN ran \cup {This} ELSE ran
          /\ pending' = IF TRUE THEN [pending EXCEPT ![id] = This] ELSE pending
      BY <2>8 DEF AllowCall, IdUnused
    <3> QED
      BY <1>0, <2>8, <3>1, ForwardKeepsInv DEF AllowCall
  <2>9. ASSUME NEW id \in Ids, RelayRequest(id)
        PROVE  GateInv'
    <3>1. /\ \A m \in inbox : m.id # id
          /\ pending[id] = NoLine
          /\ ran' = IF FALSE /\ downUp THEN ran \cup {This} ELSE ran
          /\ pending' = IF FALSE THEN [pending EXCEPT ![id] = This] ELSE pending
      BY <2>9 DEF RelayRequest, IdUnused
    <3> QED
      BY <1>0, <2>9, <3>1, ForwardKeepsInv DEF RelayRequest
  <2>10. CASE RelayNotification
    <3>1. This \in Line /\ answers[This] = {}
      BY <2>10, GateAssumption
      DEF GateInv, TypeOK, UnreadLinesAreFresh, RelayNotification, ReadClientLine, This, Line
    <3>2. WriteReceiptSafely(DenyReceipt(This), 0, 0)
      <4>1. chain \o Copies(DenyReceipt(This), 0) = chain
        BY <1>0 DEF Copies, TypeOK
      <4> QED
        BY <2>10, <4>1 DEF RelayNotification, WriteReceiptSafely
    <3>3. \A a, b \in answers'[This] : a = b
      BY <2>10, <3>1 DEF RelayNotification
    <3> QED
      BY <1>0, <2>10, <3>2, <3>3, 0 \in 0 .. 0, SettledLineKeepsInv DEF RelayNotification
  <2> QED
    BY <1>1, <2>1, <2>2, <2>3, <2>4, <2>5, <2>6, <2>7, <2>8, <2>9, <2>10 DEF ClientLine
<1>2. CASE DownstreamLine
  <2>1. ASSUME NEW m \in inbox, NEW k \in {0, 1}, NEW ok \in BOOLEAN,
               DownstreamAnswers(m, k, ok)
        PROVE  GateInv'
    BY <1>0, <2>1, AnswerKeepsInv
  <2>2. ~ \E id \in Ids, k \in {0, 1}, ok \in BOOLEAN : ServerRequest(id, k, ok)
    BY DEF ServerRequest
  <2> QED
    BY <1>2, <2>1, <2>2 DEF DownstreamLine
<1>3. ASSUME NEW p \in Policies, EditPolicy(p)
      PROVE  GateInv'
  BY <1>0, <1>3, AsideKeepsInv DEF EditPolicy
<1>4. CASE ClientEnds
  BY <1>0, <1>4, AsideKeepsInv DEF ClientEnds
<1>5. CASE DownstreamExits
  BY <1>0, <1>5, AsideKeepsInv DEF DownstreamExits
<1>6. CASE Exit
  BY <1>0, <1>6, AsideKeepsInv DEF Exit
<1>7. CASE UNCHANGED vars
  BY <1>0, <1>7, AsideKeepsInv DEF vars
<1> QED
  BY <1>1, <1>2, <1>3, <1>4, <1>5, <1>6, <1>7 DEF Next

\* GateInv holds in every state a session can reach.
THEOREM InvCorrect ==
  ASSUME Peers = {}, "unended" \notin Faults
  PROVE  Spec => []GateInv
<1>1. Init => GateInv
  BY InvInit
<1>2. GateInv /\ [Next]_vars => GateInv'
  BY InvStep
<1> QED
  BY <1>1, <1>2, PTL DEF Spec

----------------------------------------------------------------------------
\* What the invariant is for.

\* A deny receipt's line never reached the downstream as a call, an allow
\* receipt's line did.
THEOREM ReceiptsMatchExecutionHolds ==
  ASSUME Peers = {}, "unended" \notin Faults
  PROVE  Spec => []ReceiptsMatchExecution
<1>1. GateInv => ReceiptsMatchExecution
  BY DEF GateInv
<1> QED
  BY <1>1, InvCorrect, PTL

\* No result of a call reaches the client without its receipt.
THEOREM ResultsAreReceiptedHolds ==
  ASSUME Peers = {}, "unended" \notin Faults
  PROVE  Spec => []ResultsAreReceipted
<1>1. GateInv => ResultsAreReceipted
  BY DEF GateInv
<1> QED
  BY <1>1, InvCorrect, PTL

\* Every allow receipt hashes the call's own result, which was delivered unless
\* the append that wrote it threw.
THEOREM AllowsAreDeliveredHolds ==
  ASSUME Peers = {}, "unended" \notin Faults
  PROVE  Spec => []AllowsAreDelivered
<1>1. GateInv => AllowsAreDelivered
  BY DEF GateInv
<1> QED
  BY <1>1, InvCorrect, PTL

\* A call that ran has at most one receipt.
THEOREM OneReceiptPerRunHolds ==
  ASSUME Peers = {}, "unended" \notin Faults
  PROVE  Spec => []OneReceiptPerRun
<1>1. GateInv => OneReceiptPerRun
  BY DEF GateInv
<1> QED
  BY <1>1, InvCorrect, PTL

\* The client is never told two things about one line.
THEOREM OneAnswerPerLineHolds ==
  ASSUME Peers = {}, "unended" \notin Faults
  PROVE  Spec => []OneAnswerPerLine
<1>1. GateInv => OneAnswerPerLine
  BY DEF GateInv
<1> QED
  BY <1>1, InvCorrect, PTL

\* No id is forgotten or stays taken while the downstream runs.
THEOREM PendingIsInFlightHolds ==
  ASSUME Peers = {}, "unended" \notin Faults
  PROVE  Spec => []PendingIsInFlight
<1>1. GateInv => PendingIsInFlight
  <2> SUFFICES ASSUME GateInv, downUp, NEW id \in Ids, NEW l \in Line
               PROVE  pending[id] = l <=> [id |-> id, line |-> l, call |-> TRUE] \in inbox
    BY DEF PendingIsInFlight
  <2>1. l # NoLine
    BY DEF Line, NoLine
  <2>2. pending[id] = l => [id |-> id, line |-> l, call |-> TRUE] \in inbox
    BY <2>1 DEF GateInv, PendingIsHeld
  <2>3. ASSUME [id |-> id, line |-> l, call |-> TRUE] \in inbox
        PROVE  pending[id] = l
    BY <2>3 DEF GateInv, InboxIsOpen
  <2> QED
    BY <2>2, <2>3
<1> QED
  BY <1>1, InvCorrect, PTL

----------------------------------------------------------------------------
\* Every step of the gate is of one of four kinds.

SettlesLine ==
  /\ This \in Line /\ lines' = This
  /\ \E n \in Nat : \E k \in 0 .. n : WriteReceiptSafely(DenyReceipt(This), n, k)
  /\ \A l \in Line : l # This => answers'[l] = answers[l]
  /\ ran' = ran

RunsLine ==
  /\ This \in Line /\ lines' = This
  /\ ran' = ran \cup {This}
  /\ UNCHANGED <<chain, tail, answers>>

AnswersRun(l, k, ok) ==
  /\ answers[l] = {}
  /\ answers'[l] = IF ok THEN {"result"} ELSE {"withheld"}
  /\ \A j \in Line : j # l => answers'[j] = answers[j]
  /\ WriteReceiptSafely([decision |-> "allow", line |-> l, answer |-> l], 1, k)
  /\ ok => k = 1
  /\ UNCHANGED <<lines, ran>>

StepsAside ==
  /\ \A l \in ran : answers'[l] = answers[l]
  /\ UNCHANGED <<lines, ran, chain, tail>>

\* A client line settles or runs; an answer is to a call or to something else.
LEMMA StepKinds ==
  ASSUME Peers = {}, "unended" \notin Faults, GateInv, [Next]_vars
  PROVE  \/ SettlesLine
         \/ RunsLine
         \/ \E l \in ran, k \in {0, 1}, ok \in BOOLEAN : AnswersRun(l, k, ok)
         \/ StepsAside
<1>0. TypeOK /\ 0 \in 0 .. 0 /\ 0 \in Nat
  BY DEF GateInv
<1>1. ASSUME ReadClientLine PROVE This \in Line /\ lines' = This
  BY <1>0, <1>1, GateAssumption DEF TypeOK, ReadClientLine, This, Line
<1>2. ASSUME UNCHANGED <<chain, tail>>
      PROVE  WriteReceiptSafely(DenyReceipt(This), 0, 0)
  <2>1. chain \o Copies(DenyReceipt(This), 0) = chain
    BY <1>0 DEF Copies, TypeOK
  <2> QED
    BY <1>2, <2>1 DEF WriteReceiptSafely
<1>3. ASSUME NEW n \in Nat, NEW k \in 0 .. n, NEW replies \in BOOLEAN, Refuse(n, k, replies)
      PROVE  SettlesLine
  <2>1. \A l \in Line : l # This => answers'[l] = answers[l]
    BY <1>0, <1>1, <1>3 DEF Refuse, Tell, TypeOK
  <2> QED
    BY <1>1, <1>3, <2>1 DEF Refuse, SettlesLine
<1>4. CASE ClientLine
  <2>1. CASE RefuseLine
    BY <1>0, <1>3, <2>1 DEF RefuseLine
  <2>2. ASSUME NEW n \in 0 .. MaxBatch, NEW k \in 0 .. n, RefuseBatch(n, k)
        PROVE  SettlesLine
    BY <1>3, <2>2, n \in Nat, GateAssumption DEF RefuseBatch
  <2>3. ASSUME NEW claims \in {0, 1}, NEW k \in 0 .. claims, RefuseMessage(claims, k)
        PROVE  SettlesLine
    BY <1>3, <2>3 DEF RefuseMessage
  <2>4. ASSUME NEW hasId \in BOOLEAN, NEW owed \in {0, 1}, NEW k \in 0 .. owed,
               RefuseWithoutId(hasId, owed, k)
        PROVE  SettlesLine
    BY <1>3, <2>4 DEF RefuseWithoutId
  <2>5. ASSUME NEW owed \in {0, 1}, NEW k \in 0 .. owed, RefuseFlawedCall(owed, k)
        PROVE  SettlesLine
    BY <1>3, <2>5 DEF RefuseFlawedCall
  <2>6. ASSUME NEW id \in Ids, NEW k \in {0, 1}, RefuseInFlight(id, k)
        PROVE  SettlesLine
    BY <1>3, <2>6, k \in 0 .. 1 DEF RefuseInFlight
  <2>7. ASSUME NEW id \in Ids, NEW tool \in Tools, NEW k \in {0, 1}, DenyCall(id, tool, k)
        PROVE  SettlesLine
    <3>1. \A l \in Line : l # This => answers'[l] = answers[l]
      BY <1>0, <1>1, <2>7 DEF DenyCall, Tell, TypeOK
    <3> QED
      BY <1>1, <2>7, <3>1, k \in 0 .. 1 DEF DenyCall, SettlesLine
  <2>8. ASSUME NEW id \in Ids, NEW tool \in Tools, AllowCall(id, tool)
        PROVE  SettlesLine \/ RunsLine
    BY <1>0, <1>1, <1>2, <2>8 DEF AllowCall, SettlesLine, RunsLine
  <2>9. ASSUME NEW id \in Ids, RelayRequest(id)
        PROVE  SettlesLine
    BY <1>0, <1>1, <1>2, <2>9 DEF RelayRequest, SettlesLine
  <2>10. CASE RelayNotification
    BY <1>0, <1>1, <1>2, <2>10 DEF RelayNotification, SettlesLine
  <2> QED
    BY <1>4, <2>1, <2>2, <2>3, <2>4, <2>5, <2>6, <2>7, <2>8, <2>9, <2>10 DEF ClientLine
<1>5. CASE DownstreamLine
  <2>1. ASSUME NEW m \in inbox, NEW k \in {0, 1}, NEW ok \in BOOLEAN,
               DownstreamAnswers(m, k, ok)
        PROVE  \/ \E l \in ran, j \in {0, 1}, o \in BOOLEAN : AnswersRun(l, j, o)
               \/ StepsAside
    <3>1. /\ m.line \in Line /\ m.line # NoLine /\ m.call \in BOOLEAN
          /\ answers[m.line] = {}
          /\ m.call <=> m.line \in ran
          /\ pending[m.id] = IF m.call THEN m.line ELSE NoLine
          /\ \A l \in ran : l \in Line
          /\ answers \in [Line -> SUBSET Answers]
      BY NamedLines DEF GateInv, TypeOK, InboxIsOpen, Line, NoLine
    <3>2. CASE m.call
      <4>1. /\ WriteReceiptSafely(AllowReceipt(m.line, m), 1, k)
            /\ Returns(k, ok)
            /\ IF ok THEN Relay(m) ELSE Tell(m.line, "withheld")
        BY <2>1, <3>1, <3>2 DEF DownstreamAnswers, HandleDownstreamLine
      <4>2. answers' = [answers EXCEPT ![m.line] = @ \cup {IF ok THEN "result" ELSE "withheld"}]
        BY <3>1, <4>1 DEF Relay, Tell
      <4>3. UNCHANGED <<lines, ran>>
        BY <2>1 DEF DownstreamAnswers
      <4>4. ok => k = 1
        BY <4>1 DEF GateInv, Returns
      <4>5. AnswersRun(m.line, k, ok)
        BY <3>1, <4>1, <4>2, <4>3, <4>4 DEF AnswersRun, AllowReceipt
      <4> QED
        BY <3>1, <3>2, <4>5
    <3>3. CASE ~m.call
      BY <2>1, <3>1, <3>3
      DEF DownstreamAnswers, HandleDownstreamLine, Relay, Tell, StepsAside
    <3> QED
      BY <3>1, <3>2, <3>3
  <2>2. ~ \E id \in Ids, k \in {0, 1}, ok \in BOOLEAN : ServerRequest(id, k, ok)
    BY DEF ServerRequest
  <2> QED
    BY <1>5, <2>1, <2>2 DEF DownstreamLine
<1>6. ASSUME NEW p \in Policies, EditPolicy(p)
      PROVE  StepsAside
  BY <1>6 DEF EditPolicy, StepsAside
<1>7. CASE ClientEnds
  BY <1>7 DEF ClientEnds, StepsAside
<1>8. CASE DownstreamExits
  BY <1>8 DEF DownstreamExits, StepsAside
<1>9. CASE Exit
  BY <1>9 DEF Exit, StepsAside
<1>10. CASE UNCHANGED vars
  BY <1>10 DEF vars, StepsAside
<1> QED
  BY <1>4, <1>5, <1>6, <1>7, <1>8, <1>9, <1>10 DEF Next

\* A chain that cannot be read back releases no result for the rest of the session.
THEOREM BrokenChainReleasesNothingHolds ==
  ASSUME Peers = {}, "unended" \notin Faults
  PROVE  Spec => BrokenChainReleasesNothing
<1>1. ASSUME GateInv, [Next]_vars, tail = "broken", NEW l \in ran, "result" \in answers'[l]
      PROVE  "result" \in answers[l]
  <2>1. lines \in Nat /\ l \in Line /\ l <= lines
    BY <1>1, NamedLines
  <2>2. CASE SettlesLine
    BY <1>1, <2>1, <2>2 DEF SettlesLine, This
  <2>3. CASE RunsLine
    BY <1>1, <2>3 DEF RunsLine
  <2>4. ASSUME NEW j \in ran, NEW k \in {0, 1}, NEW ok \in BOOLEAN, AnswersRun(j, k, ok)
        PROVE  "result" \in answers[l]
    <3>1. ~ok
      BY <1>1, <2>4 DEF AnswersRun, WriteReceiptSafely
    <3> QED
      BY <1>1, <2>1, <2>4, <3>1 DEF AnswersRun
  <2>5. CASE StepsAside
    BY <1>1, <2>5 DEF StepsAside
  <2> QED
    BY <1>1, <2>2, <2>3, <2>4, <2>5, StepKinds
<1>2. GateInv /\ [Next]_vars =>
        [tail = "broken" =>
           \A l \in ran : "result" \in answers'[l] => "result" \in answers[l]]_vars
  BY <1>1
<1> QED
  BY <1>2, InvCorrect, PTL DEF Spec, BrokenChainReleasesNothing

----------------------------------------------------------------------------
\* The gate implements GatePromise.

\* What a write adds to the decisions on record.
LEMMA RecordedEffect ==
  ASSUME TypeOK, tail # "unended", "unended" \notin Faults,
         NEW r \in Receipt, NEW n \in Nat, NEW k \in 0 .. n,
         WriteReceiptSafely(r, n, k)
  PROVE  Recorded' = IF k = 0 THEN Recorded
                     ELSE Recorded \cup {[decision |-> r.decision, line |-> r.line]}
<1>1. /\ \A i \in DOMAIN chain : i \in DOMAIN chain' /\ chain'[i] = chain[i]
      /\ \A i \in DOMAIN chain' : i \notin DOMAIN chain => chain'[i] = r
      /\ DOMAIN chain' = 1 .. (Len(chain) + k)
      /\ DOMAIN chain = 1 .. Len(chain)
      /\ Len(chain) \in Nat
  BY WriteEffect
<1> DEFINE Mark(q) == [decision |-> q.decision, line |-> q.line]
<1>2. /\ Recorded = {Mark(chain[i]) : i \in DOMAIN chain}
      /\ Recorded' = {Mark(chain'[i]) : i \in DOMAIN chain'}
  BY DEF Recorded
<1> HIDE DEF Mark
<1>3. Recorded \subseteq Recorded'
  BY <1>1, <1>2
<1>4. Recorded' \subseteq Recorded \cup {Mark(r)}
  BY <1>1, <1>2
<1>5. CASE k = 0
  <2>1. DOMAIN chain' = DOMAIN chain
    BY <1>1, <1>5
  <2> QED
    BY <1>1, <1>2, <1>5, <2>1
<1>6. CASE k # 0
  <2>1. Len(chain) + k \in DOMAIN chain' /\ Len(chain) + k \notin DOMAIN chain
    BY <1>1, <1>6
  <2>2. Mark(r) \in Recorded'
    BY <1>1, <1>2, <2>1
  <2> QED
    BY <1>3, <1>4, <1>6, <2>2 DEF Mark
<1> QED
  BY <1>5, <1>6

Fates == [l \in Line |-> Fate(l)]

\* One line's fate changes.
LEMMA FateMoves ==
  ASSUME NEW l \in Line, NEW to,
         Fate(l)' = to,
         \A j \in Line : j # l => Fate(j)' = Fate(j)
  PROVE  Fates' = [Fates EXCEPT ![l] = to]
BY DEF Fates

LEMMA PromiseInit == Init => Promise!Init
BY DEF Init, Promise!Init, Fate, Recorded, Line

\* Each kind of step is a step of the promise or none at all.
LEMMA PromiseStep ==
  ASSUME Peers = {}, "unended" \notin Faults, GateInv, [Next]_vars
  PROVE  [Promise!Next]_<<Fates, Recorded>>
<1>1. /\ TypeOK /\ tail # "unended" /\ lines \in Nat
      /\ \A l \in ran : l \in Line /\ l <= lines
      /\ \A l \in Line : l \in Nat
  BY NamedLines DEF GateInv, Line
<1>2. CASE SettlesLine
  <2>0. PICK l \in Line : l = This
    BY <1>2 DEF SettlesLine
  <2>1. l = lines + 1 /\ lines' = l /\ l \notin ran /\ ran' = ran
    BY <1>1, <1>2, <2>0 DEF SettlesLine, This
  <2>2. Fate(l) = "unread" /\ Fate(l)' = "settled"
    BY <1>1, <2>1 DEF Fate
  <2>3. \A j \in Line : j # l => Fate(j)' = Fate(j)
    BY <1>1, <1>2, <2>0, <2>1 DEF Fate, SettlesLine
  <2>4. \/ Recorded' = Recorded
        \/ Recorded' = Recorded \cup {[decision |-> "deny", line |-> l]}
    <3>1. /\ DenyReceipt(This) \in Receipt
          /\ DenyReceipt(This).decision = "deny" /\ DenyReceipt(This).line = l
      BY <2>0 DEF DenyReceipt, Receipt
    <3>2. PICK n \in Nat : \E k \in 0 .. n : WriteReceiptSafely(DenyReceipt(This), n, k)
      BY <1>2 DEF SettlesLine
    <3>3. PICK k \in 0 .. n : WriteReceiptSafely(DenyReceipt(This), n, k)
      BY <3>2
    <3> QED
      BY <1>1, <3>1, <3>3, RecordedEffect
  <2>5. Fates' = [Fates EXCEPT ![l] = "settled"] /\ Fates[l] = "unread"
    BY <2>1, <2>2, <2>3, FateMoves DEF Fates
  <2>6. Promise!Settle(l)
    BY <2>4, <2>5 DEF Promise!Settle, Promise!Move, Fates
  <2> QED
    BY <2>1, <2>6 DEF Promise!Next
<1>3. CASE RunsLine
  <2>0. PICK l \in Line : l = This
    BY <1>3 DEF RunsLine
  <2>1. /\ l = lines + 1 /\ lines' = l
        /\ l \notin ran /\ ran' = ran \cup {l} /\ answers' = answers
        /\ answers[l] = {}
    BY <1>1, <1>3, <2>0 DEF RunsLine, This, GateInv, UnreadLinesAreFresh
  <2>2. Fate(l) = "unread" /\ Fate(l)' = "running"
    BY <1>1, <2>1 DEF Fate
  <2>3. \A j \in Line : j # l => Fate(j)' = Fate(j)
    BY <1>1, <2>1 DEF Fate
  <2>4. Recorded' = Recorded
    BY <1>3 DEF RunsLine, Recorded
  <2>5. Fates' = [Fates EXCEPT ![l] = "running"] /\ Fates[l] = "unread"
    BY <2>1, <2>2, <2>3, FateMoves DEF Fates
  <2>6. Promise!Run(l)
    BY <2>4, <2>5 DEF Promise!Run, Promise!Move, Fates
  <2> QED
    BY <2>1, <2>6 DEF Promise!Next
<1>4. ASSUME NEW l \in ran, NEW k \in {0, 1}, NEW ok \in BOOLEAN, AnswersRun(l, k, ok)
      PROVE  Promise!Next
  <2>1. l \in Line /\ l <= lines /\ UNCHANGED <<lines, ran>>
    BY <1>1, <1>4 DEF AnswersRun
  <2>2. Fate(l) = "running" /\ Fate(l)' = IF ok THEN "released" ELSE "withheld"
    BY <1>1, <1>4, <2>1 DEF Fate, AnswersRun
  <2>3. \A j \in Line : j # l => Fate(j)' = Fate(j)
    BY <1>4, <2>1 DEF Fate, AnswersRun
  <2>4. Recorded' = IF k = 0 THEN Recorded
                    ELSE Recorded \cup {[decision |-> "allow", line |-> l]}
    <3>1. [decision |-> "allow", line |-> l, answer |-> l] \in Receipt
      BY <2>1 DEF Receipt
    <3> QED
      BY <1>1, <1>4, <3>1, RecordedEffect, k \in 0 .. 1 DEF AnswersRun
  <2>5. CASE ok
    <3>1. Fates' = [Fates EXCEPT ![l] = "released"] /\ Fates[l] = "running"
      BY <2>1, <2>2, <2>3, <2>5, FateMoves DEF Fates
    <3>2. Promise!Release(l)
      BY <1>4, <2>4, <2>5, <3>1 DEF AnswersRun, Promise!Release, Promise!Move, Fates
    <3> QED
      BY <2>1, <3>2 DEF Promise!Next
  <2>6. CASE ~ok
    <3>1. Fates' = [Fates EXCEPT ![l] = "withheld"] /\ Fates[l] = "running"
      BY <2>1, <2>2, <2>3, <2>6, FateMoves DEF Fates
    <3>2. Promise!Withhold(l)
      BY <2>4, <2>6, <3>1 DEF Promise!Withhold, Promise!Move, Fates
    <3> QED
      BY <2>1, <3>2 DEF Promise!Next
  <2> QED
    BY <2>5, <2>6
<1>5. CASE StepsAside
  <2>1. \A l \in Line : Fate(l)' = Fate(l)
    BY <1>5 DEF Fate, StepsAside
  <2>2. Fates' = Fates /\ Recorded' = Recorded
    BY <1>5, <2>1 DEF Fates, Recorded, StepsAside
  <2> QED
    BY <2>2
<1> QED
  BY <1>2, <1>3, <1>4, <1>5, StepKinds

\* The gate implements GatePromise: at most one run per line, and a result
\* released only in the step that records it.
THEOREM KeepsPromiseHolds ==
  ASSUME Peers = {}, "unended" \notin Faults
  PROVE  Spec => KeepsPromise
<1>1. Init => Promise!Init
  BY PromiseInit
<1>2. GateInv /\ [Next]_vars => [Promise!Next]_(Promise!vars)
  BY PromiseStep DEF Promise!vars, Fates
<1> QED
  BY <1>1, <1>2, InvCorrect, PTL DEF Spec, KeepsPromise, Promise!Spec

----------------------------------------------------------------------------
\* Denials are on record, for any peers and for appends that fail in any way.

\* A write that leaves the file readable found it so, and keeps every receipt;
\* when no append is refused the one receipt of a single write is there.
LEMMA ReadableWrite ==
  ASSUME TypeOK, NEW r \in Receipt, NEW n \in Nat, NEW k \in 0 .. n,
         WriteReceiptSafely(r, n, k), tail' # "broken"
  PROVE  /\ tail # "broken"
         /\ \A i \in DOMAIN chain : i \in DOMAIN chain' /\ chain'[i] = chain[i]
         /\ "refused" \notin Faults /\ n = 1 => \E i \in DOMAIN chain' : chain'[i] = r
<1>0. chain \in Seq(Receipt) /\ k \in Nat
  BY DEF TypeOK
<1>1. /\ tail # "broken"
      /\ chain' = chain \o Copies(r, k)
      /\ "refused" \notin Faults /\ n = 1 => k = 1
  BY DEF WriteReceiptSafely, TypeOK
<1> DEFINE t == chain \o Copies(r, k)
<1>2. /\ DOMAIN t = 1 .. (Len(chain) + k)
      /\ \A i \in DOMAIN chain : t[i] = chain[i]
      /\ \A i \in DOMAIN t : i \notin DOMAIN chain => t[i] = r
  BY <1>0, CopiesAppended, ZenonT(60)
<1>3. DOMAIN chain = 1 .. Len(chain) /\ Len(chain) \in Nat /\ chain' = t
  BY <1>0, <1>1
<1> HIDE DEF t
<1>4. DOMAIN chain \subseteq DOMAIN t
  BY <1>0, <1>2, <1>3
<1>5. k = 1 => Len(chain) + 1 \in DOMAIN t /\ Len(chain) + 1 \notin DOMAIN chain
  BY <1>2, <1>3
<1>6. k = 1 => t[Len(chain) + 1] = r
  BY <1>2, <1>5
<1> QED
  BY <1>1, <1>2, <1>3, <1>4, <1>5, <1>6

\* A step that writes receipts and denies nothing new keeps the denials.
LEMMA NoNewDenial ==
  ASSUME DenialsAreReceipted,
         tail' # "broken" => /\ tail # "broken"
                             /\ \A i \in DOMAIN chain : i \in DOMAIN chain' /\ chain'[i] = chain[i],
         \A l \in Line : "denied" \in answers'[l] => "denied" \in answers[l]
  PROVE  DenialsAreReceipted'
<1> SUFFICES ASSUME "refused" \notin Faults, tail' # "broken", NEW l \in Line, "denied" \in answers'[l]
             PROVE  \E i \in DOMAIN chain' : chain'[i] = DenyReceipt(l)
  BY DEF DenialsAreReceipted, DenyReceipt, NoLine
<1>1. PICK i \in DOMAIN chain : chain[i] = DenyReceipt(l)
  BY DEF DenialsAreReceipted
<1> QED
  BY <1>1

LEMMA DenialsStep ==
  ASSUME TypeOK, DenialsAreReceipted, [Next]_vars
  PROVE  DenialsAreReceipted'
<1>1. ASSUME NEW n \in Nat, NEW k \in 0 .. n, NEW replies \in BOOLEAN, Refuse(n, k, replies)
      PROVE  DenialsAreReceipted'
  <2>1. This \in Line
    BY <1>1, GateAssumption DEF TypeOK, Refuse, ReadClientLine, This, Line
  <2>2. DenyReceipt(This) \in Receipt
    BY <2>1 DEF DenyReceipt, Receipt
  <2>3. WriteReceiptSafely(DenyReceipt(This), n, k)
    BY <1>1 DEF Refuse
  <2>4. tail' # "broken" => /\ tail # "broken"
                            /\ \A i \in DOMAIN chain : i \in DOMAIN chain' /\ chain'[i] = chain[i]
    BY <2>2, <2>3, ReadableWrite
  <2>5. \A l \in Line : "denied" \in answers'[l] => "denied" \in answers[l]
    BY <1>1, <2>1 DEF Refuse, Tell, TypeOK
  <2> QED
    BY <2>4, <2>5, NoNewDenial
<1>2. ASSUME NEW id \in Ids, NEW tool \in Tools, NEW k \in {0, 1}, DenyCall(id, tool, k)
      PROVE  DenialsAreReceipted'
  <2>1. This \in Line
    BY <1>2, GateAssumption DEF TypeOK, DenyCall, ReadClientLine, This, Line
  <2>2. DenyReceipt(This) \in Receipt
    BY <2>1 DEF DenyReceipt, Receipt
  <2>3. WriteReceiptSafely(DenyReceipt(This), 1, k) /\ k \in 0 .. 1
    BY <1>2 DEF DenyCall
  <2> SUFFICES ASSUME "refused" \notin Faults, tail' # "broken", NEW l \in Line, "denied" \in answers'[l]
               PROVE  \E i \in DOMAIN chain' : chain'[i] = DenyReceipt(l)
    BY DEF DenialsAreReceipted, DenyReceipt, NoLine
  <2>4. /\ tail # "broken"
        /\ \A i \in DOMAIN chain : i \in DOMAIN chain' /\ chain'[i] = chain[i]
        /\ \E i \in DOMAIN chain' : chain'[i] = DenyReceipt(This)
    BY <2>2, <2>3, ReadableWrite
  <2>5. CASE l = This
    BY <2>4, <2>5
  <2>6. CASE l # This
    <3>1. "denied" \in answers[l]
      BY <1>2, <2>1, <2>6 DEF DenyCall, Tell, TypeOK
    <3>2. PICK i \in DOMAIN chain : chain[i] = DenyReceipt(l)
      BY <2>4, <3>1 DEF DenialsAreReceipted
    <3> QED
      BY <2>4, <3>2
  <2> QED
    BY <2>5, <2>6
<1>3. ASSUME UNCHANGED <<chain, tail, answers>>
      PROVE  DenialsAreReceipted'
  BY <1>3 DEF DenialsAreReceipted, DenyReceipt, NoLine
<1>4. ASSUME NEW m \in Message, NEW k \in {0, 1}, NEW ok \in BOOLEAN, HandleDownstreamLine(m, k, ok)
      PROVE  DenialsAreReceipted'
  <2>1. \A l \in Line : "denied" \in answers'[l] => "denied" \in answers[l]
    <3>1. CASE answers' = answers
      BY <3>1
    <3>2. ASSUME NEW j, NEW what \in {"result", "withheld"}, Tell(j, what)
          PROVE  \A l \in Line : "denied" \in answers'[l] => "denied" \in answers[l]
      BY <3>2 DEF Tell, TypeOK
    <3> QED
      BY <1>4, <3>1, <3>2 DEF HandleDownstreamLine, Relay
  <2>2. CASE pending[m.id] = NoLine
    BY <1>4, <2>1, <2>2, NoNewDenial DEF HandleDownstreamLine
  <2>3. CASE pending[m.id] # NoLine
    <3>1. AllowReceipt(pending[m.id], m) \in Receipt
      BY <2>3 DEF Message, AllowReceipt, Receipt, TypeOK
    <3>2. WriteReceiptSafely(AllowReceipt(pending[m.id], m), 1, k) /\ k \in 0 .. 1
      BY <1>4, <2>3 DEF HandleDownstreamLine
    <3>3. tail' # "broken" => /\ tail # "broken"
                              /\ \A i \in DOMAIN chain : i \in DOMAIN chain' /\ chain'[i] = chain[i]
      BY <3>1, <3>2, ReadableWrite
    <3> QED
      BY <2>1, <3>3, NoNewDenial
  <2> QED
    BY <2>2, <2>3
<1>5. CASE ClientLine
  <2>1. ASSUME RefuseLine PROVE DenialsAreReceipted'
    <3>1. 0 \in Nat /\ 0 \in 0 .. 0
      OBVIOUS
    <3> QED
      BY <1>1, <2>1, <3>1 DEF RefuseLine
  <2>2. ASSUME NEW n \in 0 .. MaxBatch, NEW k \in 0 .. n, RefuseBatch(n, k) PROVE DenialsAreReceipted'
    <3>1. n \in Nat
      BY GateAssumption
    <3> QED
      BY <1>1, <2>2, <3>1 DEF RefuseBatch
  <2>3. ASSUME NEW c \in {0, 1}, NEW k \in 0 .. c, RefuseMessage(c, k) PROVE DenialsAreReceipted'
    BY <1>1, <2>3 DEF RefuseMessage
  <2>4. ASSUME NEW hasId \in BOOLEAN, NEW owed \in {0, 1}, NEW k \in 0 .. owed, RefuseWithoutId(hasId, owed, k)
        PROVE  DenialsAreReceipted'
    BY <1>1, <2>4 DEF RefuseWithoutId
  <2>5. ASSUME NEW owed \in {0, 1}, NEW k \in 0 .. owed, RefuseFlawedCall(owed, k) PROVE DenialsAreReceipted'
    BY <1>1, <2>5 DEF RefuseFlawedCall
  <2>6. ASSUME NEW id \in Ids, NEW k \in {0, 1}, RefuseInFlight(id, k) PROVE DenialsAreReceipted'
    <3>1. k \in 0 .. 1
      OBVIOUS
    <3> QED
      BY <1>1, <2>6, <3>1 DEF RefuseInFlight
  <2>7. ASSUME NEW id \in Ids, NEW tool \in Tools, AllowCall(id, tool) PROVE DenialsAreReceipted'
    BY <1>3, <2>7 DEF AllowCall
  <2>8. ASSUME NEW id \in Ids, RelayRequest(id) PROVE DenialsAreReceipted'
    BY <1>3, <2>8 DEF RelayRequest
  <2>9. ASSUME RelayNotification PROVE DenialsAreReceipted'
    BY <1>3, <2>9 DEF RelayNotification
  <2> QED
    BY <1>2, <1>5, <2>1, <2>2, <2>3, <2>4, <2>5, <2>6, <2>7, <2>8, <2>9 DEF ClientLine
<1>6. CASE DownstreamLine
  <2>1. ASSUME NEW m \in inbox, NEW k \in {0, 1}, NEW ok \in BOOLEAN, DownstreamAnswers(m, k, ok)
        PROVE  DenialsAreReceipted'
    <3>1. m \in Message
      BY DEF TypeOK
    <3> QED
      BY <1>4, <2>1, <3>1 DEF DownstreamAnswers
  <2>2. ASSUME NEW id \in Ids, NEW k \in {0, 1}, NEW ok \in BOOLEAN, ServerRequest(id, k, ok)
        PROVE  DenialsAreReceipted'
    <3>1. [id |-> id, line |-> NoLine, call |-> FALSE] \in Message
      BY DEF Message
    <3> QED
      BY <1>4, <2>2, <3>1 DEF ServerRequest
  <2> QED
    BY <1>6, <2>1, <2>2 DEF DownstreamLine
<1>7. CASE (\E p \in Policies : EditPolicy(p)) \/ ClientEnds \/ DownstreamExits \/ Exit
  BY <1>3, <1>7 DEF EditPolicy, ClientEnds, DownstreamExits, Exit
<1>8. CASE UNCHANGED vars
  BY <1>3, <1>8 DEF vars
<1> QED
  BY <1>5, <1>6, <1>7, <1>8 DEF Next

\* Every denial the client was sent is on record, although the reply goes out
\* before the receipt (proxy.ts:802-813), whatever the peers do with ids, as
\* long as no append was refused and the chain file can be read back.
THEOREM DenialsAreReceiptedHolds == Spec => []DenialsAreReceipted
<1>1. Init => TypeOK /\ DenialsAreReceipted
  BY TypeInit DEF Init, DenialsAreReceipted
<1>2. TypeOK /\ DenialsAreReceipted /\ [Next]_vars => TypeOK' /\ DenialsAreReceipted'
  BY TypeStep, DenialsStep
<1> QED
  BY <1>1, <1>2, PTL DEF Spec
=============================================================================
