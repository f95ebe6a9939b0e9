--------------------------- MODULE VerdictsProofs ---------------------------
(***************************************************************************)
(* What the verdicts promise, for every case and every change of it.  A      *)
(* program's part of an invariant follows from the facts having the types    *)
(* FactsAreTyped gives them; its proof walks down the program's own lists of *)
(* checks by the lemmas of ChecksProofs; AcceptedProofs has the programs     *)
(* that accept something.                                                    *)
(***************************************************************************)
EXTENDS Verdicts, AcceptedProofs

\* The lists of an instance are decided as those of Checks are.
LEMMA BundleDecide ==
  ASSUME NEW checks, NEW otherwise
  PROVE  Bundle!Decide(checks, otherwise) = Decide(checks, otherwise)
BY DEF Bundle!Decide, Decide, Bundle!Min, Min

----------------------------------------------------------------------------
\* Evidence bundles

\* A witness receipt that passes is signed (receiptStatus in verify.mjs).
LEMMA ReceiptPasses ==
  ASSUME NEW x
  PROVE  /\ Bundle!ReceiptStatus(x) \in {"FAIL", "NE", "PASS"}
         /\ Bundle!ReceiptStatus(x) = "PASS" => x.signed
<1> DEFINE checks == <<Bundle!When(~x.shape, "FAIL"), Bundle!When(x.key = "unknown", "NE")>>
           otherwise == Bundle!PassIf(x.signed)
<1>1. Bundle!ReceiptStatus(x) = Decide(checks, otherwise)
  BY BundleDecide DEF Bundle!ReceiptStatus
<1>2. 2 \in Nat /\ DOMAIN checks = 1 .. 2 /\ checks[1].answer = "FAIL" /\ checks[2].answer = "NE"
  BY DEF Bundle!When
<1>3. otherwise \in {"PASS", "FAIL"} /\ (otherwise = "PASS" => x.signed)
  BY DEF Bundle!PassIf
<1> HIDE DEF checks, otherwise
<1>4. Decide(checks, otherwise) = otherwise \/ \E i \in 1 .. 2 : Decide(checks, otherwise) = checks[i].answer
  BY <1>2, DecideAmong
<1>5. Decide(checks, otherwise) \in {otherwise, "FAIL", "NE"}
  BY <1>2, <1>4
<1> QED
  BY <1>1, <1>3, <1>5

\* What a bundle's witness binding says of the receipts: the list was read to
\* its end and shows no other history.
LEMMA WitnessBinds ==
  ASSUME NEW b, Bundle!BWit(b).state = "BOUND"
  PROVE  /\ b.online /\ b.card /\ b.list.ok
         /\ Bundle!Covering(b) # {} /\ ~Bundle!Incomplete(b) /\ ~Bundle!Inconsistent(b)
         /\ ~\E x \in b.receipts \cup Bundle!Mine(Bundle!Listed(b)) : Bundle!ReceiptStatus(x) = "FAIL"
         /\ ~\E x \in Bundle!Verified(b) : x.count <= b.records /\ x.head # "log"
         /\ ~\E x \in Bundle!Verified(b) : x.count > b.records
<1> DEFINE on == b.online /\ b.card
           contradicts == \/ \E x \in b.receipts \cup Bundle!Mine(Bundle!Listed(b)) : Bundle!ReceiptStatus(x) = "FAIL"
                          \/ \E x \in Bundle!Verified(b) : x.count <= b.records /\ x.head # "log"
                          \/ \E x, y \in Bundle!Verified(b) : x.count = y.count /\ x.head # y.head
           beyond == \E x \in Bundle!Verified(b) : x.count > b.records
           binds == /\ on /\ Bundle!Covering(b) # {} /\ ~Bundle!Incomplete(b) /\ ~Bundle!Inconsistent(b)
                    /\ Bundle!Covering(b) \cap Bundle!Listed(b) # {}
           unknown == \E x \in Bundle!Mine(b.receipts) \cup Bundle!Mine(Bundle!Listed(b)) : Bundle!ReceiptStatus(x) = "NE" /\ Bundle!Covers(b, x)
           checks == <<Bundle!When(contradicts, Bundle!Is("FAIL")), Bundle!When(beyond, Bundle!Is("TRUNCATED")),
                       Bundle!When(binds, Bundle!Is("BOUND")), Bundle!When(Bundle!Covering(b) # {}, Bundle!Is("SUPPLIED")),
                       Bundle!When(unknown, Bundle!State("NOT-EVALUATED", "witness-key-unknown")),
                       Bundle!When(on /\ ~b.list.ok, Bundle!State("NOT-EVALUATED", "online-read-failed"))>>
           otherwise == Bundle!Is("ABSENT")
<1>1. Bundle!BWit(b) = Decide(checks, otherwise)
  BY BundleDecide DEF Bundle!BWit
<1>2. /\ 6 \in Nat /\ DOMAIN checks = 1 .. 6
      /\ checks[1].answer.state = "FAIL" /\ checks[2].answer.state = "TRUNCATED" /\ checks[4].answer.state = "SUPPLIED"
      /\ checks[5].answer.state = "NOT-EVALUATED" /\ checks[6].answer.state = "NOT-EVALUATED" /\ otherwise.state = "ABSENT"
  BY DEF Bundle!When, Bundle!Is, Bundle!State
<1>3. (checks[1].applies <=> contradicts) /\ (checks[2].applies <=> beyond) /\ (checks[3].applies <=> binds)
  BY DEF Bundle!When
<1> HIDE DEF checks, otherwise
<1>4. ~checks[1].applies /\ ~checks[2].applies
  <2>1. 2 \in 0 .. 6 /\ \A i \in 1 .. 2 : checks[i].answer # Decide(checks, otherwise)
    BY <1>1, <1>2
  <2>2. \A i \in 1 .. 2 : ~checks[i].applies
    BY <1>2, <2>1, DecideSkips
  <2> QED
    BY <2>2
<1>5. checks[3].applies
  <2>1. 3 \in 1 .. 6 /\ otherwise # Decide(checks, otherwise) /\ \A i \in 1 .. 6 : i # 3 => checks[i].answer # Decide(checks, otherwise)
    BY <1>1, <1>2
  <2> QED
    BY <1>2, <2>1, DecideGives
<1> QED
  BY <1>3, <1>4, <1>5 DEF Bundle!Incomplete

BundleOk(b) == Bundle!BundleFields \subseteq DOMAIN b /\ \A f \in DOMAIN b : Bundle!BundleField(f, b[f])

\* What the fields of a bundle are, for a bundle the verdicts are about.
LEMMA BundleIsTyped ==
  ASSUME NEW b, BundleOk(b)
  PROVE  /\ b.records \in Int
         /\ b.charge # None => b.charge \in Int
         /\ \A x \in b.receipts \cup b.list.receipts : x.at \in Int /\ x.count \in Int
         /\ b.pay.path \in {"eip3009", "calldata", "unread"} /\ b.pay.code \in {"none", "shown", "unread"}
         /\ b.pay.carrier \in {"none", "calldata"} \/ (b.pay.carrier = "eip3009-nonce" /\ b.pay.path # "calldata")
<1>1. \A f \in {"records", "charge", "receipts", "list", "pay"} : Bundle!BundleField(f, b[f])
  BY DEF BundleOk, Bundle!BundleFields
<1> QED
  BY <1>1 DEF Bundle!BundleField

\* A witness that binds listed only its own signed receipts of this very log.
LEMMA ListIsClean ==
  ASSUME NEW b, BundleOk(b), Bundle!BWit(b).state = "BOUND"
  PROVE  \A x \in b.list.receipts : x.mine /\ x.signed /\ x.count <= b.records /\ x.head = "log"
<1> SUFFICES ASSUME NEW x \in b.list.receipts
             PROVE  x.mine /\ x.signed /\ x.count <= b.records /\ x.head = "log"
  OBVIOUS
<1>1. x \in Bundle!Listed(b)
  BY WitnessBinds DEF Bundle!Listed
<1>2. x.mine
  BY <1>1, WitnessBinds DEF Bundle!Inconsistent
<1>3. Bundle!ReceiptStatus(x) = "PASS"
  BY <1>1, <1>2, WitnessBinds, ReceiptPasses DEF Bundle!Incomplete, Bundle!Mine
<1>4. x \in Bundle!Verified(b)
  BY <1>1, <1>2, <1>3 DEF Bundle!Verified, Bundle!Mine
<1>5. x.count \in Int /\ b.records \in Int
  BY BundleIsTyped
<1> QED
  BY <1>2, <1>3, <1>4, <1>5, WitnessBinds, ReceiptPasses

\* What the card table says behind its refusals has a charge, a match, and a
\* receipt of a time before the charge.
LEMMA CardBinds ==
  ASSUME NEW b, BundleOk(b), Bundle!BCard(b).state \notin {"NOT-EVALUATED", "DIFFERS", "AFTER-AUTHORIZATION"}
  PROVE  b.charge # None /\ b.match # "differs" /\ \E x \in Bundle!Covering(b) : x.at < b.charge
<1> DEFINE late == b.charge # None /\ \A x \in Bundle!Covering(b) : x.at >= b.charge
           open == Bundle!FailAt(b) # "none" \/ Bundle!BLog(b).state # "BOUND"
           untimed == Bundle!Covering(b) = {} \/ Bundle!BWit(b).state \notin {"BOUND", "SUPPLIED", "TRUNCATED"}
           checks == <<Bundle!When(b.charge = None, Bundle!State("NOT-EVALUATED", "charge-not-stated")),
                       Bundle!When(open, Bundle!State("NOT-EVALUATED", "prerequisite-failed")),
                       Bundle!When(b.order = "not-carried", Bundle!State("NOT-EVALUATED", "args-not-carried")),
                       Bundle!When(b.order = "none", Bundle!State("NOT-EVALUATED", "no-order-committed")),
                       Bundle!When(b.match = "differs", Bundle!Is("DIFFERS")),
                       Bundle!When(untimed, Bundle!State("NOT-EVALUATED", "no-witness-time")),
                       Bundle!When(late, Bundle!State("AFTER-AUTHORIZATION", "not-before-authorization"))>>
           otherwise == Bundle!State("BOUND", IF b.match = "unreferenced" THEN "reference-not-stated" ELSE "none")
<1>1. Bundle!BCard(b) = Decide(checks, otherwise)
  BY BundleDecide DEF Bundle!BCard
<1>2. /\ 7 \in Nat /\ DOMAIN checks = 1 .. 7
      /\ checks[1].answer.state = "NOT-EVALUATED" /\ checks[2].answer.state = "NOT-EVALUATED" /\ checks[3].answer.state = "NOT-EVALUATED"
      /\ checks[4].answer.state = "NOT-EVALUATED" /\ checks[5].answer.state = "DIFFERS" /\ checks[6].answer.state = "NOT-EVALUATED"
      /\ checks[7].answer.state = "AFTER-AUTHORIZATION"
  BY DEF Bundle!When, Bundle!Is, Bundle!State
<1>3. (checks[1].applies <=> b.charge = None) /\ (checks[5].applies <=> b.match = "differs") /\ (checks[7].applies <=> late)
  BY DEF Bundle!When
<1> HIDE DEF checks, otherwise
<1>4. \A i \in 1 .. 7 : ~checks[i].applies
  <2>1. 7 \in 0 .. 7 /\ \A i \in 1 .. 7 : checks[i].answer # Decide(checks, otherwise)
    BY <1>1, <1>2
  <2> QED
    BY <1>2, <2>1, DecideSkips
<1>5. b.charge # None /\ b.match # "differs" /\ ~late
  BY <1>3, <1>4
<1>6. PICK x \in Bundle!Covering(b) : ~(x.at >= b.charge)
  BY <1>5
<1>7. x.at \in Int /\ b.charge \in Int
  BY <1>5, <1>6, BundleIsTyped DEF Bundle!Covering, Bundle!Verified, Bundle!Mine, Bundle!Listed
<1> QED
  BY <1>5, <1>6, <1>7

\* A receipt that covers the cited record is on the list, carried or not.
LEMMA CoveringIsListed ==
  ASSUME NEW b, Bundle!BWit(b).state = "BOUND", NEW x \in Bundle!Covering(b)
  PROVE  x \in b.list.receipts /\ x.mine /\ x.signed /\ x.count > b.seq
<1>1. x.mine /\ Bundle!ReceiptStatus(x) = "PASS" /\ Bundle!Covers(b, x)
  BY DEF Bundle!Covering, Bundle!Verified, Bundle!Mine
<1>2. x \in Bundle!Listed(b)
  BY <1>1, WitnessBinds DEF Bundle!Covering, Bundle!Verified, Bundle!Inconsistent, Bundle!Mine
<1> QED
  BY <1>1, <1>2, WitnessBinds, ReceiptPasses DEF Bundle!Listed, Bundle!Covers

\* A bound witness and a card verdict together show the order recorded first.
LEMMA RecordedEarns ==
  ASSUME NEW b, BundleOk(b), Bundle!BWit(b).state = "BOUND",
         Bundle!BCard(b).state \notin {"NOT-EVALUATED", "DIFFERS", "AFTER-AUTHORIZATION"}
  PROVE  Bundle!RecordedBefore(b)
<1>1. PICK x \in Bundle!Covering(b) : x.at < b.charge
  BY CardBinds
<1>2. x \in b.list.receipts /\ x.mine /\ x.signed /\ x.count > b.seq
  BY CoveringIsListed
<1> QED
  BY <1>1, <1>2, CardBinds, WitnessBinds, ListIsClean DEF Bundle!RecordedBefore

\* The card table never says that a payment verifies, and what it says of a
\* record behind its first three rows has a charge and a witness binding.
LEMMA CardEarns ==
  ASSUME NEW b, NEW bs, NEW decision
  PROVE  LET verdict == Bundle!CardVerdict(b, bs, decision) IN
         /\ verdict \in {"RECORDED-BEFORE-CHARGE", "RECORDED-WITH-GAPS", "OUTSIDE-INSTRUCTION"}
              => bs.card.state \notin {"NOT-EVALUATED", "DIFFERS", "AFTER-AUTHORIZATION"} /\ bs.wit.state = "BOUND"
         /\ verdict \notin {"VERIFIES", "VERIFIES-WITH-GAPS"}
<1> DEFINE breach == Bundle!Breach(decision, {bs.ins})
           open == bs.card.state \in {"NOT-EVALUATED", "AFTER-AUTHORIZATION"} \/ bs.wit.state # "BOUND"
           whole == /\ decision = "allow" /\ bs.card = Bundle!Is("BOUND") /\ Bundle!ReceiptHolds(bs)
                    /\ Bundle!Bound(bs, {"ins", "log", "ckp", "wit", "key"})
           checks == <<Bundle!When(Bundle!Fails(b, bs), "FAILS"),
                       Bundle!When(bs.card.state = "DIFFERS", "DOES-NOT-MATCH-CHARGE"),
                       Bundle!When(open, "PAYMENT-NOT-VERIFIED"),
                       Bundle!When(~breach /\ decision = "not-read", "PAYMENT-NOT-VERIFIED"),
                       Bundle!When(~breach /\ bs.ins = Bundle!State("NOT-EVALUATED", "order-field-missing"), "PAYMENT-NOT-VERIFIED"),
                       Bundle!When(breach, "OUTSIDE-INSTRUCTION"),
                       Bundle!When(whole, "RECORDED-BEFORE-CHARGE")>>
           otherwise == "RECORDED-WITH-GAPS"
<1>1. Bundle!CardVerdict(b, bs, decision) = Decide(checks, otherwise)
  BY BundleDecide DEF Bundle!CardVerdict
<1>2. /\ 7 \in Nat /\ DOMAIN checks = 1 .. 7
      /\ checks[1].answer = "FAILS" /\ checks[2].answer = "DOES-NOT-MATCH-CHARGE" /\ checks[3].answer = "PAYMENT-NOT-VERIFIED"
      /\ checks[4].answer = "PAYMENT-NOT-VERIFIED" /\ checks[5].answer = "PAYMENT-NOT-VERIFIED" /\ checks[6].answer = "OUTSIDE-INSTRUCTION"
      /\ checks[7].answer = "RECORDED-BEFORE-CHARGE" /\ otherwise = "RECORDED-WITH-GAPS"
  BY DEF Bundle!When
<1>3. (checks[2].applies <=> bs.card.state = "DIFFERS") /\ (checks[3].applies <=> open)
  BY DEF Bundle!When
<1> HIDE DEF checks, otherwise
<1>4. Decide(checks, otherwise) = otherwise \/ \E i \in 1 .. 7 : Decide(checks, otherwise) = checks[i].answer
  BY <1>2, DecideAmong
<1>5. ASSUME Decide(checks, otherwise) \in {"RECORDED-BEFORE-CHARGE", "RECORDED-WITH-GAPS", "OUTSIDE-INSTRUCTION"}
      PROVE  \A i \in 1 .. 3 : ~checks[i].applies
  <2>1. 3 \in 0 .. 7 /\ \A i \in 1 .. 3 : checks[i].answer # Decide(checks, otherwise)
    BY <1>2, <1>5
  <2> QED
    BY <1>2, <2>1, DecideSkips
<1> QED
  BY <1>1, <1>2, <1>3, <1>4, <1>5

\* The table of payments on a chain: without the chain's answer its fourth row
\* applies, and what the first four answer is no verification.
LEMMA ChainNeverVerifies ==
  ASSUME NEW b, NEW bs, NEW decision, bs.chain.state \in {"SUPPLIED", "NOT-EVALUATED"}
  PROVE  Bundle!ChainVerdict(b, bs, decision) \in {"FAILS", "DOES-NOT-CONNECT", "PAYMENT-NOT-VERIFIED"}
<1> DEFINE breach == Bundle!Breach(decision, {bs.ins, bs.grc})
           apart == bs.pay.state \in {"ABSENT", "NO-PAYMENT"} \/ (bs.pay.state = "CARRIED-BY-OTHER" /\ ~Bundle!PayerDerived(b))
           whole == /\ decision = "allow" /\ Bundle!ReceiptHolds(bs)
                    /\ Bundle!Bound(bs, {"pay", "ins", "log", "ckp", "wit", "chain", "key"})
           checks == <<Bundle!When(Bundle!Fails(b, bs), "FAILS"),
                       Bundle!When(apart, "DOES-NOT-CONNECT"),
                       Bundle!When(bs.pay.state \in {"UNSUPPORTED-PATH", "NOT-EVALUATED"}, "PAYMENT-NOT-VERIFIED"),
                       Bundle!When(bs.chain.state \in {"SUPPLIED", "NOT-EVALUATED"}, "PAYMENT-NOT-VERIFIED"),
                       Bundle!When(~breach /\ decision = "not-read", "PAYMENT-NOT-VERIFIED"),
                       Bundle!When(~breach /\ bs.ins = Bundle!State("NOT-EVALUATED", "unread-outflow"), "PAYMENT-NOT-VERIFIED"),
                       Bundle!When(Bundle!PayerDerived(b) /\ breach, "VERIFIES-OUTSIDE-INSTRUCTION"),
                       Bundle!When(whole, "VERIFIES")>>
           otherwise == "VERIFIES-WITH-GAPS"
<1>1. Bundle!ChainVerdict(b, bs, decision) = Decide(checks, otherwise)
  BY BundleDecide DEF Bundle!ChainVerdict
<1>2. /\ 8 \in Nat /\ DOMAIN checks = 1 .. 8
      /\ checks[1].answer = "FAILS" /\ checks[2].answer = "DOES-NOT-CONNECT" /\ checks[3].answer = "PAYMENT-NOT-VERIFIED"
      /\ checks[4].answer = "PAYMENT-NOT-VERIFIED"
  BY DEF Bundle!When
<1>3. checks[4].applies
  BY DEF Bundle!When
<1> HIDE DEF checks, otherwise
<1>4. \E i \in 1 .. 4 : Decide(checks, otherwise) = checks[i].answer
  <2>1. 4 \in 1 .. 8 /\ 8 \in Nat /\ DOMAIN checks = 1 .. 8
    BY <1>2
  <2> QED
    BY <1>3, <2>1, DecideWithin
<1> QED
  BY <1>1, <1>2, <1>4

\* A payment binds when its bytes were signed by the stated account and move
\* value from it.
LEMMA PaymentBinds ==
  ASSUME NEW b, BundleOk(b), Bundle!BPay(b) = Bundle!Is("BOUND")
  PROVE  Bundle!PaidByStated(b)
<1> DEFINE p == b.pay
           eip == p.path = "eip3009"
           by == Bundle!SignedBy(p)
           checks == <<Bundle!When(~p.supported, Bundle!State("UNSUPPORTED-PATH", "unsupported-type")),
                       Bundle!When(p.path = "unread", Bundle!State("UNSUPPORTED-PATH", "unsupported-call")),
                       Bundle!When(eip /\ ~p.pinned, Bundle!State("NOT-EVALUATED", "token-not-pinned")),
                       Bundle!When(eip /\ p.contract, Bundle!State("NOT-EVALUATED", "contract-signer")),
                       Bundle!When(p.carrier = "none" /\ p.elsewhere, Bundle!State("NOT-EVALUATED", "unread-carrier")),
                       Bundle!When(p.claimed # p.carrier, Bundle!Is("FAIL")),
                       Bundle!When(eip /\ p.carrier = "none", Bundle!Is("ABSENT")),
                       Bundle!When(b.authorizer = "none", Bundle!State("NOT-EVALUATED", "authorizer-not-stated")),
                       Bundle!When(b.txStated = "none", Bundle!State("NOT-EVALUATED", "tx-not-stated")),
                       Bundle!When(eip /\ by # p.signer /\ p.signer = b.authorizer /\ p.moves, Bundle!Windowed(p, "CARRIED-BY-OTHER")),
                       Bundle!When(eip /\ (by # p.signer \/ p.signer # b.authorizer), Bundle!Is("CARRIED-BY-OTHER")),
                       Bundle!When(~eip /\ p.sender # b.authorizer, Bundle!State("UNSUPPORTED-PATH", "other-sender")),
                       Bundle!When(~eip /\ p.carrier = "none", Bundle!Is("ABSENT")),
                       Bundle!When(p.moves, Bundle!Windowed(p, "BOUND")),
                       Bundle!When(eip, Bundle!Is("NO-PAYMENT"))>>
           otherwise == Bundle!State("NOT-EVALUATED", "no-counted-movement")
<1>1. Decide(checks, otherwise).state = "BOUND" /\ Decide(checks, otherwise) = Bundle!Is("BOUND")
  BY BundleDecide DEF Bundle!BPay, Bundle!Is, Bundle!State
<1>2. 15 \in Nat /\ 14 \in 1 .. 15 /\ 13 \in 0 .. 15 /\ DOMAIN checks = 1 .. 15
  OBVIOUS
<1>3. /\ checks[1].answer.state = "UNSUPPORTED-PATH" /\ checks[2].answer.state = "UNSUPPORTED-PATH"
      /\ checks[3].answer.state = "NOT-EVALUATED" /\ checks[4].answer.state = "NOT-EVALUATED" /\ checks[5].answer.state = "NOT-EVALUATED"
  BY DEF Bundle!When, Bundle!State
<1>4. /\ checks[6].answer.state = "FAIL" /\ checks[7].answer.state = "ABSENT"
      /\ checks[8].answer.state = "NOT-EVALUATED" /\ checks[9].answer.state = "NOT-EVALUATED"
  BY DEF Bundle!When, Bundle!Is, Bundle!State
<1>5. checks[10].answer.state \in {"NOT-EVALUATED", "CARRIED-BY-OTHER"}
  BY DEF Bundle!When, Bundle!Is, Bundle!State, Bundle!Windowed
<1>6. /\ checks[11].answer.state = "CARRIED-BY-OTHER" /\ checks[12].answer.state = "UNSUPPORTED-PATH" /\ checks[13].answer.state = "ABSENT"
      /\ checks[15].answer.state = "NO-PAYMENT" /\ otherwise.state = "NOT-EVALUATED"
  BY DEF Bundle!When, Bundle!Is, Bundle!State
<1>7. checks[14].answer = Bundle!Windowed(p, "BOUND")
  BY DEF Bundle!When
<1>8. (checks[2].applies <=> p.path = "unread") /\ (checks[7].applies <=> eip /\ p.carrier = "none")
  BY DEF Bundle!When
<1>9. checks[11].applies <=> eip /\ (by # p.signer \/ p.signer # b.authorizer)
  BY DEF Bundle!When
<1>10. checks[12].applies <=> ~eip /\ p.sender # b.authorizer
  BY DEF Bundle!When
<1>11. (checks[13].applies <=> ~eip /\ p.carrier = "none") /\ (checks[14].applies <=> p.moves)
  BY DEF Bundle!When
<1> HIDE DEF checks, otherwise, by
<1>12. \A i \in 1 .. 13 : checks[i].answer # Decide(checks, otherwise)
  BY <1>1, <1>3, <1>4, <1>5, <1>6
<1>13. \A i \in 1 .. 13 : ~checks[i].applies
  BY <1>2, <1>12, DecideSkips
<1>14. \A i \in 1 .. 15 : i # 14 => checks[i].answer # Decide(checks, otherwise)
  BY <1>1, <1>6, <1>12
<1>15. otherwise # Decide(checks, otherwise)
  BY <1>1, <1>6
<1>16. checks[14].applies
  BY <1>2, <1>14, <1>15, DecideGives
<1>17. Decide(checks, otherwise) = checks[14].answer
  <2>1. \/ Decide(checks, otherwise) = otherwise
        \/ \E i \in 1 .. 15 : Decide(checks, otherwise) = checks[i].answer
    BY <1>2, DecideAmong
  <2> QED
    BY <1>14, <1>15, <2>1
<1>18. p.moves /\ p.code = "none"
  <2>1. Bundle!Windowed(p, "BOUND") = Bundle!Is("BOUND")
    BY <1>1, <1>7, <1>17
  <2>2. p.code \notin {"shown", "unread"}
    BY <2>1 DEF Bundle!Windowed, Bundle!Is, Bundle!State
  <2> QED
    BY <1>11, <1>16, <2>2, BundleIsTyped
<1>19. CASE eip
  <2>1. p.carrier # "none" /\ by = p.signer /\ p.signer = b.authorizer
    BY <1>8, <1>9, <1>13, <1>19
  <2>2. p.carrier = "calldata" => p.sender = p.signer
    BY <2>1 DEF by, Bundle!SignedBy
  <2> QED
    BY <1>18, <1>19, <2>1, <2>2, BundleIsTyped DEF Bundle!PaidByStated
<1>20. CASE ~eip
  <2>1. p.path # "unread" /\ p.sender = b.authorizer /\ p.carrier # "none"
    BY <1>8, <1>10, <1>11, <1>13, <1>20
  <2> QED
    BY <1>18, <1>20, <2>1, BundleIsTyped DEF Bundle!PaidByStated
<1> QED
  BY <1>19, <1>20

\* Whatever a bundle holds, its verdict is worth what BundleVerdictHolds says.
LEMMA BundleVerdictEarned ==
  ASSUME NEW b, BundleOk(b)
  PROVE  LET verdict == Bundle!VerifyBundle(b) IN
         /\ verdict \in {"RECORDED-BEFORE-CHARGE", "RECORDED-WITH-GAPS", "OUTSIDE-INSTRUCTION"} => Bundle!RecordedBefore(b)
         /\ verdict \notin {"VERIFIES", "VERIFIES-WITH-GAPS"}
         /\ ~b.card /\ Bundle!Bindings(b).pay = Bundle!Is("BOUND") => Bundle!PaidByStated(b)
<1> DEFINE bs == Bundle!Bindings(b)
           decision == Bundle!DecisionRead(b)
           verdict == Bundle!VerifyBundle(b)
<1>1. /\ bs.card = Bundle!BCard(b)
      /\ bs.wit.state = "BOUND" => Bundle!BWit(b).state = "BOUND"
      /\ bs.chain.state \in {"SUPPLIED", "NOT-EVALUATED"}
      /\ bs.pay = Bundle!Is("BOUND") => Bundle!BPay(b) = Bundle!Is("BOUND")
  BY DEF Bundle!Bindings, Bundle!Is, Bundle!State
<1> HIDE DEF bs, decision
<1>2. verdict \in {"refused", "PAYMENT-NOT-VERIFIED", Bundle!CardVerdict(b, bs, decision), Bundle!ChainVerdict(b, bs, decision)}
  BY DEF Bundle!VerifyBundle, Bundle!Verdict, bs, decision
<1> HIDE DEF verdict
<1>3. Bundle!ChainVerdict(b, bs, decision) \in {"FAILS", "DOES-NOT-CONNECT", "PAYMENT-NOT-VERIFIED"}
  BY <1>1, ChainNeverVerifies
<1>4. verdict \notin {"VERIFIES", "VERIFIES-WITH-GAPS"}
  BY <1>2, <1>3, CardEarns
<1>5. ASSUME verdict \in {"RECORDED-BEFORE-CHARGE", "RECORDED-WITH-GAPS", "OUTSIDE-INSTRUCTION"}
      PROVE  Bundle!RecordedBefore(b)
  <2>1. Bundle!CardVerdict(b, bs, decision) \in {"RECORDED-BEFORE-CHARGE", "RECORDED-WITH-GAPS", "OUTSIDE-INSTRUCTION"}
    BY <1>2, <1>3, <1>5
  <2> QED
    BY <1>1, <2>1, CardEarns, RecordedEarns
<1> QED
  BY <1>1, <1>4, <1>5, PaymentBinds DEF bs, verdict

----------------------------------------------------------------------------
\* The ordering checker

\* What its own copy of Checks computes is what Checks does.
LEMMA OrderNames ==
  /\ \A checks, otherwise : Order!Decide(checks, otherwise) = Decide(checks, otherwise)
  /\ \A checks : Order!Report(checks) = Report(checks)
  /\ \A report, status : Order!Lines(report, status) = Lines(report, status)
  /\ \A id, needs, status : Order!Check(id, needs, status) = [id |-> id, needs |-> needs, status |-> status]
  /\ \A applies, answer : Order!When(applies, answer) = When(applies, answer)
<1>1. \A checks, otherwise : Order!Decide(checks, otherwise) = Decide(checks, otherwise)
  BY DEF Order!Decide, Decide, Order!Min, Min
<1>2. \A checks : Order!Report(checks) = Report(checks)
  BY DEF Order!Report, Report, Order!LineOf, LineOf
<1> QED
  BY <1>1, <1>2 DEF Order!Lines, Lines, Order!Check, Order!When, When

\* What a list of checks shows when none of its lines keeps the exit code from 0.
Clean(s) == \A x \in Items(s) : x.status \notin {"FAIL", "FLAG", "NOT VERIFIED OFFLINE"}

\* The pins and the case.
LEMMA PinsInOrder ==
  ASSUME NEW c
  PROVE  LET s == <<Order!Check("pins", {}, Order!Sound(c, "pins")), Order!Check("case", {}, Order!Sound(c, "case"))>> IN
         /\ IsSeq(s) /\ InOrder({}, s) /\ {"pins", "case"} \subseteq Ids(s)
         /\ Clean(s) => {"pins", "case"} \cap c.broken = {}
<1> DEFINE s == <<Order!Check("pins", {}, Order!Sound(c, "pins")), Order!Check("case", {}, Order!Sound(c, "case"))>>
<1>1. IsSeq(s) /\ InOrder({}, s) /\ Items(s) = {s[1], s[2]}
  <2>1. IsSeq(s)
    BY DEF IsSeq
  <2>2. InOrder({}, s)
    BY DEF InOrder, Order!Check
  <2>3. Items(s) = {s[1], s[2]}
    BY DEF Items
  <2> QED
    BY <2>1, <2>2, <2>3
<1>2. s[1].id = "pins" /\ s[2].id = "case" /\ s[1].status = Order!Sound(c, "pins") /\ s[2].status = Order!Sound(c, "case")
  BY DEF Order!Check
<1> HIDE DEF s
<1>3. Clean(s) => {"pins", "case"} \cap c.broken = {}
  BY <1>1, <1>2 DEF Clean, Order!Sound
<1> QED
  BY <1>1, <1>2, <1>3 DEF Ids, s

\* The profile behind them.
LEMMA ProfileInOrder ==
  ASSUME NEW c
  PROVE  LET s == <<Order!Check("a.profile", {"pins"}, Order!Sound(c, "a.profile")), Order!Check("a.chain-id", {"a.profile", "case"}, Order!Sound(c, "a.chain-id"))>> IN
         /\ IsSeq(s) /\ InOrder({"pins", "case"}, s) /\ {"a.profile"} \subseteq Ids(s)
         /\ Clean(s) => {"a.profile", "a.chain-id"} \cap c.broken = {}
<1> DEFINE s == <<Order!Check("a.profile", {"pins"}, Order!Sound(c, "a.profile")), Order!Check("a.chain-id", {"a.profile", "case"}, Order!Sound(c, "a.chain-id"))>>
<1>1. IsSeq(s) /\ InOrder({"pins", "case"}, s) /\ Items(s) = {s[1], s[2]}
  <2>1. IsSeq(s)
    BY DEF IsSeq
  <2>2. InOrder({"pins", "case"}, s)
    BY DEF InOrder, Order!Check
  <2>3. Items(s) = {s[1], s[2]}
    BY DEF Items
  <2> QED
    BY <2>1, <2>2, <2>3
<1>2. s[1].id = "a.profile" /\ s[1].status = Order!Sound(c, "a.profile") /\ s[2].status = Order!Sound(c, "a.chain-id")
  BY DEF Order!Check
<1> HIDE DEF s
<1>3. Clean(s) => {"a.profile", "a.chain-id"} \cap c.broken = {}
  BY <1>1, <1>2 DEF Clean, Order!Sound
<1> QED
  BY <1>1, <1>2, <1>3 DEF Ids, s

\* The checks of one gate receipt.
LEMMA ReceiptInOrder ==
  ASSUME NEW c, NEW role
  PROVE  LET s == Order!ReceiptChecks(c, role)
             id == Order!ReceiptIds[role]
         IN  /\ IsSeq(s) /\ InOrder({"a.profile"}, s) /\ id.envelope \in Ids(s)
             /\ Clean(s) => {id.envelope, id.uid, id.signature, id.signerKey} \cap c.broken = {}
<1> DEFINE s == Order!ReceiptChecks(c, role)
           id == Order!ReceiptIds[role]
<1> HIDE DEF id
<1>0. s = <<Order!Check(id.envelope, {"a.profile"}, Order!Sound(c, id.envelope)),
            Order!Check(id.uid, {id.envelope}, Order!Sound(c, id.uid)),
            Order!Check(id.signature, {id.uid}, Order!Sound(c, id.signature)),
            Order!Check(id.signerKey, {id.signature}, Order!Sound(c, id.signerKey)),
            Order!Check(id.requestHash, {id.envelope}, IF c.requests THEN Order!Sound(c, id.requestHash) ELSE "NOT CHECKED")>>
  BY DEF Order!ReceiptChecks, id
<1>1. IsSeq(s) /\ InOrder({"a.profile"}, s) /\ \A n \in 1 .. 5 : s[n] \in Items(s)
  <2> HIDE DEF s
  <2>1. IsSeq(s) /\ Len(s) = 5
    <3>1. \A x1, x2, x3, x4, x5 : IsSeq(<<x1, x2, x3, x4, x5>>) /\ Len(<<x1, x2, x3, x4, x5>>) = 5
      BY DEF IsSeq
    <3> QED
      BY <1>0, <3>1
  <2>2. InOrder({"a.profile"}, s)
    <3>1. /\ s[1].id = id.envelope /\ s[2].id = id.uid /\ s[3].id = id.signature /\ s[4].id = id.signerKey
          /\ s[1].needs = {"a.profile"} /\ s[2].needs = {id.envelope} /\ s[3].needs = {id.uid}
          /\ s[4].needs = {id.signature} /\ s[5].needs = {id.envelope}
      BY <1>0 DEF Order!Check
    <3>2. \A n \in 1 .. 5 : n = 1 \/ n = 2 \/ n = 3 \/ n = 4 \/ n = 5
      OBVIOUS
    <3>3. \A n \in 1 .. 5 : s[n].needs \subseteq {"a.profile"} \cup {s[i].id : i \in 1 .. n - 1}
      BY <3>1, <3>2
    <3> QED
      BY <2>1, <3>3 DEF InOrder
  <2>3. \A n \in 1 .. 5 : s[n] \in Items(s)
    BY <2>1 DEF Items
  <2> QED
    BY <2>1, <2>2, <2>3
<1>2. /\ s[1].id = id.envelope /\ s[1].status = Order!Sound(c, id.envelope) /\ s[2].status = Order!Sound(c, id.uid)
      /\ s[3].status = Order!Sound(c, id.signature) /\ s[4].status = Order!Sound(c, id.signerKey)
  <2> HIDE DEF s
  <2> QED
    BY <1>0 DEF Order!Check
<1> HIDE DEF s
<1>3. ASSUME Clean(s)
      PROVE  {id.envelope, id.uid, id.signature, id.signerKey} \cap c.broken = {}
  <2>1. \A n \in 1 .. 5 : s[n].status # "FAIL"
    BY <1>1, <1>3 DEF Clean
  <2> QED
    BY <1>2, <2>1 DEF Order!Sound
<1> QED
  BY <1>1, <1>2, <1>3 DEF Ids, s, id

\* The key document.
LEMMA KeysInOrder ==
  ASSUME NEW c
  PROVE  IsSeq(Order!KeyDocument(c)) /\ InOrder({"a.profile"}, Order!KeyDocument(c))
<1> DEFINE s == Order!KeyDocument(c)
<1>1. \E needs, status : needs \subseteq {"a.profile"} /\ s = <<Order!Check("a.online-keys", needs, status)>>
  BY DEF Order!KeyDocument
<1> HIDE DEF s
<1>2. IsSeq(s)
  BY <1>1 DEF IsSeq
<1>3. InOrder({"a.profile"}, s)
  BY <1>1 DEF InOrder, Order!Check
<1> QED
  BY <1>2, <1>3 DEF s

\* The operator's log and its checkpoint: the source stands before the
\* destination, and the checkpoint covers the whole log.
LEMMA LogInOrder ==
  ASSUME NEW c
  PROVE  LET s == Order!LogChecks(c) IN
         /\ IsSeq(s) /\ InOrder({"b.source.envelope", "b.destination.envelope"}, s)
         /\ {"c.log-key", "c.chain", "c.receipt-uids", "d.checkpoint-shape"} \subseteq Ids(s)
         /\ Clean(s) => /\ c.source < c.destination /\ c.count = c.entries /\ c.count > c.destination
                        /\ {"c.log-key", "c.entries", "c.chain", "c.receipt-uids", "d.checkpoint-shape", "d.checkpoint-key", "d.checkpoint-signature",
                            "d.checkpoint-session", "d.checkpoint-covers"} \cap c.broken = {}
<1> DEFINE s == Order!LogChecks(c)
<1>1. IsSeq(s) /\ InOrder({"b.source.envelope", "b.destination.envelope"}, s) /\ \A n \in 1 .. 10 : s[n] \in Items(s)
  <2>1. IsSeq(s) /\ Len(s) = 10
    BY DEF IsSeq, Order!LogChecks
  <2>2. InOrder({"b.source.envelope", "b.destination.envelope"}, s)
    BY DEF InOrder, Order!LogChecks, Order!Check
  <2>3. \A n \in 1 .. 10 : s[n] \in Items(s)
    BY <2>1 DEF Items
  <2> QED
    BY <2>1, <2>2, <2>3
<1>2. /\ s[1].id = "c.log-key" /\ s[1].status = Order!Sound(c, "c.log-key") /\ s[2].status = Order!Sound(c, "c.entries")
      /\ s[3].id = "c.chain" /\ s[3].status = Order!Sound(c, "c.chain")
      /\ s[5].id = "c.receipt-uids" /\ s[5].status = IF c.source < c.destination THEN Order!Sound(c, "c.receipt-uids") ELSE "FAIL"
  BY DEF Order!LogChecks, Order!Check
<1>3. /\ s[6].id = "d.checkpoint-shape" /\ s[6].status = Order!Sound(c, "d.checkpoint-shape")
      /\ s[7].status = Order!Sound(c, "d.checkpoint-key") /\ s[8].status = Order!Sound(c, "d.checkpoint-signature")
      /\ s[9].status = Order!Sound(c, "d.checkpoint-session")
      /\ s[10].status = IF c.count = c.entries /\ c.count > c.destination THEN Order!Sound(c, "d.checkpoint-covers") ELSE "FAIL"
  BY DEF Order!LogChecks, Order!Check
<1> HIDE DEF s
<1>4. ASSUME Clean(s)
      PROVE  /\ c.source < c.destination /\ c.count = c.entries /\ c.count > c.destination
             /\ {"c.log-key", "c.entries", "c.chain", "c.receipt-uids", "d.checkpoint-shape", "d.checkpoint-key", "d.checkpoint-signature",
                 "d.checkpoint-session", "d.checkpoint-covers"} \cap c.broken = {}
  <2>1. \A n \in 1 .. 10 : s[n].status # "FAIL"
    BY <1>1, <1>4 DEF Clean
  <2> QED
    BY <1>2, <1>3, <2>1 DEF Order!Sound
<1>5. {"c.log-key", "c.chain", "c.receipt-uids", "d.checkpoint-shape"} \subseteq Ids(s)
  BY <1>1, <1>2, <1>3 DEF Ids
<1> QED
  BY <1>1, <1>4, <1>5 DEF s

\* The witness: online, its own list has to agree with the log.
LEMMA WitnessInOrder ==
  ASSUME NEW c
  PROVE  LET s == Order!WitnessChecks(c) IN
         /\ IsSeq(s) /\ InOrder({"pins", "d.checkpoint-shape", "c.chain", "c.log-key"}, s)
         /\ Clean(s) => /\ {"e.witness-receipt", "e.witness-covers-checkpoint"} \cap c.broken = {}
                        /\ c.online => Order!ListAgrees(c) /\ "e.online-witness" \notin c.broken
<1> DEFINE x == Order!Check("e.witness-receipt", {"pins"}, Order!Sound(c, "e.witness-receipt"))
           y == Order!Check("e.witness-covers-checkpoint", {"e.witness-receipt", "d.checkpoint-shape"}, Order!Sound(c, "e.witness-covers-checkpoint"))
           offline == Order!Check("e.online-witness", {}, "NOT CHECKED")
           online == Order!Check("e.online-witness", {"e.witness-receipt", "c.chain", "c.log-key"},
                                 IF Order!ListAgrees(c) THEN Order!Sound(c, "e.online-witness") ELSE "FAIL")
           z == IF c.online THEN online ELSE offline
           known == {"pins", "d.checkpoint-shape", "c.chain", "c.log-key"}
           needed == {"e.witness-receipt", "c.chain", "c.log-key"}
           s == Order!WitnessChecks(c)
<1>1. s = <<x, y>> \o <<z>>
  BY DEF Order!WitnessChecks
<1>2. x.id = "e.witness-receipt" /\ x.needs = {"pins"} /\ x.status = Order!Sound(c, "e.witness-receipt")
  BY DEF Order!Check
<1>3. y.needs = {"e.witness-receipt", "d.checkpoint-shape"} /\ y.status = Order!Sound(c, "e.witness-covers-checkpoint")
  BY DEF Order!Check
<1>4. z.needs \subseteq needed /\ (c.online => z.status = IF Order!ListAgrees(c) THEN Order!Sound(c, "e.online-witness") ELSE "FAIL")
  BY DEF Order!Check
<1> HIDE DEF x, y, z, s
<1>5. IsSeq(<<x, y>>) /\ InOrder(known, <<x, y>>) /\ Items(<<x, y>>) = {x, y} /\ Ids(<<x, y>>) = {x.id, y.id}
  BY <1>2, <1>3, TwoChecks
<1>6. IsSeq(<<z>>) /\ InOrder(needed, <<z>>) /\ Items(<<z>>) = {z}
  <2> HIDE DEF needed
  <2> QED
    BY <1>4, OneCheck
<1>7. IsSeq(s) /\ InOrder(known, s) /\ Items(s) = {x, y} \cup {z}
  <2> DEFINE xy == <<x, y>>
             last == <<z>>
  <2>1. needed \subseteq known \cup Ids(xy)
    BY <1>2, <1>5
  <2> HIDE DEF known, needed, xy, last
  <2>2. IsSeq(xy) /\ IsSeq(last) /\ InOrder(known, xy) /\ InOrder(needed, last)
    BY <1>5, <1>6 DEF xy, last
  <2>3. IsSeq(xy \o last) /\ InOrder(known, xy \o last)
    BY <2>1, <2>2, InOrderBehind
  <2>4. Items(xy \o last) = Items(xy) \cup Items(last)
    BY <2>2, ItemsBehind
  <2> QED
    BY <1>1, <1>5, <1>6, <2>3, <2>4 DEF xy, last
<1>8. ASSUME Clean(s)
      PROVE  /\ {"e.witness-receipt", "e.witness-covers-checkpoint"} \cap c.broken = {}
             /\ c.online => Order!ListAgrees(c) /\ "e.online-witness" \notin c.broken
  <2>1. x.status # "FAIL" /\ y.status # "FAIL" /\ z.status # "FAIL"
    BY <1>7, <1>8 DEF Clean
  <2>2. {"e.witness-receipt", "e.witness-covers-checkpoint"} \cap c.broken = {}
    BY <1>2, <1>3, <2>1 DEF Order!Sound
  <2>3. c.online => Order!ListAgrees(c) /\ "e.online-witness" \notin c.broken
    BY <1>4, <2>1 DEF Order!Sound
  <2> QED
    BY <2>2, <2>3
<1> QED
  BY <1>7, <1>8 DEF s

\* The chain: what it says is taken only from two endpoints that agree, and a
\* block that is not final yet is flagged.
LEMMA ChainInOrder ==
  ASSUME NEW c, "case" \notin c.broken
  PROVE  LET s == Order!ChainChecks(c) IN
         /\ IsSeq(s) /\ InOrder({"case"}, s)
         /\ {"f.transaction", "f.sender", "f.receipt", "f.block", "call"} \subseteq Ids(s)
         /\ Clean(s) => /\ Order!ChainVerified(c) /\ c.final
                        /\ {"f.chain-data", "f.transaction", "f.sender", "f.receipt", "f.block", "f.block-hash", "call"} \cap c.broken = {}
<1> DEFINE first == <<Order!Check("f.chain-data", {"case"}, Order!ChainData(c))>>
           finality == IF Order!ChainVerified(c) /\ "case" \notin c.broken THEN <<Order!Check("f.finality", {}, IF c.final THEN "PASS" ELSE "FLAG")>> ELSE <<>>
           rest == <<Order!Check("f.transaction", {"f.chain-data"}, Order!Sound(c, "f.transaction")),
                  Order!Check("f.sender", {"f.transaction"}, Order!Sound(c, "f.sender")),
                  Order!Check("f.receipt", {"f.transaction"}, Order!Fact(c, "f.receipt")),
                  Order!Check("f.block", {"f.receipt"}, Order!Fact(c, "f.block")),
                  Order!Check("f.block-hash", {"f.block"}, Order!Fact(c, "f.block-hash")),
                  Order!Check("call", {"f.transaction"}, IF "call" \in c.broken THEN "FAIL" ELSE "INFO")>>
           s == Order!ChainChecks(c)
<1>0. s = (first \o finality) \o rest
  BY DEF Order!ChainChecks
<1> HIDE DEF s
<1>1. IsSeq(first) /\ InOrder({"case"}, first) /\ Items(first) = {first[1]} /\ Ids(first) = {"f.chain-data"} /\ first[1].status = Order!ChainData(c)
  <2>1. IsSeq(first)
    BY DEF IsSeq
  <2>2. InOrder({"case"}, first)
    BY DEF InOrder, Order!Check
  <2>3. Items(first) = {first[1]}
    BY DEF Items
  <2>4. first[1].id = "f.chain-data" /\ first[1].status = Order!ChainData(c)
    BY DEF Order!Check
  <2> HIDE DEF first
  <2>5. Ids(first) = {"f.chain-data"}
    BY <2>3, <2>4 DEF Ids
  <2> QED
    BY <2>1, <2>2, <2>3, <2>4, <2>5
<1> HIDE DEF first
<1>2. IsSeq(finality) /\ InOrder({}, finality) /\ (Order!ChainVerified(c) => Items(finality) = {finality[1]} /\ finality[1].status = IF c.final THEN "PASS" ELSE "FLAG")
  <2>1. CASE Order!ChainVerified(c)
    <3> DEFINE w == IF c.final THEN "PASS" ELSE "FLAG"
               finality1 == <<Order!Check("f.finality", {}, w)>>
    <3>1. finality = finality1
      BY <2>1
    <3> HIDE DEF finality, w
    <3>2. IsSeq(finality1)
      BY DEF IsSeq
    <3>3. InOrder({}, finality1)
      BY DEF InOrder, Order!Check
    <3>4. Items(finality1) = {finality1[1]}
      BY DEF Items
    <3>5. finality1[1].status = w
      BY DEF Order!Check
    <3> HIDE DEF finality1
    <3> QED
      BY <3>1, <3>2, <3>3, <3>4, <3>5 DEF w
  <2>2. CASE ~Order!ChainVerified(c)
    <3>1. finality = <<>>
      BY <2>2
    <3>2. IsSeq(<<>>) /\ InOrder({}, <<>>)
      BY DEF IsSeq, InOrder
    <3> HIDE DEF finality
    <3> QED
      BY <2>2, <3>1, <3>2
  <2> QED
    BY <2>1, <2>2
<1> HIDE DEF finality
<1>3. /\ rest[1].id = "f.transaction" /\ rest[1].needs = {"f.chain-data"} /\ rest[1].status = Order!Sound(c, "f.transaction")
      /\ rest[2].id = "f.sender" /\ rest[2].needs = {"f.transaction"} /\ rest[2].status = Order!Sound(c, "f.sender")
      /\ rest[3].id = "f.receipt" /\ rest[3].needs = {"f.transaction"} /\ rest[3].status = Order!Fact(c, "f.receipt")
  BY DEF Order!Check
<1>4. /\ rest[4].id = "f.block" /\ rest[4].needs = {"f.receipt"} /\ rest[4].status = Order!Fact(c, "f.block")
      /\ rest[5].needs = {"f.block"} /\ rest[5].status = Order!Fact(c, "f.block-hash")
      /\ rest[6].id = "call" /\ rest[6].needs = {"f.transaction"} /\ rest[6].status = IF "call" \in c.broken THEN "FAIL" ELSE "INFO"
  BY DEF Order!Check
<1>5. IsSeq(rest) /\ Len(rest) = 6
  <2>1. \A x1, x2, x3, x4, x5, x6 : IsSeq(<<x1, x2, x3, x4, x5, x6>>) /\ Len(<<x1, x2, x3, x4, x5, x6>>) = 6
    BY DEF IsSeq
  <2> QED
    BY <2>1
<1> HIDE DEF rest
<1>6. InOrder({"f.chain-data"}, rest)
  <2>1. \A n \in 1 .. 6 : n = 1 \/ n = 2 \/ n = 3 \/ n = 4 \/ n = 5 \/ n = 6
    OBVIOUS
  <2>2. \A n \in 1 .. 6 : rest[n].needs \subseteq {"f.chain-data"} \cup {rest[i].id : i \in 1 .. n - 1}
    BY <1>3, <1>4, <2>1
  <2> QED
    BY <1>5, <2>2 DEF InOrder
<1>7. {"f.transaction", "f.sender", "f.receipt", "f.block", "call"} \subseteq Ids(rest) /\ \A n \in 1 .. 6 : rest[n] \in Items(rest)
  <2>1. \A n \in 1 .. 6 : rest[n] \in Items(rest)
    BY <1>5 DEF Items
  <2> QED
    BY <1>3, <1>4, <2>1 DEF Ids
<1>8. IsSeq(first \o finality) /\ InOrder({"case"}, first \o finality) /\ Items(first \o finality) = Items(first) \cup Items(finality) /\ Ids(first \o finality) = Ids(first) \cup Ids(finality)
  BY <1>1, <1>2, InOrderBehind, ItemsBehind
<1>9. IsSeq(s) /\ InOrder({"case"}, s) /\ Items(s) = Items(first \o finality) \cup Items(rest) /\ Ids(s) = Ids(first \o finality) \cup Ids(rest)
  <2>1. {"f.chain-data"} \subseteq {"case"} \cup Ids(first \o finality)
    BY <1>1, <1>8
  <2> DEFINE both == first \o finality
             theCase == {"case"}
             chainData == {"f.chain-data"}
  <2> HIDE DEF both, theCase, chainData
  <2>2. IsSeq(both) /\ InOrder(theCase, both) /\ InOrder(chainData, rest) /\ chainData \subseteq theCase \cup Ids(both)
    BY <1>6, <1>8, <2>1 DEF both, theCase, chainData
  <2>3. IsSeq(both \o rest) /\ InOrder(theCase, both \o rest)
    BY <1>5, <2>2, InOrderBehind
  <2>4. Items(both \o rest) = Items(both) \cup Items(rest) /\ Ids(both \o rest) = Ids(both) \cup Ids(rest)
    BY <1>5, <2>2, ItemsBehind
  <2> QED
    BY <1>0, <2>3, <2>4 DEF both, theCase
<1>10. ASSUME Clean(s)
       PROVE  /\ Order!ChainVerified(c) /\ c.final
              /\ {"f.chain-data", "f.transaction", "f.sender", "f.receipt", "f.block", "f.block-hash", "call"} \cap c.broken = {}
  <2>1. first[1].status \notin {"FAIL", "NOT VERIFIED OFFLINE"}
    BY <1>1, <1>8, <1>9, <1>10 DEF Clean
  <2>2. Order!ChainVerified(c) /\ "f.chain-data" \notin c.broken
    <3> DEFINE c1 == Order!When("f.chain-data" \in c.broken, "FAIL")
               c2 == Order!When(Order!ChainVerified(c), "PASS")
               c3 == Order!When(c.online /\ c.answers # "unknown", "FAIL")
               c4 == Order!When(~c.files, "FAIL")
    <3>1. Order!ChainData(c) = Decide(<<c1, c2, c3, c4>>, "NOT VERIFIED OFFLINE")
      BY OrderNames DEF Order!ChainData
    <3>2. c1.answer = "FAIL" /\ c2.answer = "PASS" /\ c3.answer = "FAIL" /\ c4.answer = "FAIL"
      BY DEF Order!When
    <3>3. (c1.applies <=> "f.chain-data" \in c.broken) /\ (c2.applies <=> Order!ChainVerified(c))
      BY DEF Order!When
    <3> HIDE DEF c1, c2, c3, c4
    <3>4. Order!ChainData(c) = IF c1.applies THEN c1.answer ELSE IF c2.applies THEN c2.answer ELSE IF c3.applies THEN c3.answer ELSE
                               IF c4.applies THEN c4.answer ELSE "NOT VERIFIED OFFLINE"
      <4>1. \A otherwise : Decide(<<c1, c2, c3, c4>>, otherwise) =
              IF c1.applies THEN c1.answer ELSE IF c2.applies THEN c2.answer ELSE IF c3.applies THEN c3.answer ELSE IF c4.applies THEN c4.answer ELSE otherwise
        BY DecideOf4
      <4> QED
        BY <3>1, <4>1
    <3>5. Order!ChainData(c) \notin {"FAIL", "NOT VERIFIED OFFLINE"}
      BY <1>1, <2>1
    <3> QED
      BY <3>2, <3>3, <3>4, <3>5
  <2>3. \A n \in 1 .. 6 : rest[n].status # "FAIL"
    <3>1. \A n \in 1 .. 6 : rest[n] \in Items(rest)
      BY <1>7
    <3>2. \A x \in Items(rest) : x.status # "FAIL"
      BY <1>9, <1>10 DEF Clean
    <3> QED
      BY <3>1, <3>2
  <2>4. {"f.transaction", "f.sender", "f.receipt", "f.block", "f.block-hash", "call"} \cap c.broken = {}
    <3>1. \A id : Order!Fact(c, id) # "FAIL" => Order!Sound(c, id) # "FAIL"
      BY DEF Order!Fact
    <3>2. \A id : Order!Sound(c, id) # "FAIL" => id \notin c.broken
      BY DEF Order!Sound
    <3>3. \A n \in 1 .. 6 : rest[n].status # "FAIL"
      BY <2>3
    <3>4. rest[1].status # "FAIL" /\ rest[2].status # "FAIL" /\ rest[3].status # "FAIL" /\ rest[4].status # "FAIL" /\ rest[5].status # "FAIL" /\ rest[6].status # "FAIL"
      BY <3>3
    <3> QED
      BY <1>3, <1>4, <3>1, <3>2, <3>4
  <2>5. c.final
    <3>1. finality[1] \in Items(s)
      BY <1>2, <1>8, <1>9, <2>2
    <3> QED
      BY <1>2, <1>10, <2>2, <3>1 DEF Clean
  <2> QED
    BY <2>2, <2>4, <2>5
<1>11. {"f.transaction", "f.sender", "f.receipt", "f.block", "call"} \subseteq Ids(s)
  BY <1>7, <1>9
<1> QED
  BY <1>9, <1>10, <1>11 DEF s

\* What a call authorizes.
LEMMA AuthorizationInOrder ==
  ASSUME NEW c, Order!Ordering(c)
  PROVE  IsSeq(Order!Authorization(c)) /\ InOrder({"f.transaction", "f.block", "a.profile", "f.receipt"}, Order!Authorization(c))
<1> DEFINE known == {"f.transaction", "f.block", "a.profile", "f.receipt"}
           s == Order!Authorization(c)
<1>1. CASE "call" \notin c.broken /\ c.call \in {"receive", "contract-signature"}
  <2> DEFINE x == Order!Check("g.authorization", {}, "NOT SUPPORTED")
  <2>1. s = <<x>>
    BY <1>1 DEF Order!Authorization, Order!Eip3009
  <2>2. x.needs = {}
    BY DEF Order!Check
  <2> HIDE DEF s, x, known
  <2>3. IsSeq(s) /\ InOrder(known, s)
    BY <2>1, <2>2, OneCheck
  <2> QED
    BY <2>3 DEF s, known
<1>2. CASE "call" \notin c.broken /\ c.call = "not-canonical"
  <2> DEFINE x == Order!Check("g.authorization", {}, "FAIL")
  <2>1. s = <<x>>
    BY <1>2 DEF Order!Authorization, Order!Eip3009
  <2>2. x.needs = {}
    BY DEF Order!Check
  <2> HIDE DEF s, x, known
  <2>3. IsSeq(s) /\ InOrder(known, s)
    BY <2>1, <2>2, OneCheck
  <2> QED
    BY <2>3 DEF s, known
<1>3. CASE "call" \notin c.broken /\ Order!Eip3009(c)
  <2> DEFINE x == Order!Check("g.token-domain", {"f.transaction", "f.block"} \cup (IF Order!Ordering(c) THEN {"a.profile"} ELSE {}),
                              Order!Sound(c, "g.token-domain"))
             y == Order!Check("g.authorization", {"g.token-domain"}, Order!Sound(c, "g.authorization"))
             z == Order!Check("g.token-logs", {"g.authorization", "f.receipt"}, Order!Fact(c, "g.token-logs"))
             w == Order!Check("g.validity-window", {"g.authorization", "f.block"}, Order!Fact(c, "g.validity-window"))
             xy == <<x, y>>
             zs == <<z>>
             ws == <<w>>
             forLogs == {"g.authorization", "f.receipt"}
             forWindow == {"g.authorization", "f.block"}
  <2>1. s = (xy \o zs) \o ws
    BY <1>3 DEF Order!Authorization, Order!Eip3009
  <2>2. x.id = "g.token-domain" /\ x.needs = {"f.transaction", "f.block", "a.profile"} /\ y.id = "g.authorization" /\ y.needs = {"g.token-domain"}
    BY DEF Order!Check
  <2>3. z.needs = forLogs /\ w.needs = forWindow
    BY DEF Order!Check
  <2> HIDE DEF s, x, y, z, w
  <2>4. IsSeq(xy) /\ InOrder(known, xy) /\ Ids(xy) = {"g.token-domain", "g.authorization"}
    BY <2>2, TwoChecks
  <2>5. IsSeq(zs) /\ InOrder(forLogs, zs) /\ IsSeq(ws) /\ InOrder(forWindow, ws)
    <3> HIDE DEF forLogs, forWindow
    <3> QED
      BY <2>3, OneCheck
  <2>6. forLogs \subseteq known \cup Ids(xy) /\ forWindow \subseteq known \cup Ids(xy)
    BY <2>4
  <2> HIDE DEF xy, zs, ws, known, forLogs, forWindow
  <2>7. IsSeq(xy \o zs) /\ InOrder(known, xy \o zs)
    BY <2>4, <2>5, <2>6, InOrderBehind
  <2>8. Ids(xy) \subseteq Ids(xy \o zs)
    BY <2>4, <2>5, ItemsBehind
  <2> DEFINE before == xy \o zs
  <2>9. IsSeq(before) /\ InOrder(known, before) /\ forWindow \subseteq known \cup Ids(before)
    BY <2>6, <2>7, <2>8
  <2> HIDE DEF before
  <2>10. IsSeq(before \o ws) /\ InOrder(known, before \o ws)
    BY <2>5, <2>9, InOrderBehind
  <2> QED
    BY <2>1, <2>10 DEF before, s, known
<1>4. CASE "call" \in c.broken \/ (c.call \notin {"receive", "contract-signature", "not-canonical"} /\ ~Order!Eip3009(c))
  <2>1. s = <<>>
    <3>1. CASE "call" \in c.broken
      BY <3>1 DEF Order!Authorization
    <3>2. CASE "call" \notin c.broken
      <4>1. c.call # "receive" /\ c.call # "contract-signature" /\ c.call # "not-canonical" /\ ~Order!Eip3009(c)
        BY <1>4, <3>2
      <4> QED
        BY <3>2, <4>1 DEF Order!Authorization
    <3> QED
      BY <3>1, <3>2
  <2>2. IsSeq(<<>>) /\ InOrder(known, <<>>)
    BY DEF IsSeq, InOrder
  <2> HIDE DEF s, known
  <2>3. IsSeq(s) /\ InOrder(known, s)
    BY <2>1, <2>2
  <2> QED
    BY <2>3 DEF s, known
<1> QED
  BY <1>1, <1>2, <1>3, <1>4

\* The binding passes without a flag only when the entry's hash is in bytes the
\* stated authorizer signed.
LEMMA BindingStates ==
  ASSUME NEW c, NEW passed, Order!BindingStatus(c, passed) \notin {"FAIL", "FLAG"}
  PROVE  c.at # "none" /\ c.stated # "none" /\ c.stated = Order!Signer(c)
<1> DEFINE c1 == Order!When(c.call = "userop" \/ Order!Unread(c), "FAIL")
           c2 == Order!When(c.at = "none", "FAIL")
           c3 == Order!When(Order!Eip3009(c) /\ ~({"g.authorization", "g.token-logs", "g.validity-window"} \subseteq passed), "FAIL")
           c4 == Order!When(Order!Eip3009(c) /\ c.at = "authorization-word", "FAIL")
           c5 == Order!When(Order!Eip3009(c) /\ c.at = "calldata" /\ c.sender # c.payer, "FAIL")
           c6 == Order!When(c.stated # "none" /\ Order!Signer(c) # c.stated, "FAIL")
           c7 == Order!When(c.claimed # (IF Order!Eip3009(c) /\ c.at = "nonce" THEN "eip3009-nonce" ELSE "calldata"), "FAIL")
           c8 == Order!When(c.stated = "none", "FLAG")
<1>1. Order!BindingStatus(c, passed) = Decide(<<c1, c2, c3, c4, c5, c6, c7, c8>>, "PASS")
  BY OrderNames DEF Order!BindingStatus
<1>2. c1.answer = "FAIL" /\ c2.answer = "FAIL" /\ c3.answer = "FAIL" /\ c4.answer = "FAIL" /\ c5.answer = "FAIL" /\ c6.answer = "FAIL"
  BY DEF Order!When
<1>3. c7.answer = "FAIL" /\ c8.answer = "FLAG"
  BY DEF Order!When
<1>4. (c2.applies <=> c.at = "none") /\ (c6.applies <=> c.stated # "none" /\ Order!Signer(c) # c.stated) /\ (c8.applies <=> c.stated = "none")
  BY DEF Order!When
<1> HIDE DEF c1, c2, c3, c4, c5, c6, c7, c8
<1>5. Order!BindingStatus(c, passed) =
        IF c1.applies THEN c1.answer ELSE IF c2.applies THEN c2.answer ELSE IF c3.applies THEN c3.answer ELSE
        IF c4.applies THEN c4.answer ELSE IF c5.applies THEN c5.answer ELSE IF c6.applies THEN c6.answer ELSE
        IF c7.applies THEN c7.answer ELSE IF c8.applies THEN c8.answer ELSE "PASS"
  BY <1>1, DecideOf8
<1> QED
  BY <1>2, <1>3, <1>4, <1>5

\* The part of the checks made only of an ordering case, up to the chain.
LEMMA OrderingPart ==
  ASSUME NEW c
  PROVE  LET s == <<Order!Check("a.profile", {"pins"}, Order!Sound(c, "a.profile")), Order!Check("a.chain-id", {"a.profile", "case"}, Order!Sound(c, "a.chain-id"))>>
                  \o Order!ReceiptChecks(c, "source") \o Order!ReceiptChecks(c, "destination") \o Order!KeyDocument(c)
                  \o Order!LogChecks(c) \o Order!WitnessChecks(c)
         IN  /\ IsSeq(s) /\ InOrder({"pins", "case"}, s)
             /\ {"a.profile", "c.receipt-uids", "b.source.envelope"} \subseteq Ids(s)
             /\ Clean(s) => /\ c.source < c.destination /\ c.count = c.entries /\ c.count > c.destination
                            /\ c.online => Order!ListAgrees(c) /\ "e.online-witness" \notin c.broken
                            /\ {"a.profile", "a.chain-id",
                                "b.source.envelope", "b.source.uid", "b.source.signature", "b.source.signer-key",
                                "b.destination.envelope", "b.destination.uid", "b.destination.signature", "b.destination.signer-key",
                                "c.log-key", "c.entries", "c.chain", "c.receipt-uids",
                                "d.checkpoint-shape", "d.checkpoint-key", "d.checkpoint-signature", "d.checkpoint-session", "d.checkpoint-covers",
                                "e.witness-receipt", "e.witness-covers-checkpoint"} \cap c.broken = {}
<1> DEFINE k == {"pins", "case"}
           p == <<Order!Check("a.profile", {"pins"}, Order!Sound(c, "a.profile")), Order!Check("a.chain-id", {"a.profile", "case"}, Order!Sound(c, "a.chain-id"))>>
           r1 == Order!ReceiptChecks(c, "source")
           r2 == Order!ReceiptChecks(c, "destination")
           kd == Order!KeyDocument(c)
           l == Order!LogChecks(c)
           w == Order!WitnessChecks(c)
           profile == {"a.profile"}
           envelopes == {"b.source.envelope", "b.destination.envelope"}
           witnessed == {"pins", "d.checkpoint-shape", "c.chain", "c.log-key"}
           s1 == p \o r1
           s2 == s1 \o r2
           s3 == s2 \o kd
           s4 == s3 \o l
           s5 == s4 \o w
<1>1. /\ IsSeq(p) /\ InOrder(k, p) /\ profile \subseteq Ids(p)
      /\ Clean(p) => {"a.profile", "a.chain-id"} \cap c.broken = {}
  BY ProfileInOrder
<1>2. /\ IsSeq(r1) /\ InOrder(profile, r1) /\ "b.source.envelope" \in Ids(r1)
      /\ Clean(r1) => {"b.source.envelope", "b.source.uid", "b.source.signature", "b.source.signer-key"} \cap c.broken = {}
  <2>1. /\ Order!ReceiptIds["source"].envelope = "b.source.envelope" /\ Order!ReceiptIds["source"].uid = "b.source.uid"
        /\ Order!ReceiptIds["source"].signature = "b.source.signature" /\ Order!ReceiptIds["source"].signerKey = "b.source.signer-key"
    BY DEF Order!ReceiptIds
  <2> QED
    BY <2>1, ReceiptInOrder
<1>3. /\ IsSeq(r2) /\ InOrder(profile, r2) /\ "b.destination.envelope" \in Ids(r2)
      /\ Clean(r2) => {"b.destination.envelope", "b.destination.uid", "b.destination.signature", "b.destination.signer-key"} \cap c.broken = {}
  <2>1. /\ Order!ReceiptIds["destination"].envelope = "b.destination.envelope" /\ Order!ReceiptIds["destination"].uid = "b.destination.uid"
        /\ Order!ReceiptIds["destination"].signature = "b.destination.signature" /\ Order!ReceiptIds["destination"].signerKey = "b.destination.signer-key"
    BY DEF Order!ReceiptIds
  <2> QED
    BY <2>1, ReceiptInOrder
<1>4. IsSeq(kd) /\ InOrder(profile, kd)
  BY KeysInOrder
<1>5. /\ IsSeq(l) /\ InOrder(envelopes, l)
      /\ {"c.log-key", "c.chain", "c.receipt-uids", "d.checkpoint-shape"} \subseteq Ids(l)
      /\ Clean(l) => /\ c.source < c.destination /\ c.count = c.entries /\ c.count > c.destination
                     /\ {"c.log-key", "c.entries", "c.chain", "c.receipt-uids", "d.checkpoint-shape", "d.checkpoint-key", "d.checkpoint-signature",
                         "d.checkpoint-session", "d.checkpoint-covers"} \cap c.broken = {}
  BY LogInOrder
<1>6. /\ IsSeq(w) /\ InOrder(witnessed, w)
      /\ Clean(w) => /\ {"e.witness-receipt", "e.witness-covers-checkpoint"} \cap c.broken = {}
                     /\ c.online => Order!ListAgrees(c) /\ "e.online-witness" \notin c.broken
  BY WitnessInOrder
<1>7. \A ids : profile \subseteq ids => profile \subseteq k \cup ids
  OBVIOUS
<1>8. \A ids : envelopes \subseteq ids => envelopes \subseteq k \cup ids
  OBVIOUS
<1>9. \A ids : {"c.log-key", "c.chain", "c.receipt-uids", "d.checkpoint-shape"} \subseteq ids => witnessed \subseteq k \cup ids
  OBVIOUS
<1> HIDE DEF k, p, r1, r2, kd, l, w, profile, envelopes, witnessed
<1>11. IsSeq(s1) /\ InOrder(k, s1)
  BY <1>1, <1>2, <1>7, InOrderBehind
<1>12. Items(s1) = Items(p) \cup Items(r1) /\ Ids(s1) = Ids(p) \cup Ids(r1)
  BY <1>1, <1>2, ItemsBehind
<1>13. profile \subseteq k \cup Ids(s1)
  BY <1>1, <1>7, <1>12
<1> HIDE DEF s1
<1>21. IsSeq(s2) /\ InOrder(k, s2)
  BY <1>3, <1>11, <1>13, InOrderBehind
<1>22. Items(s2) = Items(s1) \cup Items(r2) /\ Ids(s2) = Ids(s1) \cup Ids(r2)
  BY <1>3, <1>11, ItemsBehind
<1>23. profile \subseteq k \cup Ids(s2)
  BY <1>13, <1>22
<1> HIDE DEF s2
<1>31. IsSeq(s3) /\ InOrder(k, s3)
  BY <1>4, <1>21, <1>23, InOrderBehind
<1>32. Items(s3) = Items(s2) \cup Items(kd) /\ Ids(s3) = Ids(s2) \cup Ids(kd)
  BY <1>4, <1>21, ItemsBehind
<1>33. envelopes \subseteq k \cup Ids(s3)
  BY <1>2, <1>3, <1>12, <1>22, <1>32 DEF envelopes
<1> HIDE DEF s3
<1>41. IsSeq(s4) /\ InOrder(k, s4)
  BY <1>5, <1>31, <1>33, InOrderBehind
<1>42. Items(s4) = Items(s3) \cup Items(l) /\ Ids(s4) = Ids(s3) \cup Ids(l)
  BY <1>5, <1>31, ItemsBehind
<1>43. witnessed \subseteq k \cup Ids(s4)
  BY <1>5, <1>9, <1>42
<1> HIDE DEF s4
<1>51. IsSeq(s5) /\ InOrder(k, s5)
  BY <1>6, <1>41, <1>43, InOrderBehind
<1>52. Items(s5) = Items(s4) \cup Items(w) /\ Ids(s5) = Ids(s4) \cup Ids(w)
  BY <1>6, <1>41, ItemsBehind
<1> HIDE DEF s5
<1>61. "a.profile" \in Ids(s5) /\ "c.receipt-uids" \in Ids(s5) /\ "b.source.envelope" \in Ids(s5)
  BY <1>1, <1>2, <1>5, <1>12, <1>22, <1>32, <1>42, <1>52 DEF profile
<1>62. Clean(s5) => Clean(p) /\ Clean(r1) /\ Clean(r2) /\ Clean(l) /\ Clean(w)
  BY <1>12, <1>22, <1>32, <1>42, <1>52 DEF Clean
<1> QED
  BY <1>1, <1>2, <1>3, <1>5, <1>6, <1>51, <1>61, <1>62 DEF s5, s4, s3, s2, s1, p, r1, r2, kd, l, w, k

\* All checks of an ordering case are in order, and when none of their lines
\* keeps the exit code from 0, the ordering is shown.
LEMMA CleanIsShown ==
  ASSUME NEW c, Order!Ordering(c), NEW passed, \A f \in Order!OrderFields : Order!OrderField(f, c[f])
  PROVE  LET s == Order!PartsBeforeBinding(c)
                  \o <<Order!Check("g.binding", {"c.receipt-uids", "f.sender", "f.receipt", "call"}, Order!BindingStatus(c, passed))>>
                  \o Order!Times(c)
         IN  IsSeq(s) /\ InOrder({}, s) /\ (Clean(s) => Order!OrderingShown(c))
<1> DEFINE none == {}
           k == {"pins", "case"}
           ofCase == {"case"}
           forCall == {"f.transaction", "f.block", "a.profile", "f.receipt"}
           forBinding == {"c.receipt-uids", "f.sender", "f.receipt", "call"}
           forTimes == {"f.block", "b.source.envelope"}
           p == <<Order!Check("pins", {}, Order!Sound(c, "pins")), Order!Check("case", {}, Order!Sound(c, "case"))>>
           o == <<Order!Check("a.profile", {"pins"}, Order!Sound(c, "a.profile")), Order!Check("a.chain-id", {"a.profile", "case"}, Order!Sound(c, "a.chain-id"))>>
                \o Order!ReceiptChecks(c, "source") \o Order!ReceiptChecks(c, "destination") \o Order!KeyDocument(c)
                \o Order!LogChecks(c) \o Order!WitnessChecks(c)
           f == Order!ChainChecks(c)
           g == Order!Authorization(c)
           binding == Order!Check("g.binding", {"c.receipt-uids", "f.sender", "f.receipt", "call"}, Order!BindingStatus(c, passed))
           b == <<binding>>
           i == Order!Times(c)
           s1 == p \o o
           s2 == s1 \o f
           s3 == s2 \o g
           s4 == s3 \o b
           s5 == s4 \o i
<1>0. Order!PartsBeforeBinding(c) = s3
  BY DEF Order!PartsBeforeBinding
<1>1. IsSeq(p) /\ InOrder(none, p) /\ k \subseteq Ids(p) /\ (Clean(p) => {"pins", "case"} \cap c.broken = {})
  BY PinsInOrder
<1>2. /\ IsSeq(o) /\ InOrder(k, o) /\ {"a.profile", "c.receipt-uids", "b.source.envelope"} \subseteq Ids(o)
      /\ Clean(o) => /\ c.source < c.destination /\ c.count = c.entries /\ c.count > c.destination
                     /\ c.online => Order!ListAgrees(c) /\ "e.online-witness" \notin c.broken
                     /\ {"a.profile", "a.chain-id",
                         "b.source.envelope", "b.source.uid", "b.source.signature", "b.source.signer-key",
                         "b.destination.envelope", "b.destination.uid", "b.destination.signature", "b.destination.signer-key",
                         "c.log-key", "c.entries", "c.chain", "c.receipt-uids",
                         "d.checkpoint-shape", "d.checkpoint-key", "d.checkpoint-signature", "d.checkpoint-session", "d.checkpoint-covers",
                         "e.witness-receipt", "e.witness-covers-checkpoint"} \cap c.broken = {}
  BY OrderingPart
<1>3. /\ IsSeq(f) /\ InOrder(ofCase, f) /\ {"f.transaction", "f.sender", "f.receipt", "f.block", "call"} \subseteq Ids(f)
      /\ Clean(f) => /\ Order!ChainVerified(c) /\ c.final
                     /\ {"f.chain-data", "f.transaction", "f.sender", "f.receipt", "f.block", "f.block-hash", "call"} \cap c.broken = {}
  <2>1. "case" \notin c.broken
    BY DEF Order!Ordering
  <2> QED
    BY <2>1, ChainInOrder
<1>4. IsSeq(g) /\ InOrder(forCall, g)
  BY AuthorizationInOrder
<1>5. /\ IsSeq(b) /\ InOrder(forBinding, b)
      /\ Clean(b) => c.at # "none" /\ c.stated # "none" /\ c.stated = Order!Signer(c)
  <2>1. binding.needs = forBinding /\ binding.status = Order!BindingStatus(c, passed)
    BY DEF Order!Check
  <2> HIDE DEF binding, forBinding
  <2>2. IsSeq(b) /\ InOrder(forBinding, b) /\ Items(b) = {binding}
    BY <2>1, OneCheck
  <2>3. Clean(b) => Order!BindingStatus(c, passed) \notin {"FAIL", "FLAG"}
    BY <2>1, <2>2 DEF Clean
  <2> HIDE DEF b
  <2> QED
    BY <2>2, <2>3, BindingStates
<1>6. IsSeq(i) /\ InOrder(forTimes, i)
  <2>1. IsSeq(<<>>) /\ \A needed : InOrder(needed, <<>>)
    BY DEF IsSeq, InOrder
  <2> DEFINE x == Order!Check("i.valid-until", {"f.block", "b.source.envelope"}, "FLAG")
  <2>2. x.needs = forTimes
    BY DEF Order!Check
  <2>3. i = <<x>> \/ i = <<>>
    BY DEF Order!Times
  <2> HIDE DEF x, i, forTimes
  <2>4. IsSeq(<<x>>) /\ InOrder(forTimes, <<x>>)
    BY <2>2, OneCheck
  <2> QED
    BY <2>1, <2>3, <2>4
<1>7. k \subseteq none \cup Ids(p)
  BY <1>1
<1>8. \A ids : k \subseteq ids => ofCase \subseteq none \cup ids
  OBVIOUS
<1>9. /\ \A ids : {"a.profile", "c.receipt-uids", "b.source.envelope", "f.transaction", "f.sender", "f.receipt", "f.block", "call"} \subseteq ids =>
           forCall \subseteq none \cup ids /\ forBinding \subseteq none \cup ids /\ forTimes \subseteq none \cup ids
  OBVIOUS
<1> HIDE DEF none, k, ofCase, forCall, forBinding, forTimes, p, o, f, g, b, i
<1>11. IsSeq(s1) /\ InOrder(none, s1)
  BY <1>1, <1>2, <1>7, InOrderBehind
<1>12. Items(s1) = Items(p) \cup Items(o) /\ Ids(s1) = Ids(p) \cup Ids(o)
  BY <1>1, <1>2, ItemsBehind
<1>13. ofCase \subseteq none \cup Ids(s1)
  BY <1>1, <1>8, <1>12
<1> HIDE DEF s1
<1>21. IsSeq(s2) /\ InOrder(none, s2)
  BY <1>3, <1>11, <1>13, InOrderBehind
<1>22. Items(s2) = Items(s1) \cup Items(f) /\ Ids(s2) = Ids(s1) \cup Ids(f)
  BY <1>3, <1>11, ItemsBehind
<1>23. {"a.profile", "c.receipt-uids", "b.source.envelope", "f.transaction", "f.sender", "f.receipt", "f.block", "call"} \subseteq Ids(s2)
  BY <1>2, <1>3, <1>12, <1>22
<1>24. forCall \subseteq none \cup Ids(s2)
  BY <1>9, <1>23
<1> HIDE DEF s2
<1>31. IsSeq(s3) /\ InOrder(none, s3)
  BY <1>4, <1>21, <1>24, InOrderBehind
<1>32. Items(s3) = Items(s2) \cup Items(g) /\ Ids(s3) = Ids(s2) \cup Ids(g)
  BY <1>4, <1>21, ItemsBehind
<1>33. forBinding \subseteq none \cup Ids(s3)
  BY <1>9, <1>23, <1>32
<1> HIDE DEF s3
<1>41. IsSeq(s4) /\ InOrder(none, s4)
  BY <1>5, <1>31, <1>33, InOrderBehind
<1>42. Items(s4) = Items(s3) \cup Items(b) /\ Ids(s4) = Ids(s3) \cup Ids(b)
  BY <1>5, <1>31, ItemsBehind
<1>43. forTimes \subseteq none \cup Ids(s4)
  BY <1>9, <1>23, <1>32, <1>42
<1> HIDE DEF s4
<1>51. IsSeq(s5) /\ InOrder(none, s5)
  BY <1>6, <1>41, <1>43, InOrderBehind
<1>52. Items(s5) = Items(s4) \cup Items(i)
  BY <1>6, <1>41, ItemsBehind
<1> HIDE DEF s5
<1>61. ASSUME Clean(s5)
       PROVE  Order!OrderingShown(c)
  <2>1. Clean(p) /\ Clean(o) /\ Clean(f) /\ Clean(b)
    BY <1>12, <1>22, <1>32, <1>42, <1>52, <1>61 DEF Clean
  <2>2. Order!ChainVerified(c) /\ c.final /\ c.online /\ c.answers = "equal"
    BY <1>3, <2>1 DEF Order!ChainVerified
  <2>3. c.source < c.destination /\ c.count = c.entries /\ c.destination < c.count
    <3>1. c.count \in Nat /\ c.destination \in Nat
      BY DEF Order!OrderFields, Order!OrderField
    <3> QED
      BY <1>2, <2>1, <3>1
  <2>4. c.at # "none" /\ c.stated # "none" /\ c.stated = Order!Signer(c)
    BY <1>5, <2>1
  <2>5. c.listed.supplied /\ \A x \in c.listed.receipts : x.count <= c.entries => x.head = "log"
    BY <1>2, <2>1, <2>2 DEF Order!ListAgrees
  <2>6. c.broken \subseteq Order!Checked
    BY DEF Order!OrderFields, Order!OrderField
  <2>7. c.broken \subseteq {"a.online-keys", "b.source.request-hash", "b.destination.request-hash", "c.entry-signatures",
                            "g.token-domain", "g.authorization", "g.token-logs", "g.validity-window"}
    <3>1. {"pins", "case"} \cap c.broken = {}
      BY <1>1, <2>1
    <3>2. {"a.profile", "a.chain-id",
           "b.source.envelope", "b.source.uid", "b.source.signature", "b.source.signer-key",
           "b.destination.envelope", "b.destination.uid", "b.destination.signature", "b.destination.signer-key",
           "c.log-key", "c.entries", "c.chain", "c.receipt-uids",
           "d.checkpoint-shape", "d.checkpoint-key", "d.checkpoint-signature", "d.checkpoint-session", "d.checkpoint-covers",
           "e.witness-receipt", "e.witness-covers-checkpoint"} \cap c.broken = {}
      BY <1>2, <2>1
    <3>3. {"f.chain-data", "f.transaction", "f.sender", "f.receipt", "f.block", "f.block-hash", "call"} \cap c.broken = {}
      BY <1>3, <2>1
    <3>4. "e.online-witness" \notin c.broken
      BY <1>2, <2>1, <2>2
    <3> QED
      BY <2>6, <3>1, <3>2, <3>3, <3>4 DEF Order!Checked
  <2> QED
    BY <2>2, <2>3, <2>4, <2>5, <2>7 DEF Order!OrderingShown
<1> QED
  BY <1>0, <1>51, <1>61 DEF s5, s4, b, i, none

\* The exit code 0 is given only when the ordering is shown.
LEMMA CheckExitIsEarned ==
  ASSUME NEW c, \A f \in Order!OrderFields : Order!OrderField(f, c[f]), Order!CheckExit(c.arguments, c) = 0
  PROVE  Order!OrderingShown(c)
<1> DEFINE rows == Order!Rows(c)
           c1 == Order!When(Order!Lines(rows, "FAIL") # {}, 1)
           c2 == Order!When(~Order!Ordering(c), 3)
           c3 == Order!When(Order!Lines(rows, "NOT VERIFIED OFFLINE") # {}, 4)
           c4 == Order!When(Order!Lines(rows, "FLAG") # {}, 5)
<1>1. Decide(<<c1, c2, c3, c4>>, 0) = 0
  <2>1. Order!CheckCase(c) = 0
    BY DEF Order!CheckExit
  <2> QED
    BY <2>1, OrderNames DEF Order!CheckCase
<1>2. c1.answer = 1 /\ c2.answer = 3 /\ c3.answer = 4 /\ c4.answer = 5
  BY DEF Order!When
<1>3. /\ c1.applies <=> Lines(rows, "FAIL") # {}
      /\ c2.applies <=> ~Order!Ordering(c)
      /\ c3.applies <=> Lines(rows, "NOT VERIFIED OFFLINE") # {}
      /\ c4.applies <=> Lines(rows, "FLAG") # {}
  BY OrderNames DEF Order!When
<1>4. Order!Ordering(c) /\ Lines(rows, "FAIL") = {} /\ Lines(rows, "NOT VERIFIED OFFLINE") = {} /\ Lines(rows, "FLAG") = {}
  <2> HIDE DEF c1, c2, c3, c4, rows
  <2>1. 0 = IF c1.applies THEN c1.answer ELSE IF c2.applies THEN c2.answer ELSE IF c3.applies THEN c3.answer ELSE
            IF c4.applies THEN c4.answer ELSE 0
    BY <1>1, DecideOf4
  <2>2. ~c1.applies /\ ~c2.applies /\ ~c3.applies /\ ~c4.applies
    <3> USE <1>2, <2>1
    <3>1. ~c1.applies
      OBVIOUS
    <3>2. ~c2.applies
      BY <3>1
    <3>3. ~c3.applies
      BY <3>1, <3>2
    <3> QED
      BY <3>1, <3>2, <3>3
  <2> QED
    BY <1>3, <2>2
<1> DEFINE before == Report(Order!PartsBeforeBinding(c))
           passed == {before[n].id : n \in {j \in DOMAIN before : before[j].ok}}
           s == Order!PartsBeforeBinding(c)
                \o <<Order!Check("g.binding", {"c.receipt-uids", "f.sender", "f.receipt", "call"}, Order!BindingStatus(c, passed))>>
                \o Order!Times(c)
<1>5. rows = Report(s)
  BY <1>4, OrderNames DEF Order!Rows
<1> HIDE DEF before, passed
<1>6. IsSeq(s) /\ InOrder({}, s) /\ (Clean(s) => Order!OrderingShown(c))
  BY <1>4, CleanIsShown
<1> HIDE DEF s, rows
<1>7. \A x \in Items(s) : x.status # "FAIL" /\ x.id \in Lines(rows, x.status)
  BY <1>4, <1>5, <1>6, CleanReport
<1>8. Clean(s)
  BY <1>4, <1>7 DEF Clean
<1> QED
  BY <1>6, <1>8

----------------------------------------------------------------------------
\* Payment attestations

\* When the nodes establish anything, each of them shows it.
LEMMA AgreementIsOfEach ==
  ASSUME NEW a, IsSeq(a.nodes), Agreement(a).outcome # "unknown", NEW k \in DOMAIN a.nodes
  PROVE  Agreement(a) = Observe(a, a.nodes[k])
<1> DEFINE seen == {Observe(a, a.nodes[i]) : i \in DOMAIN a.nodes}
           n == Len(a.nodes)
<1>1. n \in Nat /\ DOMAIN a.nodes = 1 .. n
  BY DEF IsSeq
<1>2. IsFiniteSet(seen)
  <2> DEFINE f == [i \in 1 .. n |-> Observe(a, a.nodes[i])]
  <2>1. f \in Surjection(1 .. n, seen)
    BY <1>1 DEF Surjection
  <2>2. IsFiniteSet(1 .. n)
    BY <1>1, FS_Interval
  <2> QED
    BY <2>1, <2>2, FS_Surjection DEF ExistsSurjection
<1>3. Cardinality(seen) = 1 /\ Agreement(a) = Observe(a, a.nodes[1])
  BY DEF Agreement, Observation
<1>4. PICK o : seen = {o}
  BY <1>2, <1>3, FS_Singleton
<1>5. 1 \in DOMAIN a.nodes
  BY <1>1
<1>6. Observe(a, a.nodes[1]) \in seen /\ Observe(a, a.nodes[k]) \in seen
  BY <1>5
<1> QED
  BY <1>3, <1>4, <1>6

\* What an honest node shows is what the statement is worth.
LEMMA HonestObserves ==
  ASSUME NEW a, NEW node, node.url, node.answer = "answers", node.chain = "base"
  PROVE  /\ Observe(a, node).outcome \in {"pass", "fail"}
         /\ Observe(a, node).outcome = "pass" <=> (a.settlement = "failed" <=> ~Pays(a, node.shows))
<1> DEFINE tx == node.shows
           failed == a.settlement = "failed"
           c1 == When(~node.url \/ node.answer # "answers" \/ node.chain # "base", Observation("unknown", "nothing"))
           c2 == When(tx = None, Observation(IF failed THEN "pass" ELSE "fail", None))
           c3 == When(failed, Observation(IF Pays(a, tx) THEN "fail" ELSE "pass", tx))
           otherwise == Observation(IF Pays(a, tx) THEN "pass" ELSE "fail", tx)
<1>1. Observe(a, node) = Decide(<<c1, c2, c3>>, otherwise)
  BY DEF Observe
<1>2. ~c1.applies /\ (c2.applies <=> tx = None) /\ (c3.applies <=> failed)
  BY DEF When
<1>3. /\ c2.answer.outcome = IF failed THEN "pass" ELSE "fail"
      /\ c3.answer.outcome = IF Pays(a, tx) THEN "fail" ELSE "pass"
      /\ otherwise.outcome = IF Pays(a, tx) THEN "pass" ELSE "fail"
  BY DEF When, Observation
<1>4. tx = None => ~Pays(a, tx)
  BY DEF Pays
<1> HIDE DEF c1, c2, c3, otherwise
<1>5. Observe(a, node) = IF c2.applies THEN c2.answer ELSE IF c3.applies THEN c3.answer ELSE otherwise
  BY <1>1, <1>2, DecideOf3
<1> QED
  BY <1>2, <1>3, <1>4, <1>5

\* A statement that is judged on chain at all is judged by what the nodes agree on.
LEMMA PaymentDecides ==
  ASSUME NEW a
  PROVE  /\ VerifyPayment(a) = "VERIFIED" /\ a.transaction = "hash" =>
              a.settlement \in {"settled", "failed"} /\ Agreement(a).outcome \notin {"unknown", "fail"}
         /\ VerifyPayment(a) = "CONTRADICTED" /\ a.type /\ a.signed /\ a.receipt # "other" =>
              a.settlement \in {"settled", "failed"} /\ Agreement(a).outcome = "fail"
<1> DEFINE c1 == When(a.input # "sound", "UNESTABLISHED")
           c2 == When(~a.type, "CONTRADICTED")
           c3 == When(KeyProblem(a), "UNESTABLISHED")
           c4 == When(~a.signed, "CONTRADICTED")
           c5 == When(a.receipt = "unreadable", "UNESTABLISHED")
           c6 == When(a.receipt = "other", "CONTRADICTED")
           c7 == When(~a.base \/ a.settlement \notin {"settled", "failed"}, "UNESTABLISHED")
           c8 == When(a.settlement = "failed" /\ a.transaction = "empty", "VERIFIED")
           c9 == When(a.transaction # "hash" \/ a.nodes = <<>>, "UNESTABLISHED")
           c10 == When(a.nodes # <<>> /\ Agreement(a).outcome = "unknown", "UNESTABLISHED")
           c11 == When(a.nodes # <<>> /\ Agreement(a).outcome = "fail", "CONTRADICTED")
<1>1. VerifyPayment(a) = Decide(<<c1, c2, c3, c4, c5, c6, c7, c8, c9, c10, c11>>, "VERIFIED")
  BY DEF VerifyPayment
<1>2. /\ c1.answer = "UNESTABLISHED" /\ c2.answer = "CONTRADICTED" /\ c3.answer = "UNESTABLISHED" /\ c4.answer = "CONTRADICTED"
      /\ c5.answer = "UNESTABLISHED" /\ c6.answer = "CONTRADICTED" /\ c7.answer = "UNESTABLISHED" /\ c8.answer = "VERIFIED"
      /\ c9.answer = "UNESTABLISHED" /\ c10.answer = "UNESTABLISHED" /\ c11.answer = "CONTRADICTED"
  BY DEF When
<1>3. /\ c2.applies <=> ~a.type
      /\ c4.applies <=> ~a.signed
      /\ c6.applies <=> a.receipt = "other"
      /\ c7.applies <=> ~a.base \/ a.settlement \notin {"settled", "failed"}
  BY DEF When
<1>4. /\ c8.applies <=> a.settlement = "failed" /\ a.transaction = "empty"
      /\ c9.applies <=> a.transaction # "hash" \/ a.nodes = <<>>
      /\ c10.applies <=> a.nodes # <<>> /\ Agreement(a).outcome = "unknown"
      /\ c11.applies <=> a.nodes # <<>> /\ Agreement(a).outcome = "fail"
  BY DEF When
<1> HIDE DEF c1, c2, c3, c4, c5, c6, c7, c8, c9, c10, c11
<1> QED
  BY <1>1, <1>2, <1>3, <1>4, DecideOf11

\* What is verified or contradicted is so on the chain, if one node is honest.
LEMMA VerifiedPaymentIsTrue ==
  ASSUME NEW a, IsSeq(a.nodes)
  PROVE  VerifiedIsTrue(a)
<1> SUFFICES ASSUME Honest(a)
             PROVE  /\ VerifyPayment(a) = "VERIFIED" /\ a.transaction = "hash" => (a.settlement = "settled" <=> Pays(a, a.truth))
                    /\ VerifyPayment(a) = "CONTRADICTED" /\ a.type /\ a.signed /\ a.receipt # "other" => (a.settlement = "settled" <=> ~Pays(a, a.truth))
  BY DEF VerifiedIsTrue
<1>1. PICK k \in DOMAIN a.nodes : LET n == a.nodes[k] IN n.url /\ n.answer = "answers" /\ n.chain = "base" /\ n.shows = a.truth
  BY DEF Honest
<1>2. /\ Observe(a, a.nodes[k]).outcome \in {"pass", "fail"}
      /\ Observe(a, a.nodes[k]).outcome = "pass" <=> (a.settlement = "failed" <=> ~Pays(a, a.truth))
  <2> DEFINE node == a.nodes[k]
  <2>1. node.url /\ node.answer = "answers" /\ node.chain = "base" /\ node.shows = a.truth
    BY <1>1
  <2> HIDE DEF node
  <2>2. /\ Observe(a, node).outcome \in {"pass", "fail"}
        /\ Observe(a, node).outcome = "pass" <=> (a.settlement = "failed" <=> ~Pays(a, node.shows))
    BY <2>1, HonestObserves
  <2> QED
    BY <2>1, <2>2 DEF node
<1>3. Agreement(a).outcome # "unknown" => Agreement(a).outcome = Observe(a, a.nodes[k]).outcome
  BY AgreementIsOfEach
<1>4. CASE VerifyPayment(a) = "VERIFIED" /\ a.transaction = "hash"
  <2>1. a.settlement \in {"settled", "failed"} /\ Agreement(a).outcome \notin {"unknown", "fail"}
    BY <1>4, PaymentDecides
  <2> QED
    BY <1>2, <1>3, <1>4, <2>1
<1>5. CASE VerifyPayment(a) = "CONTRADICTED" /\ a.type /\ a.signed /\ a.receipt # "other"
  <2>1. a.settlement \in {"settled", "failed"} /\ Agreement(a).outcome = "fail"
    BY <1>5, PaymentDecides
  <2> QED
    BY <1>2, <1>3, <1>5, <2>1
<1> QED
  BY <1>4, <1>5

----------------------------------------------------------------------------
\* Logs

\* M2 of a log that passes: every rule holds of every record, under the key of
\* the first, which the operator's keys hold.
LEMMA LogPasses ==
  ASSUME NEW l, Parses(l.lines), Records(l.lines) # <<>>
  PROVE  M2ChirindoLog(l) = "PASS" <=>
           LET records == Records(l.lines)
               kid == records[1].kid
           IN  /\ \A i \in DOMAIN records : RecordHolds(l, records, i)
               /\ kid \notin l.legacy /\ kid \in OperatorKeys(l) /\ Sound(records, kid)
BY DEF M2ChirindoLog

\* The two verifiers of a log agree wherever their rules overlap.
LEMMA VerifiersAlwaysAgree ==
  ASSUME NEW l, IsSeq(l.lines), \A i \in DOMAIN l.lines : l.lines[i].kind \in {"record", "checkpoint", "garbage"}
  PROVE  VerifiersAgree(l)
<1> DEFINE records == Records(l.lines)
           kid == records[1].kid
           gate == VerifyChain(l.lines, kid, {}).kind
           cp == Last(l.lines)
           whole == HasCheckpoint(l.lines) => M3Holds(l) /\ cp.kid = kid /\ cp.count = Len(records)
           uniform == \A i \in DOMAIN records : records[i].v = records[1].v /\ records[i].uri = records[1].uri /\ records[i].ts # Unreadable
<1> SUFFICES ASSUME Parses(l.lines), records # <<>>
             PROVE  /\ M2ChirindoLog(l) = "PASS" /\ whole /\ (\A i \in DOMAIN records : records[i].uri # "insecure") => gate = "valid"
                    /\ gate = "valid" /\ uniform /\ l.odd = {} /\ kid \notin l.legacy /\ kid \in OperatorKeys(l) => M2ChirindoLog(l) = "PASS" /\ whole
                    /\ M2ChirindoLog(l) = "PASS" /\ ~HasCheckpoint(l.lines) => M2AnnexBLog(l) = "PASS"
  BY DEF VerifiersAgree
<1>1. DOMAIN records = 1 .. Len(records) /\ Len(records) \in Nat
  <2>1. IsSeq(records)
    BY ReadOf
  <2> HIDE DEF records
  <2> QED
    BY <2>1, OverItsLines DEF IsSeq
<1>2. gate = "valid" <=> /\ \A i \in DOMAIN records : EntryFailure(records, i, kid) = NoFailure
                         /\ HasCheckpoint(l.lines) => CheckpointFailure(cp, records, kid) = NoFailure
  BY ValidMeans
<1>3. M2ChirindoLog(l) = "PASS" <=>
        /\ \A i \in DOMAIN records : RecordHolds(l, records, i)
        /\ kid \notin l.legacy /\ kid \in OperatorKeys(l) /\ Sound(records, kid)
  BY LogPasses
<1>4. CheckpointFailure(cp, records, kid) = NoFailure <=>
           /\ cp.kid = kid /\ cp.count = Len(records) /\ cp.last = EntryHash(records[Len(records)])
           /\ cp.sig = Signed([count |-> cp.count, last |-> cp.last, kid |-> cp.kid], kid)
  BY CheckpointHolds
<1>5. M3Holds(l) <=>
        /\ cp.kid \in OperatorKeys(l) /\ cp.sig = Signed([count |-> cp.count, last |-> cp.last, kid |-> cp.kid], cp.kid)
        /\ cp.count <= Len(records) => cp.last = EntryHash(records[cp.count])
  BY DEF M3Holds
<1>6. ASSUME NEW i \in DOMAIN records
      PROVE  EntryFailure(records, i, kid) = NoFailure <=>
               LET r == records[i] IN
               /\ r.seq = i - 1 /\ r.v \in {"v0", "v1"} /\ r.uri # "insecure" /\ (r.v = "v1" => r.thumb = kid) /\ r.kid = kid
               /\ r.prev = PrevHash(records, i) /\ r.commit = r.event /\ r.sig = Signed(Content(r), kid) /\ TimeRuns(records, i)
  BY EntryHolds
<1>7. M2AnnexBLog(l) = "PASS" <=>
        /\ l.lines # <<>> /\ \A i \in DOMAIN l.lines : l.lines[i].kind = "record" /\ Linked(l, l.lines, i)
        /\ l.lines[1].kid \notin l.legacy /\ l.lines[1].kid \in OperatorKeys(l) /\ Sound(l.lines, l.lines[1].kid)
  BY DEF M2AnnexBLog
<1>8. ~HasCheckpoint(l.lines) => records = l.lines /\ \A i \in DOMAIN l.lines : l.lines[i].kind = "record"
  <2> SUFFICES ASSUME ~HasCheckpoint(l.lines)
               PROVE  records = l.lines /\ \A i \in DOMAIN l.lines : l.lines[i].kind = "record"
    OBVIOUS
  <2>1. records = l.lines
    BY DEF Records
  <2>2. \A i \in DOMAIN records : l.lines[i].kind \notin {"garbage", "checkpoint"}
    BY ReadOf
  <2> QED
    BY <2>1, <2>2
<1> HIDE DEF records, kid, cp, gate
<1>9. M2ChirindoLog(l) = "PASS" /\ whole /\ (\A i \in DOMAIN records : records[i].uri # "insecure") => gate = "valid"
  <2> SUFFICES ASSUME M2ChirindoLog(l) = "PASS", whole, \A i \in DOMAIN records : records[i].uri # "insecure"
               PROVE  gate = "valid"
    OBVIOUS
  <2>1. \A i \in DOMAIN records : EntryFailure(records, i, kid) = NoFailure
    BY <1>3, <1>6 DEF RecordHolds, Linked, Sound, kid
  <2>2. HasCheckpoint(l.lines) => CheckpointFailure(cp, records, kid) = NoFailure
    BY <1>1, <1>4, <1>5
  <2> QED
    BY <1>2, <2>1, <2>2
<1>10. gate = "valid" /\ uniform /\ l.odd = {} /\ kid \notin l.legacy /\ kid \in OperatorKeys(l) => M2ChirindoLog(l) = "PASS" /\ whole
  <2> SUFFICES ASSUME gate = "valid", uniform, l.odd = {}, kid \notin l.legacy, kid \in OperatorKeys(l)
               PROVE  M2ChirindoLog(l) = "PASS" /\ whole
    OBVIOUS
  <2>1. \A i \in DOMAIN records : RecordHolds(l, records, i)
    BY <1>2, <1>6 DEF RecordHolds, Linked, Keeps, kid
  <2>2. Sound(records, kid)
    BY <1>2, <1>6 DEF Sound
  <2>3. whole
    BY <1>1, <1>2, <1>4, <1>5
  <2> QED
    BY <1>3, <2>1, <2>2, <2>3
<1>11. M2ChirindoLog(l) = "PASS" /\ ~HasCheckpoint(l.lines) => M2AnnexBLog(l) = "PASS"
  BY <1>3, <1>7, <1>8 DEF RecordHolds, kid
<1> QED
  BY <1>9, <1>10, <1>11

----------------------------------------------------------------------------
\* Payment references

\* A reference that is computed has a row of the table, whole fields and one
\* amount.
LEMMA RefIsClean ==
  ASSUME NEW x, RefError(x) = "none"
  PROVE  /\ FindRow(x.key) # {} /\ \E row \in FindRow(x.key) : row.status = "VERIFIED"
         /\ SubsetError(x) = "none"
         /\ ~AmountDisagrees(x) /\ Settlement(x) # Malformed
<1> DEFINE c1 == When(x.payload = Malformed, "malformed_artifact")
           c2 == When(AmountDisagrees(x), "amount_disagreement")
           c3 == When(x.settle = Malformed, "malformed_artifact")
           c4 == When(Settlement(x) = Malformed, "invalid_field_type")
<1>1. /\ FindRow(x.key) # {} /\ \E row \in FindRow(x.key) : row.status = "VERIFIED"
      /\ SubsetError(x) = "none" /\ Decide(<<c1, c2, c3, c4>>, "none") = "none"
  BY DEF RefError
<1>2. /\ c1.answer = "malformed_artifact" /\ c2.answer = "amount_disagreement" /\ c3.answer = "malformed_artifact"
      /\ c4.answer = "invalid_field_type"
  BY DEF When
<1>3. (c2.applies <=> AmountDisagrees(x)) /\ (c4.applies <=> Settlement(x) = Malformed)
  BY DEF When
<1> HIDE DEF c1, c2, c3, c4
<1> QED
  BY <1>1, <1>2, <1>3, DecideOf4

\* Every field that is read is there and a text, and the offer is the row's.
LEMMA SubsetIsRead ==
  ASSUME NEW x, SubsetError(x) = "none"
  PROVE  /\ \A i \in 1 .. 5 : Required(x)[i] \notin {None, Malformed}
         /\ Offer(x).network = x.key.network
<1> DEFINE refused == {i \in 1 .. 5 : FieldError(Required(x)[i]) # "none"}
<1>1. refused = {}
  <2> SUFFICES ASSUME refused # {}
               PROVE  FALSE
    OBVIOUS
  <2>1. Min(refused) \in refused
    <3>1. refused \in SUBSET Nat
      OBVIOUS
    <3> QED
      BY <3>1, MinIsLeast
  <2>2. SubsetError(x) = FieldError(Required(x)[Min(refused)])
    BY DEF SubsetError
  <2> QED
    BY <2>1, <2>2
<1>2. Offer(x).network = x.key.network
  BY <1>1 DEF SubsetError
<1>3. \A i \in 1 .. 5 : FieldError(Required(x)[i]) = "none"
  BY <1>1
<1> QED
  BY <1>2, <1>3 DEF FieldError

\* A reference that is computed commits to one payment, whatever the input.
LEMMA AlwaysCommitsToOnePayment ==
  ASSUME NEW x
  PROVE  CommitsToOnePayment(x)
<1> SUFFICES ASSUME PaymentRefOf(x) # None
             PROVE  /\ \E row \in Registry : row.status = "VERIFIED" /\ row.network = Offer(x).network /\ row.facilitator = x.key.facilitator
                    /\ \A v \in {PaymentRefOf(x).fields[i] : i \in 1 .. 5} : v \notin {None, Malformed}
                    /\ SignedAmount(x) \in {None, PaymentRefOf(x).fields[4]}
                    /\ PaymentRefOf(x).settlement # Malformed
  BY DEF CommitsToOnePayment
<1>1. RefError(x) = "none" /\ PaymentRefOf(x).fields = Required(x) /\ PaymentRefOf(x).settlement = Settlement(x)
  BY DEF PaymentRefOf
<1>2. /\ \E row \in FindRow(x.key) : row.status = "VERIFIED"
      /\ SubsetError(x) = "none" /\ ~AmountDisagrees(x) /\ Settlement(x) # Malformed
  BY <1>1, RefIsClean
<1>3. \A i \in 1 .. 5 : Required(x)[i] \notin {None, Malformed}
  BY <1>2, SubsetIsRead
<1>4. Offer(x).network = x.key.network
  BY <1>2, SubsetIsRead
<1>5. \E row \in Registry : row.status = "VERIFIED" /\ row.network = Offer(x).network /\ row.facilitator = x.key.facilitator
  BY <1>2, <1>4 DEF FindRow
<1>6. SignedAmount(x) \in {None, Required(x)[4]}
  BY <1>2 DEF AmountDisagrees, Required
<1> QED
  BY <1>1, <1>2, <1>3, <1>5, <1>6

----------------------------------------------------------------------------
\* Keys at a jwks_uri

\* The refusals of a URL.
LEMMA TargetPasses ==
  ASSUME NEW url
  PROVE  TargetError(url) \in {"non_https", "forbidden_port", "ip_literal_host", "none"}
<1> DEFINE c1 == When(~url.https, "non_https")
           c2 == When(url.port # 443, "forbidden_port")
           c3 == When(url.literal, "ip_literal_host")
<1>1. TargetError(url) = Decide(<<c1, c2, c3>>, "none")
  BY DEF TargetError
<1>2. c1.answer = "non_https" /\ c2.answer = "forbidden_port" /\ c3.answer = "ip_literal_host"
  BY DEF When
<1> HIDE DEF c1, c2, c3
<1> QED
  BY <1>1, <1>2, DecideOf3

\* An address lookup that passes found public addresses only.
LEMMA LookupPasses ==
  ASSUME NEW addresses
  PROVE  /\ LookupError(addresses) \in {"private_address", "fetch_failed", "none"}
         /\ LookupError(addresses) = "none" => addresses = {"public"}
<1> DEFINE c1 == When(\E a \in addresses : IsPrivate(a), "private_address")
           c2 == When(addresses = {}, "fetch_failed")
<1>1. LookupError(addresses) = Decide(<<c1, c2>>, "none")
  BY DEF LookupError
<1>2. /\ c1.answer = "private_address" /\ c2.answer = "fetch_failed"
      /\ c1.applies <=> \E a \in addresses : IsPrivate(a)
      /\ c2.applies <=> addresses = {}
  BY DEF When
<1> HIDE DEF c1, c2
<1> QED
  BY <1>1, <1>2, DecideOf2 DEF IsPrivate

\* One hop is followed where it sends to, read, or refused.
LEMMA AnswerIsWorth ==
  ASSUME NEW hop, NEW next, NEW left, hop.answer \in HopAnswers
  PROVE  /\ Answer(hop, next, left) = "document" => hop.answer = "document"
         /\ Answer(hop, next, left) = "follow" =>
              hop.answer = "redirect" /\ left # 0 /\ next.url.origin = hop.url.origin
<1> DEFINE c1 == When(hop.answer = "down" \/ hop.answer = "late", "fetch_failed")
           c2 == When(hop.answer \in Redirects /\ (left = 0 \/ hop.answer = "no-location"), "too_many_redirects")
           c3 == When(hop.answer = "bad-location" \/ (hop.answer = "redirect" /\ (next.url.origin # hop.url.origin \/ next.url.https # hop.url.https)),
                      "cross_origin_redirect")
           c4 == When(hop.answer = "redirect", "follow")
           c5 == When(hop.answer = "not-200", "fetch_failed")
           c6 == When(hop.answer = "not-json-type", "bad_content_type")
           c7 == When(hop.answer = "over-64k", "fetch_failed")
           c8 == When(hop.answer = "malformed", "malformed_jwks")
<1>1. Answer(hop, next, left) = Decide(<<c1, c2, c3, c4, c5, c6, c7, c8>>, "document")
  BY DEF Answer
<1>2. /\ c1.answer = "fetch_failed" /\ c2.answer = "too_many_redirects" /\ c3.answer = "cross_origin_redirect" /\ c4.answer = "follow"
      /\ c5.answer = "fetch_failed" /\ c6.answer = "bad_content_type" /\ c7.answer = "fetch_failed" /\ c8.answer = "malformed_jwks"
  BY DEF When
<1>3. /\ c1.applies <=> hop.answer = "down" \/ hop.answer = "late"
      /\ c2.applies <=> hop.answer \in Redirects /\ (left = 0 \/ hop.answer = "no-location")
      /\ c3.applies <=> hop.answer = "bad-location" \/ (hop.answer = "redirect" /\ (next.url.origin # hop.url.origin \/ next.url.https # hop.url.https))
      /\ c4.applies <=> hop.answer = "redirect"
  BY DEF When
<1>4. /\ c5.applies <=> hop.answer = "not-200"
      /\ c6.applies <=> hop.answer = "not-json-type"
      /\ c7.applies <=> hop.answer = "over-64k"
      /\ c8.applies <=> hop.answer = "malformed"
  BY DEF When
<1> HIDE DEF c1, c2, c3, c4, c5, c6, c7, c8
<1>5. Answer(hop, next, left) = IF c1.applies THEN c1.answer ELSE IF c2.applies THEN c2.answer ELSE IF c3.applies THEN c3.answer ELSE
                                IF c4.applies THEN c4.answer ELSE IF c5.applies THEN c5.answer ELSE IF c6.applies THEN c6.answer ELSE
                                IF c7.applies THEN c7.answer ELSE IF c8.applies THEN c8.answer ELSE "document"
  BY <1>1, DecideOf8
<1> QED
  BY <1>2, <1>3, <1>4, <1>5 DEF HopAnswers, Redirects

\* A document that was read came from public addresses, of the origin asked.
LEMMA FetchReads ==
  ASSUME NEW s, IsVisit(s), Fetch(s.first, s.second) = "document"
  PROVE  /\ s.first.addresses = {"public"} /\ s.first.answer \in {"document", "redirect"}
         /\ s.first.answer = "redirect" =>
              s.second.addresses = {"public"} /\ s.second.answer = "document" /\ s.second.url.origin = s.first.url.origin
<1> DEFINE try(hop, next, left) ==
             Decide(<<When(TargetError(hop.url) # "none", TargetError(hop.url)),
                      When(LookupError(hop.addresses) # "none", LookupError(hop.addresses))>>, Answer(hop, next, left))
<1>1. ASSUME NEW hop, NEW next, NEW left, try(hop, next, left) \in {"document", "follow"}
      PROVE  hop.addresses = {"public"} /\ try(hop, next, left) = Answer(hop, next, left)
  <2> DEFINE c1 == When(TargetError(hop.url) # "none", TargetError(hop.url))
             c2 == When(LookupError(hop.addresses) # "none", LookupError(hop.addresses))
  <2>1. try(hop, next, left) = Decide(<<c1, c2>>, Answer(hop, next, left))
    OBVIOUS
  <2>2. /\ c1.answer = TargetError(hop.url) /\ c2.answer = LookupError(hop.addresses)
        /\ c2.applies <=> LookupError(hop.addresses) # "none"
    BY DEF When
  <2> HIDE DEF c1, c2, try
  <2>3. c1.answer \notin {"document", "follow"} /\ c2.answer \notin {"document", "follow"}
    BY <2>2, TargetPasses, LookupPasses
  <2>4. ~c1.applies /\ ~c2.applies /\ try(hop, next, left) = Answer(hop, next, left)
    BY <1>1, <2>1, <2>3, DecideOf2
  <2> QED
    BY <2>2, <2>4, LookupPasses
<1>2. Fetch(s.first, s.second) = IF try(s.first, s.second, 1) = "follow" THEN try(s.second, s.second, 0) ELSE try(s.first, s.second, 1)
  BY DEF Fetch
<1> HIDE DEF try
<1>3. s.first.answer \in HopAnswers /\ s.second.answer \in HopAnswers
  BY DEF IsVisit
<1>4. CASE try(s.first, s.second, 1) = "follow"
  <2>1. try(s.second, s.second, 0) = "document"
    BY <1>2, <1>4
  <2>2. s.first.addresses = {"public"} /\ Answer(s.first, s.second, 1) = "follow"
    BY <1>1, <1>4
  <2>3. s.second.addresses = {"public"} /\ Answer(s.second, s.second, 0) = "document"
    BY <1>1, <2>1
  <2> QED
    BY <1>3, <2>2, <2>3, AnswerIsWorth
<1>5. CASE try(s.first, s.second, 1) # "follow"
  <2>1. s.first.addresses = {"public"} /\ Answer(s.first, s.second, 1) = "document"
    BY <1>1, <1>2, <1>5
  <2> QED
    BY <1>3, <2>1, AnswerIsWorth
<1> QED
  BY <1>4, <1>5

\* A key that is picked is the only one of its kid.
LEMMA PickedAlone ==
  ASSUME NEW document, IsFiniteSet(document), NEW kid, PickKey(document, kid).ok
  PROVE  Cardinality({x \in document : x.kid = kid}) = 1
<1> DEFINE matches == {k \in document : k.kid = kid}
           c1 == When(Cardinality(matches) > 1, Failed("duplicate_kid"))
           c2 == When(matches = {}, Failed("kid_not_found"))
           c3 == When(\E k \in matches : ~k.shape, Failed("malformed_jwk"))
           otherwise == Key({k.key : k \in matches})
<1>1. PickKey(document, kid) = Decide(<<c1, c2, c3>>, otherwise)
  BY DEF PickKey
<1>2. ~c1.answer.ok /\ ~c2.answer.ok /\ ~c3.answer.ok
  BY DEF When, Failed
<1>3. (c1.applies <=> Cardinality(matches) > 1) /\ (c2.applies <=> matches = {})
  BY DEF When
<1> HIDE DEF c1, c2, c3, otherwise
<1>4. ~c1.applies /\ ~c2.applies
  BY <1>1, <1>2, DecideOf3
<1>5. IsFiniteSet(matches)
  BY FS_Subset
<1>6. Cardinality(matches) \in Nat /\ Cardinality(matches) # 0
  BY <1>3, <1>4, <1>5, FS_CardinalityType, FS_EmptySet
<1> QED
  BY <1>3, <1>4, <1>6

\* The i-th time a key is found it is read from the first document there was.
LEMMA ReadFromTheFirst ==
  ASSUME NEW j, IsSeq(j.served), NEW i \in DOMAIN j.served, ResolveKey(j, i).ok
  PROVE  \E m \in 1 .. i :
           /\ Fetch(j.served[m].first, j.served[m].second) = "document"
           /\ \A k \in 1 .. i : Fetch(j.served[k].first, j.served[k].second) = "document" => m <= k
           /\ ResolveKey(j, i) = PickKey(j.served[m].document, j.kid)
<1> DEFINE s == j.served[i]
           read == {k \in 1 .. i : Fetch(j.served[k].first, j.served[k].second) = "document"}
<1>1. ResolveKey(j, i) = IF TargetError(s.first.url) # "none" THEN Failed(TargetError(s.first.url))
                         ELSE IF read = {} THEN Failed(Fetch(s.first, s.second))
                         ELSE PickKey(j.served[Min(read)].document, j.kid)
  BY DEF ResolveKey
<1>2. i \in Nat
  BY DEF IsSeq
<1>3. read # {} /\ ResolveKey(j, i) = PickKey(j.served[Min(read)].document, j.kid)
  <2> HIDE DEF read, s
  <2> QED
    BY <1>1 DEF Failed
<1>4. Min(read) \in read /\ \A n \in read : Min(read) <= n
  <2>1. read \in SUBSET Nat
    BY <1>2
  <2> QED
    BY <1>3, <2>1, MinIsLeast
<1> QED
  BY <1>3, <1>4

\* Through any rotation one process resolves a kid to one key.
LEMMA AlwaysOneKeyPerKid ==
  ASSUME NEW j, IsSeq(j.served), \A i \in DOMAIN j.served : IsVisit(j.served[i])
  PROVE  OneKeyPerKid(j)
<1> DEFINE results == ResolveAll(j)
           keys == {i \in DOMAIN results : results[i].ok}
           Read(m) == Fetch(j.served[m].first, j.served[m].second) = "document"
<1>1. /\ keys = {i \in DOMAIN j.served : ResolveKey(j, i).ok}
      /\ \A i \in keys : results[i] = ResolveKey(j, i)
  BY DEF ResolveAll
<1>2. DOMAIN j.served = 1 .. Len(j.served) /\ Len(j.served) \in Nat
  BY DEF IsSeq
<1>3. ASSUME NEW i \in keys
      PROVE  \E m \in 1 .. i : /\ Read(m) /\ \A k \in 1 .. i : Read(k) => m <= k
                               /\ ResolveKey(j, i) = PickKey(j.served[m].document, j.kid)
  BY <1>1, ReadFromTheFirst
<1> HIDE DEF results, keys, Read
<1>4. ASSUME NEW i \in keys, NEW k \in keys
      PROVE  results[i].key = results[k].key
  <2>1. PICK m \in 1 .. i : /\ Read(m) /\ \A n \in 1 .. i : Read(n) => m <= n
                            /\ ResolveKey(j, i) = PickKey(j.served[m].document, j.kid)
    BY <1>3
  <2>2. PICK n \in 1 .. k : /\ Read(n) /\ \A p \in 1 .. k : Read(p) => n <= p
                            /\ ResolveKey(j, k) = PickKey(j.served[n].document, j.kid)
    BY <1>3
  <2>3. i \in Nat /\ k \in Nat
    BY <1>1, <1>2
  <2>4. m = n
    BY <2>1, <2>2, <2>3
  <2> QED
    BY <1>1, <2>1, <2>2, <2>4
<1>5. ASSUME NEW i \in keys
      PROVE  \E k \in 1 .. i :
           LET s == j.served[k] IN
           /\ s.first.addresses = {"public"} /\ s.first.answer \in {"document", "redirect"}
           /\ s.first.answer = "redirect" =>
                s.second.addresses = {"public"} /\ s.second.answer = "document" /\ s.second.url.origin = s.first.url.origin
           /\ Cardinality({x \in s.document : x.kid = j.kid}) = 1
  <2>1. PICK m \in 1 .. i : Read(m) /\ ResolveKey(j, i) = PickKey(j.served[m].document, j.kid)
    BY <1>3
  <2>2. m \in DOMAIN j.served /\ ResolveKey(j, i).ok
    BY <1>1, <1>2
  <2> DEFINE s == j.served[m]
  <2>3. IsVisit(s) /\ Fetch(s.first, s.second) = "document" /\ PickKey(s.document, j.kid).ok /\ IsFiniteSet(s.document)
    BY <2>1, <2>2 DEF Read, IsVisit
  <2> HIDE DEF s
  <2>4. Cardinality({x \in s.document : x.kid = j.kid}) = 1
    BY <2>3, PickedAlone
  <2>5. /\ s.first.addresses = {"public"} /\ s.first.answer \in {"document", "redirect"}
        /\ s.first.answer = "redirect" =>
             s.second.addresses = {"public"} /\ s.second.answer = "document" /\ s.second.url.origin = s.first.url.origin
    BY <2>3, FetchReads
  <2> QED
    BY <2>4, <2>5 DEF s
<1> QED
  BY <1>4, <1>5 DEF OneKeyPerKid, results, keys

----------------------------------------------------------------------------
\* The command line

\* A nonempty set of numbers with a bound has a greatest.
LEMMA MaxIsMost ==
  ASSUME NEW m \in Nat, NEW S \in SUBSET (0 .. m), S # {}
  PROVE  Max(S) \in S /\ \A n \in S : n <= Max(S)
<1> DEFINE T == {m - n : n \in S}
<1>1. T \in SUBSET Nat /\ T # {}
  <2>1. \A n \in S : m - n \in Nat
    OBVIOUS
  <2>2. T # {}
    OBVIOUS
  <2> QED
    BY <2>1, <2>2
<1>2. Min(T) \in T /\ \A k \in T : Min(T) <= k
  BY <1>1, MinIsLeast
<1>3. PICK x \in S : Min(T) = m - x
  BY <1>2
<1>4. \A n \in S : x >= n
  <2> SUFFICES ASSUME NEW n \in S PROVE x >= n
    OBVIOUS
  <2>1. m - x <= m - n
    BY <1>2, <1>3
  <2> QED
    BY <2>1
<1> HIDE DEF T
<1>5. \E y \in S : \A n \in S : y >= n
  BY <1>4
<1>6. Max(S) \in S /\ \A n \in S : Max(S) >= n
  BY <1>5 DEF Max
<1> QED
  BY <1>6

\* What parseArgs makes of a line of arguments.
LEMMA Parsed ==
  ASSUME NEW argv, IsArguments(argv), NEW n
  PROVE  LET args == ParseArgs(argv) IN
         /\ n \in DOMAIN args.flags <=> Mentions(argv, n)
         /\ n \in DOMAIN args.multi <=> Mentions(argv, n)
         /\ n \notin BooleanFlags => (HasValue(args.flags, n) <=> EndsValued(argv, n))
         /\ n \notin BooleanFlags /\ Mentions(argv, n) => args.multi[n] = ValuesOf(argv, n)
<1> DEFINE ends == {i \in DOMAIN argv : argv[i].kind = "sep"} \cup {Len(argv) + 1}
           end == Min(ends)
           before == 1 .. end - 1
           settings(x) == {i \in before : argv[i].kind \in {"flag", "eq"} /\ argv[i].flag = x}
           takesNext(i) == argv[i].kind = "flag" /\ argv[i].flag \notin BooleanFlags /\ i + 1 \in before /\ argv[i + 1].kind = "word"
           value(i) == IF argv[i].kind = "eq" THEN argv[i].value ELSE IF takesNext(i) THEN argv[i + 1].value ELSE "bare"
           names == {argv[i].flag : i \in {j \in before : argv[j].kind \in {"flag", "eq"}}}
           flags == [x \in names |-> value(Max(settings(x)))]
           multi == [x \in names |-> {value(i) : i \in settings(x)} \ {"bare"}]
           args == ParseArgs(argv)
<1>1. args.flags = flags /\ args.multi = multi
  BY DEF ParseArgs
<1> HIDE DEF args
<1>2. Len(argv) \in Nat /\ DOMAIN argv = 1 .. Len(argv)
  BY OverItsLines DEF IsArguments
<1>3. end \in ends /\ \A i \in ends : end <= i
  <2>1. ends \in SUBSET Nat /\ ends # {}
    BY <1>2
  <2> HIDE DEF ends
  <2> QED
    BY <2>1, MinIsLeast
<1>4. before = Own(argv)
  <2>1. end \in 1 .. Len(argv) + 1
    BY <1>2, <1>3
  <2>2. ASSUME NEW i \in before
        PROVE  i \in Own(argv)
    <3>1. i \in DOMAIN argv /\ \A j \in 1 .. i : j \in DOMAIN argv /\ ~(end <= j)
      <4> HIDE DEF end
      <4>1. i \in 1 .. end - 1
        OBVIOUS
      <4> QED
        BY <1>2, <2>1, <4>1
    <3>2. \A j \in 1 .. i : j \notin ends
      BY <1>3, <3>1
    <3> QED
      BY <3>1, <3>2 DEF Own
  <2>3. ASSUME NEW i \in Own(argv)
        PROVE  i \in before
    <3>1. i \in 1 .. Len(argv) /\ \A j \in 1 .. i : argv[j].kind # "sep"
      BY <1>2 DEF Own
    <3>2. end \notin 1 .. i
      <4>1. CASE end = Len(argv) + 1
        BY <1>2, <3>1, <4>1
      <4>2. CASE end # Len(argv) + 1
        BY <1>3, <3>1, <4>2
      <4> QED
        BY <4>1, <4>2
    <3> HIDE DEF end
    <3> QED
      BY <1>2, <2>1, <3>1, <3>2
  <2> HIDE DEF end
  <2> QED
    BY <2>2, <2>3
<1>5. before \subseteq 0 .. Len(argv)
  BY <1>2, <1>4 DEF Own
<1> HIDE DEF before
<1>6. settings(n) = Places(argv, n)
  BY <1>4 DEF Places
<1>7. n \in names <=> Places(argv, n) # {}
  BY <1>4 DEF Places
<1>8. \A i \in Places(argv, n) : n \notin BooleanFlags =>
        /\ i \in Valued(argv, n) => value(i) = (IF argv[i].kind = "eq" THEN argv[i].value ELSE argv[i + 1].value) /\ value(i) # "bare"
        /\ i \notin Valued(argv, n) => value(i) = "bare"
  <2> SUFFICES ASSUME NEW i \in Places(argv, n), n \notin BooleanFlags
               PROVE  /\ i \in Valued(argv, n) => value(i) = (IF argv[i].kind = "eq" THEN argv[i].value ELSE argv[i + 1].value) /\ value(i) # "bare"
                      /\ i \notin Valued(argv, n) => value(i) = "bare"
    OBVIOUS
  <2>1. argv[i].kind \in {"flag", "eq"} /\ argv[i].flag = n /\ i \in DOMAIN argv
    BY DEF Places, Own
  <2>2. i \in Valued(argv, n) <=> argv[i].kind = "eq" \/ takesNext(i)
    BY <1>4, <2>1 DEF Valued
  <2>3. \A j \in DOMAIN argv : argv[j].kind \in {"eq", "word"} => argv[j].value # "bare"
    BY DEF IsArguments
  <2>4. takesNext(i) => i + 1 \in DOMAIN argv
    BY <1>4 DEF Own
  <2>5. takesNext(i) => argv[i].kind # "eq" /\ argv[i + 1].kind = "word"
    OBVIOUS
  <2> HIDE DEF takesNext
  <2> QED
    BY <2>1, <2>2, <2>3, <2>4, <2>5
<1> HIDE DEF value, names, settings
<1>9. ASSUME n \notin BooleanFlags, Mentions(argv, n)
      PROVE  multi[n] = ValuesOf(argv, n)
  <2>1. multi[n] = {value(i) : i \in Places(argv, n)} \ {"bare"}
    BY <1>6, <1>7, <1>9 DEF Mentions
  <2>2. Valued(argv, n) \subseteq Places(argv, n)
    BY DEF Valued
  <2>3. ValuesOf(argv, n) = {value(i) : i \in Valued(argv, n)}
    BY <1>8, <1>9, <2>2 DEF ValuesOf
  <2> HIDE DEF multi
  <2> QED
    BY <1>8, <1>9, <2>1, <2>2, <2>3
<1>10. ASSUME n \notin BooleanFlags
       PROVE  HasValue(flags, n) <=> EndsValued(argv, n)
  <2>1. CASE ~Mentions(argv, n)
    <3>1. n \notin DOMAIN flags
      BY <1>7, <2>1 DEF Mentions
    <3>2. Valued(argv, n) = {}
      BY <2>1 DEF Mentions, Valued
    <3> QED
      BY <3>1, <3>2 DEF HasValue, EndsValued
  <2>2. CASE Mentions(argv, n)
    <3> DEFINE last == Max(Places(argv, n))
    <3>1. last \in Places(argv, n) /\ \A j \in Places(argv, n) : j <= last
      <4>1. Places(argv, n) \in SUBSET (0 .. Len(argv)) /\ Places(argv, n) # {}
        BY <1>4, <1>5, <2>2 DEF Places, Mentions
      <4> QED
        BY <1>2, <4>1, MaxIsMost
    <3>2. n \in DOMAIN flags /\ flags[n] = value(last)
      BY <1>6, <1>7, <2>2 DEF Mentions
    <3> HIDE DEF last, flags
    <3>3. HasValue(flags, n) <=> last \in Valued(argv, n)
      BY <1>8, <1>10, <3>1, <3>2 DEF HasValue
    <3>4. \A i \in Valued(argv, n) : (\A j \in Places(argv, n) : j <= i) => i = last
      <4> SUFFICES ASSUME NEW i \in Valued(argv, n), \A j \in Places(argv, n) : j <= i PROVE i = last
        OBVIOUS
      <4>1. i \in Places(argv, n) /\ i \in Nat /\ last \in Nat
        BY <1>2, <1>4, <1>5, <3>1 DEF Valued, Places
      <4> QED
        BY <3>1, <4>1
    <3> QED
      BY <3>1, <3>3, <3>4 DEF EndsValued
  <2> QED
    BY <2>1, <2>2
<1>11. (n \in DOMAIN flags <=> Mentions(argv, n)) /\ (n \in DOMAIN multi <=> Mentions(argv, n))
  BY <1>7 DEF Mentions
<1> HIDE DEF flags, multi
<1> QED
  BY <1>1, <1>9, <1>10, <1>11 DEF args

\* verify that ends with 0: nothing was refused, and the chain is valid.
LEMMA VerifyPasses ==
  ASSUME NEW w, IsArguments(w.argv), VerifyCommand(w.argv, w) = 0
  PROVE  LET args == ParseArgs(w.argv)
             f == args.flags
             plain == ExitCode(Verdict(args, w), "allow-unproven-delivery" \in DOMAIN f /\ f["allow-unproven-delivery"] = "bare")
         IN  /\ ~VerifyUsageError(f) /\ ~(HasValue(f, "trust-file") /\ ~w.trustReads) /\ Parses(w.lines)
             /\ plain = 0
             /\ Given(f, {"witness", "witness-file"}) => Audit(f, w, plain) = 0
<1> DEFINE args == ParseArgs(w.argv)
           f == args.flags
           plain == ExitCode(Verdict(args, w), "allow-unproven-delivery" \in DOMAIN f /\ f["allow-unproven-delivery"] = "bare")
           witnessed == Given(f, {"witness", "witness-file"})
           otherwise == IF witnessed /\ Verdict(args, w).kind = "valid" THEN Audit(f, w, plain) ELSE plain
           c1 == When(args.positional = <<>> \/ VerifyUsageError(f), 2)
           c2 == When(HasValue(f, "witness") /\ ~w.base, 2)
           c3 == When(HasValue(f, "witness-key") /\ ~w.pin, 2)
           c4 == When(HasValue(f, "trust-file") /\ ~w.trustReads, 2)
           c5 == When(~Parses(w.lines) \/ (Source(args, w) = "local" /\ w.identity = "none"), 1)
           checks == <<c1, c2, c3, c4, c5>>
<1>1. Decide(checks, otherwise) = 0
  BY DEF VerifyCommand
<1>2. /\ c1.answer = 2 /\ c2.answer = 2 /\ c3.answer = 2 /\ c4.answer = 2 /\ c5.answer = 1
      /\ c1.applies <=> args.positional = <<>> \/ VerifyUsageError(f)
      /\ c4.applies <=> HasValue(f, "trust-file") /\ ~w.trustReads
      /\ c5.applies <=> ~Parses(w.lines) \/ (Source(args, w) = "local" /\ w.identity = "none")
  BY DEF When
<1> HIDE DEF c1, c2, c3, c4, c5, args, otherwise, plain
<1>3. DOMAIN checks = 1 .. 5 /\ checks[1] = c1 /\ checks[2] = c2 /\ checks[3] = c3 /\ checks[4] = c4 /\ checks[5] = c5
  OBVIOUS
<1> HIDE DEF checks
<1>4. otherwise = 0 /\ \A i \in 1 .. 5 : ~checks[i].applies
  <2>1. \A i \in 1 .. 5 : checks[i].answer # 0
    BY <1>2, <1>3
  <2>2. Decide(checks, otherwise) = otherwise /\ \A i \in 1 .. 5 : ~checks[i].applies
    BY <1>1, <1>3, <2>1, DecideFalls
  <2> QED
    BY <1>1, <2>2
<1>5. ~c1.applies /\ ~c4.applies /\ ~c5.applies
  BY <1>3, <1>4
<1>6. plain = 0
  <2>1. CASE witnessed /\ Verdict(args, w).kind = "valid"
    BY <1>4, <2>1 DEF otherwise, Audit, AuditExit
  <2>2. CASE ~(witnessed /\ Verdict(args, w).kind = "valid")
    BY <1>4, <2>2 DEF otherwise
  <2> QED
    BY <2>1, <2>2
<1>7. witnessed => Audit(f, w, plain) = 0
  <2>1. Verdict(args, w).kind = "valid"
    BY <1>6 DEF plain, ExitCode
  <2> QED
    BY <1>4, <2>1 DEF otherwise
<1> QED
  BY <1>2, <1>5, <1>6, <1>7 DEF args, plain

\* The key the chain is verified under, and the pins it is held to.
LEMMA VerifiedUnder ==
  ASSUME NEW w, IsArguments(w.argv), LET f == ParseArgs(w.argv).flags IN ~(HasValue(f, "trust-file") /\ ~w.trustReads),
         Verdict(ParseArgs(w.argv), w).kind = "valid"
  PROVE  Verdict(ParseArgs(w.argv), w) = VerifyChain(w.lines, KeyOf(w), PinsNamed(w.argv, w))
<1> DEFINE args == ParseArgs(w.argv)
           f == args.flags
           source == Source(args, w)
           pins == Pins(args, w)
           key == IF source = "local" THEN w.identity ELSE w.published[source]
<1>0. /\ \A n : n \notin BooleanFlags => (HasValue(f, n) <=> EndsValued(w.argv, n))
      /\ \A n : n \notin BooleanFlags /\ Mentions(w.argv, n) => args.multi[n] = ValuesOf(w.argv, n)
      /\ \A n : n \in DOMAIN args.multi <=> Mentions(w.argv, n)
  BY Parsed
<1>1. "key" \notin BooleanFlags /\ "jwks" \notin BooleanFlags /\ "trust-file" \notin BooleanFlags /\ "expect-thumbprint" \notin BooleanFlags
  BY DEF BooleanFlags
<1>2. source = IF EndsValued(w.argv, "key") THEN "local" ELSE IF EndsValued(w.argv, "jwks") THEN "flag"
               ELSE IF Embedded(w) # "none" THEN "receipt-jwks" ELSE IF w.env THEN "env" ELSE "default"
  <2> DEFINE c1 == When(HasValue(f, "key"), "local")
             c2 == When(HasValue(f, "jwks"), "flag")
             c3 == When(Embedded(w) # "none", "receipt-jwks")
             c4 == When(w.env, "env")
  <2>1. source = Decide(<<c1, c2, c3, c4>>, "default")
    BY DEF Source, KeySource
  <2>2. c1.answer = "local" /\ c2.answer = "flag" /\ c3.answer = "receipt-jwks" /\ c4.answer = "env"
    BY DEF When
  <2>3. (c1.applies <=> HasValue(f, "key")) /\ (c2.applies <=> HasValue(f, "jwks")) /\ (c3.applies <=> Embedded(w) # "none") /\ (c4.applies <=> w.env)
    BY DEF When
  <2> HIDE DEF c1, c2, c3, c4
  <2>4. source = IF c1.applies THEN c1.answer ELSE IF c2.applies THEN c2.answer ELSE IF c3.applies THEN c3.answer ELSE
                 IF c4.applies THEN c4.answer ELSE "default"
    BY <2>1, DecideOf4
  <2>5. (HasValue(f, "key") <=> EndsValued(w.argv, "key")) /\ (HasValue(f, "jwks") <=> EndsValued(w.argv, "jwks"))
    BY <1>0, <1>1
  <2> HIDE DEF source, f
  <2> QED
    BY <2>2, <2>3, <2>4, <2>5
<1>3. key = KeyOf(w)
  <2> HIDE DEF source
  <2> QED
    BY <1>2 DEF KeyOf
<1>4. pins = PinsNamed(w.argv, w)
  <2>1. (IF "expect-thumbprint" \in DOMAIN args.multi THEN args.multi["expect-thumbprint"] ELSE {}) = ValuesOf(w.argv, "expect-thumbprint")
    <3>1. ~Mentions(w.argv, "expect-thumbprint") => ValuesOf(w.argv, "expect-thumbprint") = {}
      BY DEF Mentions, ValuesOf, Valued
    <3> HIDE DEF args
    <3> QED
      BY <1>0, <1>1, <3>1
  <2>2. HasValue(f, "trust-file") <=> EndsValued(w.argv, "trust-file")
    BY <1>0, <1>1
  <2>3. HasValue(f, "trust-file") => TrustFile(w) = w.trusted
    BY DEF TrustFile
  <2> HIDE DEF args, f
  <2> QED
    BY <2>1, <2>2, <2>3 DEF Pins, PinsNamed, f
<1>5. Verdict(args, w) = IF source = "local" THEN RunVerify(w.lines, "local", w.identity, "none", pins)
                         ELSE RunVerify(w.lines, source, "none", w.published[source], pins)
  BY DEF Verdict
<1> HIDE DEF args, source, pins
<1>6. Verdict(args, w) = VerifyChain(w.lines, key, pins)
  <2>1. CASE source = "local"
    BY <1>5, <2>1 DEF RunVerify
  <2>2. CASE source # "local"
    <3>1. Verdict(args, w).kind = "valid"
      BY DEF args
    <3>2. Verdict(args, w) = IF Records(w.lines) = <<>> THEN [kind |-> "empty"] ELSE IF w.published[source] = "none" THEN [kind |-> "unverifiable"]
                             ELSE VerifyChain(w.lines, w.published[source], pins)
      BY <1>5, <2>2 DEF RunVerify
    <3> QED
      BY <2>2, <3>1, <3>2
  <2> QED
    BY <2>1, <2>2
<1> QED
  BY <1>3, <1>4, <1>6 DEF args

\* A verdict of valid says what ChainHolds does.
LEMMA ValidHolds ==
  ASSUME NEW lines, NEW key, NEW pins, VerifyChain(lines, key, pins).kind = "valid"
  PROVE  ChainHolds(Records(lines), key)
<1> DEFINE records == Records(lines)
<1>1. records # <<>> /\ \A i \in DOMAIN records : EntryFailure(records, i, key) = NoFailure
  BY ValidMeans
<1> HIDE DEF records
<1>2. \A i \in DOMAIN records : LET r == records[i] IN
         r.kid = key /\ r.sig = Signed(Content(r), key) /\ r.seq = i - 1 /\ r.prev = PrevHash(records, i)
  BY <1>1, EntryHolds
<1>3. \A i \in DOMAIN records : i > 1 => PrevHash(records, i) = EntryHash(records[i - 1])
  BY DEF PrevHash
<1> QED
  BY <1>1, <1>2, <1>3 DEF ChainHolds, records

\* What is collected of a witness stands on its pages.
LEMMA CollectedIsOfPages ==
  ASSUME NEW pages, IsSeq(pages), NEW most, Collect(pages, most).ok
  PROVE  Collect(pages, most).receipts \subseteq UNION {pages[n].receipts : n \in DOMAIN pages}
<1> DEFINE last == {n \in DOMAIN pages : pages[n].next = "none"}
           end == Min(last)
           bad == {n \in DOMAIN pages : ~pages[n].ok \/ (n > 1 /\ pages[n].next # "none" /\ pages[n].next = pages[n - 1].next)}
           stopped == last = {} \/ end > most \/ (\E n \in bad : n <= end)
<1>1. Collect(pages, most) = IF stopped THEN [ok |-> FALSE, receipts |-> {}]
                             ELSE [ok |-> TRUE, receipts |-> UNION {pages[n].receipts : n \in 1 .. end}]
  BY DEF Collect
<1>2. ~stopped
  <2> HIDE DEF stopped
  <2> QED
    BY <1>1
<1>3. end \in DOMAIN pages /\ DOMAIN pages = 1 .. Len(pages) /\ Len(pages) \in Nat
  <2>1. DOMAIN pages = 1 .. Len(pages) /\ Len(pages) \in Nat
    BY OverItsLines DEF IsSeq
  <2>2. last \in SUBSET Nat /\ last # {}
    BY <1>2, <2>1
  <2>3. end \in last
    <3> HIDE DEF last
    <3> QED
      BY <2>2, MinIsLeast
  <2> QED
    BY <2>1, <2>3
<1> HIDE DEF end
<1>4. 1 .. end \subseteq DOMAIN pages
  BY <1>3
<1>5. Collect(pages, most).receipts = UNION {pages[n].receipts : n \in 1 .. end}
  <2> HIDE DEF stopped
  <2> QED
    BY <1>1, <1>2
<1> QED
  BY <1>4, <1>5

\* The receipts a witnessed verify ends with 0 on: of this very history, and
\* checked under a key that was pinned.
LEMMA AuditEarns ==
  ASSUME NEW w, NEW plain, IsArguments(w.argv), IsSeq(w.lines), IsSeq(w.pages), Audit(ParseArgs(w.argv).flags, w, plain) = 0
  PROVE  LET records == Records(w.lines)
             receipts == IF Mentions(w.argv, "witness-file") THEN w.sidecarReceipts ELSE UNION {w.pages[n].receipts : n \in DOMAIN w.pages}
         IN  Mentions(w.argv, "witness-key") /\ receipts # {} /\ \E r \in receipts : r.count <= Len(records) /\ r.hash = EntryHash(records[r.count])
<1> DEFINE f == ParseArgs(w.argv).flags
           records == Records(w.lines)
           hashes == [i \in DOMAIN records |-> EntryHash(records[i])]
           receipts == IF Mentions(w.argv, "witness-file") THEN w.sidecarReceipts ELSE UNION {w.pages[n].receipts : n \in DOMAIN w.pages}
           collected == IF "witness-file" \in DOMAIN f THEN [ok |-> w.sidecar # "unreadable", receipts |-> w.sidecarReceipts]
                        ELSE Collect(w.pages, MaxPages)
           key == WitnessKey(IF HasValue(f, "witness-key") THEN w.witnessKey ELSE "none", w.witnessKeys, "id")
           check == CheckReceipts(collected.receipts, hashes, key, "id")
<1>0. "witness-file" \in DOMAIN f <=> Mentions(w.argv, "witness-file")
  BY Parsed
<1>1. AuditExit(collected, check, HasValue(f, "witness-key"), plain) = 0
  BY DEF Audit
<1>2. collected.ok /\ collected.receipts # {} /\ check.kind = "pass" /\ HasValue(f, "witness-key")
  <2> HIDE DEF collected, check, f
  <2> QED
    BY <1>1 DEF AuditExit
<1>3. Mentions(w.argv, "witness-key")
  <2>1. "witness-key" \in DOMAIN f
    BY <1>2 DEF HasValue
  <2> QED
    BY <2>1, Parsed
<1>4. collected.receipts \subseteq receipts
  <2>1. CASE "witness-file" \in DOMAIN f
    BY <1>0, <2>1
  <2>2. CASE "witness-file" \notin DOMAIN f
    <3>1. collected = Collect(w.pages, MaxPages) /\ receipts = UNION {w.pages[n].receipts : n \in DOMAIN w.pages}
      BY <1>0, <2>2
    <3>2. Collect(w.pages, MaxPages).ok
      BY <1>2, <3>1
    <3> QED
      BY <3>1, <3>2, CollectedIsOfPages
  <2> QED
    BY <2>1, <2>2
<1> HIDE DEF collected, receipts, hashes, key
<1>5. PICK r \in collected.receipts : TRUE
  BY <1>2
<1>6. r.count \in DOMAIN hashes /\ hashes[r.count] = r.hash
  BY <1>2, PassMeans
<1>7. DOMAIN records = 1 .. Len(records)
  BY ReadOf, OverItsLines
<1>8. r.count <= Len(records) /\ r.hash = EntryHash(records[r.count])
  <2>1. r.count \in DOMAIN records /\ r.hash = EntryHash(records[r.count])
    BY <1>6 DEF hashes
  <2>2. Len(records) \in Nat
    BY ReadOf DEF IsSeq
  <2> HIDE DEF records
  <2> QED
    BY <1>7, <2>1, <2>2
<1>9. r \in receipts
  BY <1>4, <1>5
<1> QED
  BY <1>3, <1>8, <1>9 DEF receipts

\* verify exits 0 only when it is earned.
LEMMA VerifyIsEarned ==
  ASSUME NEW w, IsArguments(w.argv), IsSeq(w.lines), IsSeq(w.pages), VerifyCommand(w.argv, w) = 0
  PROVE  LET records == Records(w.lines) IN
         /\ ChainHolds(records, KeyOf(w))
         /\ PinsNamed(w.argv, w) # {} => KeyOf(w) \in PinsNamed(w.argv, w)
         /\ Mentions(w.argv, "allow-unproven-delivery") \/ \A i \in DOMAIN records : records[i].paid # "none" => records[i].output
         /\ Mentions(w.argv, "witness") \/ Mentions(w.argv, "witness-file") =>
              LET receipts == IF Mentions(w.argv, "witness-file") THEN w.sidecarReceipts ELSE UNION {w.pages[n].receipts : n \in DOMAIN w.pages}
              IN  Mentions(w.argv, "witness-key") /\ receipts # {} /\ \E r \in receipts : r.count <= Len(records) /\ r.hash = EntryHash(records[r.count])
<1> DEFINE args == ParseArgs(w.argv)
           f == args.flags
           records == Records(w.lines)
           allow == "allow-unproven-delivery" \in DOMAIN f /\ f["allow-unproven-delivery"] = "bare"
           plain == ExitCode(Verdict(args, w), allow)
           key == KeyOf(w)
           pins == PinsNamed(w.argv, w)
<1>1. ~(HasValue(f, "trust-file") /\ ~w.trustReads) /\ plain = 0 /\ (Given(f, {"witness", "witness-file"}) => Audit(f, w, plain) = 0)
  BY VerifyPasses
<1>2. Verdict(args, w).kind = "valid" /\ (Verdict(args, w).delivery # "unproven" \/ allow)
  <2> HIDE DEF args, allow
  <2> QED
    BY <1>1 DEF ExitCode
<1>3. Verdict(args, w) = VerifyChain(w.lines, key, pins)
  BY <1>1, <1>2, VerifiedUnder
<1>4. VerifyChain(w.lines, key, pins).kind = "valid" /\ (VerifyChain(w.lines, key, pins).delivery # "unproven" \/ allow)
  BY <1>2, <1>3
<1>5. ChainHolds(records, key) /\ (pins # {} => key \in pins) /\ VerifyChain(w.lines, key, pins).delivery = Delivery(records)
  BY <1>4, ValidHolds, ValidMeans, ValidDelivers
<1>6. Mentions(w.argv, "allow-unproven-delivery") \/ \A i \in DOMAIN records : records[i].paid # "none" => records[i].output
  <2>1. CASE allow
    BY <2>1, Parsed
  <2>2. CASE ~allow
    <3>1. Delivery(records) # "unproven"
      BY <1>4, <1>5, <2>2
    <3> HIDE DEF records
    <3> QED
      BY <3>1 DEF Delivery
  <2> QED
    BY <2>1, <2>2
<1>7. Mentions(w.argv, "witness") \/ Mentions(w.argv, "witness-file") => Audit(f, w, plain) = 0
  <2>1. ("witness" \in DOMAIN f <=> Mentions(w.argv, "witness")) /\ ("witness-file" \in DOMAIN f <=> Mentions(w.argv, "witness-file"))
    BY Parsed
  <2> HIDE DEF f, plain
  <2> QED
    BY <1>1, <2>1 DEF Given
<1>8. Mentions(w.argv, "witness") \/ Mentions(w.argv, "witness-file") =>
        LET receipts == IF Mentions(w.argv, "witness-file") THEN w.sidecarReceipts ELSE UNION {w.pages[n].receipts : n \in DOMAIN w.pages}
        IN  Mentions(w.argv, "witness-key") /\ receipts # {} /\ \E r \in receipts : r.count <= Len(records) /\ r.hash = EntryHash(records[r.count])
  <2> HIDE DEF plain
  <2> QED
    BY <1>7, AuditEarns
<1> QED
  BY <1>5, <1>6, <1>8

\* A witness target: one that is none was not asked for, and one that is taken
\* carries no key on the command line.
LEMMA TargetMeans ==
  ASSUME NEW f, NEW w
  PROVE  /\ WitnessTarget(f, w) = "none" => "witness" \notin DOMAIN f
         /\ WitnessTarget(f, w) # "usage" => "witness-account-key" \notin DOMAIN f
<1> DEFINE none == IF Given(f, {"witness-key", "witness-name", "witness-account-key-file"}) THEN "usage" ELSE "none"
           otherwise == IF AccountKey(f, w) = "usage" THEN "usage" ELSE "target"
           c1 == When("witness-account-key" \in DOMAIN f, "usage")
           c2 == When("witness" \notin DOMAIN f, none)
           c3 == When(Bare(f, {"witness", "witness-key", "witness-name"}) \/ ~w.base, "usage")
           c4 == When(HasValue(f, "witness-key") /\ ~w.pin, "usage")
<1>1. WitnessTarget(f, w) = Decide(<<c1, c2, c3, c4>>, otherwise)
  BY DEF WitnessTarget
<1>2. c1.answer = "usage" /\ c2.answer = none /\ c3.answer = "usage" /\ c4.answer = "usage" /\ otherwise # "none"
  BY DEF When
<1>3. (c1.applies <=> "witness-account-key" \in DOMAIN f) /\ (c2.applies <=> "witness" \notin DOMAIN f)
  BY DEF When
<1> HIDE DEF c1, c2, c3, c4, none, otherwise
<1>4. WitnessTarget(f, w) = IF c1.applies THEN c1.answer ELSE IF c2.applies THEN c2.answer ELSE IF c3.applies THEN c3.answer ELSE
        IF c4.applies THEN c4.answer ELSE otherwise
  BY <1>1, DecideOf4
<1> QED
  BY <1>2, <1>3, <1>4

\* What checkpoint writes, and what its 0 says.
LEMMA CheckpointKeeps ==
  ASSUME NEW w, IsArguments(w.argv)
  PROVE  LET out == CheckpointCommand(w.argv, w) IN
         /\ out.line # "none" => ChainHolds(Records(w.lines), w.identity) /\ w.atHead # "witnessed" /\ out.exit # 2
         /\ out.exit = 0 /\ Mentions(w.argv, "witness") => out.line = "receipt" \/ w.atHead = "witnessed"
<1> DEFINE args == ParseArgs(w.argv)
           f == args.flags
           target == WitnessTarget(f, w)
           ended(exit, line) == [exit |-> exit, line |-> line]
           otherwise == IF WitnessOutcome(w.reply) = "receipt" THEN ended(0, "receipt") ELSE ended(1, "error")
           c1 == When(args.positional = <<>> \/ target = "usage", ended(2, "none"))
           c2 == When(w.identity = "none" \/ ~HeadVerifies(w) \/ w.sidecar = "unreadable", ended(1, "none"))
           c3 == When(w.atHead = "witnessed" \/ (target = "none" /\ w.atHead # "none"), ended(0, "none"))
           c4 == When(target = "none", ended(0, "bare"))
           out == CheckpointCommand(w.argv, w)
<1>1. out = Decide(<<c1, c2, c3, c4>>, otherwise)
  BY DEF CheckpointCommand
<1>2. /\ c1.answer.line = "none" /\ c1.answer.exit = 2 /\ c2.answer.line = "none" /\ c2.answer.exit = 1
      /\ c3.answer.line = "none" /\ c4.answer.line = "bare" /\ c4.answer.exit = 0
      /\ otherwise.exit \in {0, 1} /\ (otherwise.exit = 0 => otherwise.line = "receipt")
  BY DEF When
<1>3. /\ c2.applies <=> w.identity = "none" \/ ~HeadVerifies(w) \/ w.sidecar = "unreadable"
      /\ c3.applies <=> w.atHead = "witnessed" \/ (target = "none" /\ w.atHead # "none")
      /\ c4.applies <=> target = "none"
  BY DEF When
<1>4. Mentions(w.argv, "witness") => target # "none"
  BY TargetMeans, Parsed
<1>5. HeadVerifies(w) => ChainHolds(Records(w.lines), w.identity)
  BY ValidHolds DEF HeadVerifies
<1> HIDE DEF c1, c2, c3, c4, otherwise, target, out
<1>6. out = IF c1.applies THEN c1.answer ELSE IF c2.applies THEN c2.answer ELSE IF c3.applies THEN c3.answer ELSE
            IF c4.applies THEN c4.answer ELSE otherwise
  BY <1>1, DecideOf4
<1>7. ASSUME out.line # "none"
      PROVE  ChainHolds(Records(w.lines), w.identity) /\ w.atHead # "witnessed" /\ out.exit # 2
  <2>1. ~c1.applies /\ ~c2.applies /\ ~c3.applies
    BY <1>2, <1>6, <1>7
  <2>2. out = IF c4.applies THEN c4.answer ELSE otherwise
    BY <1>6, <2>1
  <2> QED
    BY <1>2, <1>3, <1>5, <2>1, <2>2
<1>8. ASSUME out.exit = 0, Mentions(w.argv, "witness")
      PROVE  out.line = "receipt" \/ w.atHead = "witnessed"
  <2>1. ~c1.applies /\ ~c2.applies /\ ~c4.applies
    BY <1>2, <1>3, <1>4, <1>6, <1>8
  <2>2. CASE c3.applies
    BY <1>3, <1>4, <1>8, <2>2
  <2>3. CASE ~c3.applies
    BY <1>2, <1>6, <1>8, <2>1, <2>3
  <2> QED
    BY <2>2, <2>3
<1> QED
  BY <1>7, <1>8 DEF out

\* A daemon that holds the lock serves, and a purchase check serves nobody
\* without a token.
LEMMA DaemonKeeps ==
  ASSUME NEW w, NEW command, IsArguments(w.argv)
  PROVE  LET out == Daemon(command, w.argv, w) IN
         /\ out.locked => out.serving
         /\ out.serving /\ command = "purchase-check" => Mentions(w.argv, "token-file") /\ w.token = "text"
<1> DEFINE f == ParseArgs(w.argv).flags
           otherwise == [exit |-> "serves", locked |-> TRUE, serving |-> TRUE]
           c1 == When(Bare(f, {"dir"}), Ended("1"))
           c2 == When(DaemonUsage(command, f, w), Ended("2"))
           c3 == When(~w.opens, Ended("1"))
           c4 == When(~w.listens, ListenFailed)
           c5 == When(w.signalled, Ended("0"))
           checks == <<c1, c2, c3, c4, c5>>
           out == Daemon(command, w.argv, w)
<1>1. out = Decide(checks, otherwise)
  BY DEF Daemon
<1>2. \A e : ~Ended(e).serving /\ ~Ended(e).locked
  BY DEF Ended
<1>3. /\ c1.answer = Ended("1") /\ c2.answer = Ended("2") /\ c3.answer = Ended("1") /\ c4.answer = Ended("1") /\ c5.answer = Ended("0")
      /\ c2.applies <=> DaemonUsage(command, f, w)
  BY DEF When, ListenFailed
<1>4. otherwise.serving
  OBVIOUS
<1> HIDE DEF c1, c2, c3, c4, c5, otherwise, f, out
<1>5. DOMAIN checks = 1 .. 5 /\ checks[1] = c1 /\ checks[2] = c2 /\ checks[3] = c3 /\ checks[4] = c4 /\ checks[5] = c5
  OBVIOUS
<1> HIDE DEF checks
<1>6. \A i \in 1 .. 5 : ~checks[i].answer.serving /\ ~checks[i].answer.locked
  BY <1>2, <1>3, <1>5
<1>7. out = otherwise \/ \E i \in 1 .. 5 : out = checks[i].answer
  BY <1>1, <1>5, DecideAmong
<1>8. out.locked => out.serving
  BY <1>4, <1>6, <1>7
<1>9. ASSUME out.serving
      PROVE  ~DaemonUsage(command, f, w)
  <2>1. \A i \in 1 .. 5 : checks[i].answer # out
    BY <1>6, <1>9
  <2>2. \A i \in 1 .. 5 : ~checks[i].applies
    BY <1>1, <1>5, <2>1, DecideFalls
  <2> QED
    BY <1>3, <1>5, <2>2
<1>10. ASSUME out.serving, command = "purchase-check"
       PROVE  Mentions(w.argv, "token-file") /\ w.token = "text"
  <2>1. "token-file" \in DOMAIN f /\ w.token = "text"
    BY <1>9, <1>10 DEF DaemonUsage, HasValue
  <2> QED
    BY <2>1, Parsed DEF f
<1> QED
  BY <1>8, <1>10 DEF out

\* The proxy serves only what it can record, under its policy.
LEMMA ProxyKeeps ==
  ASSUME NEW w, IsArguments(w.argv), ProxyCommand(w.argv, w) = "serves"
  PROVE  w.identity # "none" /\ w.policy /\ w.writable /\ ~Mentions(w.argv, "witness-account-key")
<1> DEFINE args == ParseArgs(w.argv)
           f == args.flags
           c1 == When(Bare(f, {"dir"}), "1")
           c2 == When(~HasValue(f, "policy") \/ ~HasValue(f, "server-label") \/ ~args.passthrough, "2")
           c3 == When(HasValue(f, "jwks-uri") /\ f["jwks-uri"] # "https", "2")
           c4 == When("checkpoint-every" \in DOMAIN f /\ f["checkpoint-every"] # "positive", "2")
           c5 == When(WitnessTarget(f, w) = "usage", "2")
           c6 == When(HasValue(f, "allow-nonstandard-tool-names"), "2")
           c7 == When(~w.writable \/ w.identity = "none" \/ ~w.policy, "1")
           checks == <<c1, c2, c3, c4, c5, c6, c7>>
<1>1. Decide(checks, "serves") = "serves"
  BY DEF ProxyCommand
<1>2. /\ c1.answer = "1" /\ c2.answer = "2" /\ c3.answer = "2" /\ c4.answer = "2" /\ c5.answer = "2" /\ c6.answer = "2" /\ c7.answer = "1"
      /\ c5.applies <=> WitnessTarget(f, w) = "usage"
      /\ c7.applies <=> ~w.writable \/ w.identity = "none" \/ ~w.policy
  BY DEF When
<1> HIDE DEF c1, c2, c3, c4, c5, c6, c7, args
<1>3. DOMAIN checks = 1 .. 7 /\ checks[1] = c1 /\ checks[2] = c2 /\ checks[3] = c3 /\ checks[4] = c4 /\ checks[5] = c5 /\ checks[6] = c6 /\ checks[7] = c7
  OBVIOUS
<1> HIDE DEF checks
<1>4. \A i \in 1 .. 7 : checks[i].answer # "serves"
  BY <1>2, <1>3
<1>5. \A i \in 1 .. 7 : ~checks[i].applies
  BY <1>1, <1>3, <1>4, DecideElse
<1>6. ~c5.applies /\ ~c7.applies
  BY <1>3, <1>5
<1>7. "witness-account-key" \notin DOMAIN f
  BY <1>2, <1>6, TargetMeans
<1>8. ~Mentions(w.argv, "witness-account-key")
  BY <1>7, Parsed DEF args
<1> QED
  BY <1>2, <1>6, <1>8

\* An erasure that ends with 0 read every file, and was of one name.
LEMMA EraseKeeps ==
  ASSUME NEW w, IsArguments(w.argv), TrialErase(w.argv, w) = 0
  PROVE  ~w.unreadable /\ Mentions(w.argv, "args-hash") # Mentions(w.argv, "order-ref")
<1> DEFINE f == ParseArgs(w.argv).flags
           otherwise == IF w.unreadable THEN 1 ELSE 0
           c1 == When(("args-hash" \in DOMAIN f) = ("order-ref" \in DOMAIN f) \/ Bare(f, {"args-hash", "order-ref"}), 2)
           c2 == When(HasValue(f, "args-hash") /\ f["args-hash"] # "hash", 2)
           c3 == When(HasValue(f, "order-ref") /\ f["order-ref"] # "printable", 2)
<1>1. Decide(<<c1, c2, c3>>, otherwise) = 0
  BY DEF TrialErase
<1>2. /\ c1.answer = 2 /\ c2.answer = 2 /\ c3.answer = 2
      /\ c1.applies <=> ("args-hash" \in DOMAIN f) = ("order-ref" \in DOMAIN f) \/ Bare(f, {"args-hash", "order-ref"})
  BY DEF When
<1> HIDE DEF c1, c2, c3, f, otherwise
<1>3. 0 = IF c1.applies THEN c1.answer ELSE IF c2.applies THEN c2.answer ELSE IF c3.applies THEN c3.answer ELSE otherwise
  BY <1>1, DecideOf3
<1>4. ~c1.applies /\ otherwise = 0
  BY <1>2, <1>3
<1>5. ("args-hash" \in DOMAIN f) # ("order-ref" \in DOMAIN f)
  BY <1>2, <1>4
<1>6. ("args-hash" \in DOMAIN f <=> Mentions(w.argv, "args-hash")) /\ ("order-ref" \in DOMAIN f <=> Mentions(w.argv, "order-ref"))
  BY Parsed DEF f
<1>7. Mentions(w.argv, "args-hash") # Mentions(w.argv, "order-ref")
  BY <1>5, <1>6 DEF Mentions
<1> QED
  BY <1>4, <1>7 DEF otherwise

\* A payment check that ends with 0 had an endpoint and a payee to ask for.
LEMMA PaymentKeeps ==
  ASSUME NEW w, IsArguments(w.argv), PaymentCommand(w.argv, w) = 0
  PROVE  w.payment = 0 /\ ValuesOf(w.argv, "rpc") # {} /\ ValuesOf(w.argv, "pay-to") # {}
<1> DEFINE args == ParseArgs(w.argv)
           f == args.flags
           rpc == IF "rpc" \in DOMAIN args.multi THEN args.multi["rpc"] ELSE {}
           c1 == When(Len(args.positional) # 2 \/ args.positional[1] # "verify", 2)
           c2 == When("rpc" \notin DOMAIN args.multi \/ rpc = {} \/ ~HasValue(f, "pay-to"), 2)
           c3 == When(~w.attestation \/ Bare(f, {"receipt", "keys"}), 2)
           c4 == When(HasValue(f, "receipt") /\ ~w.receiptReads, 2)
           c5 == When(HasValue(f, "keys") /\ f["keys"] = "file" /\ ~w.keysRead, 2)
           checks == <<c1, c2, c3, c4, c5>>
<1>1. Decide(checks, w.payment) = 0
  BY DEF PaymentCommand
<1>2. /\ c1.answer = 2 /\ c2.answer = 2 /\ c3.answer = 2 /\ c4.answer = 2 /\ c5.answer = 2
      /\ c2.applies <=> "rpc" \notin DOMAIN args.multi \/ rpc = {} \/ ~HasValue(f, "pay-to")
  BY DEF When
<1> HIDE DEF c1, c2, c3, c4, c5, args
<1>3. DOMAIN checks = 1 .. 5 /\ checks[1] = c1 /\ checks[2] = c2 /\ checks[3] = c3 /\ checks[4] = c4 /\ checks[5] = c5
  OBVIOUS
<1> HIDE DEF checks
<1>4. \A i \in 1 .. 5 : checks[i].answer # 0
  BY <1>2, <1>3
<1>5. w.payment = 0 /\ \A i \in 1 .. 5 : ~checks[i].applies
  <2>1. \A i \in 1 .. 5 : checks[i].answer # Decide(checks, w.payment)
    BY <1>1, <1>4
  <2>2. Decide(checks, w.payment) = w.payment /\ \A i \in 1 .. 5 : ~checks[i].applies
    BY <1>3, <2>1, DecideFalls
  <2> QED
    BY <1>1, <2>2
<1>6. "rpc" \in DOMAIN args.multi /\ args.multi["rpc"] # {} /\ HasValue(f, "pay-to")
  BY <1>2, <1>3, <1>5
<1>7. "rpc" \notin BooleanFlags /\ "pay-to" \notin BooleanFlags
  BY DEF BooleanFlags
<1>8. args.multi["rpc"] = ValuesOf(w.argv, "rpc")
  BY <1>6, <1>7, Parsed DEF args
<1>9. EndsValued(w.argv, "pay-to")
  BY <1>6, <1>7, Parsed DEF args
<1>10. ValuesOf(w.argv, "pay-to") # {}
  BY <1>9 DEF EndsValued, ValuesOf
<1> QED
  BY <1>5, <1>6, <1>8, <1>10

\* A pack that is written was built whole, and over no file.
LEMMA PackedKeeps ==
  ASSUME NEW w, IssuerPackCommand(w.argv, w) = 0
  PROVE  w.built = 0 /\ ~w.outExists
<1> DEFINE f == ParseArgs(w.argv).flags
           c1 == When(IssuerPackUsage(f, w), 2)
           c2 == When(w.built # 0, w.built)
           c3 == When(~w.writable, 2)
<1>1. Decide(<<c1, c2, c3>>, 0) = 0
  BY DEF IssuerPackCommand
<1>2. c1.answer = 2 /\ c2.answer = w.built /\ c3.answer = 2 /\ (c1.applies <=> IssuerPackUsage(f, w)) /\ (c2.applies <=> w.built # 0)
  BY DEF When
<1> HIDE DEF c1, c2, c3, f
<1>3. 0 = IF c1.applies THEN c1.answer ELSE IF c2.applies THEN c2.answer ELSE IF c3.applies THEN c3.answer ELSE 0
  BY <1>1, DecideOf3
<1>4. ~IssuerPackUsage(f, w) /\ w.built = 0
  BY <1>2, <1>3
<1>5. ~w.outExists
  BY <1>4 DEF IssuerPackUsage
<1> QED
  BY <1>4, <1>5

----------------------------------------------------------------------------
\* The issuer pack

\* What its own copy of Checks computes is what Checks does.
LEMMA PackNames ==
  /\ \A checks, otherwise : Pack!Decide(checks, otherwise) = Decide(checks, otherwise)
  /\ \A applies, answer : Pack!When(applies, answer) = When(applies, answer)
BY DEF Pack!Decide, Decide, Pack!Min, Min, Pack!When, When

\* The instructions a pack cites are finitely many.
LEMMA CitedIsFinite ==
  ASSUME NEW p, IsSeq(p.chains), \A i \in DOMAIN p.chains : IsSeq(p.chains[i].decisions)
  PROVE  IsFiniteSet(Pack!Cited(p))
<1> DEFINE of(i) == {<<i, k>> : k \in {n \in DOMAIN p.chains[i].decisions : p.chains[i].decisions[n].picked}}
           chains == Pack!Chains(p)
           picked == Pack!Picked(p)
<1>1. IsFiniteSet(chains)
  <2>1. DOMAIN p.chains = 1 .. Len(p.chains) /\ Len(p.chains) \in Nat
    BY DEF IsSeq
  <2>2. IsFiniteSet(DOMAIN p.chains)
    BY <2>1, FS_Interval
  <2>3. chains \subseteq DOMAIN p.chains
    BY DEF Pack!Chains
  <2> QED
    BY <2>2, <2>3, FS_Subset
<1>2. \A i \in chains : IsFiniteSet(of(i))
  <2> SUFFICES ASSUME NEW i \in chains PROVE IsFiniteSet(of(i))
    OBVIOUS
  <2> DEFINE ks == {n \in DOMAIN p.chains[i].decisions : p.chains[i].decisions[n].picked}
             g == [k \in ks |-> <<i, k>>]
  <2>1. i \in DOMAIN p.chains
    BY DEF Pack!Chains
  <2>2. DOMAIN p.chains[i].decisions = 1 .. Len(p.chains[i].decisions) /\ Len(p.chains[i].decisions) \in Nat
    BY <2>1 DEF IsSeq
  <2>3. IsFiniteSet(ks)
    <3>1. IsFiniteSet(DOMAIN p.chains[i].decisions)
      BY <2>2, FS_Interval
    <3> QED
      BY <3>1, FS_Subset
  <2> HIDE DEF ks
  <2>4. g \in Surjection(ks, of(i))
    BY DEF Surjection, ks
  <2> QED
    BY <2>3, <2>4, FS_Surjection
<1> HIDE DEF of
<1>3. IsFiniteSet(picked)
  <2> DEFINE sets == {of(i) : i \in chains}
             g == [i \in chains |-> of(i)]
  <2>1. g \in Surjection(chains, sets)
    BY DEF Surjection
  <2>2. IsFiniteSet(sets)
    BY <1>1, <2>1, FS_Surjection
  <2>3. \A T \in sets : IsFiniteSet(T)
    BY <1>2
  <2>4. picked = UNION sets
    BY DEF Pack!Picked, of
  <2> HIDE DEF sets
  <2> QED
    BY <2>2, <2>3, <2>4, FS_UNION
<1> DEFINE cited == Pack!Cited(p)
           g == [d \in picked |-> Pack!Decision(p, d).instruction]
<1>4. g \in Surjection(picked, cited)
  <2>1. cited = {Pack!Decision(p, d).instruction : d \in picked}
    BY DEF Pack!Cited
  <2> HIDE DEF picked
  <2> QED
    BY <2>1 DEF Surjection
<1> QED
  BY <1>3, <1>4, FS_Surjection

\* A finite set of no more than one member holds one value.
LEMMA AtMostOne ==
  ASSUME NEW S, IsFiniteSet(S), ~(Cardinality(S) > 1)
  PROVE  \A x \in S : \A y \in S : x = y
<1> SUFFICES ASSUME NEW x \in S, NEW y \in S, x # y
             PROVE  FALSE
  OBVIOUS
<1>1. Cardinality({x}) = 1 /\ IsFiniteSet({x})
  BY FS_Singleton
<1>2. Cardinality({x} \cup {y}) = 2
  BY <1>1, FS_AddElement
<1>3. {x} \cup {y} \subseteq S
  OBVIOUS
<1>4. Cardinality({x} \cup {y}) <= Cardinality(S)
  BY <1>3, FS_Subset
<1>5. Cardinality(S) \in Nat
  BY FS_CardinalityType
<1> QED
  BY <1>2, <1>4, <1>5

\* A pack that is built is one customer's, with the arguments it was given and
\* its failures said.
LEMMA BuiltIsTrue ==
  ASSUME NEW p, IsSeq(p.chains), \A i \in DOMAIN p.chains : IsSeq(p.chains[i].decisions), Pack!BuildPack(p).exit = 0
  PROVE  LET pack == Pack!BuildPack(p) IN
         /\ \A i \in pack.chains : \A j \in pack.chains :
              \A n \in DOMAIN p.chains[i].decisions : \A m \in DOMAIN p.chains[j].decisions :
                p.chains[i].decisions[n].instruction = p.chains[j].decisions[m].instruction
         /\ \A d \in pack.decisions : Pack!Decision(p, d).args = "committed"
         /\ pack.failure \/ \A i \in pack.chains : p.chains[i].verdict = "valid"
<1> DEFINE failing == {i \in Pack!Carried(p) : Pack!Fails(p, i)}
           whole == [exit |-> 0, failure |-> failing # {}, consent |-> Pack!Cited(p) \subseteq p.consents, chains |-> Pack!Carried(p), decisions |-> Pack!Picked(p)]
           c1 == Pack!When(~Pack!InputsRead(p), Pack!Refused(2))
           c2 == Pack!When(\E i \in Pack!Chains(p) : ~p.chains[i].reads, Pack!Refused(3))
           c3 == Pack!When(Pack!Picked(p) = {}, Pack!Refused(5))
           c4 == Pack!When(Pack!Cardinality(Pack!Cited(p)) > 1, Pack!Refused(7))
           c5 == Pack!When(Pack!Shared(p), Pack!Refused(7))
           c6 == Pack!When(failing # {} /\ ~p.allowFailed, Pack!Refused(3))
           c7 == Pack!When(~(Pack!Cited(p) \subseteq p.instructions), Pack!Refused(4))
           c8 == Pack!When(~p.principal, Pack!Refused(2))
           c9 == Pack!When(~Pack!ArgumentsHeld(p), Pack!Refused(4))
           c10 == Pack!When(~(Pack!Cited(p) \subseteq p.consents) /\ ~p.consentMissingOk, Pack!Refused(6))
           c11 == Pack!When(~p.fits, Pack!Refused(2))
           checks == <<c1, c2, c3, c4, c5, c6, c7, c8, c9, c10, c11>>
           pack == Pack!BuildPack(p)
<1>1. pack = Pack!Decide(checks, whole)
  BY DEF Pack!BuildPack
<1>2. \A e : Pack!Refused(e).exit = e
  BY DEF Pack!Refused
<1>3. /\ c1.answer = Pack!Refused(2) /\ c2.answer = Pack!Refused(3) /\ c3.answer = Pack!Refused(5) /\ c4.answer = Pack!Refused(7)
      /\ c5.answer = Pack!Refused(7) /\ c6.answer = Pack!Refused(3) /\ c7.answer = Pack!Refused(4) /\ c8.answer = Pack!Refused(2)
      /\ c9.answer = Pack!Refused(4) /\ c10.answer = Pack!Refused(6) /\ c11.answer = Pack!Refused(2)
  BY DEF Pack!When
<1>4. /\ c4.applies <=> Pack!Cardinality(Pack!Cited(p)) > 1
      /\ c5.applies <=> Pack!Shared(p)
      /\ c9.applies <=> ~Pack!ArgumentsHeld(p)
  BY DEF Pack!When
<1>5. whole.chains = Pack!Carried(p) /\ whole.decisions = Pack!Picked(p) /\ (whole.failure <=> failing # {})
  OBVIOUS
<1> HIDE DEF c1, c2, c3, c4, c5, c6, c7, c8, c9, c10, c11, whole, pack
<1>6. /\ DOMAIN checks = 1 .. 11 /\ checks[1] = c1 /\ checks[2] = c2 /\ checks[3] = c3 /\ checks[4] = c4 /\ checks[5] = c5 /\ checks[6] = c6
      /\ checks[7] = c7 /\ checks[8] = c8 /\ checks[9] = c9 /\ checks[10] = c10 /\ checks[11] = c11
  OBVIOUS
<1> HIDE DEF checks
<1>7. \A i \in 1 .. 11 : checks[i].answer.exit # 0
  BY <1>2, <1>3, <1>6
<1>8. pack = whole /\ \A i \in 1 .. 11 : ~checks[i].applies
  <2>1. pack = Decide(checks, whole)
    BY <1>1, PackNames
  <2>2. \A i \in 1 .. 11 : checks[i].answer # pack
    BY <1>7 DEF pack
  <2>3. \A i \in 1 .. 11 : checks[i].answer # Decide(checks, whole)
    BY <2>1, <2>2
  <2>4. Decide(checks, whole) = whole /\ \A i \in 1 .. 11 : ~checks[i].applies
    BY <1>6, <2>3, DecideFalls
  <2> QED
    BY <2>1, <2>4
<1>9. ~(Pack!Cardinality(Pack!Cited(p)) > 1) /\ ~Pack!Shared(p) /\ Pack!ArgumentsHeld(p)
  BY <1>4, <1>6, <1>8
<1>10. \A x \in Pack!Cited(p) : \A y \in Pack!Cited(p) : x = y
  <2>1. Pack!Cardinality(Pack!Cited(p)) = Cardinality(Pack!Cited(p))
    BY DEF Pack!Cardinality, Cardinality, Pack!IsFiniteSet, IsFiniteSet
  <2> QED
    BY <1>9, <2>1, CitedIsFinite, AtMostOne
<1>11. \A i \in pack.chains : \A n \in DOMAIN p.chains[i].decisions : p.chains[i].decisions[n].instruction \in Pack!Cited(p)
  BY <1>5, <1>8, <1>9 DEF Pack!Shared
<1>12. \A d \in pack.decisions : Pack!Decision(p, d).args = "committed"
  BY <1>5, <1>8, <1>9 DEF Pack!ArgumentsHeld
<1>13. pack.failure \/ \A i \in pack.chains : p.chains[i].verdict = "valid"
  BY <1>5, <1>8 DEF Pack!Fails
<1> QED
  BY <1>10, <1>11, <1>12, <1>13 DEF pack

\* A pack that checks is as it was signed.
LEMMA CheckedIsUnchanged ==
  ASSUME NEW z, Pack!CheckPack(z) = 0
  PROVE  z.wrong = {} /\ z.signed /\ \A i \in DOMAIN z.chains : z.chains[i].verdict = "valid"
BY DEF Pack!CheckPack

----------------------------------------------------------------------------
\* The release gate

\* What its own copy of Checks computes is what Checks does.
LEMMA GateNames ==
  /\ \A checks, otherwise : Gate!Decide(checks, otherwise) = Decide(checks, otherwise)
  /\ \A applies, answer : Gate!When(applies, answer) = When(applies, answer)
  /\ \A checks : Gate!Report(checks) = Report(checks)
  /\ \A report, status : Gate!Lines(report, status) = Lines(report, status)
  /\ \A id, needs, status : Gate!Check(id, needs, status) = [id |-> id, needs |-> needs, status |-> status]
<1>1. \A checks, otherwise : Gate!Decide(checks, otherwise) = Decide(checks, otherwise)
  BY DEF Gate!Decide, Decide, Gate!Min, Min
<1>2. \A checks : Gate!Report(checks) = Report(checks)
  BY DEF Gate!Report, Report, Gate!LineOf, LineOf
<1> QED
  BY <1>1, <1>2 DEF Gate!Lines, Lines, Gate!Check, Gate!When, When

\* A pack gate that passes has passed every check it makes.
LEMMA PackGatePasses ==
  ASSUME NEW g, Gate!PackGate(g) = 0
  PROVE  LET a == g.artifact IN
         /\ a.version = (IF g.expect = None THEN g.declared ELSE g.expect)
         /\ Gate!RequiredSurface \subseteq a.surface /\ a.agent = a.version /\ a.forbidden = {}
<1> DEFINE a == g.artifact
           k1 == Gate!Check("INSTALL", {}, "PASS")
           k2 == Gate!Check("VERSION", {}, Gate!PassIf(a.version = IF g.expect = None THEN g.declared ELSE g.expect))
           k3 == Gate!Check("PROD-GRAPH", {}, Gate!PassIf(a.installed <= 8))
           k4 == Gate!Check("FILES", {}, Gate!PassIf(Gate!RequiredFiles \subseteq a.files))
           k5 == Gate!Check("BOOT", {}, Gate!PassIf(a.boot = 2))
           k6 == Gate!Check("SURFACE", {}, Gate!PassIf(Gate!RequiredSurface \subseteq a.surface))
           k7 == Gate!Check("AGENT-VERSION", {}, Gate!PassIf(a.agent = a.version))
           k8 == Gate!Check("CORPUS", {}, Gate!PassIf(a.vectors))
           k9 == Gate!Check("CLI/E2E", {}, Gate!PassIf(a.identity # "none" /\ a.exported = a.identity))
           k10 == Gate!Check("EXPORTS", {}, Gate!PassIf(a.exports))
           k11 == Gate!Check("PACKED-PATHS", {}, Gate!PassIf(a.forbidden = {}))
           k12 == Gate!Check("CR", {}, Gate!PassIf(~a.cr))
           checks == <<k1, k2, k3, k4, k5, k6, k7, k8, k9, k10, k11, k12>>
<1>1. Gate!Lines(Gate!Report(checks), "FAIL") = {}
  BY DEF Gate!PackGate, Gate!PackReport
<1>2. /\ k1.needs = {} /\ k2.needs = {} /\ k3.needs = {} /\ k4.needs = {} /\ k5.needs = {} /\ k6.needs = {} /\ k7.needs = {}
      /\ k8.needs = {} /\ k9.needs = {} /\ k10.needs = {} /\ k11.needs = {} /\ k12.needs = {}
  BY DEF Gate!Check
<1>3. /\ k2.status = Gate!PassIf(a.version = IF g.expect = None THEN g.declared ELSE g.expect)
      /\ k6.status = Gate!PassIf(Gate!RequiredSurface \subseteq a.surface)
      /\ k7.status = Gate!PassIf(a.agent = a.version)
      /\ k11.status = Gate!PassIf(a.forbidden = {})
  BY DEF Gate!Check
<1> HIDE DEF k1, k2, k3, k4, k5, k6, k7, k8, k9, k10, k11, k12
<1>4. /\ Len(checks) = 12 /\ DOMAIN checks = 1 .. 12
      /\ checks[1] = k1 /\ checks[2] = k2 /\ checks[3] = k3 /\ checks[4] = k4 /\ checks[5] = k5 /\ checks[6] = k6
      /\ checks[7] = k7 /\ checks[8] = k8 /\ checks[9] = k9 /\ checks[10] = k10 /\ checks[11] = k11 /\ checks[12] = k12
  OBVIOUS
<1>5. checks = [i \in 1 .. Len(checks) |-> checks[i]]
  OBVIOUS
<1> HIDE DEF checks
<1>6. IsSeq(checks)
  BY <1>4, <1>5 DEF IsSeq
<1>7. InOrder({}, checks)
  <2>1. \A n \in 1 .. 12 : checks[n].needs = {}
    BY <1>2, <1>4
  <2> QED
    BY <1>4, <2>1 DEF InOrder
<1>8. Lines(Report(checks), "FAIL") = {}
  BY <1>1, GateNames
<1>9. \A c \in Items(checks) : c.status # "FAIL"
  BY <1>6, <1>7, <1>8, CleanReport
<1>10. k2 \in Items(checks) /\ k6 \in Items(checks) /\ k7 \in Items(checks) /\ k11 \in Items(checks)
  <2>1. checks[2] \in Items(checks) /\ checks[6] \in Items(checks) /\ checks[7] \in Items(checks) /\ checks[11] \in Items(checks)
    BY <1>4 DEF Items
  <2> QED
    BY <1>4, <2>1
<1>11. \A holds : Gate!PassIf(holds) # "FAIL" => holds
  BY DEF Gate!PassIf
<1> QED
  BY <1>3, <1>9, <1>10, <1>11

\* What a poll that is not put off says, and one that is.
LEMMA PollMeans ==
  ASSUME NEW answer
  PROVE  /\ Gate!Poll(answer) \notin {"pending", "error", "fail"} =>
              /\ answer.total = Cardinality(answer.rows)
              /\ \A e \in Gate!Expected : \E r \in answer.rows : r.name = e
              /\ \A r \in answer.rows : r.status = "completed" /\ r.conclusion = "success" /\ r.commit # "other"
         /\ Gate!Poll(answer) = "pending" /\ answer.json /\ answer.http = 200 =>
              \A r \in answer.rows : r.status = "completed" => r.conclusion = "success"
<1> DEFINE judged == Gate!Judge(answer)
           rows == answer.rows
           c1 == When(~answer.shape \/ answer.total # Gate!Cardinality(rows), "error")
           c2 == When(\E r \in rows : r.commit = "other", "fail")
           c3 == When(\E r \in rows : r.status = "completed" /\ r.conclusion # "success", "fail")
           c4 == When(rows = {} \/ (\E n \in Gate!Expected : \A r \in rows : r.name # n)
                      \/ (\E r \in rows : r.status # "completed"), "pending")
           p1 == When(answer.http \in {401, 403, 429}, "fail")
           p2 == When(answer.http # 200 \/ ~answer.json, "pending")
<1>1. judged = Decide(<<c1, c2, c3, c4>>, "pass") /\ Gate!Poll(answer) = Decide(<<p1, p2>>, judged)
  BY GateNames DEF Gate!Judge, Gate!Poll
<1>2. /\ c1.answer = "error" /\ c2.answer = "fail" /\ c3.answer = "fail" /\ c4.answer = "pending"
      /\ p1.answer = "fail" /\ p2.answer = "pending"
  BY DEF When
<1>3. /\ c1.applies <=> ~answer.shape \/ answer.total # Gate!Cardinality(rows)
      /\ c2.applies <=> \E r \in rows : r.commit = "other"
      /\ c3.applies <=> \E r \in rows : r.status = "completed" /\ r.conclusion # "success"
      /\ c4.applies <=> rows = {} \/ (\E n \in Gate!Expected : \A r \in rows : r.name # n) \/ (\E r \in rows : r.status # "completed")
      /\ p1.applies <=> answer.http \in {401, 403, 429}
      /\ p2.applies <=> answer.http # 200 \/ ~answer.json
  BY DEF When
<1>0. Gate!Cardinality(rows) = Cardinality(rows)
  BY DEF Gate!Cardinality, Cardinality, Gate!IsFiniteSet, IsFiniteSet
<1> HIDE DEF c1, c2, c3, c4, p1, p2, judged
<1>4. /\ judged = IF c1.applies THEN c1.answer ELSE IF c2.applies THEN c2.answer ELSE IF c3.applies THEN c3.answer ELSE
                  IF c4.applies THEN c4.answer ELSE "pass"
      /\ Gate!Poll(answer) = IF p1.applies THEN p1.answer ELSE IF p2.applies THEN p2.answer ELSE judged
  BY <1>1, DecideOf4, DecideOf2
<1>5. ASSUME Gate!Poll(answer) \notin {"pending", "error", "fail"}
      PROVE  /\ answer.total = Cardinality(rows)
             /\ \A e \in Gate!Expected : \E r \in rows : r.name = e
             /\ \A r \in rows : r.status = "completed" /\ r.conclusion = "success" /\ r.commit # "other"
  <2>1. judged \notin {"pending", "error", "fail"}
    BY <1>2, <1>4, <1>5
  <2>2. ~c1.applies /\ ~c2.applies /\ ~c3.applies /\ ~c4.applies
    BY <1>2, <1>4, <2>1
  <2> QED
    BY <1>0, <1>3, <2>2
<1>6. ASSUME Gate!Poll(answer) = "pending", answer.json, answer.http = 200
      PROVE  \A r \in rows : r.status = "completed" => r.conclusion = "success"
  <2>1. ~p1.applies /\ ~p2.applies
    BY <1>3, <1>6
  <2>2. judged = "pending"
    BY <1>4, <1>6, <2>1
  <2>3. ~c3.applies
    BY <1>2, <1>4, <2>2
  <2> QED
    BY <1>3, <2>3
<1> QED
  BY <1>5, <1>6

\* A release that the wait for CI lets through.
LEMMA CiPasses ==
  ASSUME NEW g, g.maxPolls \in Nat, Gate!RequireCi(g) = 0
  PROVE  /\ g.tag = "sha" /\ ~g.noTagCheck
         /\ \E n \in 1 .. g.maxPolls :
              LET rows == g.answers[n].rows IN
              /\ g.answers[n].total = Cardinality(rows)
              /\ \A e \in Gate!Expected : \E r \in rows : r.name = e
              /\ \A r \in rows : r.status = "completed" /\ r.conclusion = "success" /\ r.commit # "other"
              /\ \A m \in 1..(n - 1) : g.answers[m].json /\ g.answers[m].http = 200 => \A r \in g.answers[m].rows : r.status = "completed" => r.conclusion = "success"
<1> DEFINE deciding == {n \in 1..g.maxPolls : Gate!Poll(g.answers[n]) # "pending"}
           first == Gate!Min(deciding)
           verdict == IF deciding = {} THEN "fail" ELSE Gate!Poll(g.answers[first])
           c1 == When(~g.harness, 2)
           c2 == When(~g.noTagCheck /\ g.tag # "sha", 1)
           c3 == When(verdict = "error", 2)
           c4 == When(verdict = "fail" \/ g.noTagCheck, 1)
<1>1. Decide(<<c1, c2, c3, c4>>, 0) = 0
  BY GateNames DEF Gate!RequireCi
<1>2. c1.answer = 2 /\ c2.answer = 1 /\ c3.answer = 2 /\ c4.answer = 1
  BY DEF When
<1>3. /\ c2.applies <=> ~g.noTagCheck /\ g.tag # "sha"
      /\ c3.applies <=> verdict = "error"
      /\ c4.applies <=> verdict = "fail" \/ g.noTagCheck
  BY DEF When
<1> HIDE DEF c1, c2, c3, c4, verdict
<1>4. 0 = IF c1.applies THEN c1.answer ELSE IF c2.applies THEN c2.answer ELSE IF c3.applies THEN c3.answer ELSE
          IF c4.applies THEN c4.answer ELSE 0
  BY <1>1, DecideOf4
<1>5. ~c2.applies /\ ~c3.applies /\ ~c4.applies
  BY <1>2, <1>4
<1>6. g.tag = "sha" /\ ~g.noTagCheck /\ verdict \notin {"error", "fail"}
  BY <1>3, <1>5
<1>7. deciding # {} /\ verdict = Gate!Poll(g.answers[first])
  BY <1>6 DEF verdict
<1>8. first \in deciding /\ \A n \in deciding : first <= n
  <2>1. first = Min(deciding)
    BY DEF Gate!Min, Min
  <2>2. deciding \in SUBSET Nat
    OBVIOUS
  <2> HIDE DEF deciding
  <2> QED
    BY <1>7, <2>1, <2>2, MinIsLeast
<1> HIDE DEF first
<1>9. first \in 1 .. g.maxPolls /\ Gate!Poll(g.answers[first]) \notin {"pending", "error", "fail"}
  BY <1>6, <1>7, <1>8
<1>10. \A m \in 1 .. (first - 1) : Gate!Poll(g.answers[m]) = "pending"
  <2> SUFFICES ASSUME NEW m \in 1 .. (first - 1), Gate!Poll(g.answers[m]) # "pending" PROVE FALSE
    OBVIOUS
  <2>1. m \in 1 .. g.maxPolls /\ ~(first <= m)
    BY <1>9
  <2> QED
    BY <1>8, <2>1
<1> HIDE DEF deciding
<1>11. /\ g.answers[first].total = Cardinality(g.answers[first].rows)
       /\ \A e \in Gate!Expected : \E r \in g.answers[first].rows : r.name = e
       /\ \A r \in g.answers[first].rows : r.status = "completed" /\ r.conclusion = "success" /\ r.commit # "other"
  BY <1>9, PollMeans
<1>12. \A m \in 1..(first - 1) : g.answers[m].json /\ g.answers[m].http = 200 => \A r \in g.answers[m].rows : r.status = "completed" => r.conclusion = "success"
  BY <1>10, PollMeans
<1> QED
  BY <1>6, <1>9, <1>11, <1>12

\* A release that passes is green.
LEMMA AlwaysGreen ==
  ASSUME NEW g, g.maxPolls \in Nat
  PROVE  Gate!ReleaseIsGreen(g)
<1> SUFFICES ASSUME Gate!GateExit(g) = 0
             PROVE  IF g.commit = None
                    THEN LET a == g.artifact IN
                         (g.expect = None => a.version = g.declared) /\ a.agent = a.version /\ Gate!RequiredSurface \subseteq a.surface /\ a.forbidden = {}
                    ELSE /\ g.tag = "sha" /\ ~g.noTagCheck
                         /\ \E n \in 1..g.maxPolls :
                              LET rows == g.answers[n].rows IN
                              /\ g.answers[n].total = Cardinality(rows)
                              /\ \A e \in Gate!Expected : \E r \in rows : r.name = e
                              /\ \A r \in rows : r.status = "completed" /\ r.conclusion = "success" /\ r.commit # "other"
                              /\ \A m \in 1..(n - 1) : g.answers[m].json /\ g.answers[m].http = 200 => \A r \in g.answers[m].rows : r.status = "completed" => r.conclusion = "success"
  <2>1. \A S : Gate!Cardinality(S) = Cardinality(S)
    BY DEF Gate!Cardinality, Cardinality, Gate!IsFiniteSet, IsFiniteSet
  <2> QED
    BY <2>1 DEF Gate!ReleaseIsGreen
<1>1. CASE g.commit = None
  <2>1. Gate!PackGate(g) = 0
    BY <1>1 DEF Gate!GateExit
  <2> QED
    BY <1>1, <2>1, PackGatePasses
<1>2. CASE g.commit # None
  <2>1. Gate!RequireCi(g) = 0
    BY <1>2 DEF Gate!GateExit
  <2> QED
    BY <1>2, <2>1, CiPasses
<1> QED
  BY <1>1, <1>2

----------------------------------------------------------------------------
\* The cases

\* An altered case is still one the verdicts are about: every case and every
\* alternative is.
LEMMA FactsAreTypedHolds == Spec => []FactsAreTyped
<1>1. Init => FactsAreTyped
  BY VerdictsAssumption DEF Init, FactsAreTyped
<1>2. FactsAreTyped /\ [Alter]_vars => FactsAreTyped'
  <2> SUFFICES ASSUME FactsAreTyped, [Alter]_vars
               PROVE  FactsAreTyped'
    OBVIOUS
  <2>1. CASE Alter
    <3>0. PICK f \in DOMAIN Alternatives[program] :
             \E v \in Alternatives[program][f] : facts' = [facts EXCEPT ![f] = v] /\ program' = program
      BY <2>1 DEF Alter
    <3>1. PICK value \in Alternatives[program][f] : facts' = [facts EXCEPT ![f] = value] /\ program' = program
      BY <3>0
    <3>2. FieldHolds(program, f, value)
      BY <3>1, VerdictsAssumption DEF FactsAreTyped
    <3>3. DOMAIN facts' = DOMAIN facts /\ \A g \in DOMAIN facts : facts'[g] = IF g = f THEN value ELSE facts[g]
      BY <3>1
    <3> QED
      BY <3>1, <3>2, <3>3 DEF FactsAreTyped
  <2>2. CASE UNCHANGED vars
    BY <2>2 DEF vars, FactsAreTyped
  <2> QED
    BY <2>1, <2>2
<1> QED
  BY <1>1, <1>2, PTL DEF Spec

\* For every bundle: what a verdict says was recorded before the charge was,
\* none says that a payment verifies without the chain's own answer, and a
\* payment that binds was signed by the stated account (verify.mjs).
THEOREM BundleVerdictAlwaysHolds == Spec => []BundleVerdictHolds
<1>1. FactsAreTyped => BundleVerdictHolds
  <2> SUFFICES ASSUME FactsAreTyped, program = "bundle"
               PROVE  BundleVerdictHolds
    BY DEF BundleVerdictHolds
  <2>1. BundleOk(facts)
    BY DEF FactsAreTyped, FieldsOf, FieldHolds, BundleOk
  <2> QED
    BY <2>1, BundleVerdictEarned DEF BundleVerdictHolds
<1> QED
  BY <1>1, FactsAreTypedHolds, PTL

\* For every case: the ordering checker exits 0 only when two endpoints show
\* the transaction alike and finalized, the stated signer signed the entry's
\* hash, the entry stands behind its source in the log, and the witness's list
\* has no other history of it (check.mjs).
THEOREM OrderingVerdictAlwaysHolds == Spec => []OrderingVerdictHolds
<1>1. FactsAreTyped => OrderingVerdictHolds
  <2> SUFFICES ASSUME FactsAreTyped, program = "ordering", Order!CheckExit(facts.arguments, facts) = 0
               PROVE  Order!OrderingShown(facts)
    BY DEF OrderingVerdictHolds
  <2>1. \A f \in Order!OrderFields : Order!OrderField(f, facts[f])
    BY DEF FactsAreTyped, FieldsOf, FieldHolds
  <2> QED
    BY <2>1, CheckExitIsEarned
<1> QED
  BY <1>1, FactsAreTypedHolds, PTL

\* For every case: a payment is verified or contradicted only as the honest
\* node tells it, one process judges one kid by one key through any rotation, a
\* receipt commits to one amount and one settlement, and the two verifiers of a
\* log agree on it (payment.ts, jwks.ts, payment-ref.ts, records.mjs).
THEOREM OneSourceNeverDecidesHolds == Spec => []OneSourceNeverDecides
<1>1. FactsAreTyped => OneSourceNeverDecides
  <2> SUFFICES ASSUME FactsAreTyped
               PROVE  OneSourceNeverDecides
    OBVIOUS
  <2>1. ASSUME program = "payment" PROVE VerifiedIsTrue(facts)
    <3>1. IsSeq(facts.nodes)
      BY <2>1 DEF FactsAreTyped, FieldsOf, FieldHolds
    <3> QED
      BY <3>1, VerifiedPaymentIsTrue
  <2>2. ASSUME program = "jwks" PROVE OneKeyPerKid(facts)
    <3>1. IsSeq(facts.served) /\ \A i \in DOMAIN facts.served : IsVisit(facts.served[i])
      BY <2>2 DEF FactsAreTyped, FieldsOf, FieldHolds
    <3> QED
      BY <3>1, AlwaysOneKeyPerKid
  <2>3. ASSUME program = "log" PROVE VerifiersAgree(facts)
    <3>1. IsSeq(facts.lines) /\ \A i \in DOMAIN facts.lines : facts.lines[i].kind \in {"record", "checkpoint", "garbage"}
      BY <2>3 DEF FactsAreTyped, FieldsOf, FieldHolds
    <3> QED
      BY <3>1, VerifiersAlwaysAgree
  <2> QED
    BY <2>1, <2>2, <2>3, AlwaysCommitsToOnePayment DEF OneSourceNeverDecides
<1> QED
  BY <1>1, FactsAreTypedHolds, PTL

\* For every case: what the purchase check allows lies inside its instruction
\* and is bound by the evidence verifier, no mapping widens an approval, what
\* the recorder takes is safe to keep, and no server acts for a caller without
\* the token (limits.ts, m6.ts, instructions.mjs, mappers.ts, rules.ts, http.ts).
THEOREM AcceptedIsWithinTheRulesHolds == Spec => []AcceptedIsWithinTheRules
<1>1. FactsAreTyped => AcceptedIsWithinTheRules
  <2> SUFFICES ASSUME FactsAreTyped
               PROVE  AcceptedIsWithinTheRules
    OBVIOUS
  <2>1. ASSUME program = "purchase", Allows(facts) PROVE WithinInstruction(facts)
    <3>1. \A f \in PurchaseFields : PurchaseField(f, facts[f])
      BY <2>1 DEF FactsAreTyped, FieldsOf, FieldHolds
    <3> QED
      BY <2>1, <3>1, AllowedIsInside
  <2>2. ASSUME program = "instruction" PROVE RefusesMoreNeverLess(facts)
    <3>1. \A f \in InstructionFields : InstructionField(f, facts[f])
      BY <2>2 DEF FactsAreTyped, FieldsOf, FieldHolds
    <3> QED
      BY <3>1, ReadersAgree
  <2>3. ASSUME program = "mapper" PROVE NeverWidens(facts)
    <3>1. \A f \in ApprovalFields : ApprovalField(f, facts[f])
      BY <2>3 DEF FactsAreTyped, FieldsOf, FieldHolds
    <3> QED
      BY <3>1, NothingIsWidened
  <2>4. ASSUME program = "input", CheckRecordInput(facts) = "ok" PROVE SafeToKeep(facts)
    <3>1. facts.size \in {"within", "over"}
      BY <2>4 DEF FactsAreTyped, FieldsOf, FieldHolds
    <3> QED
      BY <2>4, <3>1, TakenIsSafe
  <2>5. ASSUME program \in {"trial-http", "purchase-http"} PROVE CallIsDue(facts)
    <3>1. facts.server \in {"trial", "purchase"} /\ facts.result \in Results(facts.server)
      BY <2>5 DEF FactsAreTyped, FieldsOf, FieldHolds, HttpField
    <3> QED
      BY <3>1, EveryCallIsDue
  <2> QED
    BY <2>1, <2>2, <2>3, <2>4, <2>5 DEF AcceptedIsWithinTheRules
<1> QED
  BY <1>1, FactsAreTypedHolds, PTL

\* For every line of arguments and every chain: verify exits 0 only when every
\* record holds under the key of the first source there is, that key is among
\* the pins, payments name what they bought, and a pinned witness has receipts
\* of this very history (cli.ts, verify.ts, witness.ts).
THEOREM VerifyEarnsItsZeroHolds == Spec => []VerifyEarnsItsZero
<1>1. FactsAreTyped => VerifyEarnsItsZero
  <2> SUFFICES ASSUME FactsAreTyped, program = "verify", VerifyCommand(facts.argv, facts) = 0
               PROVE  VerifyEarnsItsZero
    BY DEF VerifyEarnsItsZero
  <2>1. {"argv", "lines", "pages"} \subseteq DOMAIN facts
    BY DEF FactsAreTyped, FieldsOf
  <2>2. IsArguments(facts.argv) /\ IsSeq(facts.lines) /\ IsSeq(facts.pages)
    BY <2>1 DEF FactsAreTyped, FieldHolds
  <2> QED
    BY <2>2, VerifyIsEarned DEF VerifyEarnsItsZero
<1> QED
  BY <1>1, FactsAreTypedHolds, PTL

\* For every line of arguments and every world a command may find: a head is
\* signed only over a chain that holds, a lock outlives its command only while
\* it serves, and a pack, an erasure, a payment check and a release end with 0
\* only when what they say is so (cli.ts, pack.ts, release-gate.mjs).
THEOREM CommandsKeepTheirWordHolds == Spec => []CommandsKeepTheirWord
<1>1. FactsAreTyped => CommandsKeepTheirWord
  <2> SUFFICES ASSUME FactsAreTyped
               PROVE  CommandsKeepTheirWord
    OBVIOUS
  <2>1. ASSUME program \in {"checkpoint", "daemon", "proxy", "erase", "pay", "packed"}
        PROVE  IsArguments(facts.argv)
    <3>1. "argv" \in DOMAIN facts
      BY <2>1 DEF FactsAreTyped, FieldsOf
    <3> QED
      BY <3>1 DEF FactsAreTyped, FieldHolds
  <2>2. ASSUME program = "pack"
        PROVE  Pack!PackIsTrue(facts, [Pack!Members(facts) EXCEPT !.wrong = facts.wrong, !.signed = facts.signed, !.reads = facts.zip])
    <3> DEFINE z == [Pack!Members(facts) EXCEPT !.wrong = facts.wrong, !.signed = facts.signed, !.reads = facts.zip]
    <3>1. "chains" \in DOMAIN facts
      BY <2>2 DEF FactsAreTyped, FieldsOf
    <3>2. IsSeq(facts.chains) /\ \A i \in DOMAIN facts.chains : IsSeq(facts.chains[i].decisions)
      BY <2>2, <3>1 DEF FactsAreTyped, FieldHolds
    <3> HIDE DEF z
    <3>3. Pack!PackIsTrue(facts, z)
      BY <3>2, BuiltIsTrue, CheckedIsUnchanged DEF Pack!PackIsTrue
    <3> QED
      BY <3>3 DEF z
  <2>3. ASSUME program = "release"
        PROVE  Gate!ReleaseIsGreen(facts)
    <3>1. "maxPolls" \in DOMAIN facts
      BY <2>3 DEF FactsAreTyped, FieldsOf
    <3>2. facts.maxPolls \in Nat
      BY <2>3, <3>1 DEF FactsAreTyped, FieldHolds
    <3> QED
      BY <3>2, AlwaysGreen
  <2>4. CASE program = "checkpoint"
    BY <2>1, <2>4, CheckpointKeeps DEF CommandsKeepTheirWord
  <2>5. CASE program = "daemon"
    BY <2>1, <2>5, DaemonKeeps DEF CommandsKeepTheirWord
  <2>6. CASE program = "proxy"
    BY <2>1, <2>6, ProxyKeeps DEF CommandsKeepTheirWord
  <2>7. CASE program = "erase"
    BY <2>1, <2>7, EraseKeeps DEF CommandsKeepTheirWord
  <2>8. CASE program = "pay"
    BY <2>1, <2>8, PaymentKeeps DEF CommandsKeepTheirWord
  <2>9. CASE program = "packed"
    BY <2>1, <2>9, PackedKeeps DEF CommandsKeepTheirWord
  <2>10. CASE program = "pack"
    BY <2>2, <2>10 DEF CommandsKeepTheirWord
  <2>11. CASE program = "release"
    BY <2>3, <2>11 DEF CommandsKeepTheirWord
  <2>12. CASE program \notin {"checkpoint", "daemon", "proxy", "erase", "pay", "packed", "pack", "release"}
    BY <2>12 DEF CommandsKeepTheirWord
  <2> QED
    BY <2>4, <2>5, <2>6, <2>7, <2>8, <2>9, <2>10, <2>11, <2>12
<1> QED
  BY <1>1, FactsAreTypedHolds, PTL
=============================================================================
