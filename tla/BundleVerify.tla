---------------------------- MODULE BundleVerify ----------------------------
(***************************************************************************)
(* The offline verifier of evidence bundles, examples/evidence-bundle/lib/   *)
(* verify.mjs: which checks run and in which order, the bindings and the     *)
(* verdict.                                                                  *)
(*                                                                          *)
(* A bundle `b` is what its members show and what the caller stated.  The    *)
(* head of a log prefix is "log" when it is the log's own entry hash and     *)
(* "other" when it is not; accounts are "payer", who signed the              *)
(* authorization, and "sender", who sent the transaction.                    *)
(***************************************************************************)
EXTENDS Integers, FiniteSets, Checks

CONSTANT None

\* What is asked of a bundle for a verdict to be worth what it says: counts and
\* times are integers, and a payment is read one of three ways.
BundleFields == {"records", "charge", "receipts", "list", "pay"}
BundleField(f, value) ==
  /\ f = "records" => value \in Int
  /\ f = "charge" => value = None \/ value \in Int
  /\ f = "receipts" => \A x \in value : x.count \in Int /\ x.at \in Int
  /\ f = "list" => \A x \in value.receipts : x.count \in Int /\ x.at \in Int
  /\ f = "pay" =>
       /\ value.path \in {"eip3009", "calldata", "unread"} /\ value.code \in {"none", "shown", "unread"}
       /\ value.carrier \in IF value.path = "calldata" THEN {"none", "calldata"} ELSE {"none", "calldata", "eip3009-nonce"}

Row(id, status) == [id |-> id, status |-> status]
PassIf(holds) == IF holds THEN "PASS" ELSE "FAIL"
FirstFail(rows) ==
  LET failing == {i \in DOMAIN rows : rows[i].status = "FAIL"} IN IF failing = {} THEN "none" ELSE rows[Min(failing)].id

\* A pointer whose fetch failed or whose bytes do not match stops everything.
Stopped(b) == b.pointer \in {"mismatch", "unfetchable"}
Charged(b) == b.card /\ b.charge # None

\* The checks before a member is read.
FirstRows(b) ==
  <<Row("S2.tx", CASE b.card \/ b.txStated = "none" \/ Stopped(b) \/ ~b.readable -> "NE" [] OTHER -> PassIf(b.txStated = "subject")),
    Row("P1.pointer", CASE b.pointer = "unfetchable" -> "NE" [] OTHER -> PassIf(b.pointer # "mismatch")),
    Row("M0.bundle", IF Stopped(b) THEN "NE" ELSE PassIf(b.readable)),
    Row("M1.member", IF Stopped(b) \/ ~b.readable THEN "NE" ELSE PassIf(b.whole))>>

\* M3 of one checkpoint: its signature and where its count stands in the log.
CheckpointSig(c) == IF ~c.shape \/ ~c.keyed THEN "NE" ELSE PassIf(c.signed)
CheckpointHistory(b, c) ==
  IF ~c.shape \/ b.log = "FAIL" THEN "NE" ELSE PassIf(c.count > b.records \/ c.head = "log")
CheckpointOk(b, c) == CheckpointSig(c) = "PASS" /\ CheckpointHistory(b, c) = "PASS"

\* M4 of one receipt, carried or listed: the pinned key, or one that is carried.
ReceiptStatus(x) ==
  Decide(<<When(~x.shape, "FAIL"), When(x.key = "unknown", "NE")>>, PassIf(x.signed))

\* P2.entry, listed behind P1.pointer: the cited record is the stated entry.
EntryRow(b) ==
  Row("P2.entry", IF b.pointer = "none" \/ b.log # "PASS" THEN "NE" ELSE PassIf(b.entry = "cited"))

\* The checks of the members, in the order they are made: what is recorded and
\* witnessed, then what is shown of the payment and its mandate.  `failing`
\* holds the checks of the second part that fail.
Worst(statuses) == IF "FAIL" \in statuses THEN "FAIL" ELSE "PASS"
RecordRows(b) ==
  <<EntryRow(b), Row("M2.log", b.log), Row("M2.prefix", PassIf(b.copy # "fork")),
    Row("M3.checkpoint", Worst({PassIf(c.shape) : c \in b.checkpoints})),
    Row("M3.signature", Worst({CheckpointSig(c) : c \in b.checkpoints})),
    Row("M3.history", Worst({CheckpointHistory(b, c) : c \in b.checkpoints})),
    Row("M4.witness-receipt", Worst({ReceiptStatus(x) : x \in b.receipts}))>>
MandateRows(b) ==
  <<Row("M5.payment", PassIf("M5.payment" \notin b.failing)), Row("M6.instruction", PassIf("M6.instruction" \notin b.failing)),
    Row("M7.receipt", PassIf("M7.receipt" \notin b.failing)), Row("M8.order", PassIf(b.order # "bad")),
    Row("M9.keys", PassIf("M9.keys" \notin b.failing))>>
MemberRows(b) == RecordRows(b) \o MandateRows(b)

\* The first check that fails stops the run: in the first stage before the
\* declared shape is looked at, in the second before the decoded one.
FailAt(b) ==
  Decide(<<When(Stopped(b), "P1.pointer"), When(~b.readable, "M0.bundle"),
           When(FirstFail(FirstRows(b)) # "none", FirstFail(FirstRows(b)))>>, FirstFail(MemberRows(b)))
Refused(b) ==
  /\ ~Stopped(b) /\ b.readable /\ FirstFail(FirstRows(b)) = "none"
  /\ ~b.declared \/ (FirstFail(MemberRows(b)) = "none" /\ (~b.decoded \/ (b.online /\ b.card /\ b.keyDocument)))

----------------------------------------------------------------------------
\* The bindings

State(state, reason) == [state |-> state, reason |-> reason]
Is(state) == State(state, "none")

BLog(b) ==
  Decide(<<When(Stopped(b) \/ ~b.readable \/ FirstFail(FirstRows(b)) # "none", State("NOT-EVALUATED", "prerequisite-failed")),
           When(b.log = "PASS" /\ b.seq < b.records, Is("BOUND")),
           When(b.log = "NE", State("NOT-EVALUATED", "legacy-kid"))>>, Is("FAIL"))

\* Whether a checkpoint or a receipt is of a prefix that holds the cited record.
Covers(b, x) == x.count > b.seq /\ x.count <= b.records /\ x.head = "log"

BCkp(b) ==
  LET mine == {c \in b.checkpoints : c.shape} IN
  Decide(<<When(\E c \in mine : CheckpointSig(c) = "FAIL" \/ CheckpointHistory(b, c) = "FAIL", Is("FAIL")),
           When(\E c \in mine : CheckpointOk(b, c) /\ c.count > b.records, Is("TRUNCATED")),
           When(\E c \in mine : CheckpointOk(b, c) /\ c.count > b.seq, Is("BOUND"))>>, Is("ABSENT"))

\* The online reads are made for a card subject whose cited record is there.
Listed(b) == IF b.online /\ b.card THEN b.list.receipts ELSE {}
Mine(S) == {x \in S : x.mine}
Verified(b) == {x \in Mine(b.receipts) \cup Mine(Listed(b)) : ReceiptStatus(x) = "PASS"}
Covering(b) == {x \in Verified(b) : Covers(b, x)}

\* What the witness's list leaves open, and where it disagrees with the bundle.
Incomplete(b) == ~b.list.ok \/ \E x \in Mine(Listed(b)) : ReceiptStatus(x) = "NE"
Inconsistent(b) ==
  /\ b.list.ok
  /\ \/ \E x \in Mine(b.receipts) : ReceiptStatus(x) = "PASS" /\ Covers(b, x) /\ x \notin Listed(b)
     \/ \E x \in Listed(b) : ~x.mine

\* Mutant: a list not read to its end confirms what it holds.
BWitTrusting(b) ==
  Decide(<<When(\E x \in Verified(b) : x.count > b.records, Is("TRUNCATED")),
           When(b.online /\ b.card /\ Covering(b) # {}, Is("BOUND")),
           When(Covering(b) # {}, Is("SUPPLIED"))>>, Is("ABSENT"))

BWit(b) ==
  LET on == b.online /\ b.card
      contradicts == \/ \E x \in b.receipts \cup Mine(Listed(b)) : ReceiptStatus(x) = "FAIL"
                     \/ \E x \in Verified(b) : x.count <= b.records /\ x.head # "log"
                     \/ \E x, y \in Verified(b) : x.count = y.count /\ x.head # y.head
  IN  Decide(<<When(contradicts, Is("FAIL")),
               When(\E x \in Verified(b) : x.count > b.records, Is("TRUNCATED")),
               When(on /\ Covering(b) # {} /\ ~Incomplete(b) /\ ~Inconsistent(b) /\ Covering(b) \cap Listed(b) # {}, Is("BOUND")),
               When(Covering(b) # {}, Is("SUPPLIED")),
               When(\E x \in Mine(b.receipts) \cup Mine(Listed(b)) : ReceiptStatus(x) = "NE" /\ Covers(b, x),
                    State("NOT-EVALUATED", "witness-key-unknown")),
               When(on /\ ~b.list.ok, State("NOT-EVALUATED", "online-read-failed"))>>, Is("ABSENT"))

\* B-KEY: a carried JWKS without the key fails whatever the jwks_uri serves.
BKey(b) ==
  Decide(<<When(b.profile = "annex-b" \/ ~b.uri, Is("KEY-ONLY")),
           When(b.jwks = "lacks", Is("FAIL")),
           When(b.online /\ b.card /\ b.served = "holds", Is("BOUND")),
           When(b.online /\ b.card /\ b.served = "lacks", Is("KEY-ROTATED-OUT")),
           When(b.online /\ b.card, State("NOT-EVALUATED", "online-read-failed")),
           When(b.jwks = "none", State("NOT-EVALUATED", "no-jwks-carried"))>>, Is("SUPPLIED"))

\* ownState of a gate receipt against the block's time, and B-GRC.  A receipt
\* whose uid is not in exactly one record fails, cited or not.
OwnState(g, timed) ==
  Decide(<<When(~g.once, Is("FAIL")), When(~g.pinned, Is("SUPPLIED")),
           When(timed /\ g.at = "late", State("EXCEEDS", "after-receipt-expiry")),
           When(timed /\ g.at = "early", State("NOT-EVALUATED", "before-receipt-check"))>>, Is("BOUND"))
BGrc(b) ==
  Decide(<<When(b.grc # None /\ ~b.grc.once, Is("FAIL")),
           When(b.names /\ (b.grc = None \/ ~b.grc.cited), State("ABSENT", "receipt-missing")),
           When(~b.names \/ b.grc = None, Is("ABSENT"))>>, IF b.grc = None THEN Is("ABSENT") ELSE OwnState(b.grc, ~b.card))

\* The cited decision: refuse wins over allow, and both over what is not read.
Decision(b) ==
  LET cited == b.names /\ b.grc # None /\ b.grc.cited
      receipt == IF ~cited THEN {} ELSE {IF b.grc.pinned THEN b.grc.reading ELSE "not-read"}
      sources == (IF b.profile = "annex-b" THEN {} ELSE {b.decision}) \cup receipt
  IN  Decide(<<When("refuse" \in sources, "refuse"), When(sources = {"allow"}, "allow")>>, "not-read")

\* B-CARD: the order, its match with the charge, and the time of the earliest
\* covering receipt.
BCard(b) ==
  Decide(<<When(b.charge = None, State("NOT-EVALUATED", "charge-not-stated")),
           When(FailAt(b) # "none" \/ BLog(b).state # "BOUND", State("NOT-EVALUATED", "prerequisite-failed")),
           When(b.order = "not-carried", State("NOT-EVALUATED", "args-not-carried")),
           When(b.order = "none", State("NOT-EVALUATED", "no-order-committed")),
           When(b.match = "differs", Is("DIFFERS")),
           When(Covering(b) = {} \/ BWit(b).state \notin {"BOUND", "SUPPLIED", "TRUNCATED"}, State("NOT-EVALUATED", "no-witness-time")),
           When(b.charge # None /\ \A x \in Covering(b) : x.at >= b.charge, State("AFTER-AUTHORIZATION", "not-before-authorization"))>>,
         State("BOUND", IF b.match = "unreferenced" THEN "reference-not-stated" ELSE "none"))

----------------------------------------------------------------------------
\* B-PAY, by its numbered rules.  `p` is what the transaction shows: the path
\* that is read, where the cited hash is, who signed, and what it moves.

\* Who signed the bytes that carry the hash (rule 4).
SignedBy(p) ==
  IF p.path = "calldata" \/ p.carrier = "calldata" THEN p.sender
  ELSE IF p.carrier = "eip3009-nonce" THEN p.signer ELSE None

\* Rule 10e: code or an authorization tuple at the stated account.
Windowed(p, state) ==
  CASE p.code = "shown" -> State("NOT-EVALUATED", "account-has-code")
    [] p.code = "unread" -> State("NOT-EVALUATED", "prerequisite-failed:O7.account-code")
    [] OTHER -> Is(state)

BPay(b) ==
  LET p == b.pay
      eip == p.path = "eip3009"
      by == SignedBy(p)
  IN  Decide(<<When(~p.supported, State("UNSUPPORTED-PATH", "unsupported-type")),
               When(p.path = "unread", State("UNSUPPORTED-PATH", "unsupported-call")),
               When(eip /\ ~p.pinned, State("NOT-EVALUATED", "token-not-pinned")),
               When(eip /\ p.contract, State("NOT-EVALUATED", "contract-signer")),
               When(p.carrier = "none" /\ p.elsewhere, State("NOT-EVALUATED", "unread-carrier")),
               When(p.claimed # p.carrier, Is("FAIL")),
               When(eip /\ p.carrier = "none", Is("ABSENT")),
               When(b.authorizer = "none", State("NOT-EVALUATED", "authorizer-not-stated")),
               When(b.txStated = "none", State("NOT-EVALUATED", "tx-not-stated")),
               When(eip /\ by # p.signer /\ p.signer = b.authorizer /\ p.moves, Windowed(p, "CARRIED-BY-OTHER")),
               When(eip /\ (by # p.signer \/ p.signer # b.authorizer), Is("CARRIED-BY-OTHER")),
               When(~eip /\ p.sender # b.authorizer, State("UNSUPPORTED-PATH", "other-sender")),
               When(~eip /\ p.carrier = "none", Is("ABSENT")),
               When(p.moves, Windowed(p, "BOUND")),
               When(eip, Is("NO-PAYMENT"))>>, State("NOT-EVALUATED", "no-counted-movement"))

\* The payment's payer is the stated account.
PayerDerived(b) ==
  /\ b.pay.moves
  /\ \/ BPay(b) = Is("BOUND")
     \/ BPay(b) = Is("CARRIED-BY-OTHER") /\ SignedBy(b.pay) # b.pay.signer /\ b.pay.signer = b.authorizer

----------------------------------------------------------------------------
\* The verdict

\* The states of the bindings.  A failed check, or a cited record that is not
\* bound, leaves every later binding unevaluated.
Bindings(b) ==
  LET open == FailAt(b) = "none" /\ BLog(b).state = "BOUND"
      Later(binding) == IF open THEN binding ELSE State("NOT-EVALUATED", "prerequisite-failed")
      OnChain(binding) == Later(IF b.card THEN State("NOT-EVALUATED", "card-subject") ELSE binding)
  IN  [log |-> BLog(b), card |-> BCard(b), ckp |-> Later(BCkp(b)), wit |-> Later(BWit(b)), key |-> Later(BKey(b)),
       grc |-> Later(BGrc(b)), ins |-> Later(b.ins), pay |-> OnChain(BPay(b)), chain |-> OnChain(Is("SUPPLIED"))]

\* The rules of the verdict, on the bindings `bs` and the decision that was read.
Bound(bs, ids) == \A id \in ids : bs[id].state = "BOUND"
Fails(b, bs) ==
  FirstFail(FirstRows(b)) # "none" \/ FailAt(b) \notin {"none", "P1.pointer"} \/ \E id \in DOMAIN bs : bs[id].state = "FAIL"
DecisionRead(b) == IF FailAt(b) # "none" \/ BLog(b).state # "BOUND" THEN "not-read" ELSE Decision(b)
Breach(decision, judged) == decision = "refuse" \/ \E binding \in judged : binding.state = "EXCEEDS"
ReceiptHolds(bs) == bs.grc.state = "BOUND" \/ bs.grc = Is("ABSENT")

\* Table 4-6c: a card subject with a stated charge.
CardVerdict(b, bs, decision) ==
  LET breach == Breach(decision, {bs.ins}) IN
  Decide(<<When(Fails(b, bs), "FAILS"),
           When(bs.card.state = "DIFFERS", "DOES-NOT-MATCH-CHARGE"),
           When(bs.card.state \in {"NOT-EVALUATED", "AFTER-AUTHORIZATION"} \/ bs.wit.state # "BOUND", "PAYMENT-NOT-VERIFIED"),
           When(~breach /\ decision = "not-read", "PAYMENT-NOT-VERIFIED"),
           When(~breach /\ bs.ins = State("NOT-EVALUATED", "order-field-missing"), "PAYMENT-NOT-VERIFIED"),
           When(breach, "OUTSIDE-INSTRUCTION"),
           When(decision = "allow" /\ bs.card = Is("BOUND") /\ ReceiptHolds(bs) /\ Bound(bs, {"ins", "log", "ckp", "wit", "key"}),
                "RECORDED-BEFORE-CHARGE")>>,
         "RECORDED-WITH-GAPS")

\* Table 4-6a: the payment is on the chain.
ChainVerdict(b, bs, decision) ==
  LET breach == Breach(decision, {bs.ins, bs.grc}) IN
  Decide(<<When(Fails(b, bs), "FAILS"),
           When(bs.pay.state \in {"ABSENT", "NO-PAYMENT"} \/ (bs.pay.state = "CARRIED-BY-OTHER" /\ ~PayerDerived(b)), "DOES-NOT-CONNECT"),
           When(bs.pay.state \in {"UNSUPPORTED-PATH", "NOT-EVALUATED"}, "PAYMENT-NOT-VERIFIED"),
           When(bs.chain.state \in {"SUPPLIED", "NOT-EVALUATED"}, "PAYMENT-NOT-VERIFIED"),
           When(~breach /\ decision = "not-read", "PAYMENT-NOT-VERIFIED"),
           When(~breach /\ bs.ins = State("NOT-EVALUATED", "unread-outflow"), "PAYMENT-NOT-VERIFIED"),
           When(PayerDerived(b) /\ breach, "VERIFIES-OUTSIDE-INSTRUCTION"),
           When(decision = "allow" /\ ReceiptHolds(bs) /\ Bound(bs, {"pay", "ins", "log", "ckp", "wit", "chain", "key"}), "VERIFIES")>>,
         "VERIFIES-WITH-GAPS")

\* A pointer that could not be fetched comes before both tables.
Verdict(b) ==
  IF b.pointer = "unfetchable" THEN "PAYMENT-NOT-VERIFIED"
  ELSE LET bs == Bindings(b)
           decision == DecisionRead(b)
       IN  IF Charged(b) /\ ~Stopped(b) /\ b.readable THEN CardVerdict(b, bs, decision) ELSE ChainVerdict(b, bs, decision)

VerifyBundle(b) == IF Refused(b) THEN "refused" ELSE Verdict(b)

----------------------------------------------------------------------------
\* What a verdict is worth, without the verifier's own rules

\* The order was recorded before the charge: the witness's list was read to its
\* end, holds a receipt of a prefix with the cited record from before the
\* authorization, and holds none of another history or of a longer one.
RecordedBefore(b) ==
  /\ b.online /\ b.list.ok /\ b.match # "differs"
  /\ \E x \in b.list.receipts : x.mine /\ x.signed /\ x.count > b.seq /\ x.at < b.charge
  /\ \A x \in b.list.receipts : x.mine /\ x.signed /\ x.count <= b.records /\ x.head = "log"

\* The stated account is one that signed the hash into the payment's bytes and
\* that the payment moves value from.
PaidByStated(b) ==
  LET p == b.pay IN
  /\ p.moves /\ p.code = "none"
  /\ \/ p.path = "calldata" /\ p.carrier = "calldata" /\ p.sender = b.authorizer
     \/ p.path = "eip3009" /\ p.signer = b.authorizer /\ p.carrier = "eip3009-nonce"
     \/ p.path = "eip3009" /\ p.signer = b.authorizer /\ p.carrier = "calldata" /\ p.sender = p.signer
=============================================================================
