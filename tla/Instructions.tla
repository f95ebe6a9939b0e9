---------------------------- MODULE Instructions -----------------------------
(***************************************************************************)
(* A signed instruction as its two readers take it: the purchase check       *)
(* (src/purchase/m6.ts), which allows a purchase on it, and the evidence      *)
(* bundle verifier (examples/evidence-bundle/lib/instructions.mjs), which     *)
(* later says whether what was done lies inside it (M6 and B-INS).            *)
(*                                                                          *)
(* An instruction `i` is what its text says.  A member that is not there is   *)
(* None, one of another form than the profile's is Malformed.  A time has     *)
(* two orders, which differ for 2026-02-30: as text and in milliseconds.      *)
(***************************************************************************)
EXTENDS PurchaseJudge

\* What strict reading refuses: both readers, and the purchase check besides.
StrictProblems == {"lone-surrogate", "bom", "duplicate-member", "non-integer-number", "nesting-too-deep", "syntax"}
ParseStrictJson(flaws) == flaws \cap StrictProblems = {}
ReadInstruction(flaws) ==
  Decide(<<When("not-a-string" \in flaws, "not-a-string"), When("too-large" \in flaws, "too-large"),
           When(~ParseStrictJson(flaws), "not-strict"), When("unsafe-integer" \in flaws, "unsafe-integer")>>, "ok")

\* sig over the canonical bytes without it, under the key the instruction names:
\* "holds", "breaks", or Malformed for one that is not 64 bytes in base64url.
SignatureHolds(i) == i.sig = "holds"

PaymentLimits == {"chain_id", "asset", "max_amount", "payees"}

\* tsMs and TIME_RE; isCalendarInstant also rebuilds the fields.
ReadsAsTime(t) == t # Malformed /\ t.reads
CalendarTime(t) == ReadsAsTime(t) /\ t.calendar

\* checkCard: the values the card sets, and that it limits anything.
CardValuesHold(card) ==
  /\ card["currency"] # None /\ \A l \in DOMAIN card : card[l] # Malformed
  /\ card["service_window"] # None => card["service_window"].from <= card["service_window"].until
CardLimitsSomething(card) == \E l \in DOMAIN card \ {"currency"} : card[l] # None /\ ~(l = "refundable_only" /\ card[l] = FALSE)

\* m6Check of m6.ts, which takes profile 0.3 with a card and leaves the values
\* of the limits it does not support unread.
M6CheckOf(i) ==
  LET c == i.constraints IN
  Decide(<<When(~i.exact, "not-an-object"), When(i.v # "0.3", "wrong-profile"), When(i.key # "ed25519", "bad-key"),
           When(~i.thumbprint, "kid-not-thumbprint"), When(i.agents \in {Malformed, {}}, "bad-agent-kid"), When(i.text = Malformed, "bad-text"),
           When(~c.exact, "bad-constraints"), When(c.card = None, "card-missing"), When(c.maxUses \in {Malformed, 0}, "bad-max-uses"),
           When(c.card # None /\ ~CardValuesHold(c.card), "bad-card"), When(c.card # None /\ ~CardLimitsSomething(c.card), "card-limits-empty"),
           When(Malformed \in {c.from, c.until}, "time-not-z"), When(~ReadsAsTime(c.from) \/ ~ReadsAsTime(c.until), "time-not-calendar"),
           When(ReadsAsTime(c.from) /\ ReadsAsTime(c.until) /\ c.from.ms > c.until.ms, "window-reversed"),
           When(i.iat = Malformed, "iat-not-z"), When(~ReadsAsTime(i.iat), "iat-not-calendar"),
           When(i.sig = Malformed, "bad-sig"), When(~SignatureHolds(i), "bad-signature")>>, "none")
Unsupported(c) == DOMAIN c.payment \cup (IF c.budget = None THEN {} ELSE {"budget"})

\* m6Instruction of the verifier, for the profile its member names.  With a
\* card the payment limits are there all four or not at all.
HasCard(i, profile) == profile = "0.3" /\ i.constraints.card # None
AsksForPayment(i, profile) == ~HasCard(i, profile) \/ DOMAIN i.constraints.payment = PaymentLimits
M6Instruction(i, profile) ==
  LET c == i.constraints
      named == DOMAIN c.payment
      carded == HasCard(i, profile)
  IN  Decide(<<When(~ParseStrictJson(i.flaws), "not-strict"), When(~i.exact, "members"), When(i.v # profile, "v"), When(i.key # "ed25519", "jwk"),
               When(~i.thumbprint, "kid"), When(i.agents \in {Malformed, {}}, "agent_kid"), When(i.text = Malformed, "text"),
               When(carded /\ named \notin {{}, PaymentLimits}, "some-payment-limits"),
               When(~c.exact \/ (AsksForPayment(i, profile) /\ named # PaymentLimits) \/ (profile = "0.2" /\ c.card # None), "constraints"),
               When(\E l \in named : c.payment[l] = Malformed, "payment"), When(c.budget = Malformed, "budget"),
               When(c.maxUses \in {Malformed, 0}, "max_uses"),
               When(carded /\ ~(CardValuesHold(c.card) /\ CardLimitsSomething(c.card)), "card"),
               When(~ReadsAsTime(c.from) \/ ~ReadsAsTime(c.until), "window"),
               When(ReadsAsTime(c.from) /\ ReadsAsTime(c.until) /\ c.from.ms > c.until.ms, "reversed"),
               When(~ReadsAsTime(i.iat), "iat"), When(~SignatureHolds(i), "sig")>>, "none")

----------------------------------------------------------------------------
\* B-INS.  A bundle `b` is about a payment on a chain or a card order.  It
\* carries instruction members, the arguments that records commit to (what
\* they cite: `b.logs`, and `b.cited` for the cited record), and what was paid
\* (`b.pv`) or ordered (`b.charge`): None when that is not shown.

Charge(b) == IF b.subject = "card" THEN b.charge ELSE None
Pv(b) == IF b.subject = "payment" THEN b.pv ELSE None
Unread(b) == Pv(b) # None /\ b.unread

State(state, reason) == [state |-> state, reason |-> reason]
UsesLeft(i, uses) == uses <= (IF i.constraints.maxUses = None THEN 1 ELSE i.constraints.maxUses)

\* usesOf: over every carried log, the records whose carried arguments cite it.
UsesOf(b, digest) == Cardinality({at \in UNION {{l} \X DOMAIN b.logs[l] : l \in DOMAIN b.logs} : b.logs[at[1]][at[2]] = digest})

\* What moved in the asset, of the first movements up to the last.
Moved(movements, asset) ==
  LET total[n \in 0 .. Len(movements)] ==
        IF n = 0 THEN 0 ELSE total[n - 1] + (IF movements[n].asset = asset THEN movements[n].amount ELSE 0)
  IN  total[Len(movements)]

\* exceededBy, against the payment values.
ExceededBy(i, pv, uses) ==
  LET c == i.constraints
      total == Moved(pv.movements, c.payment["asset"])
  IN  (IF c.payment["chain_id"] # pv.chain THEN {"chain_id"} ELSE {})
      \cup (IF \E n \in DOMAIN pv.movements : pv.movements[n].asset # c.payment["asset"] THEN {"asset"} ELSE {})
      \cup (IF \E n \in DOMAIN pv.movements : pv.movements[n].payee \notin c.payment["payees"] THEN {"payees"} ELSE {})
      \cup (IF total > c.payment["max_amount"] THEN {"max_amount"} ELSE {})
      \cup (IF pv.ms < c.from.ms THEN {"valid_from"} ELSE {}) \cup (IF pv.ms > c.until.ms THEN {"valid_until"} ELSE {})
      \cup (IF pv.kid \notin i.agents THEN {"agent_kid"} ELSE {}) \cup (IF UsesLeft(i, uses) THEN {} ELSE {"max_uses"})
      \cup (IF c.budget # None /\ total > c.budget THEN {"budget"} ELSE {})

\* cardLimitsOf, against the committed order and the stated authorization time.
CardResult(i, order, l) == LimitResult([card |-> i.constraints.card, order |-> order], l)
CardExceeded(i, k, uses) ==
  {l \in ItemLimits \cup OrderLimits : CardResult(i, k.order, l) = "outside"}
  \cup (IF k.at.text < i.constraints.from.text THEN {"valid_from"} ELSE {}) \cup (IF k.at.text > i.constraints.until.text THEN {"valid_until"} ELSE {})
  \cup (IF k.kid \notin i.agents THEN {"agent_kid"} ELSE {}) \cup (IF UsesLeft(i, uses) THEN {} ELSE {"max_uses"})

\* compareCard: no order, an order of another shape, an instruction with no
\* card limits, then the limits; one outside wins over one not evaluated.
CompareCard(i, profile, k, uses, inside, outside) ==
  LET missing == \E l \in ItemLimits \cup OrderLimits : CardResult(i, k.order, l) = "not-evaluated"
      reason == IF missing THEN "order-field-missing" ELSE "none"
  IN  Decide(<<When(k.order = None, State("NOT-EVALUATED", "no-order-committed")),
               When(~k.orderOk, State("NOT-EVALUATED", "prerequisite-failed:M8.order")),
               When(profile = "0.2", State("NOT-EVALUATED", "no-card-limits")),
               When(i.constraints.card = None, State("NOT-EVALUATED", "card-limits-not-declared"))>>,
             IF CardExceeded(i, k, uses) # {} THEN State(outside, reason)
             ELSE IF missing THEN State("NOT-EVALUATED", reason) ELSE State(inside, "none"))

\* compare: with an outflow unread, what was read is judged and the rest open.
Compare(b, m, uses, inside, outside) ==
  IF Charge(b) # None THEN CompareCard(m.i, m.profile, Charge(b), uses, inside, outside)
  ELSE IF Pv(b) = None THEN State("NOT-EVALUATED", "no-payer-derived")
  ELSE IF ExceededBy(m.i, Pv(b), uses) # {} THEN State(outside, IF Unread(b) THEN "unread-outflow" ELSE "none")
  ELSE IF Unread(b) THEN State("NOT-EVALUATED", "unread-outflow") ELSE State(inside, "none")

\* A row per member.  One that fails M6 has no digest, so nothing cites it.
Verifies(m) == m.profile \in {"0.2", "0.3"}
Fails(m) == Verifies(m) /\ M6Instruction(m.i, m.profile) # "none"
Cites(b, m) == b.cited # None /\ m.digest = b.cited /\ ~Fails(m)
RowOf(b, m) ==
  LET uses == UsesOf(b, m.digest) IN
  IF ~Verifies(m) THEN State("PRESENT", "none") ELSE IF Fails(m) THEN State("FAIL", "none")
  ELSE IF Cites(b, m) THEN Compare(b, m, uses, "BOUND", "EXCEEDS") ELSE Compare(b, m, uses, "MATCHED", "UNBOUND-OUTSIDE")

\* bIns, of the rows and those that are cited: a member that fails decides,
\* then the cited one, then the worst of those that nothing cites; an unread
\* outflow leaves only EXCEEDS standing.
WorstOf(rows, order) ==
  LET among(state) == {n \in DOMAIN rows : rows[n].state = state}
      first == Min({n \in DOMAIN order : among(order[n]) # {}})
  IN  rows[Min(among(order[first]))]
BInsOf(b, rows, cited) ==
  LET read == IF cited # {} THEN rows[Min(cited)] ELSE IF b.cited # None THEN State("WITHHELD", "none")
              ELSE IF rows = <<>> THEN IF b.arguments THEN State("ABSENT", "none") ELSE State("NOT-EVALUATED", "args-not-carried")
              ELSE WorstOf(rows, <<"UNBOUND-OUTSIDE", "MATCHED", "NOT-EVALUATED", "PRESENT">>)
  IN  IF \E n \in DOMAIN rows : rows[n].state = "FAIL" THEN State("FAIL", "none")
      ELSE IF ~Unread(b) THEN read
      ELSE State(IF cited # {} /\ rows[Min(cited)].state = "EXCEEDS" THEN "EXCEEDS" ELSE "NOT-EVALUATED", "unread-outflow")
BIns(b) == BInsOf(b, [n \in DOMAIN b.members |-> RowOf(b, b.members[n])], {n \in DOMAIN b.members : Cites(b, b.members[n])})

\* decodedShape, before the bindings: a payment has no row in an instruction for
\* card orders only.
CardOnly(b) ==
  b.subject = "payment" /\ \E n \in DOMAIN b.members :
    LET m == b.members[n] IN m.profile = "0.3" /\ ~Fails(m) /\ "chain_id" \notin DOMAIN m.i.constraints.payment

\* What a run makes of the instructions: one that fails its check leaves every
\* binding open, a shape that is not judged has none.
Binding(b) ==
  Decide(<<When(\E n \in DOMAIN b.members : Fails(b.members[n]), State("NOT-EVALUATED", "prerequisite-failed")),
           When(CardOnly(b), State("REFUSED", "instruction:card-only"))>>, BIns(b))

----------------------------------------------------------------------------
\* What the two readers promise of one another.  A case `p` is a purchase
\* decided on p.i and a bundle about it.

\* What a case's fields hold: times and numbers are integers where they are
\* read, an order of the committed shape names what it is for.
InstructionFields == {"i", "at", "usesSoFar", "members", "charge", "pv"}
TimeHolds(t) == t = Malformed \/ (t.text \in Int /\ t.ms \in Int)
InstructionHolds(i) ==
  LET c == i.constraints IN
  /\ TimeHolds(c.from) /\ TimeHolds(c.until) /\ c.maxUses \in Int \cup {None, Malformed}
  /\ "max_amount" \in DOMAIN c.payment => c.payment["max_amount"] \in Int \cup {Malformed}
InstructionField(f, value) ==
  /\ f = "i" => InstructionHolds(value)
  /\ f = "at" => value.text \in Int
  /\ f = "usesSoFar" => value \in Int
  /\ f = "members" => IsSeq(value) /\ \A n \in DOMAIN value : value[n].digest # None /\ (Verifies(value[n]) => InstructionHolds(value[n].i))
  /\ f = "charge" /\ value # None =>
       value.at.text \in Int /\ (value.orderOk => value.order # None /\ \A n \in DOMAIN value.order.items : value.order.items[n].sku # None)
  /\ f = "pv" /\ value # None => IsSeq(value.movements) /\ \A n \in DOMAIN value.movements : value.movements[n].amount \in Nat

\* The purchase as the purchase check judges it.
Judged(p) ==
  LET c == p.i.constraints
      broken == M6CheckOf(p.i)
  IN  [reading |-> ReadInstruction(p.i.flaws), plain |-> TRUE, wrong |-> {}, texts |-> <<>>, m6 |-> IF broken = "none" THEN {} ELSE {broken},
       unsupported |-> Unsupported(c), calendar |-> CalendarTime(c.from) /\ CalendarTime(c.until) /\ CalendarTime(p.i.iat),
       card |-> c.card, order |-> p.order, valid |-> [from |-> c.from.text, until |-> c.until.text], at |-> p.at.text, kid |-> p.kid,
       agents |-> p.i.agents, maxUses |-> c.maxUses, usesSoFar |-> p.usesSoFar]
Taken(p) == ReadInstruction(p.i.flaws) = "ok" /\ M6CheckOf(p.i) = "none"

\* What was allowed is shown as it happened: the same order, key and time, the
\* instruction cited and carried whole, and no more uses than were counted.
ShownAsItHappened(p) ==
  /\ Charge(p) # None /\ p.charge = [order |-> p.order, orderOk |-> TRUE, kid |-> p.kid, at |-> p.at]
  /\ \A n \in DOMAIN p.members : ~Fails(p.members[n])
  /\ \E n \in DOMAIN p.members :
       LET m == p.members[n] IN
       m.i = p.i /\ m.profile = "0.3" /\ p.cited = m.digest /\ UsesOf(p, m.digest) = p.usesSoFar + 1 /\ \A j \in 1 .. n - 1 : p.members[j].digest # m.digest

\* What the bundle shows lies inside the instruction of `m`.
MovesInside(p, m) ==
  LET c == m.i.constraints.payment IN
  /\ Pv(p).chain = c["chain_id"] /\ Pv(p).kid \in m.i.agents
  /\ \A n \in DOMAIN Pv(p).movements : LET v == Pv(p).movements[n] IN v.asset = c["asset"] /\ v.payee \in c["payees"] /\ v.amount <= c["max_amount"]
OrderIsInside(p, m) ==
  LET c == m.i.constraints
      o == Charge(p).order
  IN  /\ Charge(p).kid \in m.i.agents /\ c.from.text <= Charge(p).at.text /\ Charge(p).at.text <= c.until.text
      /\ o.currency = c.card["currency"] /\ c.card["max_total_minor"] # None => o.total <= c.card["max_total_minor"]
      /\ \A n \in DOMAIN o.items : c.card["items"] # None => o.items[n].sku \in c.card["items"]

\* An instruction the purchase check takes, the verifier takes ("it refuses
\* more, never less", m6.ts:397), and a purchase it allows is bound when it is
\* shown as it happened.  What is bound lies inside the instruction it cites.
\* No payment is held against an instruction without payment limits, and
\* neither an outflow that could not be read nor a field that is missing hides
\* what exceeds it.  `of` is the binding and `cited` the members cited.
BindsTruly(p, of, cited) ==
  LET taken == Taken(p) /\ Unsupported(p.i.constraints) = {}
      m == p.members[Min(cited)]
      judged == cited # {} /\ of.reason # "prerequisite-failed" /\ of.state # "REFUSED" /\ Verifies(m)
  IN  /\ taken => M6Instruction(p.i, "0.3") = "none"
      /\ taken /\ Allows(Judged(p)) /\ ShownAsItHappened(p) => of.state = "BOUND"
      /\ of.state = "BOUND" => IF Charge(p) = None THEN ~Unread(p) /\ MovesInside(p, m) ELSE OrderIsInside(p, m)
      /\ judged /\ Pv(p) # None => DOMAIN m.i.constraints.payment = PaymentLimits /\ (~MovesInside(p, m) => of.state = "EXCEEDS")
      /\ judged /\ Charge(p) # None /\ p.charge.orderOk /\ m.i.constraints.card # None /\ m.profile = "0.3" /\ ~OrderIsInside(p, m) => of.state = "EXCEEDS"
RefusesMoreNeverLess(p) == BindsTruly(p, Binding(p), {n \in DOMAIN p.members : Cites(p, p.members[n])})
=============================================================================
