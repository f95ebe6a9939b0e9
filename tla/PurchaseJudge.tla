---------------------------- MODULE PurchaseJudge ----------------------------
(***************************************************************************)
(* The judgement of a purchase, src/purchase/limits.ts and m6.ts: steps 1 to *)
(* 4 of a check without its repeat lookup.                                   *)
(*                                                                          *)
(* A purchase `q` is the instruction as it reads and the order as it is      *)
(* copied.  `q.reading` is "ok" or what strict reading refuses, `q.m6` the   *)
(* rules of Annex A.3 it breaks, `q.card` the limits it sets: a limit it     *)
(* does not set is None, and so is a field an item does not have.            *)
(***************************************************************************)
EXTENDS RecordInput, Values

\* m6Check, in the verifier's order.
M6Rules ==
  <<"not-an-object", "wrong-profile", "bad-key", "kid-not-thumbprint", "bad-agent-kid", "bad-text", "bad-constraints", "card-missing",
    "bad-max-uses", "bad-card", "card-limits-empty", "time-not-z", "time-not-calendar", "window-reversed", "iat-not-z",
    "iat-not-calendar", "bad-sig", "not-canonical", "bad-signature">>
M6Check(q) == FirstOf(M6Rules, q.m6)

\* What a purchase's fields hold: the rules that are broken are among the
\* rules, times and counts are integers.
PurchaseFields == {"m6", "wrong", "at", "valid", "usesSoFar", "maxUses", "card", "order"}
PurchaseField(f, value) ==
  /\ f = "m6" => value \subseteq {M6Rules[n] : n \in DOMAIN M6Rules}
  /\ f = "wrong" => value \subseteq {OrderRules[n] : n \in DOMAIN OrderRules}
  /\ f \in {"at", "usesSoFar"} => value \in Int
  /\ f = "valid" => value.from \in Int /\ value.until \in Int
  /\ f = "maxUses" => value \in Int \cup {None}
  /\ f = "card" => value["refundable_only"] \in BOOLEAN \cup {None}
  /\ f = "order" => \A i \in DOMAIN value.items : value.items[i].refundable \in BOOLEAN \cup {None}

ItemLimits == {"max_unit_price_minor", "items", "categories", "refundable_only", "service_window", "locations"}
OrderLimits == {"currency", "max_total_minor", "merchants"}

Fields(limit) ==
  CASE limit = "max_unit_price_minor" -> {"price"} [] limit = "items" -> {"sku"} [] limit = "categories" -> {"category"}
    [] limit = "refundable_only" -> {"refundable"} [] limit = "service_window" -> {"from", "until"} [] limit = "locations" -> {"location"}

\* One item that has the fields, inside one limit.
ItemInside(limit, value, it) ==
  CASE limit = "max_unit_price_minor" -> it.price <= value
    [] limit = "items" -> it.sku \in value
    [] limit = "categories" -> it.category \in value
    [] limit = "refundable_only" -> it.refundable
    [] limit = "service_window" -> it.from >= value.from /\ it.until <= value.until
    [] limit = "locations" -> it.location \in value

OrderInside(limit, value, order) ==
  CASE limit = "currency" -> order.currency = value
    [] limit = "max_total_minor" -> order.total <= value
    [] limit = "merchants" -> order.merchant \in value

\* Mutant: an item without the field is passed over.
EveryItemSkipping(limit, value, items) ==
  IF \A i \in DOMAIN items : (\A f \in Fields(limit) : items[i][f] # None) => ItemInside(limit, value, items[i]) THEN "inside" ELSE "outside"

\* everyItem: an item outside wins over one whose field is missing.
EveryItem(limit, value, items) ==
  LET missing == {i \in DOMAIN items : \E f \in Fields(limit) : items[i][f] = None} IN
  Decide(<<When(\E i \in DOMAIN items \ missing : ~ItemInside(limit, value, items[i]), "outside"),
           When(missing # {}, "not-evaluated")>>, "inside")

\* cardLimitsOf
LimitResult(q, limit) ==
  LET value == q.card[limit] IN
  IF value = None \/ (limit = "refundable_only" /\ value = FALSE) THEN "not-declared"
  ELSE IF limit \in ItemLimits THEN EveryItem(limit, value, q.order.items)
  ELSE IF OrderInside(limit, value, q.order) THEN "inside" ELSE "outside"

Uses(q) == IF q.maxUses = None THEN 1 ELSE q.maxUses

\* judgeInput: the step that refuses and its reasons, or step 3.
Step1(q) ==
  LET text == \E i \in DOMAIN q.texts : Screened(q.texts[i]) IN
  (IF q.reading # "ok" THEN {"instruction-invalid"} ELSE {})
  \cup (IF ~q.plain \/ OrderFailure(q.wrong) # "none" \/ text THEN {"order-invalid"} ELSE {})
Step2(q) ==
  IF M6Check(q) # "none" THEN {"instruction-invalid"}
  ELSE (IF q.unsupported # {} THEN {"unsupported-limit"} ELSE {}) \cup (IF ~q.calendar THEN {"instruction-invalid"} ELSE {})

\* judgeLimits: every failure is listed.
Step3(q) ==
  (IF q.at < q.valid.from THEN {"not-yet-valid"} ELSE {})
  \cup (IF q.at > q.valid.until THEN {"expired"} ELSE {})
  \cup (IF q.kid \notin q.agents THEN {"agent-not-named"} ELSE {})
  \cup (IF q.usesSoFar + 1 > Uses(q) THEN {"uses-exhausted"} ELSE {})
  \cup UNION {CASE LimitResult(q, l) = "outside" -> {"limit-exceeded"} [] LimitResult(q, l) = "not-evaluated" -> {"order-field-missing"}
                [] OTHER -> {} : l \in ItemLimits \cup OrderLimits}

\* judgePurchase: the step that decided and why; no reason allows.
JudgePurchase(q) ==
  Decide(<<When(Step1(q) # {}, [step |-> 1, reasons |-> Step1(q)]),
           When(Step2(q) # {}, [step |-> 2, reasons |-> Step2(q)])>>, [step |-> 3, reasons |-> Step3(q)])
Allows(q) == JudgePurchase(q).reasons = {}

\* What an allowed purchase promises: the order lies inside everything the
\* instruction says, and nothing it says is left unread.
WithinInstruction(q) ==
  /\ q.reading = "ok" /\ q.m6 = {} /\ q.unsupported = {} /\ q.calendar /\ q.plain /\ q.wrong = {}
  /\ q.valid.from <= q.at /\ q.at <= q.valid.until /\ q.kid \in q.agents /\ q.usesSoFar < Uses(q)
  /\ q.card["currency"] \in {None, q.order.currency}
  /\ q.card["max_total_minor"] # None => q.order.total <= q.card["max_total_minor"]
  /\ q.card["merchants"] # None => q.order.merchant \in q.card["merchants"]
  /\ \A i \in DOMAIN q.order.items :
       LET it == q.order.items[i] IN
       /\ q.card["max_unit_price_minor"] # None => it.price # None /\ it.price <= q.card["max_unit_price_minor"]
       /\ q.card["items"] # None => it.sku \in q.card["items"]
       /\ q.card["categories"] # None => it.category \in q.card["categories"]
       /\ q.card["refundable_only"] \in {None, FALSE} \/ it.refundable = TRUE
       /\ q.card["service_window"] # None => /\ it.from # None /\ it.from >= q.card["service_window"].from
                                            /\ it.until # None /\ it.until <= q.card["service_window"].until
       /\ q.card["locations"] # None => it.location \in q.card["locations"]
=============================================================================
