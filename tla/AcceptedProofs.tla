--------------------------- MODULE AcceptedProofs ---------------------------
(***************************************************************************)
(* What is accepted is within the rules: requests to the two servers, the    *)
(* input of the trial recorder, approvals and mappings, purchases, and what  *)
(* the evidence verifier shows as inside an instruction.  Each lemma is      *)
(* about any input of the types its program reads.                           *)
(***************************************************************************)
EXTENDS HttpSurface, Mappers, Instructions, ChecksProofs, FiniteSetTheorems

----------------------------------------------------------------------------
\* Requests, inputs, approvals and purchases

\* A request that reaches the call behind a server came from a host and a
\* caller the server was told of.
LEMMA RefusalPasses ==
  ASSUME NEW h, Refusal(h) = 0
  PROVE  h.host /\ Authorized(h)
<1> DEFINE c1 == When(~h.host, 403)
           c2 == When(h.path = "/health" /\ h.server = "trial", IF h.method = "GET" THEN 200 ELSE 405)
           c3 == When(h.path \notin Posts(h), 404)
           c4 == When(h.method # "POST", 405)
           c5 == When(~Authorized(h), 401)
           c6 == When(~h.typed, 415)
           c7 == When(h.body = "large", 413)
           c8 == When(h.body \in {"not-json", "not-utf8"}, 400)
           c9 == When(h.path = "/await" /\ h.body = "shapeless", 400)
<1>1. Refusal(h) = Decide(<<c1, c2, c3, c4, c5, c6, c7, c8, c9>>, 0)
  BY DEF Refusal
<1>2. /\ c1.answer = 403 /\ c2.answer \in {200, 405} /\ c3.answer = 404 /\ c4.answer = 405 /\ c5.answer = 401
      /\ (c1.applies <=> ~h.host) /\ (c5.applies <=> ~Authorized(h))
  BY DEF When
<1> HIDE DEF c1, c2, c3, c4, c5, c6, c7, c8, c9
<1> QED
  BY <1>1, <1>2, DecideOf9

\* A call is answered 200 only when what it asked for is kept.
LEMMA OkIsKept ==
  ASSUME NEW h, h.server \in {"trial", "purchase"}, h.result \in Results(h.server), StatusOf(h) = 200, h.result # "throws"
  PROVE  h.result \in {"ok", "receipt"}
<1>1. CASE h.server = "purchase"
  <2> DEFINE c1 == When(h.result = "record-failed", 503)
             c2 == When(h.result = "no-receipt", 422)
  <2>1. StatusOf(h) = Decide(<<c1, c2>>, 200)
    BY <1>1 DEF StatusOf
  <2>2. c1.answer = 503 /\ c2.answer = 422 /\ (c1.applies <=> h.result = "record-failed") /\ (c2.applies <=> h.result = "no-receipt")
    BY DEF When
  <2> HIDE DEF c1, c2
  <2> QED
    BY <1>1, <2>1, <2>2, DecideOf2 DEF Results
<1>2. CASE h.server = "trial"
  <2> DEFINE c1 == When(h.result = "ok", 200)
             c2 == When(h.result = "caller", 422)
             c3 == When(h.result = "timeout", 504)
  <2>1. StatusOf(h) = Decide(<<c1, c2, c3>>, 503)
    BY <1>2 DEF StatusOf
  <2>2. c2.answer = 422 /\ c3.answer = 504 /\ (c1.applies <=> h.result = "ok")
    BY DEF When
  <2> HIDE DEF c1, c2, c3
  <2> QED
    BY <2>1, <2>2, DecideOf3
<1> QED
  BY <1>1, <1>2

\* No request is served that is not due.
LEMMA EveryCallIsDue ==
  ASSUME NEW h, h.server \in {"trial", "purchase"}, h.result \in Results(h.server)
  PROVE  CallIsDue(h)
<1>1. Handle(h).called => Refusal(h) = 0
  BY DEF Handle
<1>2. Handle(h).called /\ Handle(h).status = 200 => StatusOf(h) = 200 /\ h.result # "throws"
  BY DEF Handle
<1> QED
  BY <1>1, <1>2, RefusalPasses, OkIsKept DEF CallIsDue, Authorized

\* An input is taken only when nothing of it is too long or a card number.
LEMMA TakenIsSafe ==
  ASSUME NEW x, x.size \in {"within", "over"}, CheckRecordInput(x) = "ok"
  PROVE  SafeToKeep(x)
<1> DEFINE c1 == When(~x.json \/ x.size = "over", "invalid-input")
           c2 == When(x.extra # {}, "refused-field")
           c3 == When(CapFailure(x) # "none", CapFailure(x))
           c4 == When(RefusedValues(x), "refused-value")
           c5 == When(FormatFailure(x) # "none", "invalid-input")
           c6 == When(OrderFailure(x.wrong) # "none", "invalid-order")
<1>1. CheckRecordInput(x) = Decide(<<c1, c2, c3, c4, c5, c6>>, "ok")
  BY DEF CheckRecordInput
<1>2. /\ c1.answer = "invalid-input" /\ c2.answer = "refused-field" /\ c3.answer = CapFailure(x) /\ c4.answer = "refused-value"
      /\ c5.answer = "invalid-input" /\ c6.answer = "invalid-order"
      /\ (c1.applies <=> ~x.json \/ x.size = "over") /\ (c2.applies <=> x.extra # {})
      /\ (c3.applies <=> CapFailure(x) # "none") /\ (c4.applies <=> RefusedValues(x))
  BY DEF When
<1>3. CapFailure(x) \in {"none", "invalid-order", "invalid-input"}
  BY DEF CapFailure
<1> HIDE DEF c1, c2, c3, c4, c5, c6
<1>4. x.json /\ x.size # "over" /\ x.extra = {} /\ CapFailure(x) = "none" /\ ~RefusedValues(x)
  BY <1>1, <1>2, <1>3, DecideOf6
<1>5. (\A i \in DOMAIN x.items : ~x.items[i].long) /\ ~x.agentName.long
  BY <1>4 DEF CapFailure
<1>6. (\A i \in DOMAIN x.items : ~HasCardToken(x.items[i])) /\ ~HasCardToken(x.agentName)
  BY <1>4 DEF RefusedValues, Screened
<1>7. \A i \in DOMAIN x.items : ~x.items[i].email
  BY <1>4 DEF RefusedValues, Screened
<1> QED
  BY <1>4, <1>5, <1>6, <1>7 DEF SafeToKeep

\* Options that pass name an agent, a time, and a number of uses.
LEMMA OptionsPass ==
  ASSUME NEW o, OptionsError(o) = "none"
  PROVE  o.agents # {} /\ o.maxUses # Malformed /\ o.approvedAt \notin {None, Malformed}
<1> DEFINE c1 == When(o.key # "ed25519" \/ o.agents = {}, "bad-option")
           c2 == When(o.maxUses = Malformed, "bad-option")
           c3 == When(TimeError(o.approvedAt) # "none" \/ o.iat = Malformed, "bad-time")
<1>1. OptionsError(o) = Decide(<<c1, c2, c3>>, "none")
  BY DEF OptionsError
<1>2. /\ c1.answer = "bad-option" /\ c2.answer = "bad-option" /\ c3.answer = "bad-time"
      /\ (c1.applies <=> o.key # "ed25519" \/ o.agents = {}) /\ (c2.applies <=> o.maxUses = Malformed)
      /\ (c3.applies <=> TimeError(o.approvedAt) # "none" \/ o.iat = Malformed)
  BY DEF When
<1> HIDE DEF c1, c2, c3
<1>3. o.agents # {} /\ o.maxUses # Malformed /\ TimeError(o.approvedAt) = "none"
  BY <1>1, <1>2, DecideOf3
<1> QED
  BY <1>3 DEF TimeError

\* An amount that passes is one, in a currency of the table.
LEMMA AmountPasses ==
  ASSUME NEW amount, NEW currency, AmountError(amount, currency) = "none"
  PROVE  currency \in DOMAIN Exponents /\ amount # Malformed
<1> DEFINE c1 == When(currency \notin DOMAIN Exponents, "unknown-currency")
           c2 == When(amount = Malformed, "bad-amount")
<1>1. AmountError(amount, currency) = Decide(<<c1, c2>>, "none")
  BY DEF AmountError
<1>2. c1.answer = "unknown-currency" /\ c2.answer = "bad-amount" /\ (c1.applies <=> currency \notin DOMAIN Exponents) /\ (c2.applies <=> amount = Malformed)
  BY DEF When
<1> HIDE DEF c1, c2
<1> QED
  BY <1>1, <1>2, DecideOf2

\* A mapping that is not refused passed the checks of its provider.
LEMMA MappingPasses ==
  ASSUME NEW a, ApprovalField("kind", a.kind), MapError(a) = "none"
  PROVE  /\ OptionsError(a.options) = "none" /\ AmountError(a.amount, a.currency) = "none"
         /\ a.kind # "prava" => TimeError(a.ends) = "none"
         /\ a.kind = "prava" => a.ends # Malformed /\ a.minutes # Malformed
         /\ a.kind \in {"prava", "reap"} => a.scope \in {"listed", "any"} /\ ChargesError(a, "max-uses-over-max-charges") = "none"
         /\ a.kind = "skyfire" /\ a.status = "pay_per_use" => ChargesError(a, "max-uses-over-max-requests") = "none"
<1> DEFINE amount == AmountError(a.amount, a.currency)
           end == TimeError(a.ends)
           url == IF Listed(a) THEN UrlError(a.url) ELSE "none"
           scope(code) == IF a.scope \notin {"listed", "any"} THEN code ELSE "none"
           nameless(code) == IF a.scope = "listed" /\ a.url = None THEN code ELSE "none"
           plain == <<end, amount, url>>
           prava == <<IF a.entries > 1 THEN "prava-custom-entries" ELSE "none", scope("prava-scope"), amount, nameless("prava-scope"), url,
                      IF a.minutes = Malformed THEN "bad-field" ELSE "none", TimeError(a.options.approvedAt),
                      IF a.ends = Malformed THEN "bad-time" ELSE "none", ChargesError(a, "max-uses-over-max-charges")>>
           reap == <<IF a.status # "ACTIVE" THEN "reap-status" ELSE "none", IF a.ends = None THEN "bad-option" ELSE "none", amount,
                     scope("reap-scope"), nameless("reap-scope"), url, IF a.charges = None THEN "bad-field" ELSE "none", ChargesError(a, "max-uses-over-max-charges"), end>>
           skyfire == <<amount, IF a.url = None THEN "bad-field" ELSE "none", end,
                        IF a.status = "pay_per_use" THEN ChargesError(a, "max-uses-over-max-requests") ELSE "none">>
           refusals == CASE a.kind \in {"crossmint", "basis-theory"} -> plain [] a.kind = "prava" -> prava
                         [] a.kind = "reap" -> reap [] a.kind = "skyfire" -> skyfire
           refused == {i \in DOMAIN refusals : refusals[i] # "none"}
<1>1. MapError(a) = IF ~a.object THEN "bad-field" ELSE IF refused # {} THEN refusals[Min(refused)] ELSE OptionsError(a.options)
  BY DEF MapError
<1>2. /\ a.kind \in {"crossmint", "basis-theory"} => refusals = plain
      /\ a.kind = "prava" => refusals = prava
      /\ a.kind = "reap" => refusals = reap
      /\ a.kind = "skyfire" => refusals = skyfire
      /\ a.kind \in {"crossmint", "basis-theory", "prava", "reap", "skyfire"}
  BY DEF ApprovalField
<1>3. refused = {}
  <2> SUFFICES ASSUME refused # {}
               PROVE  FALSE
    OBVIOUS
  <2>1. DOMAIN refusals \subseteq Nat
    <3>1. DOMAIN plain \subseteq Nat /\ DOMAIN prava \subseteq Nat /\ DOMAIN reap \subseteq Nat /\ DOMAIN skyfire \subseteq Nat
      OBVIOUS
    <3> HIDE DEF plain, prava, reap, skyfire, refusals
    <3> QED
      BY <1>2, <3>1
  <2> HIDE DEF refusals
  <2>2. Min(refused) \in refused
    BY <2>1, MinIsLeast
  <2> QED
    BY <1>1, <2>2
<1>4. \A i \in DOMAIN refusals : refusals[i] = "none"
  <2> HIDE DEF refusals
  <2> QED
    BY <1>3
<1>5. OptionsError(a.options) = "none"
  <2> HIDE DEF refusals
  <2> QED
    BY <1>1, <1>3
<1> HIDE DEF refusals
<1>6. a.kind \in {"crossmint", "basis-theory"} => amount = "none" /\ end = "none"
  BY <1>2, <1>4
<1>7. a.kind = "prava" => /\ a.scope \in {"listed", "any"} /\ amount = "none" /\ a.minutes # Malformed /\ a.ends # Malformed
                          /\ ChargesError(a, "max-uses-over-max-charges") = "none"
  <2> HIDE DEF amount, end, url
  <2>1. a.kind = "prava" => prava[2] = "none" /\ prava[3] = "none" /\ prava[6] = "none" /\ prava[8] = "none" /\ prava[9] = "none"
    BY <1>2, <1>4
  <2> QED
    BY <2>1
<1>8. a.kind = "reap" => /\ a.scope \in {"listed", "any"} /\ amount = "none" /\ end = "none" /\ ChargesError(a, "max-uses-over-max-charges") = "none"
  <2> HIDE DEF amount, end, url
  <2>1. a.kind = "reap" => reap[3] = "none" /\ reap[4] = "none" /\ reap[8] = "none" /\ reap[9] = "none"
    BY <1>2, <1>4
  <2> QED
    BY <2>1
<1>9. a.kind = "skyfire" => amount = "none" /\ end = "none" /\ (a.status = "pay_per_use" => ChargesError(a, "max-uses-over-max-requests") = "none")
  BY <1>2, <1>4
<1> QED
  BY <1>2, <1>5, <1>6, <1>7, <1>8, <1>9

\* Uses that pass are no more than the provider's charges.
LEMMA ChargesPass ==
  ASSUME NEW a, NEW code, code # "none", ApprovalField("charges", a.charges), ApprovalField("options", a.options),
         ChargesError(a, code) = "none", a.options.maxUses # Malformed, a.charges # None
  PROVE  a.options.maxUses <= a.charges
BY DEF ChargesError, ApprovalField

\* No mapping widens what was approved.
LEMMA NothingIsWidened ==
  ASSUME NEW a, \A f \in ApprovalFields : ApprovalField(f, a[f])
  PROVE  NeverWidens(a)
<1> SUFFICES ASSUME MapError(a) = "none"
             PROVE  LET i == Instruction(a) IN
                    /\ i.currency = a.currency /\ i.max_total_minor * 1000 <= a.amount * 10 ^ Exponents[a.currency]
                    /\ a.kind \in {"prava", "reap"} /\ a.scope = "listed" => i.merchants = {a.url.origin}
                    /\ a.kind \in {"crossmint", "basis-theory"} /\ a.url # None => i.merchants = {a.url.origin}
                    /\ a.ends # None => i.until <= a.ends
                    /\ a.kind = "prava" => i.until <= a.options.approvedAt + a.minutes * Minute
                    /\ a.charges # None /\ (a.kind \in {"prava", "reap"} \/ (a.kind = "skyfire" /\ a.status = "pay_per_use")) => i.max_uses <= a.charges
                    /\ i.from = a.options.approvedAt /\ i.agents # {}
  BY DEF NeverWidens
<1> DEFINE i == Instruction(a)
<1>1. /\ i.currency = a.currency /\ i.max_total_minor = ToMinorUnits(a.amount, a.currency)
      /\ i.merchants = IF a.kind = "skyfire" THEN {a.url} ELSE IF Listed(a) THEN {a.url.origin} ELSE None
      /\ i.from = a.options.approvedAt /\ i.until = ValidUntil(a) /\ i.max_uses = a.options.maxUses /\ i.agents = a.options.agents
  BY DEF Instruction
<1>2. /\ a.kind \in {"crossmint", "basis-theory", "prava", "reap", "skyfire"}
      /\ a.amount \in Int \cup {Malformed} /\ a.minutes \in Int \cup {Malformed}
      /\ a.ends \in Int \cup {None, Malformed} /\ a.options.approvedAt \in Int \cup {None, Malformed}
      /\ ApprovalField("kind", a.kind) /\ ApprovalField("charges", a.charges) /\ ApprovalField("options", a.options)
  BY DEF ApprovalField, ApprovalFields
<1>3. a.options.agents # {} /\ a.options.maxUses # Malformed /\ a.options.approvedAt \in Int
  BY <1>2, MappingPasses, OptionsPass
<1>4. i.max_total_minor * 1000 <= a.amount * 10 ^ Exponents[a.currency]
  <2>1. a.currency \in DOMAIN Exponents /\ a.amount \in Int
    BY <1>2, MappingPasses, AmountPasses
  <2>2. 10 ^ Exponents[a.currency] \in {100, 1}
    <3>1. 10 ^ 2 = 100 /\ 10 ^ 0 = 1
      OBVIOUS
    <3>2. Exponents[a.currency] \in {2, 0}
      BY <2>1 DEF Exponents
    <3> QED
      BY <3>1, <3>2
  <2>3. a.amount * 10 ^ Exponents[a.currency] \in Int
    BY <2>1, <2>2
  <2>4. \A n \in Int : (n \div 1000) * 1000 <= n
    OBVIOUS
  <2> QED
    BY <1>1, <2>3, <2>4 DEF ToMinorUnits
<1>5. a.kind # "prava" => a.ends \in Int /\ i.until = a.ends
  <2>1. a.kind # "prava" => TimeError(a.ends) = "none"
    BY <1>2, MappingPasses
  <2> QED
    BY <1>1, <1>2, <2>1 DEF TimeError, ValidUntil
<1>6. a.kind = "prava" => i.until <= a.options.approvedAt + a.minutes * Minute /\ (a.ends # None => i.until <= a.ends)
  <2> SUFFICES ASSUME a.kind = "prava"
               PROVE  i.until <= a.options.approvedAt + a.minutes * Minute /\ (a.ends # None => i.until <= a.ends)
    OBVIOUS
  <2> DEFINE byMinutes == (a.options.approvedAt \div 2) * 2 + a.minutes * Minute
  <2>1. a.ends \in Int \cup {None} /\ a.minutes \in Int
    BY <1>2, MappingPasses
  <2>2. a.minutes * Minute \in Int
    BY <2>1, MappersAssumption
  <2>3. byMinutes \in Int /\ byMinutes <= a.options.approvedAt + a.minutes * Minute
    <3>1. \A n \in Int : (n \div 2) * 2 \in Int /\ (n \div 2) * 2 <= n
      OBVIOUS
    <3> QED
      BY <1>3, <2>2, <3>1
  <2>4. i.until = IF a.ends # None /\ a.ends < byMinutes THEN a.ends ELSE byMinutes
    BY <1>1 DEF ValidUntil, PravaEnd
  <2>5. a.options.approvedAt + a.minutes * Minute \in Int
    BY <1>3, <2>2
  <2> HIDE DEF byMinutes, i
  <2> QED
    BY <2>1, <2>3, <2>4, <2>5
<1>7. a.charges # None /\ (a.kind \in {"prava", "reap"} \/ (a.kind = "skyfire" /\ a.status = "pay_per_use")) => i.max_uses <= a.charges
  BY <1>1, <1>2, <1>3, MappingPasses, ChargesPass
<1>8. /\ a.kind \in {"prava", "reap"} /\ a.scope = "listed" => i.merchants = {a.url.origin}
      /\ a.kind \in {"crossmint", "basis-theory"} /\ a.url # None => i.merchants = {a.url.origin}
  BY <1>1 DEF Listed
<1>9. a.ends # None => i.until <= a.ends
  BY <1>2, <1>5, <1>6
<1> HIDE DEF i
<1> QED
  BY <1>1, <1>3, <1>4, <1>6, <1>7, <1>8, <1>9 DEF i
\* A rule of a list that is broken is found.
LEMMA NothingIsBroken ==
  ASSUME NEW rules, NEW wrong, DOMAIN rules \subseteq Nat, wrong \subseteq {rules[n] : n \in DOMAIN rules},
         "none" \notin {rules[n] : n \in DOMAIN rules}, FirstOf(rules, wrong) = "none"
  PROVE  wrong = {}
<1> DEFINE broken == {i \in DOMAIN rules : rules[i] \in wrong}
<1>1. FirstOf(rules, wrong) = IF broken = {} THEN "none" ELSE rules[Min(broken)]
  BY DEF FirstOf
<1>2. broken = {}
  <2> SUFFICES ASSUME broken # {}
               PROVE  FALSE
    OBVIOUS
  <2>1. Min(broken) \in broken
    BY MinIsLeast
  <2> QED
    BY <1>1, <2>1
<1> QED
  BY <1>2

\* A purchase is allowed when none of the three steps has a reason.
LEMMA AllowedMeans ==
  ASSUME NEW q
  PROVE  Allows(q) <=> Step1(q) = {} /\ Step2(q) = {} /\ Step3(q) = {}
<1> DEFINE c1 == When(Step1(q) # {}, [step |-> 1, reasons |-> Step1(q)])
           c2 == When(Step2(q) # {}, [step |-> 2, reasons |-> Step2(q)])
           otherwise == [step |-> 3, reasons |-> Step3(q)]
<1>1. JudgePurchase(q) = Decide(<<c1, c2>>, otherwise)
  BY DEF JudgePurchase
<1>2. /\ c1.answer.reasons = Step1(q) /\ c2.answer.reasons = Step2(q) /\ otherwise.reasons = Step3(q)
      /\ (c1.applies <=> Step1(q) # {}) /\ (c2.applies <=> Step2(q) # {})
  BY DEF When
<1> HIDE DEF c1, c2, otherwise
<1>3. JudgePurchase(q) = IF c1.applies THEN c1.answer ELSE IF c2.applies THEN c2.answer ELSE otherwise
  BY <1>1, DecideOf2
<1> QED
  BY <1>2, <1>3 DEF Allows

\* What the third step says.
LEMMA InsideMeans ==
  ASSUME NEW q, Step3(q) = {}
  PROVE  /\ ~(q.at < q.valid.from) /\ ~(q.at > q.valid.until) /\ q.kid \in q.agents /\ ~(q.usesSoFar + 1 > Uses(q))
         /\ \A l \in ItemLimits \cup OrderLimits : LimitResult(q, l) \notin {"outside", "not-evaluated"}
<1> DEFINE reasons(l) == CASE LimitResult(q, l) = "outside" -> {"limit-exceeded"} [] LimitResult(q, l) = "not-evaluated" -> {"order-field-missing"}
                           [] OTHER -> {}
<1>1. Step3(q) = (IF q.at < q.valid.from THEN {"not-yet-valid"} ELSE {})
                 \cup (IF q.at > q.valid.until THEN {"expired"} ELSE {})
                 \cup (IF q.kid \notin q.agents THEN {"agent-not-named"} ELSE {})
                 \cup (IF q.usesSoFar + 1 > Uses(q) THEN {"uses-exhausted"} ELSE {})
                 \cup UNION {reasons(l) : l \in ItemLimits \cup OrderLimits}
  BY DEF Step3
<1>2. \A l \in ItemLimits \cup OrderLimits : LimitResult(q, l) \notin {"outside", "not-evaluated"}
  <2> SUFFICES ASSUME NEW l \in ItemLimits \cup OrderLimits, LimitResult(q, l) \in {"outside", "not-evaluated"}
               PROVE  FALSE
    OBVIOUS
  <2>1. reasons(l) # {}
    OBVIOUS
  <2> HIDE DEF reasons
  <2>2. reasons(l) \subseteq Step3(q)
    BY <1>1
  <2> QED
    BY <2>1, <2>2
<1> QED
  BY <1>1, <1>2

\* Every item has the fields a limit is about, and is inside it.
LEMMA EveryItemInside ==
  ASSUME NEW limit, NEW value, NEW items, EveryItem(limit, value, items) \notin {"outside", "not-evaluated"}, NEW i \in DOMAIN items
  PROVE  (\A f \in Fields(limit) : items[i][f] # None) /\ ItemInside(limit, value, items[i])
<1> DEFINE missing == {n \in DOMAIN items : \E f \in Fields(limit) : items[n][f] = None}
           c1 == When(\E n \in DOMAIN items \ missing : ~ItemInside(limit, value, items[n]), "outside")
           c2 == When(missing # {}, "not-evaluated")
<1>1. EveryItem(limit, value, items) = Decide(<<c1, c2>>, "inside")
  BY DEF EveryItem
<1>2. /\ c1.answer = "outside" /\ c2.answer = "not-evaluated"
      /\ c1.applies <=> \E n \in DOMAIN items \ missing : ~ItemInside(limit, value, items[n])
      /\ c2.applies <=> missing # {}
  BY DEF When
<1> HIDE DEF c1, c2
<1>3. missing = {} /\ ~\E n \in DOMAIN items \ missing : ~ItemInside(limit, value, items[n])
  <2> HIDE DEF missing
  <2> QED
    BY <1>1, <1>2, DecideOf2
<1> QED
  BY <1>3

\* A limit of the card that is set holds of every item, or of the order.
LEMMA LimitHolds ==
  ASSUME NEW q, NEW limit \in ItemLimits \cup OrderLimits, LimitResult(q, limit) \notin {"outside", "not-evaluated"}
  PROVE  \/ q.card[limit] = None \/ (limit = "refundable_only" /\ q.card[limit] = FALSE)
         \/ /\ limit \in ItemLimits
            /\ \A i \in DOMAIN q.order.items :
                 (\A f \in Fields(limit) : q.order.items[i][f] # None) /\ ItemInside(limit, q.card[limit], q.order.items[i])
         \/ limit \in OrderLimits /\ OrderInside(limit, q.card[limit], q.order)
<1> DEFINE items == q.order.items
           value == q.card[limit]
<1>1. LimitResult(q, limit) =
        IF value = None \/ (limit = "refundable_only" /\ value = FALSE) THEN "not-declared"
        ELSE IF limit \in ItemLimits THEN EveryItem(limit, value, items)
        ELSE IF OrderInside(limit, value, q.order) THEN "inside" ELSE "outside"
  BY DEF LimitResult
<1>2. ASSUME EveryItem(limit, value, items) \notin {"outside", "not-evaluated"}
      PROVE  \A i \in DOMAIN items : (\A f \in Fields(limit) : items[i][f] # None) /\ ItemInside(limit, value, items[i])
  <2> HIDE DEF items, value
  <2> QED
    BY <1>2, EveryItemInside
<1> QED
  BY <1>1, <1>2

\* What is allowed lies inside everything the instruction says.
LEMMA AllowedIsInside ==
  ASSUME NEW q, \A f \in PurchaseFields : PurchaseField(f, q[f]), Allows(q)
  PROVE  WithinInstruction(q)
<1>1. Step1(q) = {} /\ Step2(q) = {} /\ Step3(q) = {}
  BY AllowedMeans
<1>2. /\ q.at \in Int /\ q.usesSoFar \in Int /\ q.valid.from \in Int /\ q.valid.until \in Int /\ q.maxUses \in Int \cup {None}
      /\ q.card["refundable_only"] \in BOOLEAN \cup {None}
      /\ \A i \in DOMAIN q.order.items : q.order.items[i].refundable \in BOOLEAN \cup {None}
      /\ q.m6 \subseteq {M6Rules[n] : n \in DOMAIN M6Rules} /\ q.wrong \subseteq {OrderRules[n] : n \in DOMAIN OrderRules}
  BY DEF PurchaseFields, PurchaseField
<1>3. q.reading = "ok" /\ q.plain /\ q.wrong = {}
  <2>1. q.reading = "ok" /\ q.plain /\ OrderFailure(q.wrong) = "none"
    BY <1>1 DEF Step1
  <2>2. DOMAIN OrderRules \subseteq Nat /\ "none" \notin {OrderRules[n] : n \in DOMAIN OrderRules}
    BY DEF OrderRules
  <2> QED
    BY <1>2, <2>1, <2>2, NothingIsBroken DEF OrderFailure
<1>4. q.m6 = {} /\ q.unsupported = {} /\ q.calendar
  <2>1. M6Check(q) = "none" /\ q.unsupported = {} /\ q.calendar
    BY <1>1 DEF Step2
  <2>2. DOMAIN M6Rules \subseteq Nat /\ "none" \notin {M6Rules[n] : n \in DOMAIN M6Rules}
    BY DEF M6Rules
  <2> QED
    BY <1>2, <2>1, <2>2, NothingIsBroken DEF M6Check
<1>5. q.valid.from <= q.at /\ q.at <= q.valid.until /\ q.kid \in q.agents /\ q.usesSoFar < Uses(q)
  BY <1>1, <1>2, InsideMeans DEF Uses
<1> DEFINE holds(l) == \A i \in DOMAIN q.order.items :
                         (\A f \in Fields(l) : q.order.items[i][f] # None) /\ ItemInside(l, q.card[l], q.order.items[i])
<1>6. \A l \in ItemLimits \cup OrderLimits :
         \/ q.card[l] = None \/ (l = "refundable_only" /\ q.card[l] = FALSE)
         \/ l \in ItemLimits /\ holds(l)
         \/ l \in OrderLimits /\ OrderInside(l, q.card[l], q.order)
  BY <1>1, InsideMeans, LimitHolds
<1>7. /\ q.card["currency"] \in {None, q.order.currency}
      /\ q.card["max_total_minor"] # None => q.order.total <= q.card["max_total_minor"]
      /\ q.card["merchants"] # None => q.order.merchant \in q.card["merchants"]
  <2> HIDE DEF holds
  <2> QED
    BY <1>6 DEF ItemLimits, OrderLimits, OrderInside
<1>8. \A l \in ItemLimits : q.card[l] = None \/ (l = "refundable_only" /\ q.card[l] = FALSE) \/ holds(l)
  <2> HIDE DEF holds
  <2> QED
    BY <1>6 DEF ItemLimits, OrderLimits
<1>9. ASSUME NEW i \in DOMAIN q.order.items
      PROVE  LET it == q.order.items[i] IN
             /\ q.card["max_unit_price_minor"] # None => it.price # None /\ it.price <= q.card["max_unit_price_minor"]
             /\ q.card["items"] # None => it.sku \in q.card["items"]
             /\ q.card["categories"] # None => it.category \in q.card["categories"]
             /\ q.card["refundable_only"] \in {None, FALSE} \/ it.refundable = TRUE
             /\ q.card["service_window"] # None => /\ it.from # None /\ it.from >= q.card["service_window"].from
                                                   /\ it.until # None /\ it.until <= q.card["service_window"].until
             /\ q.card["locations"] # None => it.location \in q.card["locations"]
  <2> DEFINE it == q.order.items[i]
  <2>1. \A l \in ItemLimits : \/ q.card[l] = None \/ (l = "refundable_only" /\ q.card[l] = FALSE)
                              \/ (\A f \in Fields(l) : it[f] # None) /\ ItemInside(l, q.card[l], it)
    BY <1>8
  <2>2. it.refundable \in BOOLEAN \cup {None}
    BY <1>2
  <2> HIDE DEF it, holds
  <2>3. /\ q.card["max_unit_price_minor"] # None => it.price # None /\ it.price <= q.card["max_unit_price_minor"]
        /\ q.card["items"] # None => it.sku \in q.card["items"]
        /\ q.card["categories"] # None => it.category \in q.card["categories"]
        /\ q.card["locations"] # None => it.location \in q.card["locations"]
    BY <2>1 DEF ItemLimits, Fields, ItemInside
  <2>4. q.card["refundable_only"] \in {None, FALSE} \/ it.refundable = TRUE
    BY <1>2, <2>1, <2>2 DEF ItemLimits, Fields, ItemInside
  <2>5. q.card["service_window"] # None => /\ it.from # None /\ it.from >= q.card["service_window"].from
                                           /\ it.until # None /\ it.until <= q.card["service_window"].until
    BY <2>1 DEF ItemLimits, Fields, ItemInside
  <2> QED
    BY <2>3, <2>4, <2>5 DEF it
<1> HIDE DEF holds
<1> QED
  BY <1>3, <1>4, <1>5, <1>7, <1>9 DEF WithinInstruction

----------------------------------------------------------------------------
\* Running totals

\* Whatever is added up has a running total.
LEMMA TotalExists ==
  ASSUME NEW n \in Nat, NEW step \in [1 .. n -> Nat]
  PROVE  \E f \in [0 .. n -> Nat] : f[0] = 0 /\ \A k \in 1 .. n : f[k] = f[k - 1] + step[k]
<1> DEFINE Has(m) == \E f \in [0 .. m -> Nat] : f[0] = 0 /\ \A k \in 1 .. m : f[k] = f[k - 1] + step[k]
           lacking == {m \in 0 .. n : ~Has(m)}
<1>1. SUFFICES ASSUME lacking # {}
               PROVE  FALSE
  <2>1. lacking = {} => Has(n)
    <3> HIDE DEF Has
    <3> QED
      OBVIOUS
  <2> QED
    BY <2>1
<1>2. PICK m \in lacking : \A k \in lacking : m <= k
  <2>1. lacking \in SUBSET Nat
    <3> HIDE DEF Has
    <3> QED
      OBVIOUS
  <2> HIDE DEF lacking
  <2> QED
    BY <1>1, <2>1, MinIsLeast
<1>3. m \in 0 .. n /\ ~Has(m)
  <2> HIDE DEF Has
  <2> QED
    OBVIOUS
<1>4. Has(0)
  <2> DEFINE zero == [k \in 0 .. 0 |-> 0]
  <2>1. zero \in [0 .. 0 -> Nat] /\ zero[0] = 0
    OBVIOUS
  <2>2. \A k \in 1 .. 0 : zero[k] = zero[k - 1] + step[k]
    OBVIOUS
  <2> HIDE DEF zero
  <2> QED
    BY <2>1, <2>2
<1>5. m - 1 \in 0 .. n /\ Has(m - 1)
  <2> HIDE DEF Has
  <2>1. m # 0
    BY <1>3, <1>4
  <2> QED
    BY <1>2, <1>3, <2>1
<1>6. PICK f \in [0 .. m - 1 -> Nat] : f[0] = 0 /\ \A k \in 1 .. m - 1 : f[k] = f[k - 1] + step[k]
  BY <1>5
<1> DEFINE g == [k \in 0 .. m |-> IF k = m THEN f[m - 1] + step[m] ELSE f[k]]
<1>7. g \in [0 .. m -> Nat]
  <2>1. f[m - 1] + step[m] \in Nat /\ \A k \in 0 .. m : k # m => f[k] \in Nat
    BY <1>3, <1>5, <1>6
  <2> QED
    BY <2>1
<1>8. g[0] = 0 /\ \A k \in 1 .. m : g[k] = g[k - 1] + step[k]
  BY <1>3, <1>5, <1>6
<1> HIDE DEF g
<1>9. Has(m)
  BY <1>7, <1>8
<1> QED
  BY <1>3, <1>9

\* A running total of naturals is at no place less than one of them.
LEMMA TotalGrows ==
  ASSUME NEW n \in Nat, NEW step \in [1 .. n -> Nat], NEW f,
         f[0] = 0, \A k \in 1 .. n : f[k] = f[k - 1] + step[k], NEW i \in 1 .. n
  PROVE  f[n] \in Nat /\ step[i] <= f[n]
<1> DEFINE bad == {k \in 0 .. n : ~(f[k] \in Nat /\ (i <= k => step[i] <= f[k]))}
<1>1. SUFFICES ASSUME bad # {}
               PROVE  FALSE
  OBVIOUS
<1>2. PICK m \in bad : \A k \in bad : m <= k
  <2>1. bad \in SUBSET Nat
    OBVIOUS
  <2> HIDE DEF bad
  <2> QED
    BY <1>1, <2>1, MinIsLeast
<1>3. m \in 1 .. n
  OBVIOUS
<1>4. m - 1 \in 0 .. n /\ f[m - 1] \in Nat /\ (i <= m - 1 => step[i] <= f[m - 1])
  BY <1>2, <1>3
<1>5. f[m] = f[m - 1] + step[m] /\ step[m] \in Nat /\ step[i] \in Nat
  BY <1>3
<1> QED
  BY <1>3, <1>4, <1>5

\* What moved in an asset is no less than any movement in it.
LEMMA MovedIsNoLess ==
  ASSUME NEW movements, IsSeq(movements), \A n \in DOMAIN movements : movements[n].amount \in Nat, NEW asset,
         NEW i \in DOMAIN movements, movements[i].asset = asset
  PROVE  Moved(movements, asset) \in Nat /\ movements[i].amount <= Moved(movements, asset)
<1> DEFINE n == Len(movements)
           step == [k \in 1 .. n |-> IF movements[k].asset = asset THEN movements[k].amount ELSE 0]
           sums(f) == f = [k \in 0 .. n |-> IF k = 0 THEN 0 ELSE f[k - 1] + (IF movements[k].asset = asset THEN movements[k].amount ELSE 0)]
           total == CHOOSE f : sums(f)
<1>1. n \in Nat /\ DOMAIN movements = 1 .. n
  <2>1. Len(movements) \in Nat /\ movements = [k \in 1 .. Len(movements) |-> movements[k]]
    BY DEF IsSeq
  <2> QED
    BY <2>1
<1>2. step \in [1 .. n -> Nat]
  BY <1>1
<1>3. Moved(movements, asset) = total[n]
  BY DEF Moved
<1>4. PICK f \in [0 .. n -> Nat] : f[0] = 0 /\ \A k \in 1 .. n : f[k] = f[k - 1] + step[k]
  <2> HIDE DEF n, step
  <2> QED
    BY <1>1, <1>2, TotalExists
<1>5. sums(f)
  <2>1. f = [k \in 0 .. n |-> f[k]]
    OBVIOUS
  <2>2. \A k \in 0 .. n : f[k] = IF k = 0 THEN 0 ELSE f[k - 1] + (IF movements[k].asset = asset THEN movements[k].amount ELSE 0)
    <3>1. \A k \in 0 .. n : k = 0 \/ k \in 1 .. n
      BY <1>1
    <3> QED
      BY <1>4, <3>1
  <2> QED
    BY <2>1, <2>2
<1>6. sums(total)
  <2> HIDE DEF sums
  <2> QED
    BY <1>5
<1>7. total[0] = 0 /\ \A k \in 1 .. n : total[k] = total[k - 1] + step[k]
  <2> HIDE DEF total
  <2> QED
    BY <1>1, <1>6
<1>8. i \in 1 .. n /\ step[i] = movements[i].amount
  BY <1>1
<1> HIDE DEF n, step, total
<1>9. total[n] \in Nat /\ step[i] <= total[n]
  BY <1>1, <1>2, <1>7, <1>8, TotalGrows
<1> QED
  BY <1>3, <1>8, <1>9

----------------------------------------------------------------------------
\* Instructions

\* Reading that is not refused found nothing that strict reading refuses.
LEMMA ReadIsStrict ==
  ASSUME NEW flaws, ReadInstruction(flaws) = "ok"
  PROVE  ParseStrictJson(flaws)
<1> DEFINE c1 == When("not-a-string" \in flaws, "not-a-string")
           c2 == When("too-large" \in flaws, "too-large")
           c3 == When(~ParseStrictJson(flaws), "not-strict")
           c4 == When("unsafe-integer" \in flaws, "unsafe-integer")
<1>1. ReadInstruction(flaws) = Decide(<<c1, c2, c3, c4>>, "ok")
  BY DEF ReadInstruction
<1>2. /\ c1.answer = "not-a-string" /\ c2.answer = "too-large" /\ c3.answer = "not-strict" /\ c4.answer = "unsafe-integer"
      /\ c3.applies <=> ~ParseStrictJson(flaws)
  BY DEF When
<1> HIDE DEF c1, c2, c3, c4
<1> QED
  BY <1>1, <1>2, DecideOf4

\* What the purchase check takes keeps every rule of the profile.
LEMMA TakenMeans ==
  ASSUME NEW i, M6CheckOf(i) = "none"
  PROVE  LET c == i.constraints IN
         /\ i.exact /\ i.v = "0.3" /\ i.key = "ed25519" /\ i.thumbprint /\ i.agents \notin {Malformed, {}} /\ i.text # Malformed
         /\ c.exact /\ c.card # None /\ c.maxUses \notin {Malformed, 0} /\ CardValuesHold(c.card) /\ CardLimitsSomething(c.card)
         /\ ReadsAsTime(c.from) /\ ReadsAsTime(c.until) /\ ~(c.from.ms > c.until.ms) /\ ReadsAsTime(i.iat) /\ SignatureHolds(i)
<1> DEFINE c == i.constraints
           c1 == When(~i.exact, "not-an-object")
           c2 == When(i.v # "0.3", "wrong-profile")
           c3 == When(i.key # "ed25519", "bad-key")
           c4 == When(~i.thumbprint, "kid-not-thumbprint")
           c5 == When(i.agents \in {Malformed, {}}, "bad-agent-kid")
           c6 == When(i.text = Malformed, "bad-text")
           c7 == When(~c.exact, "bad-constraints")
           c8 == When(c.card = None, "card-missing")
           c9 == When(c.maxUses \in {Malformed, 0}, "bad-max-uses")
           c10 == When(c.card # None /\ ~CardValuesHold(c.card), "bad-card")
           c11 == When(c.card # None /\ ~CardLimitsSomething(c.card), "card-limits-empty")
           c12 == When(Malformed \in {c.from, c.until}, "time-not-z")
           c13 == When(~ReadsAsTime(c.from) \/ ~ReadsAsTime(c.until), "time-not-calendar")
           c14 == When(ReadsAsTime(c.from) /\ ReadsAsTime(c.until) /\ c.from.ms > c.until.ms, "window-reversed")
           c15 == When(i.iat = Malformed, "iat-not-z")
           c16 == When(~ReadsAsTime(i.iat), "iat-not-calendar")
           c17 == When(i.sig = Malformed, "bad-sig")
           c18 == When(~SignatureHolds(i), "bad-signature")
<1>1. M6CheckOf(i) = Decide(<<c1, c2, c3, c4, c5, c6, c7, c8, c9, c10, c11, c12, c13, c14, c15, c16, c17, c18>>, "none")
  BY DEF M6CheckOf
<1>2. /\ "none" \notin {c1.answer, c2.answer, c3.answer, c4.answer, c5.answer, c6.answer, c7.answer, c8.answer, c9.answer}
      /\ "none" \notin {c10.answer, c11.answer, c12.answer, c13.answer, c14.answer, c15.answer, c16.answer, c17.answer, c18.answer}
  BY DEF When
<1>3. /\ (c1.applies <=> ~i.exact) /\ (c2.applies <=> i.v # "0.3") /\ (c3.applies <=> i.key # "ed25519") /\ (c4.applies <=> ~i.thumbprint)
      /\ (c5.applies <=> i.agents \in {Malformed, {}}) /\ (c6.applies <=> i.text = Malformed) /\ (c7.applies <=> ~c.exact)
      /\ (c8.applies <=> c.card = None) /\ (c9.applies <=> c.maxUses \in {Malformed, 0})
  BY DEF When
<1>4. /\ (c10.applies <=> c.card # None /\ ~CardValuesHold(c.card)) /\ (c11.applies <=> c.card # None /\ ~CardLimitsSomething(c.card))
      /\ (c13.applies <=> ~ReadsAsTime(c.from) \/ ~ReadsAsTime(c.until))
      /\ (c14.applies <=> ReadsAsTime(c.from) /\ ReadsAsTime(c.until) /\ c.from.ms > c.until.ms)
      /\ (c16.applies <=> ~ReadsAsTime(i.iat)) /\ (c18.applies <=> ~SignatureHolds(i))
  BY DEF When
<1> HIDE DEF c1, c2, c3, c4, c5, c6, c7, c8, c9, c10, c11, c12, c13, c14, c15, c16, c17, c18
<1>5. /\ ~c1.applies /\ ~c2.applies /\ ~c3.applies /\ ~c4.applies /\ ~c5.applies /\ ~c6.applies /\ ~c7.applies /\ ~c8.applies /\ ~c9.applies
      /\ ~c10.applies /\ ~c11.applies /\ ~c12.applies /\ ~c13.applies /\ ~c14.applies /\ ~c15.applies /\ ~c16.applies /\ ~c17.applies /\ ~c18.applies
  BY <1>1, <1>2, DecideOf18
<1> QED
  BY <1>3, <1>4, <1>5

\* The verifier's check is passed when no rule of it is broken.
LEMMA VerifiedMeans ==
  ASSUME NEW i, NEW profile
  PROVE  M6Instruction(i, profile) = "none" <=>
           LET c == i.constraints
               named == DOMAIN c.payment
               carded == HasCard(i, profile)
           IN  /\ ParseStrictJson(i.flaws) /\ i.exact /\ i.v = profile /\ i.key = "ed25519" /\ i.thumbprint
               /\ i.agents \notin {Malformed, {}} /\ i.text # Malformed
               /\ ~(carded /\ named \notin {{}, PaymentLimits})
               /\ ~(~c.exact \/ (AsksForPayment(i, profile) /\ named # PaymentLimits) \/ (profile = "0.2" /\ c.card # None))
               /\ ~(\E l \in named : c.payment[l] = Malformed) /\ c.budget # Malformed /\ c.maxUses \notin {Malformed, 0}
               /\ ~(carded /\ ~(CardValuesHold(c.card) /\ CardLimitsSomething(c.card)))
               /\ ReadsAsTime(c.from) /\ ReadsAsTime(c.until) /\ ~(ReadsAsTime(c.from) /\ ReadsAsTime(c.until) /\ c.from.ms > c.until.ms)
               /\ ReadsAsTime(i.iat) /\ SignatureHolds(i)
<1> DEFINE c == i.constraints
           named == DOMAIN c.payment
           carded == HasCard(i, profile)
           c1 == When(~ParseStrictJson(i.flaws), "not-strict")
           c2 == When(~i.exact, "members")
           c3 == When(i.v # profile, "v")
           c4 == When(i.key # "ed25519", "jwk")
           c5 == When(~i.thumbprint, "kid")
           c6 == When(i.agents \in {Malformed, {}}, "agent_kid")
           c7 == When(i.text = Malformed, "text")
           c8 == When(carded /\ named \notin {{}, PaymentLimits}, "some-payment-limits")
           c9 == When(~c.exact \/ (AsksForPayment(i, profile) /\ named # PaymentLimits) \/ (profile = "0.2" /\ c.card # None), "constraints")
           c10 == When(\E l \in named : c.payment[l] = Malformed, "payment")
           c11 == When(c.budget = Malformed, "budget")
           c12 == When(c.maxUses \in {Malformed, 0}, "max_uses")
           c13 == When(carded /\ ~(CardValuesHold(c.card) /\ CardLimitsSomething(c.card)), "card")
           c14 == When(~ReadsAsTime(c.from) \/ ~ReadsAsTime(c.until), "window")
           c15 == When(ReadsAsTime(c.from) /\ ReadsAsTime(c.until) /\ c.from.ms > c.until.ms, "reversed")
           c16 == When(~ReadsAsTime(i.iat), "iat")
           c17 == When(~SignatureHolds(i), "sig")
<1>1. M6Instruction(i, profile) = Decide(<<c1, c2, c3, c4, c5, c6, c7, c8, c9, c10, c11, c12, c13, c14, c15, c16, c17>>, "none")
  BY DEF M6Instruction
<1>2. /\ "none" \notin {c1.answer, c2.answer, c3.answer, c4.answer, c5.answer, c6.answer, c7.answer, c8.answer, c9.answer}
      /\ "none" \notin {c10.answer, c11.answer, c12.answer, c13.answer, c14.answer, c15.answer, c16.answer, c17.answer}
  BY DEF When
<1>3. /\ (c1.applies <=> ~ParseStrictJson(i.flaws)) /\ (c2.applies <=> ~i.exact) /\ (c3.applies <=> i.v # profile) /\ (c4.applies <=> i.key # "ed25519")
      /\ (c5.applies <=> ~i.thumbprint) /\ (c6.applies <=> i.agents \in {Malformed, {}}) /\ (c7.applies <=> i.text = Malformed)
      /\ (c8.applies <=> carded /\ named \notin {{}, PaymentLimits})
      /\ (c9.applies <=> ~c.exact \/ (AsksForPayment(i, profile) /\ named # PaymentLimits) \/ (profile = "0.2" /\ c.card # None))
  BY DEF When
<1>4. /\ (c10.applies <=> \E l \in named : c.payment[l] = Malformed) /\ (c11.applies <=> c.budget = Malformed)
      /\ (c12.applies <=> c.maxUses \in {Malformed, 0})
      /\ (c13.applies <=> carded /\ ~(CardValuesHold(c.card) /\ CardLimitsSomething(c.card)))
      /\ (c14.applies <=> ~ReadsAsTime(c.from) \/ ~ReadsAsTime(c.until))
      /\ (c15.applies <=> ReadsAsTime(c.from) /\ ReadsAsTime(c.until) /\ c.from.ms > c.until.ms)
      /\ (c16.applies <=> ~ReadsAsTime(i.iat)) /\ (c17.applies <=> ~SignatureHolds(i))
  BY DEF When
<1> HIDE DEF c1, c2, c3, c4, c5, c6, c7, c8, c9, c10, c11, c12, c13, c14, c15, c16, c17
<1>5. M6Instruction(i, profile) = "none" <=>
      /\ ~c1.applies /\ ~c2.applies /\ ~c3.applies /\ ~c4.applies /\ ~c5.applies /\ ~c6.applies /\ ~c7.applies /\ ~c8.applies /\ ~c9.applies
      /\ ~c10.applies /\ ~c11.applies /\ ~c12.applies /\ ~c13.applies /\ ~c14.applies /\ ~c15.applies /\ ~c16.applies /\ ~c17.applies
  BY <1>1, <1>2, DecideOf17
<1> QED
  BY <1>3, <1>4, <1>5

\* The verifier refuses more, never less.
LEMMA TakenVerifies ==
  ASSUME NEW p, Taken(p), Unsupported(p.i.constraints) = {}
  PROVE  M6Instruction(p.i, "0.3") = "none"
<1> DEFINE i == p.i
           c == i.constraints
<1>1. ParseStrictJson(i.flaws)
  BY ReadIsStrict DEF Taken
<1>2. DOMAIN c.payment = {} /\ c.budget = None
  BY DEF Unsupported
<1>3. /\ i.exact /\ i.v = "0.3" /\ i.key = "ed25519" /\ i.thumbprint /\ i.agents \notin {Malformed, {}} /\ i.text # Malformed
      /\ c.exact /\ c.card # None /\ c.maxUses \notin {Malformed, 0} /\ CardValuesHold(c.card) /\ CardLimitsSomething(c.card)
      /\ ReadsAsTime(c.from) /\ ReadsAsTime(c.until) /\ ~(c.from.ms > c.until.ms) /\ ReadsAsTime(i.iat) /\ SignatureHolds(i)
  BY TakenMeans DEF Taken
<1>4. HasCard(i, "0.3") /\ ~AsksForPayment(i, "0.3")
  BY <1>2, <1>3 DEF HasCard, AsksForPayment, PaymentLimits
<1> HIDE DEF i
<1>5. M6Instruction(i, "0.3") = "none"
  BY <1>1, <1>2, <1>3, <1>4, VerifiedMeans, ValuesAssumption
<1> QED
  BY <1>5 DEF i
\* What a run makes of the instructions is B-INS, unless one fails or the shape
\* is not judged.
LEMMA BindingMeans ==
  ASSUME NEW b
  PROVE  Binding(b) = IF \E n \in DOMAIN b.members : Fails(b.members[n]) THEN State("NOT-EVALUATED", "prerequisite-failed")
                      ELSE IF CardOnly(b) THEN State("REFUSED", "instruction:card-only") ELSE BIns(b)
<1> DEFINE fails == \E n \in DOMAIN b.members : Fails(b.members[n])
           c1 == When(fails, State("NOT-EVALUATED", "prerequisite-failed"))
           c2 == When(CardOnly(b), State("REFUSED", "instruction:card-only"))
<1>1. Binding(b) = Decide(<<c1, c2>>, BIns(b))
  BY DEF Binding
<1>2. /\ c1.answer = State("NOT-EVALUATED", "prerequisite-failed") /\ c2.answer = State("REFUSED", "instruction:card-only")
      /\ (c1.applies <=> fails) /\ (c2.applies <=> CardOnly(b))
  BY DEF When
<1> HIDE DEF c1, c2
<1> QED
  BY <1>1, <1>2, DecideOf2

\* A card order is compared only when there is one, of the committed shape, and
\* an instruction with card limits.
LEMMA CompareCardMeans ==
  ASSUME NEW i, NEW profile, NEW k, NEW uses, NEW inside, NEW outside
  PROVE  LET missing == \E l \in ItemLimits \cup OrderLimits : CardResult(i, k.order, l) = "not-evaluated"
             state == CompareCard(i, profile, k, uses, inside, outside).state
         IN  IF k.order = None \/ ~k.orderOk \/ profile = "0.2" \/ i.constraints.card = None THEN state = "NOT-EVALUATED"
             ELSE state = IF CardExceeded(i, k, uses) # {} THEN outside ELSE IF missing THEN "NOT-EVALUATED" ELSE inside
<1> DEFINE missing == \E l \in ItemLimits \cup OrderLimits : CardResult(i, k.order, l) = "not-evaluated"
           reason == IF missing THEN "order-field-missing" ELSE "none"
           c1 == When(k.order = None, State("NOT-EVALUATED", "no-order-committed"))
           c2 == When(~k.orderOk, State("NOT-EVALUATED", "prerequisite-failed:M8.order"))
           c3 == When(profile = "0.2", State("NOT-EVALUATED", "no-card-limits"))
           c4 == When(i.constraints.card = None, State("NOT-EVALUATED", "card-limits-not-declared"))
           otherwise == IF CardExceeded(i, k, uses) # {} THEN State(outside, reason)
                        ELSE IF missing THEN State("NOT-EVALUATED", reason) ELSE State(inside, "none")
<1>1. CompareCard(i, profile, k, uses, inside, outside) = Decide(<<c1, c2, c3, c4>>, otherwise)
  BY DEF CompareCard
<1>2. /\ c1.answer.state = "NOT-EVALUATED" /\ c2.answer.state = "NOT-EVALUATED" /\ c3.answer.state = "NOT-EVALUATED" /\ c4.answer.state = "NOT-EVALUATED"
      /\ (c1.applies <=> k.order = None) /\ (c2.applies <=> ~k.orderOk) /\ (c3.applies <=> profile = "0.2") /\ (c4.applies <=> i.constraints.card = None)
  BY DEF When, State
<1>3. otherwise.state = IF CardExceeded(i, k, uses) # {} THEN outside ELSE IF missing THEN "NOT-EVALUATED" ELSE inside
  <2> HIDE DEF missing, reason
  <2> QED
    BY DEF State
<1> HIDE DEF c1, c2, c3, c4, otherwise
<1>4. Decide(<<c1, c2, c3, c4>>, otherwise) =
        IF c1.applies THEN c1.answer ELSE IF c2.applies THEN c2.answer ELSE IF c3.applies THEN c3.answer ELSE IF c4.applies THEN c4.answer ELSE otherwise
  BY DecideOf4
<1> HIDE DEF missing
<1>5. IF k.order = None \/ ~k.orderOk \/ profile = "0.2" \/ i.constraints.card = None THEN CompareCard(i, profile, k, uses, inside, outside).state = "NOT-EVALUATED"
      ELSE CompareCard(i, profile, k, uses, inside, outside).state = IF CardExceeded(i, k, uses) # {} THEN outside ELSE IF missing THEN "NOT-EVALUATED" ELSE inside
  BY <1>1, <1>2, <1>3, <1>4
<1> QED
  BY <1>5 DEF missing

\* A comparison ends inside, outside, or open.
LEMMA CompareEnds ==
  ASSUME NEW b, NEW m, NEW uses, NEW inside, NEW outside
  PROVE  Compare(b, m, uses, inside, outside).state \in {inside, outside, "NOT-EVALUATED"}
<1>1. CASE Charge(b) # None
  <2>1. Compare(b, m, uses, inside, outside) = CompareCard(m.i, m.profile, Charge(b), uses, inside, outside)
    BY <1>1 DEF Compare
  <2>2. CompareCard(m.i, m.profile, Charge(b), uses, inside, outside).state \in {inside, outside, "NOT-EVALUATED"}
    BY CompareCardMeans
  <2> QED
    BY <2>1, <2>2
<1>2. CASE Charge(b) = None
  BY <1>2 DEF Compare, State
<1> QED
  BY <1>1, <1>2

\* The state of a member's row.
LEMMA RowEnds ==
  ASSUME NEW b, NEW m
  PROVE  /\ RowOf(b, m).state = "FAIL" <=> Fails(m)
         /\ ~Cites(b, m) => RowOf(b, m).state \in {"PRESENT", "FAIL", "MATCHED", "UNBOUND-OUTSIDE", "NOT-EVALUATED"}
         /\ Verifies(m) /\ Cites(b, m) => RowOf(b, m) = Compare(b, m, UsesOf(b, m.digest), "BOUND", "EXCEEDS")
         /\ ~Verifies(m) => RowOf(b, m).state = "PRESENT"
<1>1. Fails(m) => Verifies(m) /\ ~Cites(b, m)
  BY DEF Fails, Cites
<1>2. CASE ~Verifies(m)
  BY <1>1, <1>2 DEF RowOf, State
<1>3. CASE Verifies(m) /\ Fails(m)
  BY <1>1, <1>3 DEF RowOf, State
<1>4. CASE Verifies(m) /\ ~Fails(m) /\ Cites(b, m)
  <2>1. RowOf(b, m) = Compare(b, m, UsesOf(b, m.digest), "BOUND", "EXCEEDS")
    BY <1>4 DEF RowOf
  <2>2. RowOf(b, m).state \in {"BOUND", "EXCEEDS", "NOT-EVALUATED"}
    BY <2>1, CompareEnds
  <2> QED
    BY <1>4, <2>1, <2>2
<1>5. CASE Verifies(m) /\ ~Fails(m) /\ ~Cites(b, m)
  <2>1. RowOf(b, m) = Compare(b, m, UsesOf(b, m.digest), "MATCHED", "UNBOUND-OUTSIDE")
    BY <1>5 DEF RowOf
  <2>2. RowOf(b, m).state \in {"MATCHED", "UNBOUND-OUTSIDE", "NOT-EVALUATED"}
    BY <2>1, CompareEnds
  <2> QED
    BY <1>5, <2>2
<1> QED
  BY <1>2, <1>3, <1>4, <1>5

\* The member that decides when one is cited.
LEMMA CitedIsFirst ==
  ASSUME NEW b, IsSeq(b.members), {n \in DOMAIN b.members : Cites(b, b.members[n])} # {}
  PROVE  LET cited == {n \in DOMAIN b.members : Cites(b, b.members[n])} IN
         Min(cited) \in cited /\ \A n \in cited : Min(cited) <= n
<1> DEFINE cited == {n \in DOMAIN b.members : Cites(b, b.members[n])}
<1>1. DOMAIN b.members \subseteq Nat
  <2> DEFINE members == b.members
  <2>1. Len(members) \in Nat /\ members = [n \in 1 .. Len(members) |-> members[n]]
    BY DEF IsSeq
  <2> HIDE DEF members
  <2>2. DOMAIN members \subseteq Nat
    BY <2>1
  <2> QED
    BY <2>2 DEF members
<1>2. cited \in SUBSET Nat /\ cited # {}
  BY <1>1
<1> HIDE DEF cited
<1>3. Min(cited) \in cited /\ \A n \in cited : Min(cited) <= n
  BY <1>2, MinIsLeast
<1> QED
  BY <1>3 DEF cited

\* With a member cited and none failing, B-INS is that member's row, or what an
\* unread outflow leaves of it.
LEMMA CitedDecides ==
  ASSUME NEW b, ~\E n \in DOMAIN b.members : Fails(b.members[n]),
         {n \in DOMAIN b.members : Cites(b, b.members[n])} # {}
  PROVE  LET cited == {n \in DOMAIN b.members : Cites(b, b.members[n])}
             row == RowOf(b, b.members[Min(cited)])
         IN  Min(cited) \in DOMAIN b.members =>
               BIns(b) = IF ~Unread(b) THEN row ELSE State(IF row.state = "EXCEEDS" THEN "EXCEEDS" ELSE "NOT-EVALUATED", "unread-outflow")
<1> DEFINE cited == {n \in DOMAIN b.members : Cites(b, b.members[n])}
           rows == [n \in DOMAIN b.members |-> RowOf(b, b.members[n])]
           row == RowOf(b, b.members[Min(cited)])
<1> SUFFICES ASSUME Min(cited) \in DOMAIN b.members
             PROVE  BIns(b) = IF ~Unread(b) THEN row ELSE State(IF row.state = "EXCEEDS" THEN "EXCEEDS" ELSE "NOT-EVALUATED", "unread-outflow")
  OBVIOUS
<1>1. BIns(b) = BInsOf(b, rows, cited)
  BY DEF BIns
<1>2. rows[Min(cited)] = row
  OBVIOUS
<1>3. ~\E n \in DOMAIN rows : rows[n].state = "FAIL"
  BY RowEnds
<1>4. cited # {}
  OBVIOUS
<1> HIDE DEF cited, rows, row
<1> QED
  BY <1>1, <1>2, <1>3, <1>4 DEF BInsOf

\* Among rows whose states are listed, the worst is one of them.
LEMMA WorstIsListed ==
  ASSUME NEW rows, DOMAIN rows \subseteq Nat, DOMAIN rows # {},
         \A n \in DOMAIN rows : rows[n].state \in {"PRESENT", "MATCHED", "UNBOUND-OUTSIDE", "NOT-EVALUATED"}
  PROVE  WorstOf(rows, <<"UNBOUND-OUTSIDE", "MATCHED", "NOT-EVALUATED", "PRESENT">>).state # "BOUND"
<1> DEFINE order == <<"UNBOUND-OUTSIDE", "MATCHED", "NOT-EVALUATED", "PRESENT">>
           among(state) == {n \in DOMAIN rows : rows[n].state = state}
           present == {n \in DOMAIN order : among(order[n]) # {}}
           first == Min(present)
<1>1. WorstOf(rows, order) = rows[Min(among(order[first]))]
  BY DEF WorstOf
<1>2. DOMAIN order = 1 .. 4 /\ order[1] = "UNBOUND-OUTSIDE" /\ order[2] = "MATCHED" /\ order[3] = "NOT-EVALUATED" /\ order[4] = "PRESENT"
  OBVIOUS
<1> HIDE DEF order
<1>3. present # {}
  <2>1. PICK n \in DOMAIN rows : rows[n].state \in {"PRESENT", "MATCHED", "UNBOUND-OUTSIDE", "NOT-EVALUATED"}
    OBVIOUS
  <2>2. \E k \in 1 .. 4 : rows[n].state = order[k]
    BY <1>2, <2>1
  <2> QED
    BY <1>2, <2>2
<1>4. first \in present
  <2>1. present \in SUBSET Nat
    BY <1>2
  <2> HIDE DEF present
  <2> QED
    BY <1>3, <2>1, MinIsLeast
<1>5. among(order[first]) # {} /\ among(order[first]) \in SUBSET Nat
  <2> HIDE DEF first
  <2> QED
    BY <1>4
<1>6. Min(among(order[first])) \in among(order[first])
  <2> HIDE DEF first, among
  <2> QED
    BY <1>5, MinIsLeast
<1> HIDE DEF first
<1> QED
  BY <1>1, <1>6 DEF order

\* What is bound is bound by the member that is cited.
LEMMA BoundIsCited ==
  ASSUME NEW b, IsSeq(b.members), Binding(b).state = "BOUND"
  PROVE  LET cited == {n \in DOMAIN b.members : Cites(b, b.members[n])} IN
         /\ ~(\E n \in DOMAIN b.members : Fails(b.members[n])) /\ ~CardOnly(b) /\ ~Unread(b)
         /\ cited # {} /\ RowOf(b, b.members[Min(cited)]).state = "BOUND"
<1> DEFINE cited == {n \in DOMAIN b.members : Cites(b, b.members[n])}
           rows == [n \in DOMAIN b.members |-> RowOf(b, b.members[n])]
<1>1. ~(\E n \in DOMAIN b.members : Fails(b.members[n])) /\ ~CardOnly(b) /\ BIns(b).state = "BOUND"
  BY BindingMeans DEF State
<1>2. BIns(b) = BInsOf(b, rows, cited)
  BY DEF BIns
<1>3. cited # {}
  <2> SUFFICES ASSUME cited = {}
               PROVE  FALSE
    OBVIOUS
  <2>1. \A n \in DOMAIN rows : rows[n].state \in {"PRESENT", "MATCHED", "UNBOUND-OUTSIDE", "NOT-EVALUATED"}
    BY <1>1, RowEnds
  <2>2. rows # <<>> => DOMAIN rows # {}
    <3>1. DOMAIN rows = {} => rows = <<>>
      OBVIOUS
    <3> QED
      BY <3>1
  <2>3. DOMAIN rows \subseteq Nat
    <3>1. b.members = [n \in 1 .. Len(b.members) |-> b.members[n]] /\ Len(b.members) \in Nat
      BY DEF IsSeq
    <3>2. DOMAIN b.members = 1 .. Len(b.members)
      BY <3>1
    <3> QED
      BY <3>1, <3>2
  <2> HIDE DEF rows, cited
  <2>4. rows # <<>> => WorstOf(rows, <<"UNBOUND-OUTSIDE", "MATCHED", "NOT-EVALUATED", "PRESENT">>).state # "BOUND"
    BY <2>1, <2>2, <2>3, WorstIsListed
  <2> QED
    BY <1>1, <1>2, <2>4 DEF BInsOf, State
<1>4. Min(cited) \in cited
  BY <1>3, CitedIsFirst
<1>5. BIns(b) = IF ~Unread(b) THEN RowOf(b, b.members[Min(cited)])
                ELSE State(IF RowOf(b, b.members[Min(cited)]).state = "EXCEEDS" THEN "EXCEEDS" ELSE "NOT-EVALUATED", "unread-outflow")
  BY <1>1, <1>3, <1>4, CitedDecides
<1>6. ~Unread(b) /\ RowOf(b, b.members[Min(cited)]).state = "BOUND"
  <2> HIDE DEF cited
  <2> QED
    BY <1>1, <1>5 DEF State
<1> QED
  BY <1>1, <1>3, <1>6
\* A payment is held only against an instruction with the payment limits.
LEMMA LimitsAreThere ==
  ASSUME NEW b, ~CardOnly(b), b.subject = "payment", NEW n \in DOMAIN b.members, Verifies(b.members[n]), ~Fails(b.members[n])
  PROVE  DOMAIN b.members[n].i.constraints.payment = PaymentLimits
<1> DEFINE m == b.members[n]
           named == DOMAIN m.i.constraints.payment
<1>1. m.profile = "0.3" => "chain_id" \in named
  BY DEF CardOnly
<1>2. m.profile \in {"0.2", "0.3"} /\ M6Instruction(m.i, m.profile) = "none"
  BY DEF Verifies, Fails
<1> HIDE DEF m
<1>3. ~(HasCard(m.i, m.profile) /\ named \notin {{}, PaymentLimits}) /\ ~(AsksForPayment(m.i, m.profile) /\ named # PaymentLimits)
  BY <1>2, VerifiedMeans
<1>4. named = PaymentLimits
  BY <1>1, <1>2, <1>3 DEF HasCard, AsksForPayment
<1> QED
  BY <1>4 DEF m

\* What exceeds nothing moves inside the payment limits, every movement of it.
LEMMA NothingExceeded ==
  ASSUME NEW i, NEW pv, NEW uses, ExceededBy(i, pv, uses) = {},
         IsSeq(pv.movements), \A n \in DOMAIN pv.movements : pv.movements[n].amount \in Nat, i.constraints.payment["max_amount"] \in Int
  PROVE  LET c == i.constraints.payment IN
         /\ pv.chain = c["chain_id"] /\ pv.kid \in i.agents
         /\ \A n \in DOMAIN pv.movements : LET v == pv.movements[n] IN v.asset = c["asset"] /\ v.payee \in c["payees"] /\ v.amount <= c["max_amount"]
<1> DEFINE c == i.constraints.payment
           total == Moved(pv.movements, c["asset"])
           movements == pv.movements
<1>1. /\ c["chain_id"] = pv.chain /\ pv.kid \in i.agents
      /\ ~(\E n \in DOMAIN movements : movements[n].asset # c["asset"])
      /\ ~(\E n \in DOMAIN movements : movements[n].payee \notin c["payees"])
      /\ ~(total > c["max_amount"])
  <2> HIDE DEF c
  <2> QED
    BY DEF ExceededBy, c
<1>2. ASSUME NEW n \in DOMAIN movements
      PROVE  movements[n].asset = c["asset"] /\ movements[n].payee \in c["payees"] /\ movements[n].amount <= c["max_amount"]
  <2>1. movements[n].asset = c["asset"] /\ movements[n].payee \in c["payees"]
    BY <1>1
  <2> DEFINE amount == movements[n].amount
  <2>2. amount <= total /\ amount \in Nat /\ total \in Nat
    BY <2>1, MovedIsNoLess
  <2> QED
    BY <1>1, <2>1, <2>2
<1> QED
  BY <1>1, <1>2
\* What no limit of a card puts outside names the agent, lies in the window, and
\* is inside each limit whose fields are there.
LEMMA NothingOutside ==
  ASSUME NEW i, NEW k, NEW uses, CardExceeded(i, k, uses) = {}
  PROVE  /\ ~(k.at.text < i.constraints.from.text) /\ ~(k.at.text > i.constraints.until.text) /\ k.kid \in i.agents
         /\ \A l \in ItemLimits \cup OrderLimits : CardResult(i, k.order, l) # "outside"
<1> DEFINE outside == {l \in ItemLimits \cup OrderLimits : CardResult(i, k.order, l) = "outside"}
<1>1. /\ outside = {} /\ ~(k.at.text < i.constraints.from.text) /\ ~(k.at.text > i.constraints.until.text) /\ k.kid \in i.agents
  <2> HIDE DEF outside
  <2> QED
    BY DEF CardExceeded, outside
<1> QED
  BY <1>1

\* A limit that nothing lies outside of holds of the items that have its fields.
LEMMA NotOutside ==
  ASSUME NEW limit, NEW value, NEW items, EveryItem(limit, value, items) # "outside", NEW n \in DOMAIN items,
         \A f \in Fields(limit) : items[n][f] # None
  PROVE  ItemInside(limit, value, items[n])
<1> DEFINE missing == {j \in DOMAIN items : \E f \in Fields(limit) : items[j][f] = None}
           c1 == When(\E j \in DOMAIN items \ missing : ~ItemInside(limit, value, items[j]), "outside")
           c2 == When(missing # {}, "not-evaluated")
<1>1. EveryItem(limit, value, items) = Decide(<<c1, c2>>, "inside")
  BY DEF EveryItem
<1>2. c1.answer = "outside" /\ (c1.applies <=> \E j \in DOMAIN items \ missing : ~ItemInside(limit, value, items[j]))
  BY DEF When
<1> HIDE DEF c1, c2
<1>3. ~\E j \in DOMAIN items \ missing : ~ItemInside(limit, value, items[j])
  <2> HIDE DEF missing
  <2> QED
    BY <1>1, <1>2, DecideOf2
<1> QED
  BY <1>3

\* An order that exceeds nothing of an instruction lies inside it.
LEMMA OrderInstructionAgree ==
  ASSUME NEW i, NEW k, NEW uses, CardExceeded(i, k, uses) = {}, InstructionHolds(i), CardValuesHold(i.constraints.card),
         ReadsAsTime(i.constraints.from), ReadsAsTime(i.constraints.until),
         k.at.text \in Int, \A n \in DOMAIN k.order.items : k.order.items[n].sku # None
  PROVE  LET c == i.constraints
             o == k.order
         IN  /\ k.kid \in i.agents /\ c.from.text <= k.at.text /\ k.at.text <= c.until.text
             /\ o.currency = c.card["currency"] /\ c.card["max_total_minor"] # None => o.total <= c.card["max_total_minor"]
             /\ \A n \in DOMAIN o.items : c.card["items"] # None => o.items[n].sku \in c.card["items"]
<1> DEFINE c == i.constraints
           card == c.card
           o == k.order
           q == [card |-> card, order |-> o]
<1>1. /\ ~(k.at.text < c.from.text) /\ ~(k.at.text > c.until.text) /\ k.kid \in i.agents
      /\ \A l \in ItemLimits \cup OrderLimits : LimitResult(q, l) # "outside"
  BY NothingOutside DEF CardResult
<1>2. c.from.text \in Int /\ c.until.text \in Int
  BY DEF InstructionHolds, TimeHolds, ReadsAsTime
<1>3. card["currency"] # None
  BY DEF CardValuesHold
<1>4. /\ \A l \in OrderLimits : card[l] # None => OrderInside(l, card[l], o)
      /\ \A l \in ItemLimits : card[l] # None /\ l # "refundable_only" => EveryItem(l, card[l], o.items) # "outside"
  <2>1. \A l \in ItemLimits \cup OrderLimits :
           LimitResult(q, l) = IF card[l] = None \/ (l = "refundable_only" /\ card[l] = FALSE) THEN "not-declared"
                               ELSE IF l \in ItemLimits THEN EveryItem(l, card[l], o.items)
                               ELSE IF OrderInside(l, card[l], o) THEN "inside" ELSE "outside"
    BY DEF LimitResult
  <2>2. \A l \in OrderLimits : l \notin ItemLimits /\ l # "refundable_only"
    BY DEF OrderLimits, ItemLimits
  <2> HIDE DEF card, o, q
  <2> QED
    BY <1>1, <2>1, <2>2
<1>5. /\ o.currency = card["currency"]
      /\ card["max_total_minor"] # None => o.total <= card["max_total_minor"]
  <2> HIDE DEF card, o
  <2> QED
    BY <1>3, <1>4 DEF OrderLimits, OrderInside
<1>6. ASSUME NEW n \in DOMAIN o.items, card["items"] # None
      PROVE  o.items[n].sku \in card["items"]
  <2> DEFINE items == o.items
  <2>1. EveryItem("items", card["items"], items) # "outside"
    BY <1>4, <1>6 DEF ItemLimits
  <2>2. \A f \in Fields("items") : items[n][f] # None
    BY DEF Fields
  <2>3. ItemInside("items", card["items"], items[n])
    <3> HIDE DEF items, card
    <3> QED
      BY <1>6, <2>1, <2>2, NotOutside DEF items
  <2> QED
    BY <2>3 DEF ItemInside
<1> QED
  BY <1>1, <1>2, <1>5, <1>6
\* The cited member of a case that is judged.
LEMMA JudgedByCited ==
  ASSUME NEW b, IsSeq(b.members), {n \in DOMAIN b.members : Cites(b, b.members[n])} # {},
         Binding(b).reason # "prerequisite-failed", Binding(b).state # "REFUSED"
  PROVE  LET cited == {n \in DOMAIN b.members : Cites(b, b.members[n])} IN
         /\ ~(\E n \in DOMAIN b.members : Fails(b.members[n])) /\ ~CardOnly(b)
         /\ Min(cited) \in DOMAIN b.members /\ Cites(b, b.members[Min(cited)])
         /\ RowOf(b, b.members[Min(cited)]).state = "EXCEEDS" => Binding(b).state = "EXCEEDS"
<1> DEFINE cited == {n \in DOMAIN b.members : Cites(b, b.members[n])}
           row == RowOf(b, b.members[Min(cited)])
<1>1. ~(\E n \in DOMAIN b.members : Fails(b.members[n])) /\ ~CardOnly(b) /\ Binding(b) = BIns(b)
  BY BindingMeans DEF State
<1>2. Min(cited) \in cited
  BY CitedIsFirst
<1>3. BIns(b) = IF ~Unread(b) THEN row ELSE State(IF row.state = "EXCEEDS" THEN "EXCEEDS" ELSE "NOT-EVALUATED", "unread-outflow")
  BY <1>1, <1>2, CitedDecides
<1>4. row.state = "EXCEEDS" => Binding(b).state = "EXCEEDS"
  <2> HIDE DEF row
  <2> QED
    BY <1>1, <1>3 DEF State
<1> QED
  BY <1>1, <1>2, <1>4

\* A member that verifies and does not fail, with a payment to hold against it.
LEMMA PaymentCompares ==
  ASSUME NEW b, InstructionField("members", b.members), InstructionField("pv", b.pv),
         ~CardOnly(b), Pv(b) # None, NEW n \in DOMAIN b.members, Verifies(b.members[n]), ~Fails(b.members[n]),
         NEW uses
  PROVE  /\ DOMAIN b.members[n].i.constraints.payment = PaymentLimits
         /\ ExceededBy(b.members[n].i, Pv(b), uses) = {} => MovesInside(b, b.members[n])
<1> DEFINE m == b.members[n]
<1>1. b.subject = "payment" /\ Pv(b) = b.pv
  BY DEF Pv
<1>2. DOMAIN m.i.constraints.payment = PaymentLimits
  BY <1>1, LimitsAreThere
<1>3. m.i.constraints.payment["max_amount"] \in Int
  <2>1. InstructionHolds(m.i)
    BY DEF InstructionField
  <2>2. M6Instruction(m.i, m.profile) = "none"
    BY DEF Fails
  <2> HIDE DEF m
  <2>3. \A l \in DOMAIN m.i.constraints.payment : m.i.constraints.payment[l] # Malformed
    BY <2>2, VerifiedMeans
  <2> QED
    BY <1>2, <2>1, <2>3 DEF InstructionHolds, PaymentLimits
<1>4. IsSeq(b.pv.movements) /\ \A k \in DOMAIN b.pv.movements : b.pv.movements[k].amount \in Nat
  BY <1>1 DEF InstructionField
<1>5. ExceededBy(m.i, Pv(b), uses) = {} => MovesInside(b, m)
  <2> DEFINE i == m.i
             pv == Pv(b)
  <2> SUFFICES ASSUME ExceededBy(i, pv, uses) = {}
               PROVE  MovesInside(b, m)
    OBVIOUS
  <2>1. IsSeq(pv.movements) /\ (\A k \in DOMAIN pv.movements : pv.movements[k].amount \in Nat) /\ i.constraints.payment["max_amount"] \in Int
    BY <1>1, <1>3, <1>4
  <2>2. LET c == i.constraints.payment IN
        /\ pv.chain = c["chain_id"] /\ pv.kid \in i.agents
        /\ \A k \in DOMAIN pv.movements : LET v == pv.movements[k] IN v.asset = c["asset"] /\ v.payee \in c["payees"] /\ v.amount <= c["max_amount"]
    <3> HIDE DEF i, pv
    <3> QED
      BY <2>1, NothingExceeded
  <2> QED
    BY <2>2 DEF MovesInside
<1> QED
  BY <1>2, <1>5

\* A card order that exceeds nothing lies inside the instruction.
LEMMA OrderCompares ==
  ASSUME NEW b, InstructionField("members", b.members), InstructionField("charge", b.charge),
         Charge(b) # None, Charge(b).orderOk, NEW n \in DOMAIN b.members, Verifies(b.members[n]), ~Fails(b.members[n]),
         b.members[n].profile # "0.2", b.members[n].i.constraints.card # None,
         NEW uses, CardExceeded(b.members[n].i, Charge(b), uses) = {}
  PROVE  OrderIsInside(b, b.members[n])
<1> DEFINE m == b.members[n]
           k == Charge(b)
           i == m.i
<1>1. k = b.charge
  BY DEF Charge
<1>2. k.at.text \in Int /\ \A j \in DOMAIN k.order.items : k.order.items[j].sku # None
  BY <1>1 DEF InstructionField
<1>3. InstructionHolds(i) /\ M6Instruction(i, m.profile) = "none" /\ m.profile = "0.3"
  BY DEF InstructionField, Fails, Verifies
<1>4. CardValuesHold(i.constraints.card) /\ ReadsAsTime(i.constraints.from) /\ ReadsAsTime(i.constraints.until)
  <2> HIDE DEF m, k
  <2>1. M6Instruction(i, "0.3") = "none" /\ i.constraints.card # None
    BY <1>3 DEF m
  <2> HIDE DEF i
  <2> QED
    BY <2>1, VerifiedMeans DEF HasCard
<1>5. LET c == i.constraints
          o == k.order
      IN  /\ k.kid \in i.agents /\ c.from.text <= k.at.text /\ k.at.text <= c.until.text
          /\ o.currency = c.card["currency"] /\ c.card["max_total_minor"] # None => o.total <= c.card["max_total_minor"]
          /\ \A j \in DOMAIN o.items : c.card["items"] # None => o.items[j].sku \in c.card["items"]
  <2>1. CardExceeded(i, k, uses) = {}
    OBVIOUS
  <2> HIDE DEF i, k
  <2> QED
    BY <1>2, <1>3, <1>4, <2>1, OrderInstructionAgree
<1> QED
  BY <1>5 DEF OrderIsInside

\* What is bound lies inside the instruction it cites.
LEMMA BoundIsInside ==
  ASSUME NEW p, \A f \in InstructionFields : InstructionField(f, p[f]), Binding(p).state = "BOUND"
  PROVE  LET m == p.members[Min({n \in DOMAIN p.members : Cites(p, p.members[n])})] IN
         IF Charge(p) = None THEN ~Unread(p) /\ MovesInside(p, m) ELSE OrderIsInside(p, m)
<1> DEFINE cited == {n \in DOMAIN p.members : Cites(p, p.members[n])}
           m == p.members[Min(cited)]
           uses == UsesOf(p, m.digest)
<1>1. InstructionField("members", p.members) /\ InstructionField("pv", p.pv) /\ InstructionField("charge", p.charge) /\ IsSeq(p.members)
  BY DEF InstructionFields, InstructionField
<1>2. /\ ~(\E n \in DOMAIN p.members : Fails(p.members[n])) /\ ~CardOnly(p) /\ ~Unread(p)
      /\ cited # {} /\ RowOf(p, m).state = "BOUND"
  BY <1>1, BoundIsCited
<1>3. Min(cited) \in DOMAIN p.members /\ Cites(p, m) /\ ~Fails(m)
  BY <1>1, <1>2, CitedIsFirst
<1>4. Verifies(m) /\ Compare(p, m, uses, "BOUND", "EXCEEDS").state = "BOUND"
  BY <1>2, <1>3, RowEnds
<1>5. CASE Charge(p) = None
  <2> HIDE DEF m, uses
  <2>1. Pv(p) # None /\ ExceededBy(m.i, Pv(p), uses) = {}
    BY <1>4, <1>5 DEF Compare, State
  <2> USE DEF m
  <2>2. MovesInside(p, m)
    BY <1>1, <1>2, <1>3, <1>4, <2>1, PaymentCompares
  <2> QED
    BY <1>2, <1>5, <2>2
<1>6. CASE Charge(p) # None
  <2> DEFINE k == Charge(p)
  <2>1. CompareCard(m.i, m.profile, k, uses, "BOUND", "EXCEEDS").state = "BOUND"
    BY <1>4, <1>6 DEF Compare
  <2>2. k.orderOk /\ m.profile # "0.2" /\ m.i.constraints.card # None /\ CardExceeded(m.i, k, uses) = {}
    <3> HIDE DEF k, m, uses
    <3> QED
      BY <2>1, CompareCardMeans
  <2>3. OrderIsInside(p, m)
    <3> HIDE DEF uses
    <3> QED
      BY <1>1, <1>3, <1>4, <1>6, <2>2, OrderCompares
  <2> QED
    BY <1>6, <2>3
<1> QED
  BY <1>5, <1>6
\* What the purchase check allows exceeds nothing when it is shown as it happened.
LEMMA AllowedExceedsNothing ==
  ASSUME NEW p, InstructionField("i", p.i), InstructionField("usesSoFar", p.usesSoFar), Taken(p), Allows(Judged(p)), NEW k,
         k = [order |-> p.order, orderOk |-> TRUE, kid |-> p.kid, at |-> p.at]
  PROVE  /\ CardExceeded(p.i, k, p.usesSoFar + 1) = {}
         /\ ~\E l \in ItemLimits \cup OrderLimits : CardResult(p.i, k.order, l) = "not-evaluated"
<1> DEFINE q == Judged(p)
           c == p.i.constraints
<1>1. /\ q.card = c.card /\ q.order = p.order /\ q.valid.from = c.from.text /\ q.valid.until = c.until.text /\ q.at = p.at.text
      /\ q.kid = p.kid /\ q.agents = p.i.agents /\ q.maxUses = c.maxUses /\ q.usesSoFar = p.usesSoFar
  BY DEF Judged
<1>2. k.order = p.order /\ k.kid = p.kid /\ k.at = p.at
  OBVIOUS
<1>3. c.maxUses \in Int \cup {None} /\ p.usesSoFar \in Int
  <2>1. c.maxUses # Malformed
    BY TakenMeans DEF Taken
  <2> QED
    BY <2>1 DEF InstructionField, InstructionHolds
<1>4. Step3(q) = {}
  BY AllowedMeans
<1> HIDE DEF q
<1>5. /\ ~(q.at < q.valid.from) /\ ~(q.at > q.valid.until) /\ q.kid \in q.agents /\ ~(q.usesSoFar + 1 > Uses(q))
      /\ \A l \in ItemLimits \cup OrderLimits : LimitResult(q, l) \notin {"outside", "not-evaluated"}
  BY <1>4, InsideMeans
<1>6. \A l \in ItemLimits \cup OrderLimits : CardResult(p.i, k.order, l) = LimitResult(q, l)
  BY <1>1, <1>2 DEF CardResult, LimitResult
<1>7. UsesLeft(p.i, p.usesSoFar + 1)
  BY <1>1, <1>3, <1>5 DEF UsesLeft, Uses
<1> DEFINE outside == {l \in ItemLimits \cup OrderLimits : CardResult(p.i, k.order, l) = "outside"}
<1>8. outside = {} /\ ~\E l \in ItemLimits \cup OrderLimits : CardResult(p.i, k.order, l) = "not-evaluated"
  BY <1>5, <1>6
<1>9. CardExceeded(p.i, k, p.usesSoFar + 1) =
        outside \cup (IF k.at.text < c.from.text THEN {"valid_from"} ELSE {}) \cup (IF k.at.text > c.until.text THEN {"valid_until"} ELSE {})
        \cup (IF k.kid \notin p.i.agents THEN {"agent_kid"} ELSE {}) \cup (IF UsesLeft(p.i, p.usesSoFar + 1) THEN {} ELSE {"max_uses"})
  BY DEF CardExceeded
<1> HIDE DEF outside, c
<1> QED
  BY <1>1, <1>2, <1>5, <1>7, <1>8, <1>9

\* A purchase that is allowed is bound when it is shown as it happened.
LEMMA AllowedIsBound ==
  ASSUME NEW p, \A f \in InstructionFields : InstructionField(f, p[f]),
         Taken(p), Unsupported(p.i.constraints) = {}, Allows(Judged(p)), ShownAsItHappened(p)
  PROVE  Binding(p).state = "BOUND"
<1> DEFINE cited == {n \in DOMAIN p.members : Cites(p, p.members[n])}
           k == Charge(p)
<1>1. /\ InstructionField("members", p.members) /\ InstructionField("charge", p.charge) /\ InstructionField("i", p.i)
      /\ InstructionField("usesSoFar", p.usesSoFar) /\ IsSeq(p.members)
  BY DEF InstructionFields, InstructionField
<1>2. /\ k # None /\ p.charge = [order |-> p.order, orderOk |-> TRUE, kid |-> p.kid, at |-> p.at]
      /\ \A n \in DOMAIN p.members : ~Fails(p.members[n])
  BY DEF ShownAsItHappened
<1>3. PICK n \in DOMAIN p.members :
        LET m == p.members[n] IN
        m.i = p.i /\ m.profile = "0.3" /\ p.cited = m.digest /\ UsesOf(p, m.digest) = p.usesSoFar + 1 /\ \A j \in 1 .. n - 1 : p.members[j].digest # m.digest
  BY DEF ShownAsItHappened
<1>4. p.subject = "card" /\ k = p.charge /\ Pv(p) = None
  BY <1>2 DEF Charge, Pv
<1>5. ~CardOnly(p) /\ ~Unread(p)
  BY <1>4 DEF CardOnly, Unread
<1>6. Cites(p, p.members[n]) /\ Verifies(p.members[n])
  BY <1>1, <1>2, <1>3 DEF Cites, Verifies, InstructionField
<1>7. Min(cited) = n
  <2>1. n \in cited
    BY <1>6
  <2>2. Min(cited) \in cited /\ Min(cited) <= n
    BY <1>1, <2>1, CitedIsFirst
  <2>3. DOMAIN p.members = 1 .. Len(p.members) /\ Len(p.members) \in Nat
    <3> DEFINE members == p.members
    <3>1. Len(members) \in Nat /\ members = [j \in 1 .. Len(members) |-> members[j]]
      BY <1>1 DEF IsSeq
    <3> HIDE DEF members
    <3>2. DOMAIN members = 1 .. Len(members) /\ Len(members) \in Nat
      BY <3>1
    <3> QED
      BY <3>2 DEF members
  <2>4. p.members[Min(cited)].digest = p.cited /\ Min(cited) \in DOMAIN p.members
    BY <2>2 DEF Cites
  <2> HIDE DEF cited
  <2>5. ~(Min(cited) \in 1 .. n - 1)
    BY <1>3, <2>4
  <2> QED
    BY <2>2, <2>3, <2>4, <2>5
<1>8. Binding(p) = RowOf(p, p.members[n])
  <2>1. Binding(p) = BIns(p)
    BY <1>2, <1>5, BindingMeans
  <2>2. cited # {}
    BY <1>6
  <2>3. BIns(p) = IF ~Unread(p) THEN RowOf(p, p.members[Min(cited)])
                  ELSE State(IF RowOf(p, p.members[Min(cited)]).state = "EXCEEDS" THEN "EXCEEDS" ELSE "NOT-EVALUATED", "unread-outflow")
    BY <1>2, <1>7, <2>2, CitedDecides
  <2> HIDE DEF cited
  <2> QED
    BY <1>5, <1>7, <2>1, <2>3
<1>9. RowOf(p, p.members[n]) = CompareCard(p.i, "0.3", k, p.usesSoFar + 1, "BOUND", "EXCEEDS")
  <2>1. RowOf(p, p.members[n]) = Compare(p, p.members[n], UsesOf(p, p.members[n].digest), "BOUND", "EXCEEDS")
    BY <1>6, RowEnds
  <2> QED
    BY <1>2, <1>3, <2>1 DEF Compare
<1>10. k.order # None /\ k.orderOk
  BY <1>1, <1>2, <1>4 DEF InstructionField
<1>11. p.i.constraints.card # None
  BY TakenMeans DEF Taken
<1>12. /\ CardExceeded(p.i, k, p.usesSoFar + 1) = {}
       /\ ~\E l \in ItemLimits \cup OrderLimits : CardResult(p.i, k.order, l) = "not-evaluated"
  <2>1. k = [order |-> p.order, orderOk |-> TRUE, kid |-> p.kid, at |-> p.at]
    BY <1>2, <1>4
  <2> HIDE DEF k
  <2> QED
    BY <1>1, <2>1, AllowedExceedsNothing
<1> HIDE DEF k
<1>13. CompareCard(p.i, "0.3", k, p.usesSoFar + 1, "BOUND", "EXCEEDS").state = "BOUND"
  BY <1>10, <1>11, <1>12, CompareCardMeans
<1> QED
  BY <1>8, <1>9, <1>13

\* The two readers of an instruction agree as RefusesMoreNeverLess says.
LEMMA ReadersAgree ==
  ASSUME NEW p, \A f \in InstructionFields : InstructionField(f, p[f])
  PROVE  RefusesMoreNeverLess(p)
<1> DEFINE of == Binding(p)
           cited == {n \in DOMAIN p.members : Cites(p, p.members[n])}
           m == p.members[Min(cited)]
           taken == Taken(p) /\ Unsupported(p.i.constraints) = {}
           judged == cited # {} /\ of.reason # "prerequisite-failed" /\ of.state # "REFUSED" /\ Verifies(m)
           uses == UsesOf(p, m.digest)
<1>1. InstructionField("members", p.members) /\ InstructionField("pv", p.pv) /\ InstructionField("charge", p.charge) /\ IsSeq(p.members)
  BY DEF InstructionFields, InstructionField
<1>2. taken => M6Instruction(p.i, "0.3") = "none"
  BY TakenVerifies
<1>3. taken /\ Allows(Judged(p)) /\ ShownAsItHappened(p) => of.state = "BOUND"
  BY AllowedIsBound
<1>4. of.state = "BOUND" => IF Charge(p) = None THEN ~Unread(p) /\ MovesInside(p, m) ELSE OrderIsInside(p, m)
  BY BoundIsInside
<1>5. ASSUME judged
      PROVE  /\ Min(cited) \in DOMAIN p.members /\ ~Fails(m) /\ ~CardOnly(p)
             /\ Compare(p, m, uses, "BOUND", "EXCEEDS").state = "EXCEEDS" => of.state = "EXCEEDS"
  <2>1. /\ ~(\E n \in DOMAIN p.members : Fails(p.members[n])) /\ ~CardOnly(p)
        /\ Min(cited) \in DOMAIN p.members /\ Cites(p, m)
        /\ RowOf(p, m).state = "EXCEEDS" => of.state = "EXCEEDS"
    BY <1>1, <1>5, JudgedByCited
  <2>2. RowOf(p, m) = Compare(p, m, uses, "BOUND", "EXCEEDS")
    BY <1>5, <2>1, RowEnds
  <2> QED
    BY <2>1, <2>2
<1>6. judged /\ Pv(p) # None => DOMAIN m.i.constraints.payment = PaymentLimits /\ (~MovesInside(p, m) => of.state = "EXCEEDS")
  <2> SUFFICES ASSUME judged, Pv(p) # None
               PROVE  DOMAIN m.i.constraints.payment = PaymentLimits /\ (~MovesInside(p, m) => of.state = "EXCEEDS")
    OBVIOUS
  <2>1. /\ DOMAIN m.i.constraints.payment = PaymentLimits
        /\ ExceededBy(m.i, Pv(p), uses) = {} => MovesInside(p, m)
    BY <1>1, <1>5, PaymentCompares
  <2>2. Charge(p) = None
    BY DEF Charge, Pv
  <2> HIDE DEF m, uses
  <2>3. ExceededBy(m.i, Pv(p), uses) # {} => Compare(p, m, uses, "BOUND", "EXCEEDS").state = "EXCEEDS"
    BY <2>2 DEF Compare, State
  <2> QED
    BY <1>5, <2>1, <2>3 DEF m, uses
<1>7. judged /\ Charge(p) # None /\ p.charge.orderOk /\ m.i.constraints.card # None /\ m.profile = "0.3" /\ ~OrderIsInside(p, m) => of.state = "EXCEEDS"
  <2> DEFINE k == Charge(p)
  <2> SUFFICES ASSUME judged, k # None, p.charge.orderOk, m.i.constraints.card # None, m.profile = "0.3", ~OrderIsInside(p, m)
               PROVE  of.state = "EXCEEDS"
    OBVIOUS
  <2>1. k = p.charge /\ k.orderOk /\ k.order # None
    BY <1>1 DEF Charge, InstructionField
  <2>2. CardExceeded(m.i, k, uses) # {}
    BY <1>1, <1>5, <2>1, OrderCompares
  <2>3. Compare(p, m, uses, "BOUND", "EXCEEDS") = CompareCard(m.i, m.profile, k, uses, "BOUND", "EXCEEDS")
    BY DEF Compare
  <2> HIDE DEF k
  <2>4. CompareCard(m.i, m.profile, k, uses, "BOUND", "EXCEEDS").state = "EXCEEDS"
    <3>1. m.i.constraints.card # None /\ m.profile = "0.3"
      OBVIOUS
    <3> HIDE DEF m, uses
    <3> QED
      BY <2>1, <2>2, <3>1, CompareCardMeans
  <2> QED
    BY <1>5, <2>3, <2>4
<1> HIDE DEF m, of, taken
<1>8. BindsTruly(p, of, cited)
  BY <1>2, <1>3, <1>4, <1>6, <1>7 DEF BindsTruly, m, taken
<1> QED
  BY <1>8 DEF RefusesMoreNeverLess, of
=============================================================================
