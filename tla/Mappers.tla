------------------------------- MODULE Mappers -------------------------------
(***************************************************************************)
(* A provider's approval as a signed instruction, src/purchase/mappers.ts.   *)
(* Each mapper refuses with a code or gives the instruction's limits.        *)
(*                                                                          *)
(* An approval `a` is what the mappers read of the provider's object and of  *)
(* the options: amounts in thousandths of the major unit, times in halves of *)
(* a millisecond, so that what lies beyond the minor unit or the millisecond *)
(* is seen.  Malformed is a value of another form, None one that is not there.   *)
(***************************************************************************)
EXTENDS Integers, Checks, Values

CONSTANT Minute \* the length of a minute in those halves

ASSUME MappersAssumption == Minute \in Nat

\* What an approval's fields hold, sound or not.
ApprovalFields == {"kind", "amount", "ends", "minutes", "charges", "options"}
ApprovalField(f, value) ==
  /\ f = "kind" => value \in {"crossmint", "basis-theory", "prava", "reap", "skyfire"}
  /\ f \in {"amount", "minutes"} => value \in Int \cup {Malformed}
  /\ f \in {"ends", "charges"} => value \in Int \cup {None, Malformed}
  /\ f = "options" => value.approvedAt \in Int \cup {None, Malformed} /\ value.maxUses \in Int \cup {Malformed}

Exponents == [USD |-> 2, JPY |-> 0] \* CURRENCY_EXPONENTS

\* toMinorUnits, floored; its refusal first.
AmountError(amount, currency) ==
  Decide(<<When(currency \notin DOMAIN Exponents, "unknown-currency"), When(amount = Malformed, "bad-amount")>>, "none")
ToMinorUnits(amount, currency) == (amount * 10 ^ Exponents[currency]) \div 1000

\* merchantIdOf: the origin of an http or https URL without userinfo.
UrlError(url) ==
  IF url \in {None, Malformed} THEN "bad-url" ELSE IF url.scheme \notin {"http", "https"} THEN "unsupported-scheme"
  ELSE IF url.userinfo THEN "userinfo-url" ELSE "none"

TimeError(t) == IF t \in {None, Malformed} THEN "bad-time" ELSE "none"

\* body: the options, when all else was read.
OptionsError(o) ==
  Decide(<<When(o.key # "ed25519" \/ o.agents = {}, "bad-option"), When(o.maxUses = Malformed, "bad-option"),
           When(TimeError(o.approvedAt) # "none" \/ o.iat = Malformed, "bad-time")>>, "none")

\* No more uses than the provider's own number of charges.
ChargesError(a, code) ==
  IF a.charges = Malformed THEN "bad-field"
  ELSE IF a.charges # None /\ a.options.maxUses # Malformed /\ a.options.maxUses > a.charges THEN code ELSE "none"

\* mapPravaMandate's end: the earlier of the mandate's and of the approval's
\* minutes, counted in whole milliseconds.
PravaEnd(a) ==
  LET byMinutes == (a.options.approvedAt \div 2) * 2 + a.minutes * Minute
  IN  IF a.ends # None /\ a.ends < byMinutes THEN a.ends ELSE byMinutes

\* Where each mapper's end comes from.
ValidUntil(a) == IF a.kind = "prava" THEN PravaEnd(a) ELSE a.ends

\* The scope names a merchant, or sets no limit to them.
Listed(a) == IF a.kind \in {"prava", "reap"} THEN a.scope = "listed" ELSE a.url # None

\* The refusals of each mapper, in its order.
MapError(a) ==
  LET amount == AmountError(a.amount, a.currency)
      end == TimeError(a.ends)
      url == IF Listed(a) THEN UrlError(a.url) ELSE "none"
      scope(code) == IF a.scope \notin {"listed", "any"} THEN code ELSE "none"
      nameless(code) == IF a.scope = "listed" /\ a.url = None THEN code ELSE "none"
      refusals ==
        CASE a.kind \in {"crossmint", "basis-theory"} -> <<end, amount, url>>
          [] a.kind = "prava" ->
               <<IF a.entries > 1 THEN "prava-custom-entries" ELSE "none", scope("prava-scope"), amount, nameless("prava-scope"), url,
                 IF a.minutes = Malformed THEN "bad-field" ELSE "none", TimeError(a.options.approvedAt),
                 IF a.ends = Malformed THEN "bad-time" ELSE "none", ChargesError(a, "max-uses-over-max-charges")>>
          [] a.kind = "reap" ->
               <<IF a.status # "ACTIVE" THEN "reap-status" ELSE "none", IF a.ends = None THEN "bad-option" ELSE "none", amount,
                 scope("reap-scope"), nameless("reap-scope"), url, IF a.charges = None THEN "bad-field" ELSE "none", ChargesError(a, "max-uses-over-max-charges"), end>>
          [] a.kind = "skyfire" ->
               <<amount, IF a.url = None THEN "bad-field" ELSE "none", end,
                 IF a.status = "pay_per_use" THEN ChargesError(a, "max-uses-over-max-requests") ELSE "none">>
      refused == {i \in DOMAIN refusals : refusals[i] # "none"}
  IN  IF ~a.object THEN "bad-field" ELSE IF refused # {} THEN refusals[Min(refused)] ELSE OptionsError(a.options)

\* The limits of the instruction: a Skyfire token's one merchant is the seller
\* account it is for.
Instruction(a) ==
  [currency |-> a.currency, max_total_minor |-> ToMinorUnits(a.amount, a.currency),
   merchants |-> IF a.kind = "skyfire" THEN {a.url} ELSE IF Listed(a) THEN {a.url.origin} ELSE None,
   from |-> a.options.approvedAt, until |-> ValidUntil(a), max_uses |-> a.options.maxUses, agents |-> a.options.agents]

\* "The mappers never widen what was approved" (mappers.ts:13-15).
NeverWidens(a) ==
  MapError(a) = "none" =>
    LET i == Instruction(a) IN
    /\ i.currency = a.currency /\ i.max_total_minor * 1000 <= a.amount * 10 ^ Exponents[a.currency]
    /\ a.kind \in {"prava", "reap"} /\ a.scope = "listed" => i.merchants = {a.url.origin}
    /\ a.kind \in {"crossmint", "basis-theory"} /\ a.url # None => i.merchants = {a.url.origin}
    /\ a.ends # None => i.until <= a.ends
    /\ a.kind = "prava" => i.until <= a.options.approvedAt + a.minutes * Minute
    /\ a.charges # None /\ (a.kind \in {"prava", "reap"} \/ (a.kind = "skyfire" /\ a.status = "pay_per_use")) => i.max_uses <= a.charges
    /\ i.from = a.options.approvedAt /\ i.agents # {}
=============================================================================
