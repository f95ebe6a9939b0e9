----------------------------- MODULE PaymentRef ------------------------------
(***************************************************************************)
(* The payment a receipt commits to, src/vendor/recorder/payment-ref.ts and  *)
(* x402-registry.ts: six fields read from the artifacts of one x402 exchange *)
(* by the registry's row for its scheme, network and facilitator.            *)
(*                                                                          *)
(* An exchange `x` is the three artifacts and what the operator says of it:  *)
(* x.key, the tuple, and x.index, the offer that was paid, from 0.  None is  *)
(* what is not there, Malformed what is not an object or not a text.             *)
(***************************************************************************)
EXTENDS Integers, Checks, Values

\* X402_REGISTRY: both verified rows read the same places.
Registry ==
  {[scheme |-> "exact", network |-> "base-sepolia", facilitator |-> "coinbase-cdp", status |-> "PROVISIONAL"],
   [scheme |-> "exact", network |-> "eip155:84532", facilitator |-> "coinbase-cdp", status |-> "VERIFIED"],
   [scheme |-> "exact", network |-> "eip155:84532", facilitator |-> "x402org", status |-> "VERIFIED"]}
FindRow(key) == {row \in Registry : row.scheme = key.scheme /\ row.network = key.network /\ row.facilitator = key.facilitator}

\* artifactFor and resolvePath, of the requirements.
RequirementsError(x) ==
  IF x.requirements = None THEN "missing_artifact"
  ELSE IF x.requirements = Malformed \/ x.requirements.offers = None THEN "malformed_artifact"
  ELSE IF x.index \notin 0 .. Len(x.requirements.offers) - 1 THEN "accepts_index_out_of_range" ELSE "none"
Offer(x) == x.requirements.offers[x.index + 1]

\* readMapped: a field that must be there, and a text.
FieldError(value) ==
  IF value = None THEN "missing_required_field" ELSE IF value = Malformed THEN "invalid_field_type" ELSE "none"
Required(x) == <<Offer(x).scheme, Offer(x).network, Offer(x).asset, Offer(x).amount, x.requirements.url>>
SubsetError(x) ==
  LET refused == {i \in 1 .. 5 : FieldError(Required(x)[i]) # "none"}
  IN  IF refused # {} THEN FieldError(Required(x)[Min(refused)])
      ELSE IF Offer(x).scheme # x.key.scheme \/ Offer(x).network # x.key.network THEN "row_mismatch" ELSE "none"

\* What is signed and what was settled, None when the artifact says nothing of
\* it.  Neither has to be there.
SignedAmount(x) == IF x.payload \in {None, Malformed} THEN None ELSE x.payload.value
Settlement(x) == IF x.settle \in {None, Malformed} THEN None ELSE x.settle.transaction

\* The cross-check: what is signed is another amount.
AmountDisagrees(x) == SignedAmount(x) \notin {None, Offer(x).amount}

\* buildPaymentRefSubset: the first refusal, or "none".
RefError(x) ==
  LET rows == FindRow(x.key) IN
  IF rows = {} THEN "unregistered_mapping"
  ELSE IF \A row \in rows : row.status # "VERIFIED" THEN "unverified_row"
  ELSE IF RequirementsError(x) # "none" THEN RequirementsError(x)
  ELSE IF SubsetError(x) # "none" THEN SubsetError(x)
  ELSE Decide(<<When(x.payload = Malformed, "malformed_artifact"), When(AmountDisagrees(x), "amount_disagreement"),
                When(x.settle = Malformed, "malformed_artifact"), When(Settlement(x) = Malformed, "invalid_field_type")>>, "none")

\* paymentRefFromArtifacts: None, or what the hash commits to.  A settlement
\* that is not there is left out.
PaymentRefOf(x) ==
  IF RefError(x) # "none" THEN None
  ELSE [fields |-> Required(x), settlement |-> Settlement(x)]

\* A commitment names one amount, the one asked for and the one signed, of an
\* offer that was made in the exchange the verified row is for.
CommitsToOnePayment(x) ==
  PaymentRefOf(x) # None =>
    /\ \E row \in Registry : row.status = "VERIFIED" /\ row.network = Offer(x).network /\ row.facilitator = x.key.facilitator
    /\ \A v \in {PaymentRefOf(x).fields[i] : i \in 1 .. 5} : v \notin {None, Malformed}
    /\ SignedAmount(x) \in {None, PaymentRefOf(x).fields[4]}
    /\ PaymentRefOf(x).settlement # Malformed
=============================================================================
