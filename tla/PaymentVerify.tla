--------------------------- MODULE PaymentVerify ----------------------------
(***************************************************************************)
(* Checking a payment attestation against the chain, src/payment.ts.         *)
(*                                                                          *)
(* A case `a` is the attestation, the keys and the receipt the caller holds, *)
(* and the nodes it asks, each with the transaction as it shows it: None,    *)
(* or [succeeded, asset, payee, units, block, time].  `a.truth` is what the  *)
(* chain really holds; no check reads it.                                    *)
(***************************************************************************)
EXTENDS Integers, FiniteSets, Checks, Values

Observation(outcome, seen) == [outcome |-> outcome, seen |-> seen]

\* A successful transfer of the attested amount to the payee, as shown.
Pays(a, tx) == tx # None /\ tx.succeeded /\ tx.asset /\ tx.payee /\ tx.units >= a.units

\* observeNode: what a node shows, or "unknown".  The observation includes the
\* block's time, which is null when the node does not give it.
Observe(a, node) ==
  LET tx == node.shows
      matches == Pays(a, tx)
      failed == a.settlement = "failed"
  IN  Decide(<<When(~node.url \/ node.answer # "answers" \/ node.chain # "base", Observation("unknown", "nothing")),
               When(tx = None, Observation(IF failed THEN "pass" ELSE "fail", None)),
               When(failed, Observation(IF matches THEN "fail" ELSE "pass", tx))>>,
             Observation(IF matches THEN "pass" ELSE "fail", tx))

\* keyFrom: exactly one well-formed key of the attestation's id.
KeyProblem(a) == a.keys # "one"

\* Mutant: the first node that answers decides.
AgreementOfFirst(a) == Observe(a, a.nodes[1])

\* All nodes show the same, or nothing is established.
Agreement(a) ==
  LET seen == {Observe(a, a.nodes[i]) : i \in DOMAIN a.nodes} IN
  IF (\E o \in seen : o.outcome = "unknown") \/ Cardinality(seen) # 1 THEN Observation("unknown", "nothing") ELSE Observe(a, a.nodes[1])

\* verifyPaymentAttestation: the statement before anything on chain.
VerifyPayment(a) ==
  Decide(<<When(a.input # "sound", "UNESTABLISHED"),
           When(~a.type, "CONTRADICTED"),
           When(KeyProblem(a), "UNESTABLISHED"),
           When(~a.signed, "CONTRADICTED"),
           When(a.receipt = "unreadable", "UNESTABLISHED"),
           When(a.receipt = "other", "CONTRADICTED"),
           When(~a.base \/ a.settlement \notin {"settled", "failed"}, "UNESTABLISHED"),
           When(a.settlement = "failed" /\ a.transaction = "empty", "VERIFIED"),
           When(a.transaction # "hash" \/ a.nodes = <<>>, "UNESTABLISHED"),
           When(a.nodes # <<>> /\ Agreement(a).outcome = "unknown", "UNESTABLISHED"),
           When(a.nodes # <<>> /\ Agreement(a).outcome = "fail", "CONTRADICTED")>>, "VERIFIED")

PaymentExit(a) == CASE VerifyPayment(a) = "VERIFIED" -> 0 [] VerifyPayment(a) = "CONTRADICTED" -> 1 [] OTHER -> 2

\* One node that shows the chain as it is.
Honest(a) == \E i \in DOMAIN a.nodes : LET n == a.nodes[i] IN n.url /\ n.answer = "answers" /\ n.chain = "base" /\ n.shows = a.truth

\* With one honest node among those asked, a verified statement is true, and a
\* statement that is true is never contradicted by the chain.
VerifiedIsTrue(a) ==
  /\ VerifyPayment(a) = "VERIFIED" /\ Honest(a) /\ a.transaction = "hash" => (a.settlement = "settled" <=> Pays(a, a.truth))
  /\ VerifyPayment(a) = "CONTRADICTED" /\ Honest(a) /\ a.type /\ a.signed /\ a.receipt # "other" => (a.settlement = "settled" <=> ~Pays(a, a.truth))
=============================================================================
