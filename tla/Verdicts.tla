------------------------------ MODULE Verdicts -------------------------------
(***************************************************************************)
(* The verdicts of the programs that judge: the evidence bundle verifier,    *)
(* the ordering checker, the payment check, the key resolver, the purchase   *)
(* judgement and its input rules, the loopback servers, the commands, the    *)
(* issuer pack and the release gate.                                         *)
(*                                                                          *)
(* A program starts with the facts of a case as it should be.  Somebody then *)
(* changes the facts one field at a time, and every verdict on the way is    *)
(* held against what it promises.                                            *)
(***************************************************************************)
EXTENDS CommandLine, LogRules, PaymentVerify, PaymentRef, JwksResolve, Instructions, HttpSurface, Mappers

CONSTANTS
  Genuine,        \* program |-> the cases as they should be
  Alternatives,   \* program |-> field |-> what it may be changed to
  MaxAlterations  \* program |-> how many fields may be changed

VARIABLES program, facts, altered
vars == <<program, facts, altered>>

Bundle == INSTANCE BundleVerify
Order == INSTANCE OrderingCheck
Pack == INSTANCE IssuerPack
Gate == INSTANCE ReleaseGate

Init == program \in DOMAIN Genuine /\ facts \in Genuine[program] /\ altered = {}

\* One field of the case is changed.
Alter ==
  \E f \in DOMAIN Alternatives[program] \ altered : \E value \in Alternatives[program][f] :
    /\ Cardinality(altered) < MaxAlterations[program]
    /\ facts' = [facts EXCEPT ![f] = value]
    /\ altered' = altered \cup {f}
    /\ UNCHANGED program

Spec == Init /\ [][Alter]_vars

\* The fields a verdict reads, and what they may hold.
FieldsOf(p) ==
  CASE p = "bundle" -> Bundle!BundleFields
    [] p = "ordering" -> Order!OrderFields
    [] p = "payment" -> {"nodes"}
    [] p = "jwks" -> {"served"}
    [] p = "log" -> {"lines"}
    [] p \in {"trial-http", "purchase-http"} -> {"server", "result"}
    [] p = "input" -> {"size"}
    [] p = "mapper" -> ApprovalFields
    [] p = "purchase" -> PurchaseFields
    [] p = "instruction" -> InstructionFields
    [] p = "verify" -> {"argv", "lines", "pages"}
    [] p = "checkpoint" -> {"argv", "lines"}
    [] p \in {"daemon", "proxy", "erase", "pay", "packed"} -> {"argv"}
    [] p = "pack" -> {"chains"}
    [] p = "release" -> {"maxPolls"}
    [] OTHER -> {}
FieldHolds(p, f, value) ==
  /\ p = "bundle" => Bundle!BundleField(f, value)
  /\ p = "ordering" => Order!OrderField(f, value)
  /\ p = "payment" /\ f = "nodes" => IsSeq(value)
  /\ p = "jwks" /\ f = "served" => IsSeq(value) /\ \A i \in DOMAIN value : IsVisit(value[i])
  /\ p \in {"log", "verify", "checkpoint"} /\ f = "lines" => IsSeq(value) /\ \A i \in DOMAIN value : value[i].kind \in {"record", "checkpoint", "garbage"}
  /\ f = "argv" => IsArguments(value)
  /\ p = "verify" /\ f = "pages" => IsSeq(value)
  /\ p = "pack" /\ f = "chains" => IsSeq(value) /\ \A i \in DOMAIN value : IsSeq(value[i].decisions)
  /\ p = "release" /\ f = "maxPolls" => value \in Nat
  /\ p = "trial-http" => HttpField("trial", f, value)
  /\ p = "purchase-http" => HttpField("purchase", f, value)
  /\ p = "input" /\ f = "size" => value \in {"within", "over"}
  /\ p = "mapper" => ApprovalField(f, value)
  /\ p = "purchase" => PurchaseField(f, value)
  /\ p = "instruction" => InstructionField(f, value)

ASSUME VerdictsAssumption ==
  \A p \in DOMAIN Genuine :
    /\ \A x \in Genuine[p] : FieldsOf(p) \subseteq DOMAIN x /\ \A f \in DOMAIN x : FieldHolds(p, f, x[f])
    /\ \A f \in DOMAIN Alternatives[p] : \A value \in Alternatives[p][f] : FieldHolds(p, f, value)

\* The type invariant: a case, however altered, is one a verdict is made on.
FactsAreTyped ==
  /\ program \in DOMAIN Genuine
  /\ FieldsOf(program) \subseteq DOMAIN facts
  /\ \A f \in DOMAIN facts : FieldHolds(program, f, facts[f])

----------------------------------------------------------------------------
\* A verdict that the order was recorded before the charge is true of the
\* witness's own list; without the chain's own answer no payment verifies; and
\* a payment that binds was signed by the stated account (verify.mjs).
BundleVerdictHolds ==
  program = "bundle" =>
    LET verdict == Bundle!VerifyBundle(facts) IN
    /\ verdict \in {"RECORDED-BEFORE-CHARGE", "RECORDED-WITH-GAPS", "OUTSIDE-INSTRUCTION"} => Bundle!RecordedBefore(facts)
    /\ verdict \notin {"VERIFIES", "VERIFIES-WITH-GAPS"}
    /\ ~facts.card /\ Bundle!Bindings(facts).pay = Bundle!Is("BOUND") => Bundle!PaidByStated(facts)

\* The ordering checker exits 0 only when the ordering is shown: by the stated
\* signer, through endpoints that agree, behind the source entry, against no
\* other history of the witness's (check.mjs).
OrderingVerdictHolds ==
  program = "ordering" => (Order!CheckExit(facts.arguments, facts) = 0 => Order!OrderingShown(facts))

\* No node that lies makes a payment verified or contradicted beside an honest
\* one, no rotation makes one process judge one kid by two keys, no receipt
\* commits to an amount the two sides of the exchange disagree on, and the two
\* verifiers of a log do not disagree on it (payment.ts, jwks.ts,
\* payment-ref.ts, records.mjs).
OneSourceNeverDecides ==
  /\ program = "payment" => VerifiedIsTrue(facts)
  /\ program = "jwks" => OneKeyPerKid(facts)
  /\ program = "log" => VerifiersAgree(facts)
  /\ program = "payment-ref" => CommitsToOnePayment(facts)

\* What the purchase check allows lies inside everything its instruction says,
\* and the evidence verifier agrees; what a provider approved is never widened
\* on its way into one, what the recorder takes is safe to keep, and neither is
\* done for a caller without the token (limits.ts, m6.ts, instructions.mjs,
\* mappers.ts, rules.ts, http.ts).
AcceptedIsWithinTheRules ==
  /\ program = "purchase" => (Allows(facts) => WithinInstruction(facts))
  /\ program = "instruction" => RefusesMoreNeverLess(facts)
  /\ program = "mapper" => NeverWidens(facts)
  /\ program = "input" => (CheckRecordInput(facts) = "ok" => SafeToKeep(facts))
  /\ program \in {"trial-http", "purchase-http"} => CallIsDue(facts)

----------------------------------------------------------------------------
\* Arguments as they stand on the line before the first --, whatever parseArgs
\* makes of them: where a flag is given, where with a value, and whether it has
\* one where it is given last.

Own(argv) == {i \in DOMAIN argv : \A j \in 1 .. i : argv[j].kind # "sep"}
Places(argv, n) == {i \in Own(argv) : argv[i].kind \in {"flag", "eq"} /\ argv[i].flag = n}
Valued(argv, n) == {i \in Places(argv, n) : argv[i].kind = "eq" \/ (i + 1 \in Own(argv) /\ argv[i + 1].kind = "word")}
ValuesOf(argv, n) == {IF argv[i].kind = "eq" THEN argv[i].value ELSE argv[i + 1].value : i \in Valued(argv, n)}
Mentions(argv, n) == Places(argv, n) # {}
EndsValued(argv, n) == \E i \in Valued(argv, n) : \A j \in Places(argv, n) : j <= i
PinsNamed(argv, w) == ValuesOf(argv, "expect-thumbprint") \cup (IF EndsValued(argv, "trust-file") THEN w.trusted ELSE {})

\* The key the chain is verified under: of the source named first in the order
\* --key, --jwks, the receipts' own jwks_uri, the environment, the default.
KeyOf(w) ==
  IF EndsValued(w.argv, "key") THEN w.identity
  ELSE w.published[IF EndsValued(w.argv, "jwks") THEN "flag" ELSE IF Embedded(w) # "none" THEN "receipt-jwks" ELSE IF w.env THEN "env" ELSE "default"]

ChainHolds(records, key) ==
  /\ records # <<>>
  /\ \A i \in DOMAIN records :
       LET r == records[i] IN r.kid = key /\ r.sig = Signed(Content(r), key) /\ r.seq = i - 1 /\ (i > 1 => r.prev = EntryHash(records[i - 1]))

\* verify exits 0 only when every record holds under the key of the first
\* source there is, that key is among the pins that were given, payments name
\* what they bought, and with a witness a pinned one has receipts of this very
\* history (cli.ts, verify.ts, witness.ts).
VerifyEarnsItsZero ==
  program = "verify" /\ VerifyCommand(facts.argv, facts) = 0 =>
    LET records == Records(facts.lines) IN
    /\ ChainHolds(records, KeyOf(facts))
    /\ PinsNamed(facts.argv, facts) # {} => KeyOf(facts) \in PinsNamed(facts.argv, facts)
    /\ Mentions(facts.argv, "allow-unproven-delivery") \/ \A i \in DOMAIN records : records[i].paid # "none" => records[i].output
    /\ Mentions(facts.argv, "witness") \/ Mentions(facts.argv, "witness-file") =>
         LET receipts == IF Mentions(facts.argv, "witness-file") THEN facts.sidecarReceipts ELSE UNION {facts.pages[n].receipts : n \in DOMAIN facts.pages}
         IN  Mentions(facts.argv, "witness-key") /\ receipts # {} /\ \E r \in receipts : r.count <= Len(records) /\ r.hash = EntryHash(records[r.count])

\* A head is signed only over a chain that holds; a lock outlives its command
\* only while it serves; and a pack, an erasure, a payment check and a release
\* end with 0 only when what they say is so (cli.ts, pack.ts, release-gate.mjs).
CommandsKeepTheirWord ==
  /\ program = "checkpoint" =>
       LET out == CheckpointCommand(facts.argv, facts) IN
       /\ out.line # "none" => ChainHolds(Records(facts.lines), facts.identity) /\ facts.atHead # "witnessed" /\ out.exit # 2
       /\ out.exit = 0 /\ Mentions(facts.argv, "witness") => out.line = "receipt" \/ facts.atHead = "witnessed"
  /\ program = "daemon" =>
       LET out == Daemon(facts.command, facts.argv, facts) IN
       /\ out.locked => out.serving
       /\ out.serving /\ facts.command = "purchase-check" => Mentions(facts.argv, "token-file") /\ facts.token = "text"
  /\ program = "proxy" /\ ProxyCommand(facts.argv, facts) = "serves" =>
       facts.identity # "none" /\ facts.policy /\ facts.writable /\ ~Mentions(facts.argv, "witness-account-key")
  /\ program = "erase" /\ TrialErase(facts.argv, facts) = 0 => ~facts.unreadable /\ Mentions(facts.argv, "args-hash") # Mentions(facts.argv, "order-ref")
  /\ program = "pay" /\ PaymentCommand(facts.argv, facts) = 0 => facts.payment = 0 /\ ValuesOf(facts.argv, "rpc") # {} /\ ValuesOf(facts.argv, "pay-to") # {}
  /\ program = "packed" /\ IssuerPackCommand(facts.argv, facts) = 0 => facts.built = 0 /\ ~facts.outExists
  /\ program = "pack" => Pack!PackIsTrue(facts, [Pack!Members(facts) EXCEPT !.wrong = facts.wrong, !.signed = facts.signed, !.reads = facts.zip])
  /\ program = "release" => Gate!ReleaseIsGreen(facts)

\* "a trust file that is named but unreadable/malformed is an error, NOT an
\* empty (= "trust everything") set -- silently dropping a pin is exactly the
\* failure a trust anchor must never have" (cli.ts:973-977).
PinsAreNeverDropped ==
  program = "verify" /\ VerifyCommand(facts.argv, facts) = 0 /\ (Mentions(facts.argv, "trust-file") \/ Mentions(facts.argv, "expect-thumbprint"))
    => KeyOf(facts) \in PinsNamed(facts.argv, facts)
=============================================================================
