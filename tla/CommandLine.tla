---------------------------- MODULE CommandLine -----------------------------
(***************************************************************************)
(* The command line, src/cli.ts: how arguments are read and what each        *)
(* command refuses, does and exits with.                                     *)
(*                                                                          *)
(* An argument is [kind, flag, value]: a "flag" (--name), an "eq"            *)
(* (--name=value), a "word", or the "sep" (--).  `w` is the world a command  *)
(* finds: files that read or not, a chain, what a witness or a key document  *)
(* answers.                                                                  *)
(***************************************************************************)
EXTENDS ChainVerify, WitnessCheck

CONSTANT MaxPages \* MAX_GET_PAGES

\* A line of arguments.  "bare" stands for a flag without a value and is none.
IsArguments(argv) ==
  IsSeq(argv) /\ \A i \in DOMAIN argv : argv[i].kind \in {"flag", "eq", "word", "sep"} /\ (argv[i].kind \in {"eq", "word"} => argv[i].value # "bare")

BooleanFlags == {"allow-unproven-delivery", "allow-nonstandard-tool-names", "json", "consent-missing-ok", "allow-failed",
                 "witness-file-only", "same-party"}

\* parseArgs: a flag takes the word behind it unless it is one of BooleanFlags;
\* a flag given again keeps the last value, and `multi` every value.  The words
\* no flag takes are the positional arguments, in their order.
ParseArgs(argv) ==
  LET end == Min({i \in DOMAIN argv : argv[i].kind = "sep"} \cup {Len(argv) + 1})
      before == 1 .. end - 1
      settings(n) == {i \in before : argv[i].kind \in {"flag", "eq"} /\ argv[i].flag = n}
      takesNext(i) == argv[i].kind = "flag" /\ argv[i].flag \notin BooleanFlags /\ i + 1 \in before /\ argv[i + 1].kind = "word"
      value(i) == IF argv[i].kind = "eq" THEN argv[i].value ELSE IF takesNext(i) THEN argv[i + 1].value ELSE "bare"
      names == {argv[i].flag : i \in {j \in before : argv[j].kind \in {"flag", "eq"}}}
      words == {i \in before : argv[i].kind = "word" /\ (i = 1 \/ ~takesNext(i - 1))}
  IN  [flags |-> [n \in names |-> value(Max(settings(n)))],
       multi |-> [n \in names |-> {value(i) : i \in settings(n)} \ {"bare"}],
       positional |-> [n \in 1 .. Cardinality(words) |-> argv[CHOOSE i \in words : Cardinality({j \in words : j <= i}) = n].value],
       passthrough |-> Len(argv) > end]

----------------------------------------------------------------------------
\* The witness options of proxy, checkpoint and the daemons

\* loadWitnessAccountKey: the file wins over the environment, and one that is
\* named and no good is an error.
AccountKey(f, w) ==
  Decide(<<When("witness-account-key-file" \in DOMAIN f, IF HasValue(f, "witness-account-key-file") /\ w.accountFile = "key" THEN "file" ELSE "usage"),
           When(w.accountEnv = "unset", "none")>>, IF w.accountEnv = "key" THEN "env" ELSE "usage")

\* parseWitnessTarget: "none", "target" or "usage".
WitnessTarget(f, w) ==
  Decide(<<When("witness-account-key" \in DOMAIN f, "usage"),
           When("witness" \notin DOMAIN f, IF Given(f, {"witness-key", "witness-name", "witness-account-key-file"}) THEN "usage" ELSE "none"),
           When(Bare(f, {"witness", "witness-key", "witness-name"}) \/ ~w.base, "usage"),
           When(HasValue(f, "witness-key") /\ ~w.pin, "usage")>>, IF AccountKey(f, w) = "usage" THEN "usage" ELSE "target")

\* cmdProxy: the exit code, or "serves".  The chain's directory, the identity
\* and the policy are looked at before the downstream starts.
ProxyCommand(argv, w) ==
  LET args == ParseArgs(argv)
      f == args.flags
  IN  Decide(<<When(Bare(f, {"dir"}), "1"),
               When(~HasValue(f, "policy") \/ ~HasValue(f, "server-label") \/ ~args.passthrough, "2"),
               When(HasValue(f, "jwks-uri") /\ f["jwks-uri"] # "https", "2"),
               When("checkpoint-every" \in DOMAIN f /\ f["checkpoint-every"] # "positive", "2"),
               When(WitnessTarget(f, w) = "usage", "2"),
               When(HasValue(f, "allow-nonstandard-tool-names"), "2"),
               When(~w.writable \/ w.identity = "none" \/ ~w.policy, "1")>>, "serves")

\* Mutant: a chain that reads is signed.
HeadReads(w) == Parses(w.lines) /\ ~w.legacyKid

\* Only a chain that verifies under this identity's key is signed, and only
\* under a kid the witness takes.
HeadVerifies(w) == Parses(w.lines) /\ VerifyChain(w.lines, w.identity, {}).kind = "valid" /\ ~w.legacyKid

\* cmdCheckpoint: the exit code and the line it leaves in the sidecar.  atHead
\* is what the sidecar holds of this head.
CheckpointCommand(argv, w) ==
  LET args == ParseArgs(argv)
      target == WitnessTarget(args.flags, w)
      out(exit, line) == [exit |-> exit, line |-> line]
  IN  Decide(<<When(args.positional = <<>> \/ target = "usage", out(2, "none")),
               When(w.identity = "none" \/ ~HeadVerifies(w) \/ w.sidecar = "unreadable", out(1, "none")),
               When(w.atHead = "witnessed" \/ (target = "none" /\ w.atHead # "none"), out(0, "none")),
               When(target = "none", out(0, "bare"))>>,
             IF WitnessOutcome(w.reply) = "receipt" THEN out(0, "receipt") ELSE out(1, "error"))

----------------------------------------------------------------------------
\* verify

\* loadTrustFile: one that does not read is an error, one with an empty list is
\* a list.
TrustFile(w) == IF w.trustReads THEN w.trusted ELSE {}

\* The pins that are in force: --trust-file counts when it has a value.
Pins(args, w) ==
  (IF "expect-thumbprint" \in DOMAIN args.multi THEN args.multi["expect-thumbprint"] ELSE {})
  \cup (IF HasValue(args.flags, "trust-file") THEN TrustFile(w) ELSE {})

Embedded(w) == IF Parses(w.lines) /\ Records(w.lines) # <<>> THEN Records(w.lines)[1].uri ELSE "none"
Source(args, w) == KeySource(args.flags, Embedded(w), w.env)

Verdict(args, w) ==
  IF Source(args, w) = "local" THEN RunVerify(w.lines, "local", w.identity, "none", Pins(args, w))
  ELSE RunVerify(w.lines, Source(args, w), "none", w.published[Source(args, w)], Pins(args, w))

\* verifyAgainstWitness: receipts from the sidecar or from every page of the
\* witness, judged under the pinned key or the one the witness publishes.
Audit(f, w, plain) ==
  LET records == Records(w.lines)
      collected == IF "witness-file" \in DOMAIN f THEN [ok |-> w.sidecar # "unreadable", receipts |-> w.sidecarReceipts]
                   ELSE Collect(w.pages, MaxPages)
      key == WitnessKey(IF HasValue(f, "witness-key") THEN w.witnessKey ELSE "none", w.witnessKeys, "id")
      check == CheckReceipts(collected.receipts, [i \in DOMAIN records |-> EntryHash(records[i])], key, "id")
  IN  AuditExit(collected, check, HasValue(f, "witness-key"), plain)

\* cmdVerify: an error that is thrown ends the program with 1.
VerifyCommand(argv, w) ==
  LET args == ParseArgs(argv)
      f == args.flags
      plain == ExitCode(Verdict(args, w), "allow-unproven-delivery" \in DOMAIN f /\ f["allow-unproven-delivery"] = "bare")
  IN  Decide(<<When(args.positional = <<>> \/ VerifyUsageError(f), 2),
               When(HasValue(f, "witness") /\ ~w.base, 2), When(HasValue(f, "witness-key") /\ ~w.pin, 2),
               When(HasValue(f, "trust-file") /\ ~w.trustReads, 2),
               When(~Parses(w.lines) \/ (Source(args, w) = "local" /\ w.identity = "none"), 1)>>,
             IF Given(f, {"witness", "witness-file"}) /\ Verdict(args, w).kind = "valid"
             THEN Audit(f, w, plain) ELSE plain)

----------------------------------------------------------------------------
\* The daemons and the one-shot commands

DaemonUsage(command, f, w) ==
  \/ command = "trial-recorder" /\ ~HasValue(f, "server-label")
  \/ command = "purchase-check" /\ (~HasValue(f, "token-file") \/ Bare(f, {"server-label"}))
  \/ "token-file" \in DOMAIN f /\ (Bare(f, {"token-file"}) \/ w.token # "text")
  \/ "host" \in DOMAIN f /\ f["host"] # "loopback"
  \/ "port" \in DOMAIN f /\ f["port"] # "port"
  \/ "jwks-uri" \in DOMAIN f /\ f["jwks-uri"] # "https"
  \/ WitnessTarget(f, w) = "usage"

Ended(exit) == [exit |-> exit, locked |-> FALSE, serving |-> FALSE]

\* A server that cannot listen closes the recorder or the check it was for.
ListenFailed == Ended("1")

\* cmdTrialRecorder and cmdPurchaseCheck: opening takes the directory's lock,
\* and a signal closes the server, then what is behind it.
Daemon(command, argv, w) ==
  LET f == ParseArgs(argv).flags IN
  Decide(<<When(Bare(f, {"dir"}), Ended("1")), When(DaemonUsage(command, f, w), Ended("2")), When(~w.opens, Ended("1")),
           When(~w.listens, ListenFailed), When(w.signalled, Ended("0"))>>,
         [exit |-> "serves", locked |-> TRUE, serving |-> TRUE])

\* cmdTrialErase: exactly one of the two names, and 1 when a file could not be read.
TrialErase(argv, w) ==
  LET f == ParseArgs(argv).flags IN
  Decide(<<When(("args-hash" \in DOMAIN f) = ("order-ref" \in DOMAIN f) \/ Bare(f, {"args-hash", "order-ref"}), 2),
           When(HasValue(f, "args-hash") /\ f["args-hash"] # "hash", 2), When(HasValue(f, "order-ref") /\ f["order-ref"] # "printable", 2)>>,
         IF w.unreadable THEN 1 ELSE 0)

\* cmdPayment: what is asked of it, and the files it names, before any work.
PaymentCommand(argv, w) ==
  LET args == ParseArgs(argv)
      f == args.flags
  IN  Decide(<<When(Len(args.positional) # 2 \/ args.positional[1] # "verify", 2),
               When("rpc" \notin DOMAIN args.multi \/ (IF "rpc" \in DOMAIN args.multi THEN args.multi["rpc"] ELSE {}) = {} \/ ~HasValue(f, "pay-to"), 2),
               When(~w.attestation \/ Bare(f, {"receipt", "keys"}), 2),
               When(HasValue(f, "receipt") /\ ~w.receiptReads, 2),
               When(HasValue(f, "keys") /\ f["keys"] = "file" /\ ~w.keysRead, 2)>>, w.payment)

PackValues == {"dir", "out", "instructions-dir", "request-file", "consent-file", "provider-key", "from", "to", "order-ref", "instruction",
               "charge-file", "key", "jwks", "witness", "witness-key", "witness-name", "now"}
PackRequired == {"dir", "out", "instructions-dir", "request-file", "consent-file", "provider-key"}

\* cmdIssuerPack: one selection, one key source, one witness mode, and never
\* over a file that is there.
IssuerPackUsage(f, w) ==
  LET picks == {s \in {{"from", "to"}, {"order-ref"}, {"instruction"}} : \E n \in s : HasValue(f, n)}
      only == "witness-file-only" \in DOMAIN f /\ f["witness-file-only"] = "bare"
  IN  \/ Bare(f, PackValues) \/ (\E n \in PackRequired : ~HasValue(f, n))
      \/ w.outExists \/ Cardinality(picks) # 1 \/ HasValue(f, "from") # HasValue(f, "to")
      \/ HasValue(f, "order-ref") /\ f["order-ref"] = "malformed"
      \/ (HasValue(f, "key") /\ HasValue(f, "jwks")) \/ (HasValue(f, "jwks") /\ f["jwks"] # "https")
      \/ HasValue(f, "witness") /\ only
      \/ (HasValue(f, "witness") \/ only) /\ (~HasValue(f, "witness-key") \/ ~w.pin)
      \/ HasValue(f, "witness") /\ (~HasValue(f, "witness-name") \/ ~w.base)
      \/ ~(HasValue(f, "witness") \/ only) /\ (HasValue(f, "witness-key") \/ HasValue(f, "witness-name"))
IssuerPackCommand(argv, w) ==
  LET f == ParseArgs(argv).flags IN
  Decide(<<When(IssuerPackUsage(f, w), 2), When(w.built # 0, w.built), When(~w.writable, 2)>>, 0)
=============================================================================
