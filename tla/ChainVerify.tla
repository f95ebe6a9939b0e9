---------------------------- MODULE ChainVerify ----------------------------
(***************************************************************************)
(* What a reader makes of a chain file: the structural parse of              *)
(* vendor/recorder/io.ts, the verdict of vendor/recorder/cli/verify.ts and   *)
(* the choice of key, the exit code and the flags of `chirindo verify`.      *)
(*                                                                          *)
(* A hash is the content it is taken over, a signature is who signed which   *)
(* content, a key is its thumbprint.  Two contents with one hash and a       *)
(* signature made without the key do not exist here.                         *)
(***************************************************************************)
EXTENDS Integers, FiniteSets, Checks, TLC

CONSTANTS
  Skew,      \* DEFAULT_MAX_SKEW_MS, in the units of Times
  Unreadable \* a ts that Date.parse cannot read

ASSUME ChainVerifyAssumption == Skew \in Nat

\* A record: the members the verifier looks at.  event and commit are what was
\* done and what request_commitment commits to; paid is x402_payment_ref and
\* output whether the event has a result_hash.
Content(r) == [seq |-> r.seq, v |-> r.v, uri |-> r.uri, thumb |-> r.thumb, kid |-> r.kid, ts |-> r.ts,
               event |-> r.event, commit |-> r.commit, paid |-> r.paid, output |-> r.output, prev |-> r.prev]
EntryHash(r) == Content(r)
GenesisPrevHash(v) == [genesis |-> v]
Signed(content, key) == [content |-> content, by |-> key]

\* A line of a file: a record of that content, signed by that key.
Record(c, key) ==
  [kind |-> "record", sig |-> Signed(c, key), seq |-> c.seq, v |-> c.v, uri |-> c.uri, thumb |-> c.thumb, kid |-> c.kid, ts |-> c.ts,
   event |-> c.event, commit |-> c.commit, paid |-> c.paid, output |-> c.output, prev |-> c.prev]

\* Chain.append and appendReceipt over the records read.
Sealed(records, r, key) ==
  Record([seq |-> Len(records), v |-> "v1", uri |-> r.uri, thumb |-> key, kid |-> key, ts |-> r.ts, event |-> r.event, commit |-> r.event,
          paid |-> r.paid, output |-> r.output,
          prev |-> IF records = <<>> THEN GenesisPrevHash("v1") ELSE EntryHash(records[Len(records)])], key)

\* Chain.checkpoint and buildCheckpoint over the records read.
Checkpoint(records, key) ==
  LET content == [count |-> Len(records), last |-> EntryHash(records[Len(records)]), kid |-> key]
  IN  [kind |-> "checkpoint", sig |-> Signed(content, key), count |-> content.count, last |-> content.last, kid |-> content.kid]

----------------------------------------------------------------------------
\* io.ts

\* parseChainJsonl throws on a line that is no JSON object, on a second
\* checkpoint and on a record behind a checkpoint.
Parses(lines) ==
  /\ \A i \in DOMAIN lines : lines[i].kind # "garbage"
  /\ \A i \in DOMAIN lines : lines[i].kind = "checkpoint" => i = Len(lines)

\* What a file that parses holds: records, and behind them perhaps a checkpoint.
HasCheckpoint(lines) == lines # <<>> /\ Last(lines).kind = "checkpoint"
Records(lines) == IF HasCheckpoint(lines) THEN Front(lines) ELSE lines

----------------------------------------------------------------------------
\* verifyChain

Tampered(entry, reason) == [kind |-> "tampered", entry |-> entry, reason |-> reason]
Invalid(entry, reason) == [kind |-> "invalid", entry |-> entry, reason |-> reason]
NoFailure == [kind |-> "none"]

PrevHash(records, i) == IF i = 1 THEN GenesisPrevHash(records[1].v) ELSE EntryHash(records[i - 1])

\* Mutant: an entry of the same time is a regression.
TimeRunsStrictly(records, i) ==
  \A j \in 1 .. i - 1 :
    records[i].ts # Unreadable /\ records[j].ts # Unreadable => records[i].ts + Skew > records[j].ts

\* An entry may lie Skew before the latest time seen; a time that cannot be
\* read is passed over.
TimeRuns(records, i) ==
  \A j \in 1 .. i - 1 :
    records[i].ts # Unreadable /\ records[j].ts # Unreadable => records[i].ts + Skew >= records[j].ts

\* Mutant: linkage is not looked at.
EntryFailureUnlinked(records, i, key) ==
  LET r == records[i] IN
  Decide(<<When(r.seq # i - 1, Tampered(i - 1, "sequence gap")),
           When(r.thumb # key, Invalid(i - 1, "key_binding_mismatch")),
           When(r.kid # key, Tampered(i - 1, "kid mismatch")),
           When(r.sig # Signed(Content(r), key), Tampered(i - 1, "signature invalid")),
           When(~TimeRuns(records, i), Tampered(i - 1, "timestamp regression"))>>, NoFailure)

\* The checks of one record, in the order the loop makes them: the key binding
\* before the kid, the commitment before the signature.
EntryFailure(records, i, key) ==
  LET r == records[i] IN
  Decide(<<When(r.seq # i - 1, Tampered(i - 1, "sequence gap")),
           When(r.v \notin {"v0", "v1"}, Tampered(i - 1, "unsupported record version")),
           When(r.uri = "insecure", Invalid(i - 1, "insecure_jwks_uri")),
           When(r.v = "v1" /\ r.thumb # key, Invalid(i - 1, "key_binding_mismatch")),
           When(r.kid # key, Tampered(i - 1, "kid mismatch")),
           When(r.prev # PrevHash(records, i), Tampered(i - 1, "prev_hash linkage broken")),
           When(r.commit # r.event, Tampered(i - 1, "request_commitment mismatch")),
           When(r.sig # Signed(Content(r), key), Tampered(i - 1, "signature invalid")),
           When(~TimeRuns(records, i), Tampered(i - 1, "timestamp regression"))>>, NoFailure)

CheckpointFailure(cp, records, key) ==
  Decide(<<When(cp.kid # key, Tampered("checkpoint", "kid mismatch")),
           When(cp.count # Len(records), Tampered("checkpoint", "count mismatch")),
           When(cp.last # EntryHash(records[Len(records)]), Tampered("checkpoint", "last_entry_hash mismatch")),
           When(cp.sig # Signed([count |-> cp.count, last |-> cp.last, kid |-> cp.kid], key),
                Tampered("checkpoint", "signature invalid"))>>, NoFailure)

\* A payment that names no output, or that cannot be recomputed, makes the
\* whole chain unproven, whatever other records say.
Delivery(records) ==
  LET paid == {i \in DOMAIN records : records[i].paid # "none"}
  IN  IF paid = {} THEN "none"
      ELSE IF \A i \in paid : records[i].paid = "ref" /\ records[i].output THEN "proven" ELSE "unproven"

\* verifyChain: an empty pin set pins nothing.  The first record that fails
\* decides, then the checkpoint.
VerifyChain(lines, key, pins) ==
  LET records == Records(lines)
      failing == {i \in DOMAIN records : EntryFailure(records, i, key) # NoFailure}
      broken == HasCheckpoint(lines) /\ CheckpointFailure(Last(lines), records, key) # NoFailure
  IN  IF records = <<>> THEN [kind |-> "empty"]
      ELSE IF pins # {} /\ key \notin pins THEN Invalid("chain", "untrusted_key")
      ELSE IF failing # {} THEN EntryFailure(records, Min(failing), key)
      ELSE IF broken THEN CheckpointFailure(Last(lines), records, key)
      ELSE [kind |-> "valid", delivery |-> Delivery(records)]

\* runVerify reads the key from a local identity, or by the first record's kid
\* from a JWKS document: `published` is what is found there, or "none".
RunVerify(lines, source, local, published, pins) ==
  IF source = "local" THEN VerifyChain(lines, local, pins)
  ELSE IF Records(lines) = <<>> THEN [kind |-> "empty"]
  ELSE IF published = "none" THEN [kind |-> "unverifiable"]
  ELSE VerifyChain(lines, published, pins)

\* formatVerifyResult
ExitCode(result, allowUnproven) ==
  IF result.kind = "valid" /\ (result.delivery # "unproven" \/ allowUnproven) THEN 0 ELSE 1

----------------------------------------------------------------------------
\* cmdVerify.  flags maps a flag that is given to its value, or to "bare" when
\* it has none.

Given(flags, names) == names \cap DOMAIN flags # {}
HasValue(flags, n) == n \in DOMAIN flags /\ flags[n] # "bare"
Bare(flags, names) == \E n \in names \cap DOMAIN flags : flags[n] = "bare"

WitnessOptions == {"witness", "witness-file", "witness-key", "witness-key-id", "witness-name"}

\* The flags that make `chirindo verify` exit 2 before any work.
VerifyUsageError(flags) ==
  LET has(n) == n \in DOMAIN flags IN
  \/ HasValue(flags, "key") /\ HasValue(flags, "jwks")
  \/ Given(flags, {"witness-account-key-file", "witness-account-key"})
  \/ has("witness") /\ has("witness-file")
  \/ ~Given(flags, {"witness", "witness-file"}) /\ Given(flags, WitnessOptions)
  \/ has("witness-file") /\ ~has("witness-key")
  \/ Bare(flags, WitnessOptions)

\* The key source is the first that is there; one that is there and cannot be
\* reached is never passed over for the next.
KeySource(flags, embedded, env) ==
  Decide(<<When(HasValue(flags, "key"), "local"),
           When(HasValue(flags, "jwks"), "flag"),
           When(embedded # "none", "receipt-jwks"),
           When(env, "env")>>, "default")
=============================================================================
