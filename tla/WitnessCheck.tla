---------------------------- MODULE WitnessCheck ----------------------------
(***************************************************************************)
(* The witness client of src/witness.ts: what makes a reply a receipt, how   *)
(* receipts are collected, and what they say of a chain.                     *)
(***************************************************************************)
EXTENDS Integers, FiniteSets, Checks

\* witnessCheckpoint.  `reply` is what came back: [net, status, body, code, key,
\* signed, matches].  The first step that fails names the error.
WitnessOutcome(reply) ==
  Decide(<<When(reply.net = "timeout", "witness_timeout"),
           When(reply.net = "down", "witness_unreachable"),
           When(reply.status \notin {200, 201} /\ reply.code, "code"),
           When(reply.status \notin {200, 201}, "http"),
           When(reply.body # "strings", "bad_witness_response"),
           When(reply.key = "none", "witness_key_unavailable"),
           When(reply.signed # reply.key, "bad_witness_signature"),
           When(~reply.matches, "witness_receipt_mismatch")>>, "receipt")

\* The key a receipt is checked under: the pinned one, or the one the witness
\* publishes under the id the receipt names when exactly one entry has it.
WitnessKey(pinned, published, id) ==
  IF pinned # "none" THEN pinned
  ELSE IF Cardinality({k \in published : k.id = id}) = 1 THEN (CHOOSE k \in published : k.id = id).key ELSE "none"

\* collectReceiptsFromWitness: pages follow next_after until one has none; one
\* that repeats the last cursor, that fails, or more than MaxPages fail closed.
Collect(pages, maxPages) ==
  LET last == {n \in DOMAIN pages : pages[n].next = "none"}
      end == Min(last)
      bad == {n \in DOMAIN pages : ~pages[n].ok \/ (n > 1 /\ pages[n].next # "none" /\ pages[n].next = pages[n - 1].next)}
  IN  IF last = {} \/ end > maxPages \/ (\E n \in bad : n <= end) THEN [ok |-> FALSE, receipts |-> {}]
      ELSE [ok |-> TRUE, receipts |-> UNION {pages[n].receipts : n \in 1 .. end}]

----------------------------------------------------------------------------
\* checkReceipts.  A receipt: [count, hash, fork, id, by, chain]; `chain` is
\* whether its kid, session, type and witness name are those asked for.

AtCount(receipts, n) == {r \in receipts : r.count = n}
Forked(receipts, n) == Cardinality({r.hash : r \in AtCount(receipts, n)}) > 1 \/ \E r \in AtCount(receipts, n) : r.fork = "true"

Other(receipts, n, hashes) == \E r \in AtCount(receipts, n) : hashes[n] # r.hash

\* Mutant: a receipt beyond the chain is passed over.
GroupFailureWithinChain(receipts, n, hashes) ==
  Decide(<<When(Forked(receipts, n), "fork"),
           When(n \in DOMAIN hashes /\ Other(receipts, n, hashes), "mismatch")>>, "none")

\* Mutant: a receipt at the head counts as beyond it.
GroupFailureAtHead(receipts, n, hashes) ==
  Decide(<<When(Forked(receipts, n), "fork"), When(n >= Len(hashes), "beyond"),
           When(n \notin DOMAIN hashes \/ Other(receipts, n, hashes), "mismatch")>>, "none")

\* The receipts of one count: fork, then beyond the chain, then another hash.
GroupFailure(receipts, n, hashes) ==
  Decide(<<When(Forked(receipts, n), "fork"),
           When(n > Len(hashes), "beyond"),
           When(n \notin DOMAIN hashes \/ Other(receipts, n, hashes), "mismatch")>>, "none")

\* Every receipt is judged authentic, lowest count first, before any is
\* compared; then the lowest count that fails decides.  (Receipts of one count
\* are judged in the order of their hashes; here an unknown key comes first.)
CheckReceipts(receipts, hashes, key, id) ==
  LET counts == {r.count : r \in receipts}
      unknown == {r.count : r \in {x \in receipts : x.id # id}}
      forged == {r.count : r \in {x \in receipts : x.id = id /\ (x.by # key \/ ~x.chain \/ x.fork \notin {"true", "false"})}}
      failing == {n \in counts : GroupFailure(receipts, n, hashes) # "none"}
  IN  IF receipts = {} THEN [kind |-> "none"]
      ELSE IF unknown # {} /\ \A n \in forged : Min(unknown) <= n THEN [kind |-> "unverifiable"]
      ELSE IF forged # {} THEN [kind |-> "tampered", at |-> Min(forged), why |-> "invalid"]
      ELSE IF failing # {} THEN [kind |-> "tampered", at |-> Min(failing), why |-> GroupFailure(receipts, Min(failing), hashes)]
      ELSE [kind |-> "pass", through |-> Max(counts), unprotected |-> Len(hashes) - Max(counts)]

\* verifyAgainstWitness, after the chain was found valid with exit code
\* validExit: a key that is not pinned never exits 0.
AuditExit(collected, check, pinned, validExit) ==
  IF collected.ok /\ collected.receipts # {} /\ check.kind = "pass" /\ pinned THEN validExit ELSE 1
=============================================================================
