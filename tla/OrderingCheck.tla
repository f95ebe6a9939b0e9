---------------------------- MODULE OrderingCheck ----------------------------
(***************************************************************************)
(* The ordering checker, examples/ordering-evidence-h4/lib/check.mjs: its    *)
(* checks, what each needs, and the exit code.                               *)
(*                                                                          *)
(* A case `c` is what its files, the pins and the network show.  `broken`    *)
(* holds the checks whose own content is wrong; the rest says what a check   *)
(* depends on besides.                                                      *)
(***************************************************************************)
EXTENDS Integers, FiniteSets, Checks

\* The checks with content of their own, and what is asked of a case for an exit
\* code to be worth what it says: entries of the log are counted.
Checked ==
  {"pins", "case", "a.profile", "a.chain-id", "a.online-keys",
   "b.source.envelope", "b.source.uid", "b.source.signature", "b.source.signer-key", "b.source.request-hash",
   "b.destination.envelope", "b.destination.uid", "b.destination.signature", "b.destination.signer-key", "b.destination.request-hash",
   "c.log-key", "c.entries", "c.chain", "c.entry-signatures", "c.receipt-uids",
   "d.checkpoint-shape", "d.checkpoint-key", "d.checkpoint-signature", "d.checkpoint-session", "d.checkpoint-covers",
   "e.witness-receipt", "e.witness-covers-checkpoint", "e.online-witness",
   "f.chain-data", "f.transaction", "f.sender", "f.receipt", "f.block", "f.block-hash",
   "call", "g.token-domain", "g.authorization", "g.token-logs", "g.validity-window"}
OrderFields == {"broken", "entries", "count", "source", "destination"}
OrderField(f, value) ==
  /\ f = "broken" => value \subseteq Checked
  /\ f \in {"entries", "count", "source", "destination"} => value \in Nat

Sound(c, id) == IF id \in c.broken THEN "FAIL" ELSE "PASS"
Ordering(c) == "case" \notin c.broken /\ c.mode = "ordering"

\* Two endpoints that answer, on different hosts, and answer the same; the
\* case's own chain files, when it has any, must say the same too.
ChainVerified(c) == c.online /\ c.answers = "equal" /\ (c.files => c.filesAgree)
ChainData(c) ==
  Decide(<<When("f.chain-data" \in c.broken, "FAIL"),
           When(ChainVerified(c), "PASS"),
           When(c.online /\ c.answers # "unknown", "FAIL"),
           When(~c.files, "FAIL")>>, "NOT VERIFIED OFFLINE")

\* A check of chain facts passes only on data both endpoints gave.
Fact(c, id) == IF Sound(c, id) = "PASS" /\ ~ChainVerified(c) THEN "NOT VERIFIED OFFLINE" ELSE Sound(c, id)

\* recogniseCall and the authorizations that are not read; a call that cannot
\* be read at all (g.call) has none.
Eip3009(c) == c.call = "eip3009"
Unread(c) == c.call \in {"receive", "not-canonical", "contract-signature"}

Authorization(c) ==
  IF "call" \in c.broken THEN <<>> ELSE
  CASE c.call \in {"receive", "contract-signature"} -> <<Check("g.authorization", {}, "NOT SUPPORTED")>>
    [] c.call = "not-canonical" -> <<Check("g.authorization", {}, "FAIL")>>
    [] Eip3009(c) ->
         <<Check("g.token-domain", {"f.transaction", "f.block"} \cup (IF Ordering(c) THEN {"a.profile"} ELSE {}), Sound(c, "g.token-domain")),
           Check("g.authorization", {"g.token-domain"}, Sound(c, "g.authorization"))>>
         \o (IF Ordering(c) THEN <<Check("g.token-logs", {"g.authorization", "f.receipt"}, Fact(c, "g.token-logs"))>> ELSE <<>>)
         \o <<Check("g.validity-window", {"g.authorization", "f.block"}, Fact(c, "g.validity-window"))>>
    [] OTHER -> <<>>

\* The account whose signature covers the bytes the destination entry's hash is
\* in: the payer for the nonce, the transaction's sender for the rest.
Signer(c) == IF Eip3009(c) /\ c.at = "nonce" THEN c.payer ELSE c.sender

\* Mutant: the signer is taken for the authorizer without being compared.
BindingUnstated(c, passed) ==
  Decide(<<When(c.call = "userop" \/ Unread(c), "FAIL"),
           When(c.at = "none", "FAIL"),
           When(Eip3009(c) /\ ~({"g.authorization", "g.token-logs", "g.validity-window"} \subseteq passed), "FAIL"),
           When(c.claimed # (IF Eip3009(c) /\ c.at = "nonce" THEN "eip3009-nonce" ELSE "calldata"), "FAIL")>>, "PASS")

\* g.binding: the hash is in bytes that the stated authorizer signed, on the
\* path the case claims.  `passed` are the checks before it that passed.
BindingStatus(c, passed) ==
  Decide(<<When(c.call = "userop" \/ Unread(c), "FAIL"),
           When(c.at = "none", "FAIL"),
           When(Eip3009(c) /\ ~({"g.authorization", "g.token-logs", "g.validity-window"} \subseteq passed), "FAIL"),
           When(Eip3009(c) /\ c.at = "authorization-word", "FAIL"),
           When(Eip3009(c) /\ c.at = "calldata" /\ c.sender # c.payer, "FAIL"),
           When(c.stated # "none" /\ Signer(c) # c.stated, "FAIL"),
           When(c.claimed # (IF Eip3009(c) /\ c.at = "nonce" THEN "eip3009-nonce" ELSE "calldata"), "FAIL"),
           When(c.stated = "none", "FLAG")>>, "PASS")

\* The checks of a gate receipt, by its role.
ReceiptIds ==
  [source |-> [envelope |-> "b.source.envelope", uid |-> "b.source.uid", signature |-> "b.source.signature",
               signerKey |-> "b.source.signer-key", requestHash |-> "b.source.request-hash"],
   destination |-> [envelope |-> "b.destination.envelope", uid |-> "b.destination.uid", signature |-> "b.destination.signature",
                    signerKey |-> "b.destination.signer-key", requestHash |-> "b.destination.request-hash"]]

\* Part b for one of the two gate receipts.
ReceiptChecks(c, role) ==
  LET id == ReceiptIds[role] IN
  <<Check(id.envelope, {"a.profile"}, Sound(c, id.envelope)),
    Check(id.uid, {id.envelope}, Sound(c, id.uid)),
    Check(id.signature, {id.uid}, Sound(c, id.signature)),
    Check(id.signerKey, {id.signature}, Sound(c, id.signerKey)),
    Check(id.requestHash, {id.envelope}, IF c.requests THEN Sound(c, id.requestHash) ELSE "NOT CHECKED")>>

\* Parts c and d: the operator's log and its checkpoint.
LogChecks(c) ==
  <<Check("c.log-key", {}, Sound(c, "c.log-key")),
    Check("c.entries", {}, Sound(c, "c.entries")),
    Check("c.chain", {"c.entries"}, Sound(c, "c.chain")),
    Check("c.entry-signatures", {"c.chain", "c.log-key"}, IF c.entriesSigned THEN Sound(c, "c.entry-signatures") ELSE "INFO"),
    Check("c.receipt-uids", {"c.chain", "b.source.envelope", "b.destination.envelope"},
          IF c.source < c.destination THEN Sound(c, "c.receipt-uids") ELSE "FAIL"),
    Check("d.checkpoint-shape", {}, Sound(c, "d.checkpoint-shape")),
    Check("d.checkpoint-key", {"d.checkpoint-shape", "c.log-key"}, Sound(c, "d.checkpoint-key")),
    Check("d.checkpoint-signature", {"d.checkpoint-key"}, Sound(c, "d.checkpoint-signature")),
    Check("d.checkpoint-session", {"d.checkpoint-shape", "c.chain"}, Sound(c, "d.checkpoint-session")),
    Check("d.checkpoint-covers", {"d.checkpoint-shape", "c.chain", "c.receipt-uids"},
          IF c.count = c.entries /\ c.count > c.destination THEN Sound(c, "d.checkpoint-covers") ELSE "FAIL")>>

\* What the witness's own list says of the log: the supplied receipt is in it,
\* no count has two heads, and no count within the log another head than it.
ListAgrees(c) ==
  /\ c.listed.supplied
  /\ \A x, y \in c.listed.receipts : x.count = y.count => x.head = y.head
  /\ \A x \in c.listed.receipts : x.count <= c.entries => x.head = "log"

WitnessChecks(c) ==
  <<Check("e.witness-receipt", {"pins"}, Sound(c, "e.witness-receipt")),
    Check("e.witness-covers-checkpoint", {"e.witness-receipt", "d.checkpoint-shape"}, Sound(c, "e.witness-covers-checkpoint"))>>
  \o (IF ~c.online THEN <<Check("e.online-witness", {}, "NOT CHECKED")>>
      ELSE <<Check("e.online-witness", {"e.witness-receipt", "c.chain", "c.log-key"},
                   IF ListAgrees(c) THEN Sound(c, "e.online-witness") ELSE "FAIL")>>)

\* a.online-keys, offline or without a key document, writes its own line.
KeyDocument(c) ==
  IF ~c.online THEN <<Check("a.online-keys", {}, "NOT CHECKED")>>
  ELSE <<Check("a.online-keys", {"a.profile"}, IF c.keyDocument THEN Sound(c, "a.online-keys") ELSE "NOT CHECKED")>>

\* Part f: the transaction and its sender verify by themselves, what else the
\* chain says only through two endpoints.
ChainChecks(c) ==
  <<Check("f.chain-data", {"case"}, ChainData(c))>>
  \o (IF ChainVerified(c) /\ "case" \notin c.broken THEN <<Check("f.finality", {}, IF c.final THEN "PASS" ELSE "FLAG")>> ELSE <<>>)
  \o <<Check("f.transaction", {"f.chain-data"}, Sound(c, "f.transaction")),
       Check("f.sender", {"f.transaction"}, Sound(c, "f.sender")),
       Check("f.receipt", {"f.transaction"}, Fact(c, "f.receipt")),
       Check("f.block", {"f.receipt"}, Fact(c, "f.block")),
       Check("f.block-hash", {"f.block"}, Fact(c, "f.block-hash")),
       Check("call", {"f.transaction"}, IF "call" \in c.broken THEN "FAIL" ELSE "INFO")>>

PartsBeforeBinding(c) ==
  <<Check("pins", {}, Sound(c, "pins")), Check("case", {}, Sound(c, "case"))>>
  \o (IF ~Ordering(c) THEN <<>>
      ELSE <<Check("a.profile", {"pins"}, Sound(c, "a.profile")), Check("a.chain-id", {"a.profile", "case"}, Sound(c, "a.chain-id"))>>
           \o ReceiptChecks(c, "source") \o ReceiptChecks(c, "destination") \o KeyDocument(c) \o LogChecks(c) \o WitnessChecks(c))
  \o ChainChecks(c) \o Authorization(c)

\* The block's time against the gate receipts' own times is a flag, no more.
Times(c) == IF Ordering(c) /\ c.late THEN <<Check("i.valid-until", {"f.block", "b.source.envelope"}, "FLAG")>> ELSE <<>>

\* checkCase
Rows(c) ==
  LET before == Report(PartsBeforeBinding(c))
      passed == {before[i].id : i \in {j \in DOMAIN before : before[j].ok}}
  IN  IF ~Ordering(c) THEN before
      ELSE Report(PartsBeforeBinding(c)
                  \o <<Check("g.binding", {"c.receipt-uids", "f.sender", "f.receipt", "call"}, BindingStatus(c, passed))>> \o Times(c))

CheckCase(c) ==
  LET rows == Rows(c) IN
  Decide(<<When(Lines(rows, "FAIL") # {}, 1), When(~Ordering(c), 3), When(Lines(rows, "NOT VERIFIED OFFLINE") # {}, 4),
           When(Lines(rows, "FLAG") # {}, 5)>>, 0)

\* main: what is wrong with the arguments is refused before anything is read.
CheckExit(arguments, c) == IF arguments # "sound" THEN 2 ELSE CheckCase(c)

----------------------------------------------------------------------------
\* What exit code 0 is worth, without the checker's own lines

\* The stated authorizer signed the destination entry's hash into a transaction
\* that two endpoints show alike and finalized, the entry stands behind the
\* source entry in the log, and the witness's own list has no other history.
OrderingShown(c) ==
  /\ c.online /\ c.answers = "equal" /\ c.final
  /\ c.stated # "none" /\ c.stated = Signer(c) /\ c.at # "none"
  /\ c.source < c.destination /\ c.destination < c.count /\ c.count = c.entries
  /\ c.listed.supplied /\ \A x \in c.listed.receipts : x.count <= c.entries => x.head = "log"
  /\ c.broken \subseteq {"a.online-keys", "b.source.request-hash", "b.destination.request-hash", "c.entry-signatures",
                         "g.token-domain", "g.authorization", "g.token-logs", "g.validity-window"}
=============================================================================
