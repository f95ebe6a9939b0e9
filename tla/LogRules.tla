------------------------------ MODULE LogRules -------------------------------
(***************************************************************************)
(* The rules the evidence bundle verifier holds a gate log to (M2 of         *)
(* examples/evidence-bundle/lib/records.mjs), beside those of the gate's own *)
(* verifier (verifyChain of ChainVerify).  They are two programs, written    *)
(* apart, over one file.                                                     *)
(*                                                                          *)
(* A log `l` is the lines of the file, the rules its records break in        *)
(* members the gate's verifier does not look at (`l.odd`: a record's place   *)
(* and the rule), and the operator keys carried with it.                     *)
(***************************************************************************)
EXTENDS ChainVerify

\* A session, an issuer, a gate member's commitment, a receipt_uid or an event
\* that is not as it should be.
OddRules == {"session_id", "iss", "gate", "receipt_uid", "event"}
Keeps(l, i, rules) == \A rule \in rules : <<i, rule>> \notin l.odd

\* operatorKeysByThumbprint: an entry that is no Ed25519 key is passed over.
OperatorKeys(l) == {k.thumb : k \in {j \in l.operator : j.ed25519 /\ j.canonical}}

Sound(records, key) == \A i \in DOMAIN records : records[i].sig = Signed(Content(records[i]), key)

\* What both kinds of log keep: the place, the first record's version, session
\* and kid, the link to the record before.
Linked(l, records, i) ==
  LET r == records[i] IN
  /\ r.seq = i - 1 /\ r.v = records[1].v /\ r.kid = records[1].kid /\ r.prev = PrevHash(records, i)
  /\ Keeps(l, i, {"session_id", "receipt_uid"})

\* One record of a chirindo log.  A v0 record's jwks_uri is not looked at.
RecordHolds(l, records, i) ==
  LET r == records[i] IN
  /\ Linked(l, records, i) /\ r.v \in {"v0", "v1"} /\ r.commit = r.event /\ Keeps(l, i, {"event", "gate"})
  /\ r.v = "v1" => r.thumb = r.kid /\ r.uri = records[1].uri /\ r.uri # "insecure" /\ Keeps(l, i, {"iss"})
  /\ r.ts # Unreadable /\ TimeRuns(records, i)

\* m2ChirindoLog: under a legacy kid everything but the key is held to.
M2ChirindoLog(l) ==
  LET records == Records(l.lines)
      kid == records[1].kid
  IN  IF ~Parses(l.lines) \/ records = <<>> THEN "FAIL"
      ELSE IF \E i \in DOMAIN records : ~RecordHolds(l, records, i) THEN "FAIL"
      ELSE IF kid \in l.legacy THEN "NE"
      ELSE IF kid \in OperatorKeys(l) /\ Sound(records, kid) THEN "PASS" ELSE "FAIL"

\* parseAnnexBLog and m2AnnexBLog: every line is a record.
M2AnnexBLog(l) ==
  LET records == l.lines
      kid == records[1].kid
  IN  IF records = <<>> \/ \E i \in DOMAIN records : records[i].kind # "record" THEN "FAIL"
      ELSE IF \E i \in DOMAIN records : ~Linked(l, records, i) THEN "FAIL"
      ELSE IF kid \notin l.legacy /\ kid \in OperatorKeys(l) /\ Sound(records, kid) THEN "PASS" ELSE "FAIL"

\* M3 of the checkpoint in the file: its signature, and the head of as many
\* records as it counts; records it counts beyond the file say nothing here.
M3Holds(l) ==
  LET records == Records(l.lines)
      cp == Last(l.lines)
  IN  /\ cp.kid \in OperatorKeys(l) /\ cp.sig = Signed([count |-> cp.count, last |-> cp.last, kid |-> cp.kid], cp.kid)
      /\ cp.count <= Len(records) => cp.last = EntryHash(records[cp.count])

----------------------------------------------------------------------------
\* The two verifiers agree on a log, but for what is named here: the bundle's
\* reads no v0 record's jwks_uri and takes a checkpoint that does not count
\* the whole file; the gate's passes over a time it cannot read, a change of
\* version or jwks_uri on the way, and the odd rules.  A log that passes as a
\* chirindo log passes under the rules of Annex B too.
VerifiersAgree(l) ==
  LET records == Records(l.lines)
      kid == records[1].kid
      gate == VerifyChain(l.lines, kid, {}).kind
      whole == HasCheckpoint(l.lines) => M3Holds(l) /\ Last(l.lines).kid = kid /\ Last(l.lines).count = Len(records)
      uniform == \A i \in DOMAIN records : records[i].v = records[1].v /\ records[i].uri = records[1].uri /\ records[i].ts # Unreadable
  IN  Parses(l.lines) /\ records # <<>> =>
        /\ M2ChirindoLog(l) = "PASS" /\ whole /\ (\A i \in DOMAIN records : records[i].uri # "insecure") => gate = "valid"
        /\ gate = "valid" /\ uniform /\ l.odd = {} /\ kid \notin l.legacy /\ kid \in OperatorKeys(l) => M2ChirindoLog(l) = "PASS" /\ whole
        /\ M2ChirindoLog(l) = "PASS" /\ ~HasCheckpoint(l.lines) => M2AnnexBLog(l) = "PASS"
=============================================================================
