---------------------------- MODULE SharedChain ----------------------------
(***************************************************************************)
(* One chain file and all who touch it: hooks (vendor/recorder/cli/hook.ts)  *)
(* and gates (src/receipt.ts) that read it and then append without a lock,   *)
(* `chirindo checkpoint`, which verifies it and then reads it again,         *)
(* `chirindo verify --witness`, which reads it and then asks the witness,    *)
(* and whoever edits the file afterwards.                                    *)
(***************************************************************************)
EXTENDS ChainVerify, WitnessCheck

CONSTANTS
  Writers,   \* hook and gate processes, each with one event to record
  Pays,      \* the writers whose event names a payment
  Key,       \* the signing key, by its thumbprint
  OtherKey,  \* another one
  Times,     \* what the machine's clock may show
  Start,     \* what it shows first
  MaxSigned, \* bound: chains signed the head of
  MaxFaults, \* bound: edits of the file, writes cut short, replies lost and moves of the clock
  None       \* nothing read, no verdict

ASSUME SharedChainAssumption ==
  /\ Pays \subseteq Writers
  /\ Key # OtherKey
  /\ Times \subseteq Nat /\ Start \in Times
  /\ Unreadable \notin Times
  /\ MaxSigned \in Nat
  /\ MaxFaults \in Nat

VARIABLES
  file,       \* its lines
  reading,    \* writer -> the records it has read and not yet appended to
  histories,  \* the chains writers have signed the head of, record by record
  sidecar,    \* checkpoints signed by the command, and whether a receipt came
  stored,     \* the receipts of the witness
  command,    \* whether a checkpoint command has verified and not yet signed
  verifier,   \* whether a verify has found the chain valid and not yet read it again
  audit,      \* what a verify has read and not yet compared, and whether the file moved since
  said,       \* the verdict an audit has just given, the records and receipts it is about
  overlapped, \* whether a record was appended to a file that had moved
  clock,      \* what the clock of the machine shows
  setBack,    \* whether a record was stamped more than Skew before one stamped earlier
  moves,      \* moves of the clock so far
  faults      \* edits, cut writes and lost replies so far

times == <<clock, setBack, moves>>
vars == <<file, reading, histories, sidecar, stored, command, verifier, audit, said, overlapped, times, faults>>

Init ==
  /\ file = <<>>
  /\ reading = [w \in Writers |-> None]
  /\ histories = {}
  /\ sidecar = {}
  /\ stored = {}
  /\ command = "idle"
  /\ verifier = "idle"
  /\ audit = None
  /\ said = None
  /\ overlapped = FALSE
  /\ clock = Start
  /\ setBack = FALSE
  /\ moves = 0
  /\ faults = 0

Verdict(lines) == VerifyChain(lines, Key, {})
Heads(h) == [count |-> Len(h), hash |-> EntryHash(h[Len(h)])]

\* Every line changes what a verify that has read the file already knows of it.
Write(lines) ==
  /\ file' = lines
  /\ audit' = IF audit = None THEN None ELSE [audit EXCEPT !.moved = TRUE]

----------------------------------------------------------------------------
\* Writers

\* readChainFileOrEmpty: a file that does not parse is an error of this record;
\* the hook exits 0 all the same and nothing is written.
Read(w) ==
  /\ reading[w] = None
  /\ Parses(file)
  /\ reading' = [reading EXCEPT ![w] = [records |-> Records(file)]]
  /\ UNCHANGED <<file, histories, sidecar, stored, command, verifier, audit, overlapped, times, faults>>

\* The record a writer makes, before it is sealed to the records it has read.
\* Its ts is what the clock shows: nothing compares it with the records before
\* it, as the purchase check does with its own.
Draft(w) == [seq |-> 0, v |-> "v1", uri |-> "none", thumb |-> Key, kid |-> Key, ts |-> clock, event |-> w, commit |-> w,
             paid |-> IF w \in Pays THEN "ref" ELSE "none", output |-> FALSE, prev |-> GenesisPrevHash("v1")]

\* chain.append and appendRecordLine: whatever the file holds by now, the line
\* is the one behind the records that were read.  A write that is cut short
\* leaves a line no reader parses.
AppendLine(w) ==
  /\ reading[w] # None
  /\ Cardinality(histories) < MaxSigned
  /\ LET r == Sealed(reading[w].records, Draft(w), Key) IN
       \/ /\ Write(Append(file, r))
          /\ setBack' = (setBack \/ \E h \in histories : h[Len(h)].ts > clock + Skew)
          /\ histories' = histories \cup {Append(reading[w].records, r)}
          /\ UNCHANGED faults
       \/ /\ faults + moves < MaxFaults
          /\ faults' = faults + 1
          /\ Write(Append(file, [kind |-> "garbage"]))
          /\ UNCHANGED <<histories, setBack>>
  /\ overlapped' = (overlapped \/ ~Parses(file) \/ Records(file) # reading[w].records)
  /\ reading' = [reading EXCEPT ![w] = None]
  /\ UNCHANGED <<sidecar, stored, command, verifier, clock, moves>>

\* The clock goes on, or is set: nothing in the program keeps it from running back.
ClockMoves ==
  /\ faults + moves < MaxFaults
  /\ moves' = moves + 1
  /\ clock' \in Times \ {clock}
  /\ UNCHANGED <<file, reading, histories, sidecar, stored, command, verifier, audit, overlapped, setBack, faults>>

----------------------------------------------------------------------------
\* chirindo checkpoint

\* The chain must verify, or nothing is written.
CheckpointVerifies ==
  /\ command = "idle"
  /\ Parses(file)
  /\ Verdict(file).kind = "valid"
  /\ command' = "verified"
  /\ UNCHANGED <<file, reading, histories, sidecar, stored, verifier, audit, overlapped, times, faults>>

\* The witness stores one row per count and hash; fork is "true" when it holds
\* the count with another hash.
Stores(head) ==
  IF \E r \in stored : r.count = head.count /\ r.hash = head.hash THEN stored
  ELSE stored \cup {[count |-> head.count, hash |-> head.hash, by |-> "witness", id |-> "witness", chain |-> TRUE,
                     fork |-> IF \E r \in stored : r.count = head.count THEN "true" ELSE "false"]}

\* The file is read again and its head signed.  A head that has a receipt, or
\* without a witness any line, is not signed again; a reply may be lost.
CheckpointSigns ==
  /\ command = "verified"
  /\ command' = "idle"
  /\ IF ~Parses(file) \/ Records(file) = <<>> THEN UNCHANGED <<sidecar, stored, faults>>
     ELSE LET head == Heads(Records(file))
              same == {l \in sidecar : l.head = head}
              Written(receipt) == sidecar' = sidecar \cup {[head |-> head, receipt |-> receipt]}
          IN  \/ same # {} /\ UNCHANGED <<sidecar, stored, faults>>
              \/ same = {} /\ Written(FALSE) /\ UNCHANGED <<stored, faults>>
              \/ /\ \A l \in same : ~l.receipt
                 /\ stored' = Stores(head)
                 /\ \/ Written(TRUE) /\ UNCHANGED faults
                    \/ faults + moves < MaxFaults /\ faults' = faults + 1 /\ Written(FALSE)
  /\ UNCHANGED <<file, reading, histories, verifier, audit, overlapped, times>>

----------------------------------------------------------------------------
\* chirindo verify --witness

\* The chain must be valid, or the witness is not asked.
AuditVerifies ==
  /\ verifier = "idle" /\ audit = None
  /\ Parses(file)
  /\ Verdict(file).kind = "valid"
  /\ verifier' = "verified"
  /\ UNCHANGED <<file, reading, histories, sidecar, stored, command, audit, overlapped, times, faults>>

\* The file is read again.  One that no longer parses, or holds no record, ends
\* the command without a word of the witness.
AuditReads ==
  /\ verifier = "verified"
  /\ verifier' = "idle"
  /\ audit' = IF Parses(file) /\ Records(file) # <<>> THEN [records |-> Records(file), moved |-> FALSE] ELSE None
  /\ UNCHANGED <<file, reading, histories, sidecar, stored, command, overlapped, times, faults>>

Hashes(records) == [i \in DOMAIN records |-> EntryHash(records[i])]

\* The receipts are fetched and compared with what was read before.
AuditCompares ==
  /\ audit # None
  /\ said' = [verdict |-> CheckReceipts(stored, Hashes(audit.records), "witness", "witness"), records |-> audit.records,
              receipts |-> stored, moved |-> audit.moved]
  /\ audit' = None
  /\ UNCHANGED <<file, reading, histories, sidecar, stored, command, verifier, overlapped, times, faults>>

----------------------------------------------------------------------------
\* What happens to a file afterwards

\* A record as someone without the key may leave it.  (A chain whose records say
\* something else and are signed anew is one of MCVerdicts' cases.)
Altered(r) ==
  {[r EXCEPT !.event = "other"], [r EXCEPT !.event = "other", !.commit = "other"], [r EXCEPT !.seq = @ + 1],
   [r EXCEPT !.v = "v0"], [r EXCEPT !.thumb = OtherKey], [r EXCEPT !.kid = OtherKey], [r EXCEPT !.ts = 0],
   [r EXCEPT !.output = TRUE], [r EXCEPT !.sig.by = OtherKey], [r EXCEPT !.prev = GenesisPrevHash("v0")]}

\* Lines are cut off the end, one is taken out, one is altered, or a checkpoint
\* of the records is put behind them, as writeChainFile does.
Edit ==
  /\ faults + moves < MaxFaults
  /\ audit = None /\ command = "idle" /\ verifier = "idle"
  /\ faults' = faults + 1
  /\ \/ \E n \in 0 .. Len(file) - 1 : Write(SubSeq(file, 1, n))
     \/ \E i \in 1 .. Len(file) - 1 : Write(SubSeq(file, 1, i - 1) \o SubSeq(file, i + 1, Len(file)))
     \/ \E i \in DOMAIN file : file[i].kind = "record" /\ \E r \in Altered(file[i]) : Write([file EXCEPT ![i] = r])
     \/ /\ Parses(file)
        /\ Records(file) # <<>>
        /\ \E n \in 1 .. Len(Records(file)) : Write(Append(file, Checkpoint(SubSeq(Records(file), 1, n), Key)))
  /\ UNCHANGED <<reading, histories, sidecar, stored, command, verifier, overlapped, times>>

Steps ==
  \/ \E w \in Writers : Read(w) \/ AppendLine(w)
  \/ ClockMoves
  \/ CheckpointVerifies
  \/ CheckpointSigns
  \/ AuditVerifies
  \/ AuditReads
  \/ Edit

\* A verdict stands until the next step.
Next == AuditCompares \/ (Steps /\ said' = None)

Spec == Init /\ [][Next]_vars

----------------------------------------------------------------------------
\* What verification is worth

\* In a file that verifies every line was written at its place by a writer that
\* had read, and chained to, the line before it: whatever was done to the file,
\* nothing was taken out, put in or moved (verify.ts:330).  Lines are compared
\* by their entry hash, which is over everything but the signature.  No one
\* writer need have seen all of them: see the README.
ValidIsHistory ==
  Parses(file) /\ Verdict(file).kind = "valid" =>
    \A i \in DOMAIN Records(file) : \E h \in histories :
      /\ Len(h) = i
      /\ EntryHash(h[i]) = EntryHash(Records(file)[i])
      /\ i > 1 => EntryHash(h[i - 1]) = EntryHash(Records(file)[i - 1])

\* A chain whose writers kept out of each other's way, whose lines were written
\* whole and which nobody edited verifies, unless the clock was set back: then,
\* and only then, the time of an honest record is called a regression
\* (hook.ts:97, receipt.ts:179, verify.ts:477).
OrderlyChainVerifies ==
  ~overlapped /\ faults = 0 /\ Parses(file) /\ file # <<>> =>
    IF setBack THEN Verdict(file).kind = "tampered" /\ Verdict(file).reason = "timestamp regression"
               ELSE Verdict(file).kind = "valid"

\* When the witness layer passes a chain, every head the witness has a receipt
\* for is still in it, at its place, whatever the file went through: nothing
\* witnessed was cut off or written anew (witness.ts:479).
PassKeepsWitnessed ==
  said # None /\ said.verdict.kind = "pass" =>
    \A r \in said.receipts : r.count <= Len(said.records) /\ r.hash = EntryHash(said.records[r.count])

\* A chain that was only ever appended to in turn is not called tampered by the
\* witness layer, provided the file did not move between its two reads.
HonestIsNotTampered ==
  said # None /\ ~overlapped /\ faults = 0 /\ ~said.moved => said.verdict.kind # "tampered"
=============================================================================
