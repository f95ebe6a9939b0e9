------------------------- MODULE SharedChainProofs -------------------------
(***************************************************************************)
(* Proofs about SharedChain, for any number of writers, records and faults:  *)
(* what the file can hold that verifies, and what the witness's receipts say *)
(* of it.                                                                    *)
(***************************************************************************)
EXTENDS SharedChain, ChecksProofs, FiniteSetTheorems

\* A line as it is written, whatever was altered in it since.
Shaped(r) ==
  /\ DOMAIN r = {"kind", "sig", "seq", "v", "uri", "thumb", "kid", "ts", "event", "commit", "paid", "output", "prev"}
  /\ DOMAIN r.sig = {"content", "by"}

\* The writer's chain behind a signature: the last record of one of hs.
IsHeadOf(content, hs) == \E h \in hs : EntryHash(h[Len(h)]) = content

\* A signature by the key is over the head of a chain some writer signed.
Genuine(l, hs) ==
  /\ l.kind \in {"record", "checkpoint", "garbage"}
  /\ l.kind = "record" => Shaped(l) /\ (l.sig.by = Key => IsHeadOf(l.sig.content, hs))
GenuineLines(s, hs) == IsSeq(s) /\ \A i \in DOMAIN s : Genuine(s[i], hs)

\* What a writer signs says its place and follows what the writer read.
SignedInPlace(h) ==
  /\ IsSeq(h) /\ Len(h) > 0
  /\ h[Len(h)].seq = Len(h) - 1
  /\ Len(h) > 1 => h[Len(h)].prev = EntryHash(h[Len(h) - 1])

\* The i-th record of a file nobody disturbed.
Orderly(s, i) ==
  /\ s[i].kind = "record"
  /\ s[i].seq = i - 1 /\ s[i].v = "v1" /\ s[i].uri = "none" /\ s[i].thumb = Key /\ s[i].kid = Key /\ s[i].ts \in Times
  /\ s[i].commit = s[i].event /\ s[i].sig = Signed(Content(s[i]), Key)
  /\ s[i].prev = IF i = 1 THEN GenesisPrevHash("v1") ELSE EntryHash(s[i - 1])

\* A receipt over a head of the file s, of no other history.
Confirms(r, s) == r.count <= Len(s) /\ r.hash = EntryHash(s[r.count]) /\ r.fork = "false"

Undisturbed == ~overlapped /\ faults = 0

CountsAreTyped ==
  /\ faults \in Nat /\ overlapped \in BOOLEAN /\ DOMAIN reading = Writers
  /\ clock \in Times /\ setBack \in BOOLEAN
LinesAreGenuine == GenuineLines(file, histories)
ReadingIsGenuine ==
  \A w \in Writers : reading[w] # None =>
    GenuineLines(reading[w].records, histories) /\ \A i \in DOMAIN reading[w].records : reading[w].records[i].kind = "record"
HistoriesAreSigned == \A h \in histories : SignedInPlace(h)
UndisturbedIsOrderly == Undisturbed => \A i \in DOMAIN file : Orderly(file, i)
\* What was ever stamped is on the file, so that a clock that was set back is
\* seen by whoever reads the file, and nothing else is.
StampedIsOnFile == Undisturbed => \A h \in histories : \E j \in DOMAIN file : file[j] = h[Len(h)]
SetBackIsRegression == Undisturbed => (setBack <=> \E i \in DOMAIN file : ~TimeRuns(file, i))
StoredIsTyped ==
  \A r \in stored : r.count \in Nat /\ r.count > 0 /\ r.id = "witness" /\ r.by = "witness" /\ r.chain = TRUE
UndisturbedIsWitnessed == Undisturbed => \A r \in stored : Confirms(r, file)
AuditIsOfTheFile ==
  audit # None =>
    /\ DOMAIN audit = {"records", "moved"} /\ IsSeq(audit.records) /\ audit.moved \in BOOLEAN
    /\ (~audit.moved => Parses(file) /\ audit.records = Records(file))

ChainInv ==
  /\ CountsAreTyped
  /\ LinesAreGenuine
  /\ ReadingIsGenuine
  /\ HistoriesAreSigned
  /\ UndisturbedIsOrderly
  /\ StampedIsOnFile
  /\ SetBackIsRegression
  /\ StoredIsTyped
  /\ UndisturbedIsWitnessed
  /\ AuditIsOfTheFile
  /\ PassKeepsWitnessed
  /\ HonestIsNotTampered

----------------------------------------------------------------------------
\* Lines stay genuine whatever is done to the file

LEMMA MoreHistories ==
  ASSUME NEW s, NEW hs, NEW more, hs \subseteq more, GenuineLines(s, hs)
  PROVE  GenuineLines(s, more)
BY DEF GenuineLines, Genuine, IsHeadOf

LEMMA AlteredIsGenuine ==
  ASSUME NEW r, NEW hs, Genuine(r, hs), r.kind = "record", NEW q \in Altered(r)
  PROVE  Genuine(q, hs)
<1>1. Shaped(r) /\ (r.sig.by = Key => IsHeadOf(r.sig.content, hs))
  BY DEF Genuine
<1>2. q.kind = "record" /\ Shaped(q) /\ q.sig.content = r.sig.content /\ (q.sig.by = r.sig.by \/ q.sig.by = OtherKey)
  <2>1. CASE q = [r EXCEPT !.event = "other"]
    BY <1>1, <2>1 DEF Shaped
  <2>2. CASE q = [r EXCEPT !.event = "other", !.commit = "other"]
    BY <1>1, <2>2 DEF Shaped
  <2>3. CASE q = [r EXCEPT !.seq = @ + 1]
    BY <1>1, <2>3 DEF Shaped
  <2>4. CASE q = [r EXCEPT !.v = "v0"]
    BY <1>1, <2>4 DEF Shaped
  <2>5. CASE q = [r EXCEPT !.thumb = OtherKey]
    BY <1>1, <2>5 DEF Shaped
  <2>6. CASE q = [r EXCEPT !.kid = OtherKey]
    BY <1>1, <2>6 DEF Shaped
  <2>7. CASE q = [r EXCEPT !.ts = 0]
    BY <1>1, <2>7 DEF Shaped
  <2>8. CASE q = [r EXCEPT !.output = TRUE]
    BY <1>1, <2>8 DEF Shaped
  <2>9. CASE q = [r EXCEPT !.sig.by = OtherKey]
    BY <1>1, <2>9 DEF Shaped
  <2>10. CASE q = [r EXCEPT !.prev = GenesisPrevHash("v0")]
    BY <1>1, <2>10 DEF Shaped
  <2> QED
    BY <2>1, <2>2, <2>3, <2>4, <2>5, <2>6, <2>7, <2>8, <2>9, <2>10 DEF Altered
<1> QED
  BY <1>1, <1>2, SharedChainAssumption DEF Genuine

\* Any sequence of lines that are each genuine is genuine.
LEMMA AppendedIsGenuine ==
  ASSUME NEW s, NEW l, NEW hs, GenuineLines(s, hs), Genuine(l, hs)
  PROVE  GenuineLines(Append(s, l), hs)
<1>1. IsSeq(s) /\ DOMAIN s = 1 .. Len(s) /\ Len(s) \in Nat
  BY OverItsLines DEF GenuineLines, IsSeq
<1>2. /\ IsSeq(Append(s, l)) /\ DOMAIN Append(s, l) = 1 .. Len(s) + 1
      /\ Append(s, l)[Len(s) + 1] = l /\ \A i \in DOMAIN s : Append(s, l)[i] = s[i]
  BY <1>1, AppendedTo, OverItsLines
<1>3. \A i \in DOMAIN Append(s, l) : i \in DOMAIN s \/ i = Len(s) + 1
  BY <1>1, <1>2
<1> QED
  BY <1>2, <1>3 DEF GenuineLines

LEMMA EditedIsGenuine ==
  ASSUME LinesAreGenuine, Edit
  PROVE  GenuineLines(file', histories)
<1>1. IsSeq(file) /\ DOMAIN file = 1 .. Len(file) /\ Len(file) \in Nat /\ \A i \in DOMAIN file : Genuine(file[i], histories)
  BY OverItsLines DEF LinesAreGenuine, GenuineLines, IsSeq
<1>2. CASE \E n \in 0 .. Len(file) - 1 : Write(SubSeq(file, 1, n))
  <2>1. PICK n \in 0 .. Len(file) - 1 : file' = SubSeq(file, 1, n)
    BY <1>2 DEF Write
  <2>2. n \in 0 .. Len(file)
    BY <1>1
  <2>3. IsSeq(file') /\ Len(file') = n /\ \A i \in 1 .. n : file'[i] = file[i]
    BY <1>1, <2>1, <2>2, CutAt
  <2>4. DOMAIN file' = 1 .. n
    BY <2>3, OverItsLines
  <2> QED
    BY <1>1, <2>2, <2>3, <2>4 DEF GenuineLines
<1>3. CASE \E i \in 1 .. Len(file) - 1 : Write(SubSeq(file, 1, i - 1) \o SubSeq(file, i + 1, Len(file)))
  <2>1. PICK k \in 1 .. Len(file) - 1 : file' = SubSeq(file, 1, k - 1) \o SubSeq(file, k + 1, Len(file))
    BY <1>3 DEF Write
  <2>2. k \in 1 .. Len(file)
    BY <1>1
  <2>3. IsSeq(file') /\ \A i \in DOMAIN file' : \E j \in DOMAIN file : file'[i] = file[j]
    BY <1>1, <2>1, <2>2, TakenOut
  <2> QED
    BY <1>1, <2>3 DEF GenuineLines
<1>4. CASE \E i \in DOMAIN file : file[i].kind = "record" /\ \E r \in Altered(file[i]) : Write([file EXCEPT ![i] = r])
  <2>1. PICK i \in DOMAIN file : file[i].kind = "record" /\ \E r \in Altered(file[i]) : Write([file EXCEPT ![i] = r])
    BY <1>4
  <2>2. PICK r \in Altered(file[i]) : file' = [file EXCEPT ![i] = r]
    BY <2>1 DEF Write
  <2>3. Genuine(r, histories)
    BY <1>1, <2>1, AlteredIsGenuine
  <2>4. file' = [j \in 1 .. Len(file) |-> IF j = i THEN r ELSE file[j]]
    BY <1>1, <2>2
  <2>5. Len(file') = Len(file) /\ DOMAIN file' = 1 .. Len(file)
    BY <1>1, <2>4
  <2>6. \A j \in DOMAIN file' : file'[j] = IF j = i THEN r ELSE file[j]
    BY <2>4
  <2>7. IsSeq(file')
    BY <1>1, <2>4, <2>5 DEF IsSeq
  <2> QED
    BY <1>1, <2>3, <2>5, <2>6, <2>7 DEF GenuineLines
<1>5. CASE \E n \in 1 .. Len(Records(file)) : Write(Append(file, Checkpoint(SubSeq(Records(file), 1, n), Key)))
  <2>1. PICK n \in 1 .. Len(Records(file)) : file' = Append(file, Checkpoint(SubSeq(Records(file), 1, n), Key))
    BY <1>5 DEF Write
  <2>2. Checkpoint(SubSeq(Records(file), 1, n), Key).kind = "checkpoint"
    BY DEF Checkpoint
  <2>3. Genuine(Checkpoint(SubSeq(Records(file), 1, n), Key), histories)
    BY <2>2 DEF Genuine
  <2> QED
    BY <2>1, <2>3, AppendedIsGenuine DEF LinesAreGenuine
<1> QED
  BY <1>2, <1>3, <1>4, <1>5 DEF Edit

\* The line behind the records s: what it says of its place and of them.
LEMMA SealedRecord ==
  ASSUME NEW w, NEW s
  PROVE  LET r == Sealed(s, Draft(w), Key) IN
         /\ r.kind = "record" /\ r.seq = Len(s) /\ r.sig = Signed(Content(r), Key) /\ Shaped(r)
         /\ r.prev = IF s = <<>> THEN GenesisPrevHash("v1") ELSE EntryHash(s[Len(s)])
         /\ r.v = "v1" /\ r.uri = "none" /\ r.thumb = Key /\ r.kid = Key /\ r.ts = clock /\ r.commit = r.event
<1> DEFINE prev == IF s = <<>> THEN GenesisPrevHash("v1") ELSE EntryHash(s[Len(s)])
           d == Draft(w)
           c == [seq |-> Len(s), v |-> "v1", uri |-> "none", thumb |-> Key, kid |-> Key, ts |-> clock, event |-> d.event,
                 commit |-> d.event, paid |-> d.paid, output |-> d.output, prev |-> prev]
           r == Record(c, Key)
<1>1. d.uri = "none" /\ d.ts = clock
  BY DEF Draft
<1>2. Sealed(s, d, Key) = r
  BY <1>1 DEF Sealed
<1> HIDE DEF prev, d
<1>3. r.seq = Len(s) /\ r.v = "v1" /\ r.uri = "none" /\ r.thumb = Key /\ r.kid = Key /\ r.ts = clock /\ r.event = d.event
  BY DEF Record
<1>4. r.commit = d.event /\ r.paid = d.paid /\ r.output = d.output /\ r.prev = prev
  BY DEF Record
<1>5. r.kind = "record" /\ r.sig = Signed(c, Key)
  BY DEF Record
<1>6. Shaped(r)
  <2>1. DOMAIN r.sig = {"content", "by"}
    BY <1>5 DEF Signed
  <2>2. DOMAIN r = {"kind", "sig", "seq", "v", "uri", "thumb", "kid", "ts", "event", "commit", "paid", "output", "prev"}
    BY DEF Record
  <2> QED
    BY <2>1, <2>2 DEF Shaped
<1>7. Content(r) = c
  <2> HIDE DEF r
  <2> QED
    BY <1>3, <1>4 DEF Content
<1>8. r.sig = Signed(Content(r), Key)
  BY <1>5, <1>7
<1> HIDE DEF r, c
<1>9. r.commit = r.event
  BY <1>3, <1>4
<1> QED
  BY <1>2, <1>3, <1>4, <1>5, <1>6, <1>8, <1>9 DEF prev, d

\* What a writer that has read s signs: a genuine line, at its place.
LEMMA SealedIsGenuine ==
  ASSUME NEW w, NEW s, NEW hs, IsSeq(s)
  PROVE  LET r == Sealed(s, Draft(w), Key) IN
         /\ SignedInPlace(Append(s, r))
         /\ Genuine(r, hs \cup {Append(s, r)})
         /\ r.kind = "record"
<1> DEFINE r == Sealed(s, Draft(w), Key)
           h == Append(s, r)
<1>1. /\ r.kind = "record" /\ r.seq = Len(s) /\ r.sig = Signed(Content(r), Key) /\ Shaped(r)
      /\ r.prev = IF s = <<>> THEN GenesisPrevHash("v1") ELSE EntryHash(s[Len(s)])
  BY SealedRecord
<1> HIDE DEF r
<1>2. IsSeq(h) /\ Len(h) = Len(s) + 1 /\ h[Len(s) + 1] = r /\ (\A i \in DOMAIN s : h[i] = s[i]) /\ Len(s) \in Nat
  BY AppendedTo DEF IsSeq
<1>3. s # <<>> => Len(s) \in DOMAIN s
  BY <1>2, OverItsLines
<1>4. s = <<>> => Len(s) = 0
  OBVIOUS
<1>5. SignedInPlace(h)
  <2> HIDE DEF h
  <2>1. Len(h) - 1 = Len(s) /\ Len(h) > 0 /\ h[Len(h)].seq = Len(h) - 1
    BY <1>1, <1>2
  <2>2. Len(h) > 1 => h[Len(h)].prev = EntryHash(h[Len(h) - 1])
    BY <1>1, <1>2, <1>3, <1>4, <2>1
  <2> QED
    BY <1>2, <2>1, <2>2 DEF SignedInPlace
<1>6. IsHeadOf(r.sig.content, hs \cup {h})
  <2>1. r.sig.content = Content(r)
    BY <1>1 DEF Signed
  <2>2. EntryHash(h[Len(h)]) = Content(r)
    BY <1>2 DEF EntryHash
  <2> QED
    BY <2>1, <2>2 DEF IsHeadOf
<1>7. Genuine(r, hs \cup {h})
  BY <1>1, <1>6 DEF Genuine
<1> QED
  BY <1>1, <1>5, <1>7 DEF r

----------------------------------------------------------------------------
\* What the invariant says of the verdicts

\* When genuine lines verify, each is the head of a chain that was signed, at
\* its place: its signature leads to that chain, whose head it must equal in
\* place and previous hash.
LEMMA ValidIsOrdered ==
  ASSUME LinesAreGenuine, HistoriesAreSigned
  PROVE  ValidIsHistory
<1> SUFFICES ASSUME Parses(file), Verdict(file).kind = "valid", NEW i \in DOMAIN Records(file)
             PROVE  \E h \in histories :
                      /\ Len(h) = i
                      /\ EntryHash(h[i]) = EntryHash(Records(file)[i])
                      /\ i > 1 => EntryHash(h[i - 1]) = EntryHash(Records(file)[i - 1])
  BY DEF ValidIsHistory
<1> DEFINE r == Records(file)[i]
<1>1. /\ i \in Nat /\ i > 0 /\ r = file[i] /\ Genuine(r, histories)
      /\ r.kind \notin {"garbage", "checkpoint"}
  BY ReadOf, OverItsLines DEF LinesAreGenuine, GenuineLines, IsSeq
<1>2. EntryFailure(Records(file), i, Key) = NoFailure
  BY ValidMeans DEF Verdict
<1>3. r.seq = i - 1 /\ r.prev = PrevHash(Records(file), i) /\ r.sig = Signed(Content(r), Key)
  BY <1>2, EntryHolds
<1>4. r.sig.by = Key /\ r.sig.content = EntryHash(r)
  BY <1>3 DEF Signed, EntryHash
<1>5. PICK h \in histories : EntryHash(h[Len(h)]) = EntryHash(r)
  BY <1>1, <1>4 DEF Genuine, IsHeadOf
<1>6. h[Len(h)].seq = r.seq /\ h[Len(h)].prev = r.prev
  BY <1>5 DEF EntryHash, Content
<1>7. SignedInPlace(h) /\ Len(h) \in Nat
  BY DEF HistoriesAreSigned, SignedInPlace, IsSeq
<1>8. Len(h) = i
  <2>1. Len(h) - 1 = i - 1
    BY <1>3, <1>6, <1>7 DEF SignedInPlace
  <2> QED
    BY <1>1, <1>7, <2>1
<1>9. i > 1 => EntryHash(h[i - 1]) = EntryHash(Records(file)[i - 1])
  BY <1>1, <1>3, <1>6, <1>7, <1>8 DEF SignedInPlace, PrevHash
<1> QED
  BY <1>5, <1>8, <1>9

\* Lines that were each sealed to the one before leave the verifier only their
\* times to refuse.
LEMMA OnlyTimes ==
  ASSUME NEW s, IsSeq(s), NEW i \in DOMAIN s, Orderly(s, i)
  PROVE  EntryFailure(s, i, Key) = IF TimeRuns(s, i) THEN NoFailure ELSE Tampered(i - 1, "timestamp regression")
<1> DEFINE r == s[i]
           c1 == When(r.seq # i - 1, Tampered(i - 1, "sequence gap"))
           c2 == When(r.v \notin {"v0", "v1"}, Tampered(i - 1, "unsupported record version"))
           c3 == When(r.uri = "insecure", Invalid(i - 1, "insecure_jwks_uri"))
           c4 == When(r.v = "v1" /\ r.thumb # Key, Invalid(i - 1, "key_binding_mismatch"))
           c5 == When(r.kid # Key, Tampered(i - 1, "kid mismatch"))
           c6 == When(r.prev # PrevHash(s, i), Tampered(i - 1, "prev_hash linkage broken"))
           c7 == When(r.commit # r.event, Tampered(i - 1, "request_commitment mismatch"))
           c8 == When(r.sig # Signed(Content(r), Key), Tampered(i - 1, "signature invalid"))
           c9 == When(~TimeRuns(s, i), Tampered(i - 1, "timestamp regression"))
<1>1. EntryFailure(s, i, Key) = Decide(<<c1, c2, c3, c4, c5, c6, c7, c8, c9>>, NoFailure)
  BY DEF EntryFailure
<1>2. s[i].prev = PrevHash(s, i)
  <2>1. i \in 1 .. Len(s) /\ Len(s) \in Nat
    BY OverItsLines DEF IsSeq
  <2>2. CASE i = 1
    <3>1. s[1].v = "v1" /\ s[1].prev = GenesisPrevHash("v1")
      BY <2>2 DEF Orderly
    <3> QED
      BY <2>2, <3>1 DEF PrevHash
  <2>3. CASE i # 1
    BY <2>3 DEF Orderly, PrevHash
  <2> QED
    BY <2>2, <2>3
<1>3. /\ ~c1.applies /\ ~c2.applies /\ ~c3.applies /\ ~c4.applies /\ ~c5.applies /\ ~c6.applies /\ ~c7.applies /\ ~c8.applies
      /\ c9.applies = ~TimeRuns(s, i) /\ c9.answer = Tampered(i - 1, "timestamp regression")
  BY <1>2 DEF When, Orderly
<1> HIDE DEF c1, c2, c3, c4, c5, c6, c7, c8, c9, r
<1>4. EntryFailure(s, i, Key) =
        IF c1.applies THEN c1.answer ELSE IF c2.applies THEN c2.answer ELSE IF c3.applies THEN c3.answer ELSE
        IF c4.applies THEN c4.answer ELSE IF c5.applies THEN c5.answer ELSE IF c6.applies THEN c6.answer ELSE
        IF c7.applies THEN c7.answer ELSE IF c8.applies THEN c8.answer ELSE IF c9.applies THEN c9.answer ELSE NoFailure
  BY <1>1, DecideOf9
<1> QED
  BY <1>3, <1>4

LEMMA OrderlyVerifies ==
  ASSUME LinesAreGenuine, UndisturbedIsOrderly, SetBackIsRegression
  PROVE  OrderlyChainVerifies
<1> SUFFICES ASSUME ~overlapped, faults = 0, Parses(file), file # <<>>
             PROVE  IF setBack THEN Verdict(file).kind = "tampered" /\ Verdict(file).reason = "timestamp regression"
                               ELSE Verdict(file).kind = "valid"
  BY DEF OrderlyChainVerifies
<1> DEFINE failing == {i \in DOMAIN file : EntryFailure(file, i, Key) # NoFailure}
<1>1. IsSeq(file) /\ \A i \in DOMAIN file : Orderly(file, i)
  BY DEF LinesAreGenuine, GenuineLines, UndisturbedIsOrderly, Undisturbed
<1>2. Records(file) = file /\ ~HasCheckpoint(file)
  BY <1>1, ReadOf DEF Orderly
<1>3. \A i \in DOMAIN file :
        EntryFailure(file, i, Key) = IF TimeRuns(file, i) THEN NoFailure ELSE Tampered(i - 1, "timestamp regression")
  BY <1>1, OnlyTimes
<1>4. setBack <=> \E i \in DOMAIN file : ~TimeRuns(file, i)
  BY DEF SetBackIsRegression, Undisturbed
<1>5. CASE ~setBack
  <2>1. \A i \in DOMAIN file : EntryFailure(file, i, Key) = NoFailure
    BY <1>3, <1>4, <1>5
  <2> QED
    BY <1>2, <1>5, <2>1, ValidMeans DEF Verdict
<1>6. CASE setBack
  <2>1. \A i : Tampered(i - 1, "timestamp regression") # NoFailure /\ Tampered(i - 1, "timestamp regression").kind = "tampered"
               /\ Tampered(i - 1, "timestamp regression").reason = "timestamp regression"
    BY DEF Tampered, NoFailure
  <2>2. failing # {}
    BY <1>3, <1>4, <1>6, <2>1
  <2>3. DOMAIN file \subseteq Nat /\ Len(file) \in Nat /\ DOMAIN file = 1 .. Len(file)
    BY <1>1, OverItsLines DEF IsSeq
  <2>4. Min(failing) \in failing
    BY <2>2, <2>3, MinIsLeast
  <2>5. VerifyChain(file, Key, {}) = EntryFailure(file, Min(failing), Key)
    BY <1>2, <2>2 DEF VerifyChain
  <2> QED
    BY <1>3, <1>6, <2>1, <2>4, <2>5 DEF Verdict
<1> QED
  BY <1>5, <1>6

----------------------------------------------------------------------------
\* What the witness layer says

LEMMA HashesOf ==
  ASSUME NEW s, IsSeq(s)
  PROVE  DOMAIN Hashes(s) = 1 .. Len(s) /\ Len(Hashes(s)) = Len(s) /\ \A i \in 1 .. Len(s) : Hashes(s)[i] = EntryHash(s[i])
<1>1. DOMAIN s = 1 .. Len(s) /\ Len(s) \in Nat
  BY OverItsLines DEF IsSeq
<1>2. Hashes(s) = [i \in 1 .. Len(s) |-> EntryHash(s[i])]
  BY <1>1 DEF Hashes
<1> QED
  BY <1>1, <1>2

\* Receipts over the heads of one chain never speak against it.
LEMMA ConfirmedIsNotTampered ==
  ASSUME NEW s, IsSeq(s), StoredIsTyped, \A r \in stored : Confirms(r, s)
  PROVE  CheckReceipts(stored, Hashes(s), "witness", "witness").kind # "tampered"
<1> DEFINE unknown == {r.count : r \in {x \in stored : x.id # "witness"}}
           forged == {r.count : r \in {x \in stored : x.id = "witness" /\ (x.by # "witness" \/ ~x.chain \/ x.fork \notin {"true", "false"})}}
           counts == {r.count : r \in stored}
           failing == {n \in counts : GroupFailure(stored, n, Hashes(s)) # "none"}
<1>1. unknown = {} /\ forged = {}
  BY DEF StoredIsTyped, Confirms
<1>2. ASSUME NEW n \in counts
      PROVE  GroupFailure(stored, n, Hashes(s)) = "none"
  <2>1. PICK r \in stored : r.count = n
    OBVIOUS
  <2>2. n \in 1 .. Len(s) /\ Len(s) \in Nat
    BY <2>1 DEF StoredIsTyped, Confirms, IsSeq
  <2>3. \A x \in AtCount(stored, n) : x.hash = EntryHash(s[n]) /\ x.fork = "false"
    BY DEF AtCount, Confirms
  <2>4. ~Forked(stored, n)
    <3>1. r \in AtCount(stored, n)
      BY <2>1 DEF AtCount
    <3>2. {x.hash : x \in AtCount(stored, n)} = {EntryHash(s[n])}
      BY <2>3, <3>1
    <3>3. Cardinality({x.hash : x \in AtCount(stored, n)}) = 1
      BY <3>2, FS_Singleton
    <3> QED
      BY <2>3, <3>3 DEF Forked
  <2>5. ~(n > Len(Hashes(s))) /\ n \in DOMAIN Hashes(s) /\ Hashes(s)[n] = EntryHash(s[n])
    BY <2>2, HashesOf
  <2>6. ~Other(stored, n, Hashes(s))
    BY <2>3, <2>5 DEF Other
  <2> QED
    BY <2>4, <2>5, <2>6, GroupPasses
<1>3. failing = {}
  BY <1>2
<1>4. CheckReceipts(stored, Hashes(s), "witness", "witness") =
        IF stored = {} THEN [kind |-> "none"]
        ELSE IF unknown # {} /\ \A n \in forged : Min(unknown) <= n THEN [kind |-> "unverifiable"]
        ELSE IF forged # {} THEN [kind |-> "tampered", at |-> Min(forged), why |-> "invalid"]
        ELSE IF failing # {} THEN [kind |-> "tampered", at |-> Min(failing), why |-> GroupFailure(stored, Min(failing), Hashes(s))]
        ELSE [kind |-> "pass", through |-> Max(counts), unprotected |-> Len(Hashes(s)) - Max(counts)]
  BY DEF CheckReceipts
<1> HIDE DEF unknown, forged, failing
<1> QED
  BY <1>1, <1>3, <1>4

----------------------------------------------------------------------------
\* The invariant

LEMMA ChainInvInit == Init => ChainInv
<1> SUFFICES ASSUME Init PROVE ChainInv
  OBVIOUS
<1>1. file = <<>> /\ histories = {} /\ stored = {} /\ audit = None /\ said = None /\ overlapped = FALSE /\ faults = 0
      /\ reading = [w \in Writers |-> None] /\ clock \in Times /\ setBack = FALSE
  BY SharedChainAssumption DEF Init
<1>2. IsSeq(<<>>) /\ DOMAIN <<>> = {}
  BY DEF IsSeq
<1>3. CountsAreTyped /\ LinesAreGenuine /\ ReadingIsGenuine /\ HistoriesAreSigned
  BY <1>1, <1>2 DEF CountsAreTyped, LinesAreGenuine, GenuineLines, ReadingIsGenuine, HistoriesAreSigned
<1>4. UndisturbedIsOrderly /\ StampedIsOnFile /\ SetBackIsRegression /\ StoredIsTyped /\ UndisturbedIsWitnessed /\ AuditIsOfTheFile
  BY <1>1, <1>2 DEF UndisturbedIsOrderly, StampedIsOnFile, SetBackIsRegression, StoredIsTyped, UndisturbedIsWitnessed, AuditIsOfTheFile
<1>5. PassKeepsWitnessed /\ HonestIsNotTampered
  BY <1>1 DEF PassKeepsWitnessed, HonestIsNotTampered
<1> QED
  BY <1>3, <1>4, <1>5 DEF ChainInv

\* While no verdict stands there is nothing to say of one.
LEMMA NothingSaid ==
  said' = None => PassKeepsWitnessed' /\ HonestIsNotTampered'
BY DEF PassKeepsWitnessed, HonestIsNotTampered

\* What is known of the file and the audit holds of what Write leaves.
LEMMA AuditMoves ==
  ASSUME AuditIsOfTheFile, NEW lines, Write(lines)
  PROVE  AuditIsOfTheFile'
<1>1. CASE audit = None
  BY <1>1 DEF Write, AuditIsOfTheFile
<1>2. CASE audit # None
  <2>1. audit' = [audit EXCEPT !.moved = TRUE] /\ DOMAIN audit = {"records", "moved"} /\ IsSeq(audit.records)
    BY <1>2 DEF Write, AuditIsOfTheFile
  <2>2. DOMAIN audit' = {"records", "moved"} /\ audit'.records = audit.records /\ audit'.moved = TRUE
    BY <2>1
  <2> QED
    BY <2>1, <2>2 DEF AuditIsOfTheFile
<1> QED
  BY <1>1, <1>2

LEMMA ReadKeeps ==
  ASSUME ChainInv, NEW w \in Writers, Read(w), said' = None
  PROVE  ChainInv'
<1>1. /\ Parses(file) /\ reading' = [reading EXCEPT ![w] = [records |-> Records(file)]]
      /\ UNCHANGED <<file, histories, stored, audit, overlapped, clock, setBack, faults>>
  BY DEF Read, times
<1>2. CountsAreTyped' /\ LinesAreGenuine' /\ HistoriesAreSigned' /\ UndisturbedIsOrderly' /\ StampedIsOnFile'
      /\ SetBackIsRegression' /\ StoredIsTyped' /\ UndisturbedIsWitnessed' /\ AuditIsOfTheFile'
  BY <1>1 DEF ChainInv, CountsAreTyped, LinesAreGenuine, HistoriesAreSigned, UndisturbedIsOrderly, Undisturbed, StampedIsOnFile, SetBackIsRegression, StoredIsTyped,
              UndisturbedIsWitnessed, AuditIsOfTheFile
<1>3. GenuineLines(Records(file), histories) /\ \A i \in DOMAIN Records(file) : Records(file)[i].kind = "record"
  BY <1>1, ReadOf DEF ChainInv, LinesAreGenuine, GenuineLines, Genuine
<1>4. ReadingIsGenuine'
  BY <1>1, <1>3 DEF ChainInv, CountsAreTyped, ReadingIsGenuine
<1> QED
  BY <1>2, <1>4, NothingSaid DEF ChainInv

LEMMA EditKeeps ==
  ASSUME ChainInv, Edit, said' = None
  PROVE  ChainInv'
<1>1. faults \in Nat /\ faults' = faults + 1 /\ UNCHANGED <<reading, histories, stored, overlapped, clock, setBack>>
  BY DEF Edit, times, ChainInv, CountsAreTyped
<1>2. ~Undisturbed'
  BY <1>1 DEF Undisturbed
<1>3. CountsAreTyped' /\ ReadingIsGenuine' /\ HistoriesAreSigned' /\ StoredIsTyped'
  BY <1>1 DEF ChainInv, CountsAreTyped, ReadingIsGenuine, HistoriesAreSigned, StoredIsTyped
<1>4. LinesAreGenuine'
  BY <1>1, EditedIsGenuine DEF ChainInv, LinesAreGenuine
<1>5. AuditIsOfTheFile'
  BY AuditMoves DEF ChainInv, Edit
<1> QED
  BY <1>2, <1>3, <1>4, <1>5, NothingSaid DEF ChainInv, UndisturbedIsOrderly, StampedIsOnFile, SetBackIsRegression, UndisturbedIsWitnessed

LEMMA AppendKeeps ==
  ASSUME ChainInv, NEW w \in Writers, AppendLine(w), said' = None
  PROVE  ChainInv'
<1> DEFINE read == reading[w].records
           r == Sealed(read, Draft(w), Key)
           h == Append(read, r)
           garbage == [kind |-> "garbage"]
<1>1. /\ reading[w] # None
      /\ overlapped' = (overlapped \/ ~Parses(file) \/ Records(file) # read)
      /\ reading' = [reading EXCEPT ![w] = None]
      /\ UNCHANGED <<stored, clock>>
  BY DEF AppendLine
<1>2. \/ /\ Write(Append(file, r)) /\ histories' = histories \cup {h} /\ UNCHANGED faults
         /\ setBack' = (setBack \/ \E x \in histories : x[Len(x)].ts > clock + Skew)
      \/ faults' = faults + 1 /\ Write(Append(file, garbage)) /\ UNCHANGED <<histories, setBack>>
  BY DEF AppendLine
<1>3. GenuineLines(read, histories) /\ IsSeq(read) /\ GenuineLines(file, histories) /\ IsSeq(file)
  BY <1>1 DEF ChainInv, ReadingIsGenuine, LinesAreGenuine, GenuineLines
<1>4. SignedInPlace(h) /\ Genuine(r, histories \cup {h})
  BY <1>3, SealedIsGenuine
<1>5. CountsAreTyped'
  <2>1. setBack' \in BOOLEAN
    BY <1>2 DEF ChainInv, CountsAreTyped
  <2>2. faults' \in Nat
    BY <1>2 DEF ChainInv, CountsAreTyped
  <2> QED
    BY <1>1, <2>1, <2>2 DEF ChainInv, CountsAreTyped
<1>6. StoredIsTyped'
  BY <1>1 DEF ChainInv, StoredIsTyped
<1>7. HistoriesAreSigned'
  BY <1>2, <1>4 DEF ChainInv, HistoriesAreSigned
<1>8. LinesAreGenuine'
  <2>1. CASE Write(Append(file, r)) /\ histories' = histories \cup {h}
    <3>1. GenuineLines(file, histories \cup {h})
      BY <1>3, MoreHistories
    <3>2. GenuineLines(Append(file, r), histories \cup {h})
      BY <1>4, <3>1, AppendedIsGenuine
    <3> QED
      BY <2>1, <3>2 DEF LinesAreGenuine, Write
  <2>2. CASE Write(Append(file, garbage)) /\ UNCHANGED histories
    <3>1. Genuine(garbage, histories)
      BY DEF Genuine
    <3>2. GenuineLines(Append(file, garbage), histories)
      BY <1>3, <3>1, AppendedIsGenuine
    <3> QED
      BY <2>2, <3>2 DEF LinesAreGenuine, Write
  <2> QED
    BY <1>2, <2>1, <2>2
<1>9. ReadingIsGenuine'
  <2>1. histories \subseteq histories'
    BY <1>2
  <2> SUFFICES ASSUME NEW u \in Writers, reading'[u] # None
               PROVE  /\ GenuineLines(reading'[u].records, histories')
                      /\ \A i \in DOMAIN reading'[u].records : reading'[u].records[i].kind = "record"
    BY DEF ReadingIsGenuine
  <2>2. reading'[u] = reading[u]
    BY <1>1 DEF ChainInv, CountsAreTyped
  <2>3. GenuineLines(reading[u].records, histories) /\ \A i \in DOMAIN reading[u].records : reading[u].records[i].kind = "record"
    BY <2>2 DEF ChainInv, ReadingIsGenuine
  <2> QED
    BY <2>1, <2>2, <2>3, MoreHistories
<1>10. AuditIsOfTheFile'
  BY <1>2, AuditMoves DEF ChainInv
<1>11. ASSUME Undisturbed'
       PROVE  /\ Undisturbed /\ file' = Append(file, r) /\ IsSeq(file) /\ DOMAIN file = 1 .. Len(file) /\ Len(file) \in Nat
              /\ \A i \in DOMAIN file : Orderly(file, i)
              /\ read = file
              /\ histories' = histories \cup {h}
              /\ setBack' = (setBack \/ \E x \in histories : x[Len(x)].ts > clock + Skew)
  <2>1. ~overlapped /\ Parses(file) /\ Records(file) = read
    BY <1>1, <1>11 DEF Undisturbed
  <2>2. /\ faults = 0 /\ file' = Append(file, r) /\ histories' = histories \cup {h}
        /\ setBack' = (setBack \/ \E x \in histories : x[Len(x)].ts > clock + Skew)
    BY <1>2, <1>11 DEF Undisturbed, ChainInv, CountsAreTyped, Write
  <2>3. Undisturbed /\ \A i \in DOMAIN file : Orderly(file, i)
    BY <2>1, <2>2 DEF Undisturbed, ChainInv, UndisturbedIsOrderly
  <2>4. Records(file) = file
    BY <1>3, <2>3, ReadOf DEF Orderly
  <2> QED
    BY <1>3, <2>1, <2>2, <2>3, <2>4, OverItsLines DEF IsSeq
<1>12. UndisturbedIsOrderly'
  <2> SUFFICES ASSUME Undisturbed', NEW i \in DOMAIN file'
               PROVE  Orderly(file', i)
    BY DEF UndisturbedIsOrderly
  <2>1. /\ file' = Append(file, r) /\ DOMAIN file = 1 .. Len(file) /\ Len(file) \in Nat /\ read = file
        /\ \A j \in DOMAIN file : Orderly(file, j)
    BY <1>11
  <2>2. /\ IsSeq(file') /\ Len(file') = Len(file) + 1 /\ file'[Len(file) + 1] = r
        /\ \A j \in DOMAIN file : file'[j] = file[j]
    BY <1>3, <2>1, AppendedTo
  <2>3. i \in 1 .. Len(file) + 1
    BY <2>2, OverItsLines
  <2>4. CASE i \in DOMAIN file
    <3>1. i - 1 > 0 => file'[i - 1] = file[i - 1]
      BY <2>1, <2>2, <2>4
    <3>2. file'[i] = file[i] /\ Orderly(file, i) /\ (i = 1 \/ i - 1 > 0)
      BY <2>1, <2>2, <2>4
    <3> QED
      BY <3>1, <3>2 DEF Orderly
  <2>5. CASE i = Len(file) + 1
    <3>1. /\ r.kind = "record" /\ r.seq = Len(file) /\ r.sig = Signed(Content(r), Key)
          /\ r.prev = IF file = <<>> THEN GenesisPrevHash("v1") ELSE EntryHash(file[Len(file)])
          /\ r.v = "v1" /\ r.uri = "none" /\ r.thumb = Key /\ r.kid = Key /\ r.ts \in Times /\ r.commit = r.event
      BY <2>1, SealedRecord DEF ChainInv, CountsAreTyped
    <3>2. file'[i] = r /\ i - 1 = Len(file)
      BY <2>1, <2>2, <2>5
    <3>3. file = <<>> <=> i = 1
      BY <1>3, <2>1, <2>5, OverItsLines
    <3>4. i # 1 => file'[i - 1] = file[i - 1]
      BY <1>3, <2>1, <2>2, <3>2, <3>3, OverItsLines
    <3> HIDE DEF r
    <3> QED
      BY <3>1, <3>2, <3>3, <3>4 DEF Orderly
  <2> QED
    BY <2>1, <2>3, <2>4, <2>5
<1>13. UndisturbedIsWitnessed'
  <2> SUFFICES ASSUME Undisturbed', NEW x \in stored
               PROVE  Confirms(x, file')
    BY <1>1 DEF UndisturbedIsWitnessed
  <2>1. /\ Undisturbed /\ file' = Append(file, r) /\ DOMAIN file = 1 .. Len(file) /\ Len(file) \in Nat
    BY <1>11
  <2>2. Confirms(x, file) /\ x.count \in Nat /\ x.count > 0
    BY <2>1 DEF ChainInv, UndisturbedIsWitnessed, StoredIsTyped
  <2>3. Len(file') = Len(file) + 1 /\ \A j \in DOMAIN file : file'[j] = file[j]
    BY <1>3, <2>1, AppendedTo
  <2>4. x.count \in DOMAIN file /\ x.count <= Len(file')
    BY <2>1, <2>2, <2>3 DEF Confirms
  <2> QED
    BY <2>2, <2>3, <2>4 DEF Confirms
<1>14. StampedIsOnFile'
  <2> SUFFICES ASSUME Undisturbed', NEW x \in histories'
               PROVE  \E j \in DOMAIN file' : file'[j] = x[Len(x)]
    BY DEF StampedIsOnFile
  <2>1. /\ Undisturbed /\ file' = Append(file, r) /\ DOMAIN file = 1 .. Len(file) /\ Len(file) \in Nat /\ read = file
        /\ histories' = histories \cup {h}
    BY <1>11
  <2> HIDE DEF r
  <2>2. /\ DOMAIN file' = 1 .. Len(file) + 1 /\ file'[Len(file) + 1] = r
        /\ \A j \in DOMAIN file : file'[j] = file[j]
    BY <1>3, <2>1, AppendedTo, OverItsLines
  <2>3. CASE x \in histories
    BY <2>1, <2>2, <2>3 DEF ChainInv, StampedIsOnFile
  <2>4. CASE x = h
    <3>1. x = file'
      BY <2>1, <2>4
    <3>2. Len(x) = Len(file) + 1 /\ Len(x) \in DOMAIN file'
      BY <1>3, <2>1, <2>2, <3>1, AppendedTo
    <3> QED
      BY <3>1, <3>2
  <2> QED
    BY <2>1, <2>3, <2>4
<1>15. SetBackIsRegression'
  <2> SUFFICES ASSUME Undisturbed'
               PROVE  setBack' <=> \E i \in DOMAIN file' : ~TimeRuns(file', i)
    BY DEF SetBackIsRegression
  <2>1. /\ Undisturbed /\ file' = Append(file, r) /\ DOMAIN file = 1 .. Len(file) /\ Len(file) \in Nat /\ read = file
        /\ \A j \in DOMAIN file : Orderly(file, j)
        /\ setBack' = (setBack \/ \E x \in histories : x[Len(x)].ts > clock + Skew)
    BY <1>11
  <2>2. r.ts = clock /\ clock \in Times
    BY SealedRecord DEF ChainInv, CountsAreTyped
  <2> HIDE DEF r
  <2>3. /\ DOMAIN file' = 1 .. Len(file) + 1 /\ file'[Len(file) + 1] = r
        /\ \A j \in 1 .. Len(file) : file'[j] = file[j]
    BY <1>3, <2>1, AppendedTo, OverItsLines
  <2>4. setBack <=> \E i \in DOMAIN file : ~TimeRuns(file, i)
    BY <2>1 DEF ChainInv, SetBackIsRegression
  <2>5. \A i \in DOMAIN file : TimeRuns(file', i) <=> TimeRuns(file, i)
    <3> SUFFICES ASSUME NEW i \in DOMAIN file
                 PROVE  TimeRuns(file', i) <=> TimeRuns(file, i)
      OBVIOUS
    <3>1. i \in 1 .. Len(file) /\ (\A j \in 1 .. i - 1 : j \in 1 .. Len(file))
      BY <2>1
    <3>2. file'[i] = file[i] /\ (\A j \in 1 .. i - 1 : file'[j] = file[j])
      BY <2>3, <3>1
    <3> QED
      BY <3>2 DEF TimeRuns
  <2>6. \A j \in 1 .. Len(file) : file[j].ts \in Times
    BY <2>1 DEF Orderly
  <2>7. TimeRuns(file', Len(file) + 1) <=> \A j \in 1 .. Len(file) : clock + Skew >= file[j].ts
    <3>1. Len(file) + 1 - 1 = Len(file) /\ file'[Len(file) + 1].ts = clock
      BY <2>1, <2>2, <2>3
    <3>2. clock # Unreadable /\ \A j \in 1 .. Len(file) : file'[j].ts = file[j].ts /\ file[j].ts # Unreadable
      BY <2>2, <2>3, <2>6, SharedChainAssumption
    <3> QED
      BY <3>1, <3>2 DEF TimeRuns
\* What was stamped is what stands on the file.
  <2>8. (\E x \in histories : x[Len(x)].ts > clock + Skew) <=> \E j \in 1 .. Len(file) : file[j].ts > clock + Skew
    <3>1. ASSUME NEW x \in histories
          PROVE  \E j \in 1 .. Len(file) : file[j].ts = x[Len(x)].ts
      BY <2>1 DEF ChainInv, StampedIsOnFile
    <3>2. ASSUME NEW j \in 1 .. Len(file)
          PROVE  \E x \in histories : x[Len(x)].ts = file[j].ts
      <4>1. Genuine(file[j], histories) /\ Orderly(file, j)
        BY <1>3, <2>1 DEF GenuineLines
      <4>2. file[j].kind = "record" /\ file[j].sig.by = Key /\ file[j].sig.content = Content(file[j])
        BY <4>1 DEF Orderly, Signed
      <4>3. PICK x \in histories : EntryHash(x[Len(x)]) = Content(file[j])
        BY <4>1, <4>2 DEF Genuine, IsHeadOf
      <4>4. x[Len(x)].ts = file[j].ts
        BY <4>3 DEF EntryHash, Content
      <4> QED
        BY <4>4
    <3> QED
      BY <3>1, <3>2
  <2>9. (\E j \in 1 .. Len(file) : file[j].ts > clock + Skew) <=> ~TimeRuns(file', Len(file) + 1)
    <3>1. clock + Skew \in Nat /\ \A j \in 1 .. Len(file) : file[j].ts \in Nat
      BY <2>2, <2>6, SharedChainAssumption, ChainVerifyAssumption
    <3> QED
      BY <2>7, <3>1
  <2>10. (\E i \in DOMAIN file' : ~TimeRuns(file', i)) <=> (\E i \in DOMAIN file : ~TimeRuns(file', i)) \/ ~TimeRuns(file', Len(file) + 1)
    BY <2>1, <2>3
  <2> QED
    BY <2>1, <2>4, <2>5, <2>8, <2>9, <2>10
<1> QED
  BY <1>5, <1>6, <1>7, <1>8, <1>9, <1>10, <1>12, <1>13, <1>14, <1>15, NothingSaid DEF ChainInv

LEMMA SignKeeps ==
  ASSUME ChainInv, CheckpointSigns, said' = None
  PROVE  ChainInv'
<1> DEFINE head == Heads(Records(file))
<1>1. UNCHANGED <<file, reading, histories, audit, overlapped, clock, setBack>> /\ faults' \in {faults, faults + 1}
      /\ (stored' = stored \/ (stored' = Stores(head) /\ Records(file) # <<>>))
  BY DEF CheckpointSigns, times
<1>2. CountsAreTyped' /\ LinesAreGenuine' /\ ReadingIsGenuine' /\ HistoriesAreSigned' /\ AuditIsOfTheFile'
  BY <1>1 DEF ChainInv, CountsAreTyped, LinesAreGenuine, ReadingIsGenuine, HistoriesAreSigned, AuditIsOfTheFile
<1>3. Undisturbed' => Undisturbed
  BY <1>1 DEF Undisturbed, ChainInv, CountsAreTyped
<1>4. UndisturbedIsOrderly' /\ StampedIsOnFile' /\ SetBackIsRegression'
  BY <1>1, <1>3 DEF ChainInv, UndisturbedIsOrderly, StampedIsOnFile, SetBackIsRegression
<1>5. IsSeq(file) /\ IsSeq(Records(file))
  BY ReadOf DEF ChainInv, LinesAreGenuine, GenuineLines
\* A receipt is one the witness had, or a new one over this head.
<1>6. ASSUME NEW x \in stored', x \notin stored
      PROVE  /\ Records(file) # <<>>
             /\ x.count = Len(Records(file)) /\ x.hash = EntryHash(Records(file)[Len(Records(file))])
             /\ x.by = "witness" /\ x.id = "witness" /\ x.chain = TRUE
             /\ ~(\E y \in stored : y.count = x.count /\ y.hash = x.hash)
             /\ x.fork = IF \E y \in stored : y.count = x.count THEN "true" ELSE "false"
  <2>1. Records(file) # <<>> /\ stored' = Stores(head)
    BY <1>1, <1>6
  <2>2. head.count = Len(Records(file)) /\ head.hash = EntryHash(Records(file)[Len(Records(file))])
    BY DEF Heads
  <2> HIDE DEF head
  <2>3. ~(\E y \in stored : y.count = head.count /\ y.hash = head.hash)
    BY <2>1, <1>6 DEF Stores
  <2>4. x = [count |-> head.count, hash |-> head.hash, by |-> "witness", id |-> "witness", chain |-> TRUE,
             fork |-> IF \E y \in stored : y.count = head.count THEN "true" ELSE "false"]
    BY <2>1, <2>3, <1>6 DEF Stores
  <2> QED
    BY <2>1, <2>2, <2>3, <2>4
<1>7. StoredIsTyped'
  <2> SUFFICES ASSUME NEW x \in stored', x \notin stored
               PROVE  x.count \in Nat /\ x.count > 0 /\ x.id = "witness" /\ x.by = "witness" /\ x.chain = TRUE
    BY DEF ChainInv, StoredIsTyped
  <2> QED
    BY <1>5, <1>6, OverItsLines DEF IsSeq
<1>8. UndisturbedIsWitnessed'
  <2> SUFFICES ASSUME Undisturbed', NEW x \in stored'
               PROVE  Confirms(x, file)
    BY <1>1 DEF UndisturbedIsWitnessed
  <2>1. Undisturbed /\ (\A y \in stored : Confirms(y, file)) /\ \A i \in DOMAIN file : Orderly(file, i)
    BY <1>3 DEF ChainInv, UndisturbedIsWitnessed, UndisturbedIsOrderly
  <2>2. Records(file) = file
    BY <1>5, <2>1, ReadOf DEF Orderly
  <2>3. CASE x \in stored
    BY <2>1, <2>3
  <2>4. CASE x \notin stored
    <3>1. x.count = Len(file) /\ x.hash = EntryHash(file[Len(file)])
          /\ ~(\E y \in stored : y.count = x.count /\ y.hash = x.hash)
          /\ x.fork = IF \E y \in stored : y.count = x.count THEN "true" ELSE "false"
      BY <1>6, <2>2, <2>4
    <3>2. ~(\E y \in stored : y.count = x.count)
      BY <2>1, <3>1 DEF Confirms
    <3> QED
      BY <1>5, <3>1, <3>2 DEF Confirms, IsSeq
  <2> QED
    BY <2>3, <2>4
<1> QED
  BY <1>2, <1>4, <1>7, <1>8, NothingSaid DEF ChainInv

LEMMA AuditReadsKeeps ==
  ASSUME ChainInv, AuditReads, said' = None
  PROVE  ChainInv'
<1>1. /\ audit' = None \/ (Parses(file) /\ audit' = [records |-> Records(file), moved |-> FALSE])
      /\ UNCHANGED <<file, reading, histories, stored, overlapped, clock, setBack, faults>>
  BY DEF AuditReads, times
<1>2. CountsAreTyped' /\ LinesAreGenuine' /\ ReadingIsGenuine' /\ HistoriesAreSigned' /\ UndisturbedIsOrderly'
      /\ StampedIsOnFile' /\ SetBackIsRegression' /\ StoredIsTyped' /\ UndisturbedIsWitnessed'
  BY <1>1 DEF ChainInv, CountsAreTyped, LinesAreGenuine, ReadingIsGenuine, HistoriesAreSigned, UndisturbedIsOrderly, Undisturbed,
              StampedIsOnFile, SetBackIsRegression, StoredIsTyped, UndisturbedIsWitnessed
<1>3. AuditIsOfTheFile'
  <2>1. CASE audit' = None
    BY <2>1 DEF AuditIsOfTheFile
  <2>2. CASE Parses(file) /\ audit' = [records |-> Records(file), moved |-> FALSE]
    BY <1>1, <2>2, ReadOf DEF ChainInv, LinesAreGenuine, GenuineLines, AuditIsOfTheFile
  <2> QED
    BY <1>1, <2>1, <2>2
<1> QED
  BY <1>2, <1>3, NothingSaid DEF ChainInv

LEMMA AuditComparesKeeps ==
  ASSUME ChainInv, AuditCompares
  PROVE  ChainInv'
<1> DEFINE verdict == CheckReceipts(stored, Hashes(audit.records), "witness", "witness")
<1>1. /\ audit # None /\ audit' = None
      /\ said' = [verdict |-> verdict, records |-> audit.records, receipts |-> stored, moved |-> audit.moved]
      /\ UNCHANGED <<file, reading, histories, stored, overlapped, clock, setBack, faults>>
  BY DEF AuditCompares, times
<1>2. said'.verdict = verdict /\ said'.records = audit.records /\ said'.receipts = stored /\ said'.moved = audit.moved
  BY <1>1
<1> HIDE DEF verdict
<1>3. CountsAreTyped' /\ LinesAreGenuine' /\ ReadingIsGenuine' /\ HistoriesAreSigned' /\ UndisturbedIsOrderly'
      /\ StampedIsOnFile' /\ SetBackIsRegression' /\ StoredIsTyped' /\ UndisturbedIsWitnessed' /\ AuditIsOfTheFile'
  BY <1>1 DEF ChainInv, CountsAreTyped, LinesAreGenuine, ReadingIsGenuine, HistoriesAreSigned, UndisturbedIsOrderly, Undisturbed,
              StampedIsOnFile, SetBackIsRegression, StoredIsTyped, UndisturbedIsWitnessed, AuditIsOfTheFile
<1>4. IsSeq(audit.records) /\ IsSeq(file) /\ (~audit.moved => audit.records = Records(file))
  BY <1>1 DEF ChainInv, AuditIsOfTheFile, LinesAreGenuine, GenuineLines
<1>5. PassKeepsWitnessed'
  <2> SUFFICES ASSUME verdict.kind = "pass", NEW r \in stored
               PROVE  r.count <= Len(audit.records) /\ r.hash = EntryHash(audit.records[r.count])
    BY <1>2 DEF PassKeepsWitnessed
  <2>1. r.count \in DOMAIN Hashes(audit.records) /\ Hashes(audit.records)[r.count] = r.hash
    BY PassMeans DEF verdict
  <2>2. r.count \in 1 .. Len(audit.records) /\ Len(audit.records) \in Nat
    BY <1>4, <2>1, HashesOf DEF IsSeq
  <2> QED
    BY <1>4, <2>1, <2>2, HashesOf
<1>6. HonestIsNotTampered'
  <2> SUFFICES ASSUME ~overlapped, faults = 0, ~audit.moved
               PROVE  verdict.kind # "tampered"
    BY <1>1, <1>2 DEF HonestIsNotTampered
  <2>1. (\A r \in stored : Confirms(r, file)) /\ \A i \in DOMAIN file : Orderly(file, i)
    BY DEF ChainInv, UndisturbedIsWitnessed, UndisturbedIsOrderly, Undisturbed
  <2>2. audit.records = file
    BY <1>4, <2>1, ReadOf DEF Orderly
  <2> QED
    BY <1>4, <2>1, <2>2, ConfirmedIsNotTampered DEF verdict, ChainInv
<1> QED
  BY <1>3, <1>5, <1>6 DEF ChainInv

LEMMA ChainInvNext ==
  ASSUME ChainInv, [Next]_vars
  PROVE  ChainInv'
<1>1. CASE AuditCompares
  BY <1>1, AuditComparesKeeps
<1>2. CASE Steps /\ said' = None
  <2>1. CASE \E w \in Writers : Read(w) \/ AppendLine(w)
    BY <1>2, <2>1, ReadKeeps, AppendKeeps
  <2>2. CASE ClockMoves
    <3>1. clock' \in Times /\ UNCHANGED <<file, reading, histories, stored, audit, overlapped, setBack, faults>>
      BY <2>2 DEF ClockMoves
    <3> QED
      BY <1>2, <3>1, NothingSaid DEF ChainInv, CountsAreTyped, LinesAreGenuine, ReadingIsGenuine, HistoriesAreSigned,
         UndisturbedIsOrderly, Undisturbed, StampedIsOnFile, SetBackIsRegression, StoredIsTyped, UndisturbedIsWitnessed, AuditIsOfTheFile
  <2>3. CASE CheckpointVerifies \/ AuditVerifies
    <3>1. UNCHANGED <<file, reading, histories, stored, audit, overlapped, clock, setBack, faults>>
      BY <2>3 DEF CheckpointVerifies, AuditVerifies, times
    <3> QED
      BY <1>2, <3>1, NothingSaid DEF ChainInv, CountsAreTyped, LinesAreGenuine, ReadingIsGenuine, HistoriesAreSigned,
         UndisturbedIsOrderly, Undisturbed, StampedIsOnFile, SetBackIsRegression, StoredIsTyped, UndisturbedIsWitnessed, AuditIsOfTheFile
  <2>4. CASE CheckpointSigns
    BY <1>2, <2>4, SignKeeps
  <2>5. CASE AuditReads
    BY <1>2, <2>5, AuditReadsKeeps
  <2>6. CASE Edit
    BY <1>2, <2>6, EditKeeps
  <2> QED
    BY <1>2, <2>1, <2>2, <2>3, <2>4, <2>5, <2>6 DEF Steps
<1>3. CASE UNCHANGED vars
  BY <1>3 DEF vars, times, ChainInv, CountsAreTyped, LinesAreGenuine, ReadingIsGenuine, HistoriesAreSigned, UndisturbedIsOrderly,
     Undisturbed, StampedIsOnFile, SetBackIsRegression, StoredIsTyped, UndisturbedIsWitnessed, AuditIsOfTheFile, PassKeepsWitnessed, HonestIsNotTampered
<1> QED
  BY <1>1, <1>2, <1>3 DEF Next

\* What holds of the file, of what has been read of it and of the witness's
\* receipts in every state, however many writers there are and whatever is done
\* to the file (hook.ts:63, verify.ts:330, witness.ts:479).
THEOREM ChainInvCorrect == Spec => []ChainInv
<1>1. Init => ChainInv
  BY ChainInvInit
<1>2. ChainInv /\ [Next]_vars => ChainInv'
  BY ChainInvNext
<1> QED
  BY <1>1, <1>2, PTL DEF Spec

\* Whoever cuts, removes, alters or forges lines without the key: a line of a
\* file that verifies was signed for its place by a writer that had read the
\* line before it (verify.ts:330).
THEOREM ValidIsHistoryHolds == Spec => []ValidIsHistory
<1>1. ChainInv => ValidIsHistory
  BY ValidIsOrdered DEF ChainInv
<1> QED
  BY <1>1, ChainInvCorrect, PTL

\* A chain only ever appended to in turn verifies, at any length, exactly while
\* the clock its records are stamped with is not set back by more than the skew
\* (hook.ts:97, receipt.ts:179, verify.ts:477).
THEOREM OrderlyChainVerifiesHolds == Spec => []OrderlyChainVerifies
<1>1. ChainInv => OrderlyChainVerifies
  BY OrderlyVerifies DEF ChainInv
<1> QED
  BY <1>1, ChainInvCorrect, PTL

\* A pass of the witness layer means that nothing it witnessed was cut off or
\* written anew (witness.ts:479).
THEOREM PassKeepsWitnessedHolds == Spec => []PassKeepsWitnessed
<1>1. ChainInv => PassKeepsWitnessed
  BY DEF ChainInv
<1> QED
  BY <1>1, ChainInvCorrect, PTL

\* The witness layer never calls an honest chain tampered, unless the file moved
\* between the two reads of the command (witness.ts:479).
THEOREM HonestIsNotTamperedHolds == Spec => []HonestIsNotTampered
<1>1. ChainInv => HonestIsNotTampered
  BY DEF ChainInv
<1> QED
  BY <1>1, ChainInvCorrect, PTL
=============================================================================
