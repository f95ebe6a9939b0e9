---------------------------- MODULE ChecksProofs ----------------------------
(***************************************************************************)
(* What the programs that judge are built from, for inputs of any length:    *)
(* lists of checks of which the first that applies decides, and the verdict  *)
(* of ChainVerify on the lines of a file.                                    *)
(***************************************************************************)
EXTENDS ChainVerify, WitnessCheck, WellFoundedInduction, TLAPS

\* A set of naturals has a least member.
LEMMA MinIsLeast ==
  ASSUME NEW S \in SUBSET Nat, S # {}
  PROVE  Min(S) \in S /\ \A n \in S : Min(S) <= n
<1>1. PICK m \in S : \A n \in S : ~(<<n, m>> \in OpToRel(<, Nat))
  BY NatLessThanWellFounded, WFMin
<1>2. \A n \in S : ~(n < m)
  BY <1>1 DEF OpToRel
<1>3. \A n \in S : m <= n
  BY <1>2
<1> QED
  BY <1>3 DEF Min

\* Decide falls through to `otherwise`, or gives the answer of a check that
\* applies behind checks that do not.
LEMMA DecideIsFirst ==
  ASSUME NEW n \in Nat, NEW checks, DOMAIN checks = 1 .. n, NEW otherwise
  PROVE  \/ Decide(checks, otherwise) = otherwise /\ \A i \in 1 .. n : ~checks[i].applies
         \/ \E i \in 1 .. n :
              /\ checks[i].applies
              /\ \A j \in 1 .. i - 1 : ~checks[j].applies
              /\ Decide(checks, otherwise) = checks[i].answer
<1> DEFINE applying == {i \in DOMAIN checks : checks[i].applies}
<1>1. CASE applying = {}
  BY <1>1 DEF Decide
<1>2. CASE applying # {}
  <2>1. Min(applying) \in applying /\ \A i \in applying : Min(applying) <= i
    BY <1>2, MinIsLeast
  <2>2. \A j \in 1 .. Min(applying) - 1 : ~checks[j].applies
    <3>1. Min(applying) \in 1 .. n /\ \A i \in 1 .. n : checks[i].applies => Min(applying) <= i
      BY <2>1
    <3> QED
      BY <3>1
  <2>3. Decide(checks, otherwise) = checks[Min(applying)].answer
    BY <1>2 DEF Decide
  <2> QED
    BY <2>1, <2>2, <2>3
<1> QED
  BY <1>1, <1>2

\* A list whose answers all differ from `otherwise` decides it exactly when
\* none of its checks applies.
LEMMA DecideElse ==
  ASSUME NEW n \in Nat, NEW checks, DOMAIN checks = 1 .. n, NEW otherwise,
         \A i \in 1 .. n : checks[i].answer # otherwise
  PROVE  Decide(checks, otherwise) = otherwise <=> \A i \in 1 .. n : ~checks[i].applies
BY DecideIsFirst

\* What a list decides is `otherwise` or the answer of one of its checks.
LEMMA DecideAmong ==
  ASSUME NEW n \in Nat, NEW checks, DOMAIN checks = 1 .. n, NEW otherwise
  PROVE  Decide(checks, otherwise) = otherwise \/ \E i \in 1 .. n : Decide(checks, otherwise) = checks[i].answer
BY DecideIsFirst

\* A check that would have answered otherwise than the list does, and stands
\* before none but such checks, did not apply.
LEMMA DecideSkips ==
  ASSUME NEW n \in Nat, NEW checks, DOMAIN checks = 1 .. n, NEW otherwise,
         NEW k \in 0 .. n, \A i \in 1 .. k : checks[i].answer # Decide(checks, otherwise)
  PROVE  \A i \in 1 .. k : ~checks[i].applies
<1>1. CASE \A i \in 1 .. n : ~checks[i].applies
  BY <1>1
<1>2. ASSUME NEW i \in 1 .. n, \A j \in 1 .. i - 1 : ~checks[j].applies, Decide(checks, otherwise) = checks[i].answer
      PROVE  \A j \in 1 .. k : ~checks[j].applies
  <2>1. i > k
    BY <1>2
  <2> QED
    BY <1>2, <2>1
<1> QED
  BY <1>1, <1>2, DecideIsFirst

\* The one check that answers as the list does applies.
LEMMA DecideGives ==
  ASSUME NEW n \in Nat, NEW checks, DOMAIN checks = 1 .. n, NEW otherwise, NEW k \in 1 .. n,
         otherwise # Decide(checks, otherwise),
         \A i \in 1 .. n : i # k => checks[i].answer # Decide(checks, otherwise)
  PROVE  checks[k].applies
BY DecideIsFirst

\* A check that applies leaves only itself and those before it to answer.
LEMMA DecideWithin ==
  ASSUME NEW n \in Nat, NEW checks, DOMAIN checks = 1 .. n, NEW otherwise, NEW k \in 1 .. n, checks[k].applies
  PROVE  \E i \in 1 .. k : Decide(checks, otherwise) = checks[i].answer
<1>1. PICK i \in 1 .. n : (\A j \in 1 .. i - 1 : ~checks[j].applies) /\ Decide(checks, otherwise) = checks[i].answer
  BY DecideIsFirst
<1>2. i \in 1 .. k
  BY <1>1
<1> QED
  BY <1>1, <1>2

\* A list that answers none of its checks' answers makes none of them, and
\* falls through.
LEMMA DecideFalls ==
  ASSUME NEW n \in Nat, NEW checks, DOMAIN checks = 1 .. n, NEW otherwise,
         \A i \in 1 .. n : checks[i].answer # Decide(checks, otherwise)
  PROVE  Decide(checks, otherwise) = otherwise /\ \A i \in 1 .. n : ~checks[i].applies
BY DecideIsFirst

----------------------------------------------------------------------------
\* Lists of a known length: the checks are gone through from the first.

LEMMA DecideOf2 ==
  ASSUME NEW c1, NEW c2, NEW otherwise
  PROVE  Decide(<<c1, c2>>, otherwise) =
           IF c1.applies THEN c1.answer ELSE IF c2.applies THEN c2.answer ELSE otherwise
<1> DEFINE checks == <<c1, c2>>
<1>1. 2 \in Nat /\ DOMAIN checks = 1 .. 2
  OBVIOUS
<1>2. checks[1] = c1 /\ checks[2] = c2
  OBVIOUS
<1> HIDE DEF checks
<1>3. Decide(checks, otherwise) =
        IF c1.applies THEN c1.answer ELSE IF c2.applies THEN c2.answer ELSE otherwise
  <2>1. \/ Decide(checks, otherwise) = otherwise /\ \A i \in 1 .. 2 : ~checks[i].applies
        \/ \E i \in 1 .. 2 :
              /\ checks[i].applies
              /\ \A j \in 1 .. i - 1 : ~checks[j].applies
              /\ Decide(checks, otherwise) = checks[i].answer
    BY <1>1, DecideIsFirst
  <2> QED
    BY <1>2, <2>1
<1> QED
  BY <1>3 DEF checks

LEMMA DecideOf3 ==
  ASSUME NEW c1, NEW c2, NEW c3, NEW otherwise
  PROVE  Decide(<<c1, c2, c3>>, otherwise) =
           IF c1.applies THEN c1.answer ELSE IF c2.applies THEN c2.answer ELSE IF c3.applies THEN c3.answer ELSE otherwise
<1> DEFINE checks == <<c1, c2, c3>>
<1>1. 3 \in Nat /\ DOMAIN checks = 1 .. 3
  OBVIOUS
<1>2. checks[1] = c1 /\ checks[2] = c2 /\ checks[3] = c3
  OBVIOUS
<1> HIDE DEF checks
<1>3. Decide(checks, otherwise) =
        IF c1.applies THEN c1.answer ELSE IF c2.applies THEN c2.answer ELSE IF c3.applies THEN c3.answer ELSE otherwise
  <2>1. \/ Decide(checks, otherwise) = otherwise /\ \A i \in 1 .. 3 : ~checks[i].applies
        \/ \E i \in 1 .. 3 :
              /\ checks[i].applies
              /\ \A j \in 1 .. i - 1 : ~checks[j].applies
              /\ Decide(checks, otherwise) = checks[i].answer
    BY <1>1, DecideIsFirst
  <2> QED
    BY <1>2, <2>1
<1> QED
  BY <1>3 DEF checks

LEMMA DecideOf4 ==
  ASSUME NEW c1, NEW c2, NEW c3, NEW c4, NEW otherwise
  PROVE  Decide(<<c1, c2, c3, c4>>, otherwise) =
           IF c1.applies THEN c1.answer ELSE IF c2.applies THEN c2.answer ELSE IF c3.applies THEN c3.answer ELSE
           IF c4.applies THEN c4.answer ELSE otherwise
<1> DEFINE checks == <<c1, c2, c3, c4>>
<1>1. 4 \in Nat /\ DOMAIN checks = 1 .. 4
  OBVIOUS
<1>2. checks[1] = c1 /\ checks[2] = c2 /\ checks[3] = c3 /\ checks[4] = c4
  OBVIOUS
<1> HIDE DEF checks
<1>3. Decide(checks, otherwise) =
        IF c1.applies THEN c1.answer ELSE IF c2.applies THEN c2.answer ELSE IF c3.applies THEN c3.answer ELSE
        IF c4.applies THEN c4.answer ELSE otherwise
  <2>1. \/ Decide(checks, otherwise) = otherwise /\ \A i \in 1 .. 4 : ~checks[i].applies
        \/ \E i \in 1 .. 4 :
              /\ checks[i].applies
              /\ \A j \in 1 .. i - 1 : ~checks[j].applies
              /\ Decide(checks, otherwise) = checks[i].answer
    BY <1>1, DecideIsFirst
  <2> QED
    BY <1>2, <2>1
<1> QED
  BY <1>3 DEF checks

LEMMA DecideOf6 ==
  ASSUME NEW c1, NEW c2, NEW c3, NEW c4, NEW c5, NEW c6, NEW otherwise
  PROVE  Decide(<<c1, c2, c3, c4, c5, c6>>, otherwise) =
           IF c1.applies THEN c1.answer ELSE IF c2.applies THEN c2.answer ELSE IF c3.applies THEN c3.answer ELSE
           IF c4.applies THEN c4.answer ELSE IF c5.applies THEN c5.answer ELSE IF c6.applies THEN c6.answer ELSE otherwise
<1> DEFINE checks == <<c1, c2, c3, c4, c5, c6>>
<1>1. 6 \in Nat /\ DOMAIN checks = 1 .. 6
  OBVIOUS
<1>2. checks[1] = c1 /\ checks[2] = c2 /\ checks[3] = c3 /\ checks[4] = c4 /\ checks[5] = c5 /\ checks[6] = c6
  OBVIOUS
<1> HIDE DEF checks
<1>3. Decide(checks, otherwise) =
        IF c1.applies THEN c1.answer ELSE IF c2.applies THEN c2.answer ELSE IF c3.applies THEN c3.answer ELSE
        IF c4.applies THEN c4.answer ELSE IF c5.applies THEN c5.answer ELSE IF c6.applies THEN c6.answer ELSE otherwise
  <2>1. \/ Decide(checks, otherwise) = otherwise /\ \A i \in 1 .. 6 : ~checks[i].applies
        \/ \E i \in 1 .. 6 :
              /\ checks[i].applies
              /\ \A j \in 1 .. i - 1 : ~checks[j].applies
              /\ Decide(checks, otherwise) = checks[i].answer
    BY <1>1, DecideIsFirst
  <2> QED
    BY <1>2, <2>1
<1> QED
  BY <1>3 DEF checks

LEMMA DecideOf8 ==
  ASSUME NEW c1, NEW c2, NEW c3, NEW c4, NEW c5, NEW c6, NEW c7, NEW c8, NEW otherwise
  PROVE  Decide(<<c1, c2, c3, c4, c5, c6, c7, c8>>, otherwise) =
           IF c1.applies THEN c1.answer ELSE IF c2.applies THEN c2.answer ELSE IF c3.applies THEN c3.answer ELSE
           IF c4.applies THEN c4.answer ELSE IF c5.applies THEN c5.answer ELSE IF c6.applies THEN c6.answer ELSE
           IF c7.applies THEN c7.answer ELSE IF c8.applies THEN c8.answer ELSE otherwise
<1> DEFINE checks == <<c1, c2, c3, c4, c5, c6, c7, c8>>
<1>1. 8 \in Nat /\ DOMAIN checks = 1 .. 8
  OBVIOUS
<1>2. checks[1] = c1 /\ checks[2] = c2 /\ checks[3] = c3 /\ checks[4] = c4 /\ checks[5] = c5 /\ checks[6] = c6
     /\ checks[7] = c7 /\ checks[8] = c8
  OBVIOUS
<1> HIDE DEF checks
<1>3. Decide(checks, otherwise) =
        IF c1.applies THEN c1.answer ELSE IF c2.applies THEN c2.answer ELSE IF c3.applies THEN c3.answer ELSE
        IF c4.applies THEN c4.answer ELSE IF c5.applies THEN c5.answer ELSE IF c6.applies THEN c6.answer ELSE
        IF c7.applies THEN c7.answer ELSE IF c8.applies THEN c8.answer ELSE otherwise
  <2>1. \/ Decide(checks, otherwise) = otherwise /\ \A i \in 1 .. 8 : ~checks[i].applies
        \/ \E i \in 1 .. 8 :
              /\ checks[i].applies
              /\ \A j \in 1 .. i - 1 : ~checks[j].applies
              /\ Decide(checks, otherwise) = checks[i].answer
    BY <1>1, DecideIsFirst
  <2> QED
    BY <1>2, <2>1
<1> QED
  BY <1>3 DEF checks

LEMMA DecideOf9 ==
  ASSUME NEW c1, NEW c2, NEW c3, NEW c4, NEW c5, NEW c6, NEW c7, NEW c8, NEW c9, NEW otherwise
  PROVE  Decide(<<c1, c2, c3, c4, c5, c6, c7, c8, c9>>, otherwise) =
           IF c1.applies THEN c1.answer ELSE IF c2.applies THEN c2.answer ELSE IF c3.applies THEN c3.answer ELSE
           IF c4.applies THEN c4.answer ELSE IF c5.applies THEN c5.answer ELSE IF c6.applies THEN c6.answer ELSE
           IF c7.applies THEN c7.answer ELSE IF c8.applies THEN c8.answer ELSE IF c9.applies THEN c9.answer ELSE otherwise
<1> DEFINE checks == <<c1, c2, c3, c4, c5, c6, c7, c8, c9>>
<1>1. 9 \in Nat /\ DOMAIN checks = 1 .. 9
  OBVIOUS
<1>2. checks[1] = c1 /\ checks[2] = c2 /\ checks[3] = c3 /\ checks[4] = c4 /\ checks[5] = c5 /\ checks[6] = c6
     /\ checks[7] = c7 /\ checks[8] = c8 /\ checks[9] = c9
  OBVIOUS
<1> HIDE DEF checks
<1>3. Decide(checks, otherwise) =
        IF c1.applies THEN c1.answer ELSE IF c2.applies THEN c2.answer ELSE IF c3.applies THEN c3.answer ELSE
        IF c4.applies THEN c4.answer ELSE IF c5.applies THEN c5.answer ELSE IF c6.applies THEN c6.answer ELSE
        IF c7.applies THEN c7.answer ELSE IF c8.applies THEN c8.answer ELSE IF c9.applies THEN c9.answer ELSE otherwise
  <2>1. \/ Decide(checks, otherwise) = otherwise /\ \A i \in 1 .. 9 : ~checks[i].applies
        \/ \E i \in 1 .. 9 :
              /\ checks[i].applies
              /\ \A j \in 1 .. i - 1 : ~checks[j].applies
              /\ Decide(checks, otherwise) = checks[i].answer
    BY <1>1, DecideIsFirst
  <2> QED
    BY <1>2, <2>1
<1> QED
  BY <1>3 DEF checks

LEMMA DecideOf11 ==
  ASSUME NEW c1, NEW c2, NEW c3, NEW c4, NEW c5, NEW c6, NEW c7, NEW c8, NEW c9, NEW c10, NEW c11, NEW otherwise
  PROVE  Decide(<<c1, c2, c3, c4, c5, c6, c7, c8, c9, c10, c11>>, otherwise) =
           IF c1.applies THEN c1.answer ELSE IF c2.applies THEN c2.answer ELSE IF c3.applies THEN c3.answer ELSE
           IF c4.applies THEN c4.answer ELSE IF c5.applies THEN c5.answer ELSE IF c6.applies THEN c6.answer ELSE
           IF c7.applies THEN c7.answer ELSE IF c8.applies THEN c8.answer ELSE IF c9.applies THEN c9.answer ELSE
           IF c10.applies THEN c10.answer ELSE IF c11.applies THEN c11.answer ELSE otherwise
<1> DEFINE checks == <<c1, c2, c3, c4, c5, c6, c7, c8, c9, c10, c11>>
<1>1. 11 \in Nat /\ DOMAIN checks = 1 .. 11
  OBVIOUS
<1>2. checks[1] = c1 /\ checks[2] = c2 /\ checks[3] = c3 /\ checks[4] = c4 /\ checks[5] = c5 /\ checks[6] = c6
     /\ checks[7] = c7 /\ checks[8] = c8 /\ checks[9] = c9 /\ checks[10] = c10 /\ checks[11] = c11
  OBVIOUS
<1> HIDE DEF checks
<1>3. Decide(checks, otherwise) =
        IF c1.applies THEN c1.answer ELSE IF c2.applies THEN c2.answer ELSE IF c3.applies THEN c3.answer ELSE
        IF c4.applies THEN c4.answer ELSE IF c5.applies THEN c5.answer ELSE IF c6.applies THEN c6.answer ELSE
        IF c7.applies THEN c7.answer ELSE IF c8.applies THEN c8.answer ELSE IF c9.applies THEN c9.answer ELSE
        IF c10.applies THEN c10.answer ELSE IF c11.applies THEN c11.answer ELSE otherwise
  <2>1. \/ Decide(checks, otherwise) = otherwise /\ \A i \in 1 .. 11 : ~checks[i].applies
        \/ \E i \in 1 .. 11 :
              /\ checks[i].applies
              /\ \A j \in 1 .. i - 1 : ~checks[j].applies
              /\ Decide(checks, otherwise) = checks[i].answer
    BY <1>1, DecideIsFirst
  <2> QED
    BY <1>2, <2>1
<1> QED
  BY <1>3 DEF checks

LEMMA DecideOf17 ==
  ASSUME NEW c1, NEW c2, NEW c3, NEW c4, NEW c5, NEW c6, NEW c7, NEW c8, NEW c9, NEW c10, NEW c11, NEW c12, NEW c13, NEW c14,
         NEW c15, NEW c16, NEW c17, NEW otherwise
  PROVE  Decide(<<c1, c2, c3, c4, c5, c6, c7, c8, c9, c10, c11, c12, c13, c14, c15, c16, c17>>, otherwise) =
           IF c1.applies THEN c1.answer ELSE IF c2.applies THEN c2.answer ELSE IF c3.applies THEN c3.answer ELSE
           IF c4.applies THEN c4.answer ELSE IF c5.applies THEN c5.answer ELSE IF c6.applies THEN c6.answer ELSE
           IF c7.applies THEN c7.answer ELSE IF c8.applies THEN c8.answer ELSE IF c9.applies THEN c9.answer ELSE
           IF c10.applies THEN c10.answer ELSE IF c11.applies THEN c11.answer ELSE IF c12.applies THEN c12.answer ELSE
           IF c13.applies THEN c13.answer ELSE IF c14.applies THEN c14.answer ELSE IF c15.applies THEN c15.answer ELSE
           IF c16.applies THEN c16.answer ELSE IF c17.applies THEN c17.answer ELSE otherwise
<1> DEFINE checks == <<c1, c2, c3, c4, c5, c6, c7, c8, c9, c10, c11, c12, c13, c14, c15, c16, c17>>
<1>1. 17 \in Nat /\ DOMAIN checks = 1 .. 17
  OBVIOUS
<1>2. checks[1] = c1 /\ checks[2] = c2 /\ checks[3] = c3 /\ checks[4] = c4 /\ checks[5] = c5 /\ checks[6] = c6
     /\ checks[7] = c7 /\ checks[8] = c8 /\ checks[9] = c9 /\ checks[10] = c10 /\ checks[11] = c11 /\ checks[12] = c12
     /\ checks[13] = c13 /\ checks[14] = c14 /\ checks[15] = c15 /\ checks[16] = c16 /\ checks[17] = c17
  OBVIOUS
<1> HIDE DEF checks
<1>3. Decide(checks, otherwise) =
        IF c1.applies THEN c1.answer ELSE IF c2.applies THEN c2.answer ELSE IF c3.applies THEN c3.answer ELSE
        IF c4.applies THEN c4.answer ELSE IF c5.applies THEN c5.answer ELSE IF c6.applies THEN c6.answer ELSE
        IF c7.applies THEN c7.answer ELSE IF c8.applies THEN c8.answer ELSE IF c9.applies THEN c9.answer ELSE
        IF c10.applies THEN c10.answer ELSE IF c11.applies THEN c11.answer ELSE IF c12.applies THEN c12.answer ELSE
        IF c13.applies THEN c13.answer ELSE IF c14.applies THEN c14.answer ELSE IF c15.applies THEN c15.answer ELSE
        IF c16.applies THEN c16.answer ELSE IF c17.applies THEN c17.answer ELSE otherwise
  <2>1. \/ Decide(checks, otherwise) = otherwise /\ \A i \in 1 .. 17 : ~checks[i].applies
        \/ \E i \in 1 .. 17 :
              /\ checks[i].applies
              /\ \A j \in 1 .. i - 1 : ~checks[j].applies
              /\ Decide(checks, otherwise) = checks[i].answer
    BY <1>1, DecideIsFirst
  <2> QED
    BY <1>2, <2>1
<1> QED
  BY <1>3 DEF checks

LEMMA DecideOf18 ==
  ASSUME NEW c1, NEW c2, NEW c3, NEW c4, NEW c5, NEW c6, NEW c7, NEW c8, NEW c9, NEW c10, NEW c11, NEW c12, NEW c13, NEW c14,
         NEW c15, NEW c16, NEW c17, NEW c18, NEW otherwise
  PROVE  Decide(<<c1, c2, c3, c4, c5, c6, c7, c8, c9, c10, c11, c12, c13, c14, c15, c16, c17, c18>>, otherwise) =
           IF c1.applies THEN c1.answer ELSE IF c2.applies THEN c2.answer ELSE IF c3.applies THEN c3.answer ELSE
           IF c4.applies THEN c4.answer ELSE IF c5.applies THEN c5.answer ELSE IF c6.applies THEN c6.answer ELSE
           IF c7.applies THEN c7.answer ELSE IF c8.applies THEN c8.answer ELSE IF c9.applies THEN c9.answer ELSE
           IF c10.applies THEN c10.answer ELSE IF c11.applies THEN c11.answer ELSE IF c12.applies THEN c12.answer ELSE
           IF c13.applies THEN c13.answer ELSE IF c14.applies THEN c14.answer ELSE IF c15.applies THEN c15.answer ELSE
           IF c16.applies THEN c16.answer ELSE IF c17.applies THEN c17.answer ELSE IF c18.applies THEN c18.answer ELSE otherwise
<1> DEFINE checks == <<c1, c2, c3, c4, c5, c6, c7, c8, c9, c10, c11, c12, c13, c14, c15, c16, c17, c18>>
<1>1. 18 \in Nat /\ DOMAIN checks = 1 .. 18
  OBVIOUS
<1>2. checks[1] = c1 /\ checks[2] = c2 /\ checks[3] = c3 /\ checks[4] = c4 /\ checks[5] = c5 /\ checks[6] = c6
     /\ checks[7] = c7 /\ checks[8] = c8 /\ checks[9] = c9 /\ checks[10] = c10 /\ checks[11] = c11 /\ checks[12] = c12
     /\ checks[13] = c13 /\ checks[14] = c14 /\ checks[15] = c15 /\ checks[16] = c16 /\ checks[17] = c17 /\ checks[18] = c18
  OBVIOUS
<1> HIDE DEF checks
<1>3. Decide(checks, otherwise) =
        IF c1.applies THEN c1.answer ELSE IF c2.applies THEN c2.answer ELSE IF c3.applies THEN c3.answer ELSE
        IF c4.applies THEN c4.answer ELSE IF c5.applies THEN c5.answer ELSE IF c6.applies THEN c6.answer ELSE
        IF c7.applies THEN c7.answer ELSE IF c8.applies THEN c8.answer ELSE IF c9.applies THEN c9.answer ELSE
        IF c10.applies THEN c10.answer ELSE IF c11.applies THEN c11.answer ELSE IF c12.applies THEN c12.answer ELSE
        IF c13.applies THEN c13.answer ELSE IF c14.applies THEN c14.answer ELSE IF c15.applies THEN c15.answer ELSE
        IF c16.applies THEN c16.answer ELSE IF c17.applies THEN c17.answer ELSE IF c18.applies THEN c18.answer ELSE otherwise
  <2>1. \/ Decide(checks, otherwise) = otherwise /\ \A i \in 1 .. 18 : ~checks[i].applies
        \/ \E i \in 1 .. 18 :
              /\ checks[i].applies
              /\ \A j \in 1 .. i - 1 : ~checks[j].applies
              /\ Decide(checks, otherwise) = checks[i].answer
    BY <1>1, DecideIsFirst
  <2> QED
    BY <1>2, <2>1
<1> QED
  BY <1>3 DEF checks

----------------------------------------------------------------------------
\* Sequences of lines: a line may be any value, so a sequence is one over the
\* lines it holds.

LEMMA OverItsLines ==
  ASSUME NEW s, IsSeq(s)
  PROVE  DOMAIN s = 1 .. Len(s) /\ s \in Seq({s[i] : i \in DOMAIN s}) /\ (s # <<>> => Len(s) > 0)
<1>1. DOMAIN s = 1 .. Len(s)
  BY DEF IsSeq
<1>2. \A i \in 1 .. Len(s) : s[i] \in {s[j] : j \in DOMAIN s}
  BY <1>1
<1>3. s \in [1 .. Len(s) -> {s[j] : j \in DOMAIN s}]
  BY <1>1, <1>2 DEF IsSeq
<1> QED
  BY <1>1, <1>3 DEF IsSeq

LEMMA AppendedTo ==
  ASSUME NEW s, IsSeq(s), NEW e
  PROVE  /\ IsSeq(Append(s, e)) /\ Len(Append(s, e)) = Len(s) + 1 /\ Append(s, e)[Len(s) + 1] = e
         /\ \A i \in DOMAIN s : Append(s, e)[i] = s[i]
         /\ Append(s, e) # <<>>
<1> DEFINE S == {s[i] : i \in DOMAIN s} \cup {e}
<1>1. s \in Seq(S) /\ e \in S /\ DOMAIN s = 1 .. Len(s)
  <2>1. DOMAIN s = 1 .. Len(s) /\ Len(s) \in Nat /\ \A i \in 1 .. Len(s) : s[i] \in S
    BY OverItsLines DEF IsSeq
  <2>2. s \in [1 .. Len(s) -> S]
    BY <2>1 DEF IsSeq
  <2> QED
    BY <2>1, <2>2
<1> HIDE DEF S
<1>2. /\ Len(Append(s, e)) = Len(s) + 1 /\ Append(s, e)[Len(s) + 1] = e /\ Append(s, e) \in Seq(S)
      /\ \A i \in DOMAIN s : Append(s, e)[i] = s[i]
  BY <1>1
<1>3. \A t \in Seq(S) : t = [i \in 1 .. Len(t) |-> t[i]] /\ Len(t) \in Nat /\ (t = <<>> => Len(t) = 0)
  OBVIOUS
<1>4. IsSeq(Append(s, e)) /\ (Append(s, e) = <<>> => Len(s) + 1 = 0) /\ Len(s) \in Nat
  BY <1>2, <1>3 DEF IsSeq
<1> QED
  BY <1>2, <1>4

LEMMA CutAt ==
  ASSUME NEW s, IsSeq(s), NEW n \in 0 .. Len(s)
  PROVE  IsSeq(SubSeq(s, 1, n)) /\ Len(SubSeq(s, 1, n)) = n /\ \A i \in 1 .. n : SubSeq(s, 1, n)[i] = s[i]
<1> DEFINE S == {s[i] : i \in DOMAIN s}
<1>1. s \in Seq(S) /\ DOMAIN s = 1 .. Len(s)
  BY OverItsLines
<1>4. Len(s) \in Nat /\ n \in Nat
  BY DEF IsSeq
<1> HIDE DEF S
<1>2. SubSeq(s, 1, n) = [i \in 1 .. n |-> s[i]] /\ SubSeq(s, 1, n) \in Seq(S) /\ Len(SubSeq(s, 1, n)) = n
  BY <1>1, <1>4
<1> QED
  BY <1>2, <1>4 DEF IsSeq

LEMMA TakenOut ==
  ASSUME NEW s, IsSeq(s), NEW k \in 1 .. Len(s)
  PROVE  LET t == SubSeq(s, 1, k - 1) \o SubSeq(s, k + 1, Len(s)) IN
         IsSeq(t) /\ \A i \in DOMAIN t : \E j \in DOMAIN s : t[i] = s[j]
<1> DEFINE S == {s[i] : i \in DOMAIN s}
           t == SubSeq(s, 1, k - 1) \o SubSeq(s, k + 1, Len(s))
<1>1. s \in Seq(S) /\ DOMAIN s = 1 .. Len(s)
  BY OverItsLines
<1>2. \A v \in S : \E j \in DOMAIN s : v = s[j]
  OBVIOUS
<1>4. Len(s) \in Nat /\ k \in Nat /\ k - 1 \in Nat
  BY DEF IsSeq
<1> HIDE DEF S
<1>3. SubSeq(s, 1, k - 1) \in Seq(S) /\ SubSeq(s, k + 1, Len(s)) \in Seq(S)
  BY <1>1, <1>4
<1>5. t \in Seq(S)
  BY <1>3
<1> HIDE DEF t
<1>6. t = [i \in 1 .. Len(t) |-> t[i]] /\ Len(t) \in Nat /\ \A i \in DOMAIN t : t[i] \in S
  BY <1>5
<1>7. IsSeq(t) /\ \A i \in DOMAIN t : \E j \in DOMAIN s : t[i] = s[j]
  BY <1>2, <1>6 DEF IsSeq
<1> QED
  BY <1>7 DEF t

\* Two sequences of the same lines are one.
LEMMA SameLines ==
  ASSUME NEW s, NEW t, IsSeq(s), IsSeq(t), Len(s) = Len(t), \A i \in 1 .. Len(s) : s[i] = t[i]
  PROVE  s = t
BY DEF IsSeq

\* What is read of a file: its lines, but for a checkpoint behind them.
LEMMA ReadOf ==
  ASSUME NEW s, IsSeq(s)
  PROVE  /\ IsSeq(Records(s))
         /\ Len(Records(s)) <= Len(s)
         /\ \A i \in DOMAIN Records(s) : i \in DOMAIN s /\ Records(s)[i] = s[i]
         /\ Parses(s) => \A i \in DOMAIN Records(s) : s[i].kind \notin {"garbage", "checkpoint"}
         /\ (\A i \in DOMAIN s : s[i].kind = "record") => Parses(s) /\ ~HasCheckpoint(s) /\ Records(s) = s
<1>1. DOMAIN s = 1 .. Len(s) /\ s \in Seq({s[i] : i \in DOMAIN s}) /\ Len(s) \in Nat
  BY OverItsLines DEF IsSeq
<1>2. s # <<>> => Len(s) > 0 /\ Last(s) = s[Len(s)] /\ Front(s) = SubSeq(s, 1, Len(s) - 1)
  BY <1>1 DEF Last, Front
<1>3. CASE HasCheckpoint(s)
  <2>1. Len(s) > 0 /\ Records(s) = SubSeq(s, 1, Len(s) - 1) /\ Len(s) - 1 \in 0 .. Len(s) /\ s[Len(s)].kind = "checkpoint"
    BY <1>1, <1>2, <1>3 DEF HasCheckpoint, Records
  <2>2. IsSeq(Records(s)) /\ Len(Records(s)) = Len(s) - 1 /\ \A i \in 1 .. Len(s) - 1 : Records(s)[i] = s[i]
    BY <2>1, CutAt
  <2>3. DOMAIN Records(s) = 1 .. Len(s) - 1
    BY <2>2 DEF IsSeq
  <2>4. Parses(s) => \A i \in DOMAIN Records(s) : s[i].kind \notin {"garbage", "checkpoint"}
    BY <1>1, <2>3 DEF Parses
  <2>5. Len(s) \in DOMAIN s /\ ~(\A i \in DOMAIN s : s[i].kind = "record")
    BY <1>1, <2>1
  <2>6. \A i \in DOMAIN Records(s) : i \in DOMAIN s /\ Records(s)[i] = s[i]
    BY <1>1, <2>2, <2>3
  <2>7. Len(Records(s)) <= Len(s)
    BY <1>1, <2>2
  <2> QED
    BY <2>2, <2>4, <2>5, <2>6, <2>7
<1>4. CASE ~HasCheckpoint(s)
  <2>1. Records(s) = s
    BY <1>4 DEF Records
  <2>2. Parses(s) => \A i \in DOMAIN s : s[i].kind \notin {"garbage", "checkpoint"}
    BY <1>1, <1>2, <1>4 DEF Parses, HasCheckpoint
  <2>3. (\A i \in DOMAIN s : s[i].kind = "record") => Parses(s)
    BY DEF Parses
  <2> QED
    BY <1>1, <1>4, <2>1, <2>2, <2>3
<1> QED
  BY <1>3, <1>4

----------------------------------------------------------------------------
\* Reports

\* What has been written after each number of checks.
\* Whatever the checks, there is a report of them.
LEMMA ReportExists ==
  ASSUME NEW checks, NEW m \in Nat
  PROVE  \E f : f = [n \in 0 .. m |-> IF n = 0 THEN <<>> ELSE Append(f[n - 1], LineOf(checks[n], f[n - 1]))]
<1> DEFINE Is(f, k) == f = [n \in 0 .. k |-> IF n = 0 THEN <<>> ELSE Append(f[n - 1], LineOf(checks[n], f[n - 1]))]
           Has(k) == \E f : Is(f, k)
           lacking == {k \in 0 .. m : ~Has(k)}
<1>1. SUFFICES ASSUME lacking # {}
               PROVE  FALSE
  <2>1. lacking = {} => Has(m)
    <3> HIDE DEF Has
    <3> QED
      OBVIOUS
  <2> QED
    BY <2>1
<1>2. PICK k \in lacking : \A l \in lacking : k <= l
  <2>1. lacking \in SUBSET Nat
    <3> HIDE DEF Has
    <3> QED
      OBVIOUS
  <2> HIDE DEF lacking
  <2> QED
    BY <1>1, <2>1, MinIsLeast
<1>3. k \in 0 .. m /\ ~Has(k)
  <2> HIDE DEF Has
  <2> QED
    OBVIOUS
<1>4. Has(0)
  <2> DEFINE nothing == [n \in 0 .. 0 |-> <<>>]
  <2>1. Is(nothing, 0)
    OBVIOUS
  <2> HIDE DEF nothing, Is
  <2> QED
    BY <2>1
<1>5. k # 0 /\ Has(k - 1)
  <2> HIDE DEF Has
  <2>1. k # 0
    BY <1>3, <1>4
  <2> QED
    BY <1>2, <1>3, <2>1
<1>6. PICK f : Is(f, k - 1)
  <2> HIDE DEF Is
  <2> QED
    BY <1>5
<1> DEFINE next == Append(f[k - 1], LineOf(checks[k], f[k - 1]))
           g == [n \in 0 .. k |-> IF n = k THEN next ELSE f[n]]
<1>7. \A n \in 0 .. k : g[n] = IF n = 0 THEN <<>> ELSE Append(g[n - 1], LineOf(checks[n], g[n - 1]))
  <2> SUFFICES ASSUME NEW n \in 0 .. k
               PROVE  g[n] = IF n = 0 THEN <<>> ELSE Append(g[n - 1], LineOf(checks[n], g[n - 1]))
    OBVIOUS
  <2>1. k \in Nat /\ k # 0
    BY <1>3, <1>5
  <2>2. CASE n = k
    <3>1. g[n] = next /\ g[n - 1] = f[k - 1] /\ n # 0
      BY <2>1, <2>2
    <3> HIDE DEF g
    <3> QED
      BY <2>2, <3>1
  <2>3. CASE n # k
    <3>1. n \in 0 .. k - 1 /\ g[n] = f[n] /\ (n # 0 => g[n - 1] = f[n - 1])
      BY <2>1, <2>3
    <3>2. f[n] = IF n = 0 THEN <<>> ELSE Append(f[n - 1], LineOf(checks[n], f[n - 1]))
      BY <1>6, <3>1
    <3> HIDE DEF g
    <3> QED
      BY <3>1, <3>2
  <2> QED
    BY <2>2, <2>3
<1>8. Is(g, k)
  <2>1. g = [n \in 0 .. k |-> g[n]]
    OBVIOUS
  <2> HIDE DEF g
  <2> QED
    BY <1>7, <2>1
<1> HIDE DEF g, Is
<1> QED
  BY <1>3, <1>8

\* A report has a line for each check: its own status if it needs nothing that
\* did not pass before it, and else that it was not checked.
LEMMA ReportLines ==
  ASSUME NEW checks, IsSeq(checks)
  PROVE  LET r == Report(checks)
             passed(n) == {r[i].id : i \in {j \in 1 .. n : r[j].ok}}
         IN  /\ DOMAIN r = 1 .. Len(checks)
             /\ \A n \in 1 .. Len(checks) :
                  /\ r[n].id = checks[n].id
                  /\ r[n].status = IF checks[n].needs \subseteq passed(n - 1) THEN checks[n].status ELSE "NOT CHECKED"
                  /\ r[n].ok <=> checks[n].needs \subseteq passed(n - 1) /\ checks[n].status # "FAIL"
<1> DEFINE m == Len(checks)
           is(f) == f = [n \in 0 .. m |-> IF n = 0 THEN <<>> ELSE Append(f[n - 1], LineOf(checks[n], f[n - 1]))]
           lines == CHOOSE f : is(f)
           r == Report(checks)
<1>1. m \in Nat
  BY DEF IsSeq
<1>2. r = lines[m]
  BY DEF Report
<1>3. is(lines)
  <2>1. \E f : is(f)
    BY <1>1, ReportExists
  <2> HIDE DEF is
  <2> QED
    BY <2>1
<1>4. lines[0] = <<>> /\ \A n \in 1 .. m : lines[n] = Append(lines[n - 1], LineOf(checks[n], lines[n - 1]))
  <2> HIDE DEF lines, m
  <2>1. \A n \in 0 .. m : lines[n] = IF n = 0 THEN <<>> ELSE Append(lines[n - 1], LineOf(checks[n], lines[n - 1]))
    BY <1>3
  <2>2. 0 \in 0 .. m /\ \A n \in 1 .. m : n \in 0 .. m /\ n # 0
    BY <1>1
  <2> QED
    BY <2>1, <2>2
<1> HIDE DEF m, lines
<1> DEFINE Grown(n) == /\ IsSeq(lines[n]) /\ Len(lines[n]) = n
                       /\ \A k \in 1 .. n : lines[n][k] = LineOf(checks[k], lines[k - 1])
           stunted == {n \in 0 .. m : ~Grown(n)}
<1>5. stunted = {}
  <2> SUFFICES ASSUME stunted # {}
               PROVE  FALSE
    OBVIOUS
  <2>1. PICK n \in stunted : \A k \in stunted : n <= k
    <3>1. stunted \in SUBSET Nat
      <4> HIDE DEF Grown
      <4> QED
        BY <1>1
    <3> HIDE DEF stunted
    <3> QED
      BY <3>1, MinIsLeast
  <2>2. n \in 0 .. m /\ ~Grown(n)
    <3> HIDE DEF Grown
    <3> QED
      OBVIOUS
  <2>3. n # 0
    <3>1. IsSeq(lines[0]) /\ Len(lines[0]) = 0
      BY <1>4 DEF IsSeq
    <3> QED
      BY <2>2, <3>1
  <2>4. n \in 1 .. m /\ n - 1 \in 0 .. m /\ Grown(n - 1)
    <3> HIDE DEF Grown
    <3> QED
      BY <1>1, <2>1, <2>2, <2>3
  <2> DEFINE before == lines[n - 1]
             line == LineOf(checks[n], before)
  <2>5. /\ IsSeq(Append(before, line)) /\ Len(Append(before, line)) = n /\ Append(before, line)[n] = line
        /\ \A k \in 1 .. n - 1 : Append(before, line)[k] = before[k]
    <3>1. IsSeq(before) /\ Len(before) = n - 1 /\ DOMAIN before = 1 .. n - 1
      BY <2>4, OverItsLines
    <3> HIDE DEF before, line
    <3>2. n - 1 + 1 = n
      BY <2>4
    <3> QED
      BY <3>1, <3>2, AppendedTo
  <2>6. lines[n] = Append(before, line)
    BY <1>4, <2>4
  <2>7. Grown(n)
    <3>1. \A k \in 1 .. n : k = n \/ k \in 1 .. n - 1
      BY <1>1, <2>4
    <3>2. \A k \in 1 .. n - 1 : before[k] = LineOf(checks[k], lines[k - 1])
      BY <2>4
    <3>3. \A k \in 1 .. n : lines[n][k] = LineOf(checks[k], lines[k - 1])
      <4> HIDE DEF before, line
      <4>1. lines[n][n] = line
        BY <2>5, <2>6
      <4>2. \A k \in 1 .. n - 1 : lines[n][k] = LineOf(checks[k], lines[k - 1])
        BY <2>5, <2>6, <3>2
      <4> QED
        BY <3>1, <4>1, <4>2 DEF before, line
    <3> QED
      BY <2>5, <2>6, <3>3
  <2> QED
    BY <2>2, <2>7
<1>6. \A n \in 0 .. m : Grown(n)
  <2> HIDE DEF Grown
  <2> QED
    BY <1>5
<1>7. DOMAIN r = 1 .. m
  <2>1. IsSeq(lines[m]) /\ Len(lines[m]) = m
    BY <1>1, <1>6
  <2> QED
    BY <1>2, <2>1, OverItsLines
<1>8. ASSUME NEW n \in 1 .. m
      PROVE  r[n] = LineOf(checks[n], lines[n - 1]) /\ DOMAIN lines[n - 1] = 1 .. n - 1 /\ \A k \in 1 .. n - 1 : lines[n - 1][k] = r[k]
  <2>1. n - 1 \in 0 .. m /\ m \in 0 .. m /\ 1 .. n - 1 \subseteq 1 .. m
    BY <1>1
  <2>2. Grown(n - 1) /\ Grown(m)
    <3> HIDE DEF Grown
    <3> QED
      BY <1>6, <2>1
  <2> QED
    BY <1>2, <2>1, <2>2, OverItsLines
<1> HIDE DEF r
<1>9. ASSUME NEW n \in 1 .. m
      PROVE  LET line == LineOf(checks[n], lines[n - 1])
                 runs == checks[n].needs \subseteq {r[i].id : i \in {j \in 1 .. n - 1 : r[j].ok}}
             IN  /\ line.id = checks[n].id
                 /\ line.status = IF runs THEN checks[n].status ELSE "NOT CHECKED"
                 /\ line.ok <=> runs /\ checks[n].status # "FAIL"
  <2> DEFINE before == lines[n - 1]
             passed == {before[i].id : i \in {j \in DOMAIN before : before[j].ok}}
             line == LineOf(checks[n], before)
  <2>1. DOMAIN before = 1 .. n - 1 /\ \A k \in 1 .. n - 1 : before[k] = r[k]
    BY <1>8
  <2> HIDE DEF before
  <2>2. passed = {r[i].id : i \in {j \in 1 .. n - 1 : r[j].ok}}
    BY <2>1
  <2>3. line.id = checks[n].id
    BY DEF LineOf
  <2>4. line.status = IF checks[n].needs \subseteq passed THEN checks[n].status ELSE "NOT CHECKED"
    BY DEF LineOf
  <2>5. line.ok <=> checks[n].needs \subseteq passed /\ checks[n].status # "FAIL"
    BY DEF LineOf
  <2> HIDE DEF passed, line
  <2> QED
    BY <2>2, <2>3, <2>4, <2>5 DEF line, before
<1> QED
  BY <1>7, <1>8, <1>9 DEF m, r

\* What a list holds, the names of its checks, and that they need only checks
\* that are known already or stand before them.
Items(s) == {s[i] : i \in 1 .. Len(s)}
Ids(checks) == {c.id : c \in Items(checks)}
InOrder(known, checks) == \A n \in 1 .. Len(checks) : checks[n].needs \subseteq known \cup {checks[i].id : i \in 1 .. n - 1}

\* A report of checks in order without a FAIL has made every check: each
\* status is that of a line.
LEMMA CleanReport ==
  ASSUME NEW checks, IsSeq(checks), InOrder({}, checks), Lines(Report(checks), "FAIL") = {}
  PROVE  \A c \in Items(checks) : c.status # "FAIL" /\ c.id \in Lines(Report(checks), c.status)
<1> DEFINE m == Len(checks)
           r == Report(checks)
           passed(n) == {r[i].id : i \in {j \in 1 .. n : r[j].ok}}
           runs(n) == checks[n].needs \subseteq passed(n - 1)
<1>1. m \in Nat
  BY DEF IsSeq
<1>2. /\ DOMAIN r = 1 .. m
      /\ \A n \in 1 .. m : r[n].id = checks[n].id /\ (runs(n) => r[n].status = checks[n].status) /\ (r[n].ok <=> runs(n) /\ checks[n].status # "FAIL")
  BY ReportLines
<1> HIDE DEF m, r, passed
<1>3. \A n \in 1 .. m : r[n].status # "FAIL"
  BY <1>2 DEF Lines, r
<1> DEFINE idle == {n \in 1 .. m : ~r[n].ok}
<1>4. idle = {}
  <2> SUFFICES ASSUME idle # {}
               PROVE  FALSE
    OBVIOUS
  <2>1. PICK n \in idle : \A k \in idle : n <= k
    <3>1. idle \in SUBSET Nat
      BY <1>1
    <3> HIDE DEF idle
    <3> QED
      BY <3>1, MinIsLeast
  <2>2. n \in 1 .. m /\ ~r[n].ok /\ \A k \in 1 .. n - 1 : k \in 1 .. m /\ r[k].ok
    BY <1>1, <2>1
  <2>3. \A k \in 1 .. n - 1 : checks[k].id \in passed(n - 1)
    <3>1. \A k \in 1 .. n - 1 : r[k].id = checks[k].id
      BY <1>2, <2>2
    <3> QED
      BY <2>2, <3>1 DEF passed
  <2>4. runs(n)
    BY <2>2, <2>3 DEF InOrder, m
  <2>5. checks[n].status = "FAIL" /\ r[n].status = "FAIL"
    BY <1>2, <2>2, <2>4
  <2> QED
    BY <1>3, <2>2, <2>5
<1>5. \A n \in 1 .. m : r[n].id = checks[n].id /\ r[n].status = checks[n].status
  BY <1>2, <1>4
<1>6. \A n \in 1 .. m : checks[n].id \in Lines(r, checks[n].status)
  BY <1>2, <1>5 DEF Lines
<1> QED
  BY <1>3, <1>5, <1>6 DEF Items, m, r

\* Of two lists, one behind the other: where the lines of each are.
LEMMA Behind ==
  ASSUME NEW a, NEW b, IsSeq(a), IsSeq(b)
  PROVE  /\ IsSeq(a \o b) /\ Len(a \o b) = Len(a) + Len(b)
         /\ \A n \in 1 .. Len(a) : (a \o b)[n] = a[n]
         /\ \A n \in 1 .. Len(b) : (a \o b)[Len(a) + n] = b[n]
<1> DEFINE S == {a[i] : i \in DOMAIN a} \cup {b[i] : i \in DOMAIN b}
           both == a \o b
<1>1. a \in Seq(S) /\ b \in Seq(S)
  <2>1. a \in Seq({a[i] : i \in DOMAIN a}) /\ b \in Seq({b[i] : i \in DOMAIN b}) /\ DOMAIN a = 1 .. Len(a) /\ DOMAIN b = 1 .. Len(b)
    BY OverItsLines
  <2>2. a \in [1 .. Len(a) -> S] /\ b \in [1 .. Len(b) -> S]
    BY <2>1
  <2> QED
    BY <2>1, <2>2 DEF IsSeq
<1> HIDE DEF S
<1>2. /\ both \in Seq(S) /\ Len(both) = Len(a) + Len(b)
      /\ \A n \in 1 .. Len(a) : both[n] = a[n]
      /\ \A n \in 1 .. Len(b) : both[Len(a) + n] = b[n]
  BY <1>1
<1>3. \A t \in Seq(S) : t = [i \in 1 .. Len(t) |-> t[i]] /\ Len(t) \in Nat
  OBVIOUS
<1> HIDE DEF both
<1> QED
  BY <1>2, <1>3 DEF IsSeq, both

\* ... and whose they are.
LEMMA FromEither ==
  ASSUME NEW a, NEW b, IsSeq(a), IsSeq(b)
  PROVE  /\ 1 .. Len(a) \subseteq 1 .. Len(a \o b) /\ \A k \in 1 .. Len(b) : Len(a) + k \in 1 .. Len(a \o b)
         /\ \A n \in 1 .. Len(a \o b) : n \in 1 .. Len(a) \/ \E k \in 1 .. Len(b) : n = Len(a) + k
<1>1. Len(a) \in Nat /\ Len(b) \in Nat /\ Len(a \o b) = Len(a) + Len(b)
  BY Behind DEF IsSeq
<1>2. ASSUME NEW n \in 1 .. Len(a \o b), n \notin 1 .. Len(a)
      PROVE  \E k \in 1 .. Len(b) : n = Len(a) + k
  <2>1. n - Len(a) \in 1 .. Len(b) /\ n = Len(a) + (n - Len(a))
    BY <1>1, <1>2
  <2> QED
    BY <2>1
<1>3. 1 .. Len(a) \subseteq 1 .. Len(a \o b) /\ \A k \in 1 .. Len(b) : Len(a) + k \in 1 .. Len(a \o b)
  BY <1>1
<1> QED
  BY <1>2, <1>3

LEMMA ItemsBehind ==
  ASSUME NEW a, NEW b, IsSeq(a), IsSeq(b)
  PROVE  Items(a \o b) = Items(a) \cup Items(b) /\ Ids(a \o b) = Ids(a) \cup Ids(b)
<1> DEFINE both == a \o b
<1>1. /\ \A n \in 1 .. Len(a) : both[n] = a[n]
      /\ \A n \in 1 .. Len(b) : both[Len(a) + n] = b[n]
  BY Behind
<1>2. /\ 1 .. Len(a) \subseteq 1 .. Len(both) /\ \A k \in 1 .. Len(b) : Len(a) + k \in 1 .. Len(both)
      /\ \A n \in 1 .. Len(both) : n \in 1 .. Len(a) \/ \E k \in 1 .. Len(b) : n = Len(a) + k
  BY FromEither
<1> HIDE DEF both
<1>3. Items(both) = Items(a) \cup Items(b)
  <2>1. ASSUME NEW n \in 1 .. Len(both)
        PROVE  both[n] \in Items(a) \cup Items(b)
    <3>1. CASE n \in 1 .. Len(a)
      BY <1>1, <3>1 DEF Items
    <3>2. ASSUME NEW k \in 1 .. Len(b), n = Len(a) + k
          PROVE  both[n] \in Items(b)
      BY <1>1, <3>2 DEF Items
    <3> QED
      BY <1>2, <3>1, <3>2
  <2>2. \A x : x \in Items(a) \cup Items(b) => x \in Items(both)
    BY <1>1, <1>2 DEF Items
  <2>3. Items(both) = {both[n] : n \in 1 .. Len(both)}
    BY DEF Items
  <2> QED
    BY <2>1, <2>2, <2>3
<1>4. Ids(both) = Ids(a) \cup Ids(b)
  BY <1>3 DEF Ids
<1> QED
  BY <1>3, <1>4 DEF both

\* Checks in order behind checks in order that they may need are in order.
LEMMA InOrderBehind ==
  ASSUME NEW known, NEW needed, NEW a, NEW b, IsSeq(a), IsSeq(b), InOrder(known, a), InOrder(needed, b), needed \subseteq known \cup Ids(a)
  PROVE  IsSeq(a \o b) /\ InOrder(known, a \o b)
<1> DEFINE both == a \o b
<1>1. /\ IsSeq(both)
      /\ \A n \in 1 .. Len(a) : both[n] = a[n]
      /\ \A n \in 1 .. Len(b) : both[Len(a) + n] = b[n]
  BY Behind
<1>2. \A n \in 1 .. Len(both) : n \in 1 .. Len(a) \/ \E k \in 1 .. Len(b) : n = Len(a) + k
  BY FromEither
<1>3. Len(a) \in Nat /\ Len(b) \in Nat
  BY DEF IsSeq
<1> HIDE DEF both
<1>4. ASSUME NEW n \in 1 .. Len(both)
      PROVE  both[n].needs \subseteq known \cup {both[i].id : i \in 1 .. n - 1}
  <2>1. CASE n \in 1 .. Len(a)
    <3>1. 1 .. n - 1 \subseteq 1 .. Len(a)
      BY <1>3, <2>1
    <3>2. {both[i].id : i \in 1 .. n - 1} = {a[i].id : i \in 1 .. n - 1}
      BY <1>1, <3>1
    <3> QED
      BY <1>1, <2>1, <3>2 DEF InOrder
  <2>2. ASSUME NEW k \in 1 .. Len(b), n = Len(a) + k
        PROVE  both[n].needs \subseteq known \cup {both[i].id : i \in 1 .. n - 1}
    <3>1. 1 .. Len(a) \subseteq 1 .. n - 1 /\ \A i \in 1 .. k - 1 : i \in 1 .. Len(b) /\ Len(a) + i \in 1 .. n - 1
      BY <1>3, <2>2
    <3>2. Ids(a) \subseteq {both[i].id : i \in 1 .. n - 1}
      <4>1. Ids(a) = {a[i].id : i \in 1 .. Len(a)}
        BY DEF Ids, Items
      <4>2. \A i \in 1 .. Len(a) : both[i] = a[i]
        BY <1>1
      <4> QED
        BY <3>1, <4>1, <4>2
    <3>3. {b[i].id : i \in 1 .. k - 1} \subseteq {both[i].id : i \in 1 .. n - 1}
      BY <1>1, <3>1
    <3>4. b[k].needs \subseteq needed \cup {b[i].id : i \in 1 .. k - 1} /\ both[n] = b[k]
      BY <1>1, <2>2 DEF InOrder
    <3> QED
      BY <3>2, <3>3, <3>4
  <2> QED
    BY <1>2, <2>1, <2>2
<1> QED
  BY <1>1, <1>4 DEF InOrder, both

\* Lists of one and of two checks.
LEMMA OneCheck ==
  ASSUME NEW known, NEW x, x.needs \subseteq known
  PROVE  IsSeq(<<x>>) /\ InOrder(known, <<x>>) /\ Items(<<x>>) = {x} /\ Ids(<<x>>) = {x.id}
<1> DEFINE s == <<x>>
<1>1. IsSeq(s)
  BY DEF IsSeq
<1>2. Len(s) = 1 /\ s[1] = x
  OBVIOUS
<1> HIDE DEF s
<1>3. Items(s) = {x}
  BY <1>2 DEF Items
<1>4. InOrder(known, s)
  BY <1>2 DEF InOrder
<1> QED
  BY <1>1, <1>3, <1>4 DEF s, Ids

LEMMA TwoChecks ==
  ASSUME NEW known, NEW x, NEW y, x.needs \subseteq known, y.needs \subseteq known \cup {x.id}
  PROVE  IsSeq(<<x, y>>) /\ InOrder(known, <<x, y>>) /\ Items(<<x, y>>) = {x, y} /\ Ids(<<x, y>>) = {x.id, y.id}
<1> DEFINE s == <<x, y>>
<1>1. IsSeq(s)
  BY DEF IsSeq
<1>2. Len(s) = 2 /\ s[1] = x /\ s[2] = y
  OBVIOUS
<1> HIDE DEF s
<1>3. Items(s) = {x, y}
  BY <1>2 DEF Items
<1>4. InOrder(known, s)
  <2>1. \A n \in 1 .. Len(s) : n = 1 \/ n = 2
    BY <1>2
  <2>2. s[1].id \in {s[i].id : i \in 1 .. 1}
    OBVIOUS
  <2> QED
    BY <1>2, <2>1, <2>2 DEF InOrder
<1> QED
  BY <1>1, <1>3, <1>4 DEF s, Ids

----------------------------------------------------------------------------
\* What the verifier's verdict says of the records

\* A record passes exactly when every check of the loop holds of it, and a
\* check that fails never reads as a chain that is valid.
LEMMA EntryHolds ==
  ASSUME NEW records, NEW i, NEW key
  PROVE  /\ EntryFailure(records, i, key) = NoFailure <=>
              LET r == records[i] IN
              /\ r.seq = i - 1 /\ r.v \in {"v0", "v1"} /\ r.uri # "insecure" /\ (r.v = "v1" => r.thumb = key) /\ r.kid = key
              /\ r.prev = PrevHash(records, i) /\ r.commit = r.event /\ r.sig = Signed(Content(r), key) /\ TimeRuns(records, i)
         /\ EntryFailure(records, i, key).kind # "valid"
<1> DEFINE r == records[i]
           checks == <<When(r.seq # i - 1, Tampered(i - 1, "sequence gap")),
           When(r.v \notin {"v0", "v1"}, Tampered(i - 1, "unsupported record version")),
           When(r.uri = "insecure", Invalid(i - 1, "insecure_jwks_uri")),
           When(r.v = "v1" /\ r.thumb # key, Invalid(i - 1, "key_binding_mismatch")),
           When(r.kid # key, Tampered(i - 1, "kid mismatch")),
           When(r.prev # PrevHash(records, i), Tampered(i - 1, "prev_hash linkage broken")),
           When(r.commit # r.event, Tampered(i - 1, "request_commitment mismatch")),
           When(r.sig # Signed(Content(r), key), Tampered(i - 1, "signature invalid")),
           When(~TimeRuns(records, i), Tampered(i - 1, "timestamp regression"))>>
<1>1. DOMAIN checks = 1 .. 9 /\ \A k \in 1 .. 9 : checks[k].answer.kind \in {"tampered", "invalid"}
  <2>1. DOMAIN checks = 1 .. 9
    OBVIOUS
  <2>2. /\ checks[1].answer.kind = "tampered" /\ checks[2].answer.kind = "tampered" /\ checks[3].answer.kind = "invalid"
        /\ checks[4].answer.kind = "invalid" /\ checks[5].answer.kind = "tampered" /\ checks[6].answer.kind = "tampered"
        /\ checks[7].answer.kind = "tampered" /\ checks[8].answer.kind = "tampered" /\ checks[9].answer.kind = "tampered"
    BY DEF When, Tampered, Invalid
  <2> HIDE DEF checks
  <2> QED
    BY <2>1, <2>2
<1>2. EntryFailure(records, i, key) = Decide(checks, NoFailure)
  BY DEF EntryFailure
<1>3. /\ checks[1].applies = (r.seq # i - 1)
      /\ checks[2].applies = (r.v \notin {"v0", "v1"})
      /\ checks[3].applies = (r.uri = "insecure")
      /\ checks[4].applies = (r.v = "v1" /\ r.thumb # key)
      /\ checks[5].applies = (r.kid # key)
      /\ checks[6].applies = (r.prev # PrevHash(records, i))
      /\ checks[7].applies = (r.commit # r.event)
      /\ checks[8].applies = (r.sig # Signed(Content(r), key))
      /\ checks[9].applies = ~TimeRuns(records, i)
  BY DEF When
<1> HIDE DEF checks, r
<1>4. Decide(checks, NoFailure) = NoFailure <=> \A k \in 1 .. 9 : ~checks[k].applies
  <2>1. \A k \in 1 .. 9 : checks[k].answer # NoFailure
    BY <1>1 DEF NoFailure
  <2> QED
    BY <1>1, <2>1, DecideElse
<1>5. (\A k \in 1 .. 9 : ~checks[k].applies) <=>
      /\ ~checks[1].applies /\ ~checks[2].applies /\ ~checks[3].applies /\ ~checks[4].applies /\ ~checks[5].applies
      /\ ~checks[6].applies /\ ~checks[7].applies /\ ~checks[8].applies /\ ~checks[9].applies
  OBVIOUS
<1>6. EntryFailure(records, i, key).kind # "valid"
  <2>1. Decide(checks, NoFailure) = NoFailure \/ \E k \in 1 .. 9 : Decide(checks, NoFailure) = checks[k].answer
    <3>1. DOMAIN checks = 1 .. 9 /\ 9 \in Nat
      BY <1>1
    <3> QED
      BY <3>1, DecideAmong
  <2>2. NoFailure.kind # "valid"
    BY DEF NoFailure
  <2> QED
    BY <1>1, <1>2, <2>1, <2>2
<1>7. EntryFailure(records, i, key) = NoFailure <=>
        /\ r.seq = i - 1 /\ r.v \in {"v0", "v1"} /\ r.uri # "insecure" /\ (r.v = "v1" => r.thumb = key) /\ r.kid = key
        /\ r.prev = PrevHash(records, i) /\ r.commit = r.event /\ r.sig = Signed(Content(r), key) /\ TimeRuns(records, i)
  BY <1>2, <1>3, <1>4, <1>5
<1> QED
  BY <1>6, <1>7 DEF r

\* What is said of a checkpoint is never that a chain is valid.
LEMMA CheckpointKind ==
  ASSUME NEW cp, NEW records, NEW key
  PROVE  CheckpointFailure(cp, records, key).kind # "valid"
<1> DEFINE checks == <<When(cp.kid # key, Tampered("checkpoint", "kid mismatch")),
           When(cp.count # Len(records), Tampered("checkpoint", "count mismatch")),
           When(cp.last # EntryHash(records[Len(records)]), Tampered("checkpoint", "last_entry_hash mismatch")),
           When(cp.sig # Signed([count |-> cp.count, last |-> cp.last, kid |-> cp.kid], key),
                Tampered("checkpoint", "signature invalid"))>>
<1>1. DOMAIN checks = 1 .. 4 /\ 4 \in Nat /\ \A k \in 1 .. 4 : checks[k].answer.kind = "tampered"
  <2>1. DOMAIN checks = 1 .. 4
    OBVIOUS
  <2>2. /\ checks[1].answer.kind = "tampered" /\ checks[2].answer.kind = "tampered"
        /\ checks[3].answer.kind = "tampered" /\ checks[4].answer.kind = "tampered"
    BY DEF When, Tampered
  <2> HIDE DEF checks
  <2> QED
    BY <2>1, <2>2
<1>2. CheckpointFailure(cp, records, key) = Decide(checks, NoFailure)
  BY DEF CheckpointFailure
<1> HIDE DEF checks
<1>3. Decide(checks, NoFailure) = NoFailure \/ \E k \in 1 .. 4 : Decide(checks, NoFailure) = checks[k].answer
  BY <1>1, DecideAmong
<1> QED
  BY <1>1, <1>2, <1>3 DEF NoFailure

\* A checkpoint passes when it counts these records and names their head.
LEMMA CheckpointHolds ==
  ASSUME NEW cp, NEW records, NEW key
  PROVE  CheckpointFailure(cp, records, key) = NoFailure <=>
           /\ cp.kid = key /\ cp.count = Len(records) /\ cp.last = EntryHash(records[Len(records)])
           /\ cp.sig = Signed([count |-> cp.count, last |-> cp.last, kid |-> cp.kid], key)
<1> DEFINE checks == <<When(cp.kid # key, Tampered("checkpoint", "kid mismatch")),
           When(cp.count # Len(records), Tampered("checkpoint", "count mismatch")),
           When(cp.last # EntryHash(records[Len(records)]), Tampered("checkpoint", "last_entry_hash mismatch")),
           When(cp.sig # Signed([count |-> cp.count, last |-> cp.last, kid |-> cp.kid], key),
                Tampered("checkpoint", "signature invalid"))>>
<1>1. DOMAIN checks = 1 .. 4 /\ 4 \in Nat /\ \A k \in 1 .. 4 : checks[k].answer.kind = "tampered"
  <2>1. DOMAIN checks = 1 .. 4
    OBVIOUS
  <2>2. /\ checks[1].answer.kind = "tampered" /\ checks[2].answer.kind = "tampered"
        /\ checks[3].answer.kind = "tampered" /\ checks[4].answer.kind = "tampered"
    BY DEF When, Tampered
  <2> HIDE DEF checks
  <2> QED
    BY <2>1, <2>2
<1>2. CheckpointFailure(cp, records, key) = Decide(checks, NoFailure)
  BY DEF CheckpointFailure
<1>3. /\ checks[1].applies = (cp.kid # key)
      /\ checks[2].applies = (cp.count # Len(records))
      /\ checks[3].applies = (cp.last # EntryHash(records[Len(records)]))
      /\ checks[4].applies = (cp.sig # Signed([count |-> cp.count, last |-> cp.last, kid |-> cp.kid], key))
  BY DEF When
<1> HIDE DEF checks
<1>4. Decide(checks, NoFailure) = NoFailure <=> \A k \in 1 .. 4 : ~checks[k].applies
  <2>1. \A k \in 1 .. 4 : checks[k].answer # NoFailure
    BY <1>1 DEF NoFailure
  <2> QED
    BY <1>1, <2>1, DecideElse
<1>5. (\A k \in 1 .. 4 : ~checks[k].applies) <=> ~checks[1].applies /\ ~checks[2].applies /\ ~checks[3].applies /\ ~checks[4].applies
  OBVIOUS
<1> QED
  BY <1>2, <1>3, <1>4, <1>5

\* A file is valid under a key exactly when the key is pinned where there are
\* pins, it holds a record, every record passes, and so does the checkpoint if
\* there is one.
LEMMA ValidMeans ==
  ASSUME NEW lines, NEW key, NEW pins
  PROVE  VerifyChain(lines, key, pins).kind = "valid" <=>
           /\ Records(lines) # <<>>
           /\ pins # {} => key \in pins
           /\ \A i \in DOMAIN Records(lines) : EntryFailure(Records(lines), i, key) = NoFailure
           /\ HasCheckpoint(lines) => CheckpointFailure(Last(lines), Records(lines), key) = NoFailure
<1> DEFINE records == Records(lines)
           failing == {i \in DOMAIN records : EntryFailure(records, i, key) # NoFailure}
           broken == HasCheckpoint(lines) /\ CheckpointFailure(Last(lines), records, key) # NoFailure
           unpinned == pins # {} /\ key \notin pins
<1>1. VerifyChain(lines, key, pins) =
        IF records = <<>> THEN [kind |-> "empty"]
        ELSE IF unpinned THEN Invalid("chain", "untrusted_key")
        ELSE IF failing # {} THEN EntryFailure(records, Min(failing), key)
        ELSE IF broken THEN CheckpointFailure(Last(lines), records, key)
        ELSE [kind |-> "valid", delivery |-> Delivery(records)]
  BY DEF VerifyChain
<1>2. EntryFailure(records, Min(failing), key).kind # "valid"
  BY EntryHolds
<1>3. CheckpointFailure(Last(lines), records, key).kind # "valid"
  BY CheckpointKind
<1>4. VerifyChain(lines, key, pins).kind = "valid" <=> records # <<>> /\ ~unpinned /\ failing = {} /\ ~broken
  <2>0. Invalid("chain", "untrusted_key").kind # "valid"
    BY DEF Invalid
  <2> HIDE DEF records, failing, broken, unpinned
  <2>1. CASE records = <<>>
    BY <1>1, <2>1
  <2>2. CASE records # <<>> /\ unpinned
    BY <1>1, <2>0, <2>2
  <2>3. CASE records # <<>> /\ ~unpinned /\ failing # {}
    BY <1>1, <1>2, <2>3
  <2>4. CASE records # <<>> /\ ~unpinned /\ failing = {} /\ broken
    BY <1>1, <1>3, <2>4
  <2>5. CASE records # <<>> /\ ~unpinned /\ failing = {} /\ ~broken
    BY <1>1, <2>5
  <2> QED
    BY <2>1, <2>2, <2>3, <2>4, <2>5
<1>5. failing = {} <=> \A i \in DOMAIN records : EntryFailure(records, i, key) = NoFailure
  OBVIOUS
<1> QED
  BY <1>4, <1>5

\* ... and then its verdict is the one on its payments.
LEMMA ValidDelivers ==
  ASSUME NEW lines, NEW key, NEW pins, VerifyChain(lines, key, pins).kind = "valid"
  PROVE  VerifyChain(lines, key, pins).delivery = Delivery(Records(lines))
<1> DEFINE records == Records(lines)
           failing == {i \in DOMAIN records : EntryFailure(records, i, key) # NoFailure}
           broken == HasCheckpoint(lines) /\ CheckpointFailure(Last(lines), records, key) # NoFailure
           unpinned == pins # {} /\ key \notin pins
           verdict == [kind |-> "valid", delivery |-> Delivery(records)]
<1>1. records # <<>> /\ ~unpinned /\ failing = {} /\ ~broken
  BY ValidMeans
<1>2. VerifyChain(lines, key, pins) =
        IF records = <<>> THEN [kind |-> "empty"]
        ELSE IF unpinned THEN Invalid("chain", "untrusted_key")
        ELSE IF failing # {} THEN EntryFailure(records, Min(failing), key)
        ELSE IF broken THEN CheckpointFailure(Last(lines), records, key)
        ELSE verdict
  BY DEF VerifyChain
<1>3. verdict.delivery = Delivery(records)
  OBVIOUS
<1> HIDE DEF records, failing, broken, unpinned, verdict
<1>4. VerifyChain(lines, key, pins) = verdict
  BY <1>1, <1>2
<1> QED
  BY <1>3, <1>4 DEF records

----------------------------------------------------------------------------
\* What the witness's receipts say of a chain

LEMMA GroupPasses ==
  ASSUME NEW receipts, NEW n, NEW hashes
  PROVE  GroupFailure(receipts, n, hashes) = "none" <=>
           ~Forked(receipts, n) /\ ~(n > Len(hashes)) /\ n \in DOMAIN hashes /\ ~Other(receipts, n, hashes)
<1> DEFINE checks == <<When(Forked(receipts, n), "fork"), When(n > Len(hashes), "beyond"),
                       When(n \notin DOMAIN hashes \/ Other(receipts, n, hashes), "mismatch")>>
<1>1. DOMAIN checks = 1 .. 3 /\ \A k \in 1 .. 3 : checks[k].answer # "none"
  <2>1. checks[1].answer = "fork" /\ checks[2].answer = "beyond" /\ checks[3].answer = "mismatch" /\ DOMAIN checks = 1 .. 3
    BY DEF When
  <2> HIDE DEF checks
  <2> QED
    BY <2>1
<1>2. GroupFailure(receipts, n, hashes) = Decide(checks, "none")
  BY DEF GroupFailure
<1>3. /\ checks[1].applies = Forked(receipts, n)
      /\ checks[2].applies = (n > Len(hashes))
      /\ checks[3].applies = (n \notin DOMAIN hashes \/ Other(receipts, n, hashes))
  BY DEF When
<1> HIDE DEF checks
<1>4. Decide(checks, "none") = "none" <=> \A k \in 1 .. 3 : ~checks[k].applies
  BY <1>1, DecideElse
<1>5. (\A k \in 1 .. 3 : ~checks[k].applies) <=> ~checks[1].applies /\ ~checks[2].applies /\ ~checks[3].applies
  OBVIOUS
<1> QED
  BY <1>2, <1>3, <1>4, <1>5

\* What a pass says, for any receipts and any chain.
LEMMA PassMeans ==
  ASSUME NEW receipts, NEW hashes, NEW key, NEW id,
         CheckReceipts(receipts, hashes, key, id).kind = "pass"
  PROVE  \A r \in receipts : ~(r.count > Len(hashes)) /\ r.count \in DOMAIN hashes /\ hashes[r.count] = r.hash
<1>1. \A r \in receipts : GroupFailure(receipts, r.count, hashes) = "none"
  BY DEF CheckReceipts
<1> SUFFICES ASSUME NEW r \in receipts
             PROVE  ~(r.count > Len(hashes)) /\ r.count \in DOMAIN hashes /\ hashes[r.count] = r.hash
  OBVIOUS
<1>2. ~(r.count > Len(hashes)) /\ r.count \in DOMAIN hashes /\ ~Other(receipts, r.count, hashes)
  BY <1>1, GroupPasses
<1> QED
  BY <1>2 DEF Other, AtCount
=============================================================================
