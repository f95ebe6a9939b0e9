----------------------------- MODULE IssuerPack ------------------------------
(***************************************************************************)
(* The issuer pack, src/issuer/pack.ts: which requests are refused and in    *)
(* which order, what a pack carries, and the check of a pack from its        *)
(* members alone.                                                            *)
(*                                                                          *)
(* A request `p` is the provider's files and the directory of a purchase     *)
(* check.  A chain of it: whether it is empty and reads, its decisions       *)
(* [picked, instruction, args], records that are no decision, what `verify`  *)
(* says of it, and the counts its witness sidecar holds when the chain is    *)
(* verified and when the pack is filled: None without a sidecar.             *)
(***************************************************************************)
EXTENDS WitnessCheck

CONSTANT None

Chains(p) == {i \in DOMAIN p.chains : ~p.chains[i].empty}
Picked(p) == UNION {{<<i, k>> : k \in {n \in DOMAIN p.chains[i].decisions : p.chains[i].decisions[n].picked}} : i \in Chains(p)}
Decision(p, d) == p.chains[d[1]].decisions[d[2]]
Cited(p) == {Decision(p, d).instruction : d \in Picked(p)}
Carried(p) == {d[1] : d \in Picked(p)}

\* One customer per pack: a carried chain holds nothing else.
Shared(p) ==
  \E i \in Carried(p) : p.chains[i].others \/ \E n \in DOMAIN p.chains[i].decisions : p.chains[i].decisions[n].instruction \notin Cited(p)

\* What the witness says of the chain's bytes and the receipts at hand.
WitnessVerdict(chain, counts) ==
  LET receipts == {[count |-> n, hash |-> n, fork |-> "false", id |-> "id", by |-> "key", chain |-> TRUE] : n \in counts}
  IN  IF counts = None THEN "unverifiable"
      ELSE CheckReceipts(receipts, [n \in 1..Len(chain.decisions) |-> n], "key", "id").kind

\* A chain fails the pack when it does not verify or the witness contradicts
\* it; a witness that says nothing does not.
Fails(p, i) ==
  \/ p.chains[i].verdict # "valid"
  \/ p.witness = "online" /\ WitnessVerdict(p.chains[i], p.chains[i].listed) = "tampered"
  \/ p.witness = "sidecar" /\ WitnessVerdict(p.chains[i], p.chains[i].copied) = "tampered"

\* A refusal writes nothing.
Refused(exit) == [exit |-> exit, failure |-> FALSE, consent |-> FALSE, chains |-> {}, decisions |-> {}]

\* The selection, the provider's files and key, and the gate's identity.
InputsRead(p) == p.bad = {}

\* The arguments kept beside the chain are those the receipt commits to.
ArgumentsHeld(p) == \A d \in Picked(p) : Decision(p, d).args = "committed"

\* buildIssuerPack: the pack, or the first refusal.  A chain that cannot be
\* read may hold what is asked for.
BuildPack(p) ==
  LET failing == {i \in Carried(p) : Fails(p, i)} IN
  Decide(<<When(~InputsRead(p), Refused(2)),
           When(\E i \in Chains(p) : ~p.chains[i].reads, Refused(3)),
           When(Picked(p) = {}, Refused(5)),
           When(Cardinality(Cited(p)) > 1, Refused(7)),
           When(Shared(p), Refused(7)),
           When(failing # {} /\ ~p.allowFailed, Refused(3)),
           When(~(Cited(p) \subseteq p.instructions), Refused(4)),
           When(~p.principal, Refused(2)),
           When(~ArgumentsHeld(p), Refused(4)),
           When(~(Cited(p) \subseteq p.consents) /\ ~p.consentMissingOk, Refused(6)),
           When(~p.fits, Refused(2))>>,
         [exit |-> 0, failure |-> failing # {}, consent |-> Cited(p) \subseteq p.consents, chains |-> Carried(p), decisions |-> Picked(p)])

\* The members of the pack as checkIssuerPack finds them.  The sidecar is read
\* again when the pack is filled.
Members(p) ==
  LET pack == BuildPack(p) IN
  [reads |-> TRUE, manifest |-> "jcs", wrong |-> {}, signed |-> TRUE,
   chains |-> [i \in pack.chains |->
                 [verdict |-> p.chains[i].verdict, paid |-> p.chains[i].paid, decisions |-> p.chains[i].decisions,
                  counts |-> IF p.witness = "none" THEN None ELSE p.chains[i].carried]]]

\* checkIssuerPack: every member as the manifest lists it and nothing else, the
\* manifest signed, each chain valid and, with a sidecar, witnessed.
CheckPack(z) ==
  IF ~z.reads \/ z.manifest # "jcs" THEN 1
  ELSE IF /\ z.wrong = {} /\ z.signed
          /\ \A i \in DOMAIN z.chains : z.chains[i].verdict = "valid" /\ z.chains[i].paid
          /\ \A i \in DOMAIN z.chains : z.chains[i].counts # None => WitnessVerdict(z.chains[i], z.chains[i].counts) = "pass" THEN 0 ELSE 1

\* What a pack promises: one customer's decisions and nobody else's, each with
\* the arguments its receipt commits to, and no failure that is not its first
\* line.  A pack that was changed since it was signed does not check.
PackIsTrue(p, z) ==
  /\ BuildPack(p).exit = 0 =>
       /\ \A i \in BuildPack(p).chains : \A j \in BuildPack(p).chains :
            \A n \in DOMAIN p.chains[i].decisions : \A m \in DOMAIN p.chains[j].decisions :
              p.chains[i].decisions[n].instruction = p.chains[j].decisions[m].instruction
       /\ \A d \in BuildPack(p).decisions : Decision(p, d).args = "committed"
       /\ BuildPack(p).failure \/ \A i \in BuildPack(p).chains : p.chains[i].verdict = "valid"
  /\ CheckPack(z) = 0 => z.wrong = {} /\ z.signed /\ \A i \in DOMAIN z.chains : z.chains[i].verdict = "valid"
=============================================================================
