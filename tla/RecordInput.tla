---------------------------- MODULE RecordInput -----------------------------
(***************************************************************************)
(* What the trial recorder accepts, src/trial/rules.ts: the checks of        *)
(* record() in their order, the screen of free text and the order's rules.   *)
(* The first failure decides.                                                *)
(*                                                                          *)
(* An input `x` is what the checks see: `wrong` holds the members whose      *)
(* format is not the rule's, `items` the free text of each item.  A free     *)
(* text is [long, email, runs]; a run of digits is its groups' lengths, what *)
(* joins them, and which stretches of groups pass Luhn with a first digit    *)
(* from 2 to 6.                                                              *)
(***************************************************************************)
EXTENDS Integers, FiniteSets, Checks

\* The first of a list of rules that is broken, or "none".
FirstOf(rules, wrong) ==
  LET broken == {i \in DOMAIN rules : rules[i] \in wrong} IN IF broken = {} THEN "none" ELSE rules[Min(broken)]

\* hasCardToken: 13 to 19 digits in one group or in groups of 3 to 6 joined by
\* one kind of separator, that touch no letter.
HasCardToken(text) ==
  \E run \in text.runs : \E i \in DOMAIN run.groups : \E j \in i..Len(run.groups) :
    /\ <<i, j>> \in run.luhn
    /\ FoldLeft(LAMBDA sum, n : sum + n, 0, SubSeq(run.groups, i, j)) \in 13..19
    /\ j > i => \A k \in i..j : run.groups[k] \in 3..6
    /\ \A k \in i..(j - 1) : run.joined[k] = run.joined[i]
    /\ i = 1 => ~run.touchesLeft
    /\ j = Len(run.groups) => ~run.touchesRight

Screened(text) == HasCardToken(text) \/ text.email

\* orderFailure: the rules of the committed order, in the order they are read.
OrderRules ==
  <<"/order", "/order/merchant_id", "/order/merchant_order_id", "/order/currency", "/order/total_minor", "/order/items",
    "item:sku", "item:quantity", "item:unit_price_minor", "item:text", "item:refundable", "item:service">>
OrderFailure(wrong) == FirstOf(OrderRules, wrong)

\* formatFailure: what is not the order.
FormatRules == <<"/order_ref", "/call_seq", "/agent_context/channel", "/agent_context/platform_signature",
                 "/agent_context/payment_token_limits", "/agent_context/agent_name", "/agent_context/mandate">>
FormatFailure(x) == FirstOf(FormatRules, x.wrong)

\* refusedValues: only the items' free text and the agent's name are screened,
\* the name for card numbers only.
RefusedValues(x) == (\E i \in DOMAIN x.items : Screened(x.items[i])) \/ HasCardToken(x.agentName)

\* capFailure, before anything is scanned.
CapFailure(x) ==
  IF \E i \in DOMAIN x.items : x.items[i].long THEN "invalid-order" ELSE IF x.agentName.long THEN "invalid-input" ELSE "none"

\* checkRecordInput: "ok" or the refusal.
CheckRecordInput(x) ==
  Decide(<<When(~x.json \/ x.size = "over", "invalid-input"),
           When(x.extra # {}, "refused-field"),
           When(CapFailure(x) # "none", CapFailure(x)),
           When(RefusedValues(x), "refused-value"),
           When(FormatFailure(x) # "none", "invalid-input"),
           When(OrderFailure(x.wrong) # "none", "invalid-order")>>, "ok")

\* checkGapInput.
CheckGapInput(x) == x.json /\ x.extra = {} /\ x.wrong \cap {"/order_ref", "/call_seq", "reason"} = {}

\* What an accepted input promises: nothing of it is too long or looks like a
\* card number, and nothing the schema does not name is kept.
SafeToKeep(x) ==
  /\ x.json /\ x.size = "within" /\ x.extra = {}
  /\ \A t \in {x.items[i] : i \in DOMAIN x.items} \cup {x.agentName} : ~t.long /\ ~HasCardToken(t)
  /\ \A i \in DOMAIN x.items : ~x.items[i].email
=============================================================================
