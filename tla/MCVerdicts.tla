----------------------------- MODULE MCVerdicts ------------------------------
(* The cases of Verdicts for TLC: each program's facts as they should be, and *)
(* what each field may be changed to.                                         *)
EXTENDS Verdicts

One(r) == {r}
Both == {TRUE, FALSE}

\* ---- evidence bundles: records 0 to 2, of which record 1 is cited
Checkpoint1(count, head) == [shape |-> TRUE, keyed |-> TRUE, signed |-> TRUE, count |-> count, head |-> head]
Receipt1(count, head, at) == [shape |-> TRUE, key |-> "pinned", signed |-> TRUE, mine |-> TRUE, count |-> count, head |-> head, at |-> at]
Kept == Receipt1(2, "log", 5)
Pay1 == [supported |-> TRUE, path |-> "eip3009", pinned |-> TRUE, contract |-> FALSE, signer |-> "payer", sender |-> "sender",
         carrier |-> "eip3009-nonce", elsewhere |-> FALSE, claimed |-> "eip3009-nonce", moves |-> TRUE, code |-> "none"]
CardBundle ==
  [online |-> TRUE, card |-> TRUE, readable |-> TRUE, whole |-> TRUE, declared |-> TRUE, decoded |-> TRUE, keyDocument |-> FALSE,
   pointer |-> "none", entry |-> "cited", authorizer |-> "none", txStated |-> "none", charge |-> 10, match |-> "same", order |-> "ok",
   log |-> "PASS", records |-> 3, seq |-> 1, copy |-> "prefix", profile |-> "chirindo", decision |-> "allow", uri |-> TRUE,
   jwks |-> "holds", served |-> "holds", checkpoints |-> {Checkpoint1(2, "log")}, receipts |-> {Kept},
   list |-> [ok |-> TRUE, receipts |-> {Kept}], failing |-> {}, ins |-> [state |-> "BOUND", reason |-> "none"], grc |-> None,
   names |-> FALSE, pay |-> Pay1]
EvmBundle == [CardBundle EXCEPT !.online = FALSE, !.card = FALSE, !.charge = None, !.authorizer = "payer", !.txStated = "subject"]
CalldataBundle == [EvmBundle EXCEPT !.authorizer = "sender", !.pay = [Pay1 EXCEPT !.path = "calldata", !.carrier = "calldata", !.claimed = "calldata"]]
BundleChanges ==
  [online |-> {FALSE}, readable |-> {FALSE}, whole |-> {FALSE}, decoded |-> {FALSE}, pointer |-> {"match", "mismatch", "unfetchable"},
   entry |-> {"other"}, authorizer |-> {"none", "payer", "sender"}, txStated |-> {"none", "other"}, charge |-> {None, 4, 5},
   match |-> {"differs", "unreferenced"}, order |-> {"bad", "none", "not-carried"}, log |-> {"FAIL", "NE"}, seq |-> {2}, copy |-> {"fork"},
   profile |-> {"annex-b"}, decision |-> {"refuse", "not-read"}, uri |-> {FALSE}, jwks |-> {"none", "lacks"}, served |-> {"lacks", "down"},
   checkpoints |-> {{}, {Checkpoint1(3, "other")}, {Checkpoint1(5, "other")}, {[Checkpoint1(2, "log") EXCEPT !.signed = FALSE]}},
   receipts |-> {{}, {Receipt1(2, "other", 5)}, {Receipt1(5, "other", 5)}, {Kept, Receipt1(3, "log", 12)}},
   list |-> {[ok |-> FALSE, receipts |-> {Kept}], [ok |-> TRUE, receipts |-> {}], [ok |-> TRUE, receipts |-> {Kept, Receipt1(3, "other", 6)}],
             [ok |-> TRUE, receipts |-> {Kept, Receipt1(5, "other", 6)}], [ok |-> TRUE, receipts |-> {Kept, Receipt1(3, "log", 12)}],
             [ok |-> TRUE, receipts |-> {[Kept EXCEPT !.signed = FALSE]}], [ok |-> TRUE, receipts |-> {[Kept EXCEPT !.key = "unknown"]}],
             [ok |-> TRUE, receipts |-> {Kept, [Kept EXCEPT !.mine = FALSE, !.at = 3]}], [ok |-> TRUE, receipts |-> {Receipt1(2, "log", 12)}]},
   failing |-> {{"M5.payment"}, {"M7.receipt"}, {"M9.keys"}},
   ins |-> {[state |-> "EXCEEDS", reason |-> "none"], [state |-> "NOT-EVALUATED", reason |-> "order-field-missing"]},
   grc |-> {[once |-> o, pinned |-> TRUE, at |-> a, cited |-> TRUE, reading |-> "allow"] : o \in Both, a \in {"within", "late"}},
   names |-> {TRUE},
   pay |-> {p \in [supported : {TRUE}, path : {"eip3009", "calldata", "unread"}, pinned : {TRUE}, contract : {FALSE}, signer : {"payer", "other"},
                    sender : {"payer", "sender"}, carrier : {"none", "calldata", "eip3009-nonce"}, elsewhere : {FALSE},
                    claimed : {"calldata", "eip3009-nonce"}, moves : Both, code : {"none", "shown"}] :
            p.path = "calldata" => p.carrier # "eip3009-nonce"}]

\* ---- an ordering case: entries 0 to 4, the source before the destination
Listed1(count, head) == [count |-> count, head |-> head]
OrderingCase ==
  [arguments |-> "sound", broken |-> {}, mode |-> "ordering", online |-> TRUE, answers |-> "equal", files |-> FALSE, filesAgree |-> TRUE,
   call |-> "eip3009", at |-> "nonce", payer |-> "payer", sender |-> "sender", stated |-> "payer", claimed |-> "eip3009-nonce",
   requests |-> TRUE, entriesSigned |-> TRUE, source |-> 1, destination |-> 3, count |-> 4, entries |-> 4,
   listed |-> [supplied |-> TRUE, receipts |-> {Listed1(4, "log")}], keyDocument |-> TRUE, final |-> TRUE, late |-> FALSE]
OrderingBreaks ==
  {"pins", "case", "a.profile", "a.chain-id", "b.source.envelope", "b.destination.uid", "b.source.signature", "b.destination.signer-key",
   "b.source.request-hash", "c.log-key", "c.entries", "c.chain", "c.entry-signatures", "d.checkpoint-shape", "d.checkpoint-signature",
   "e.witness-receipt", "e.online-witness", "f.chain-data", "f.transaction", "f.sender", "f.block", "g.token-domain", "g.authorization",
   "g.token-logs", "g.validity-window", "call"}
OrderingChanges ==
  [arguments |-> {"unsound"}, broken |-> {{id} : id \in OrderingBreaks}, mode |-> {"direct"}, online |-> {FALSE},
   answers |-> {"differ", "few", "unknown"}, files |-> {TRUE}, filesAgree |-> {FALSE},
   call |-> {"plain", "userop", "receive", "not-canonical", "contract-signature"}, at |-> {"none", "calldata", "authorization-word"},
   payer |-> {"sender"}, stated |-> {"none", "sender", "other"}, claimed |-> {"calldata"}, requests |-> {FALSE}, entriesSigned |-> {FALSE},
   source |-> {3, 4}, count |-> {2, 5}, keyDocument |-> {FALSE}, final |-> {FALSE}, late |-> {TRUE},
   listed |-> {[supplied |-> FALSE, receipts |-> {}], [supplied |-> TRUE, receipts |-> {Listed1(4, "log"), Listed1(3, "other")}],
               [supplied |-> TRUE, receipts |-> {Listed1(4, "log"), Listed1(6, "other"), Listed1(6, "third")}]}]

\* ---- payments and keys
Tx == [succeeded |-> TRUE, asset |-> TRUE, payee |-> TRUE, units |-> 5, block |-> 7, time |-> 100]
Shown == {None, Tx, [Tx EXCEPT !.units = 4], [Tx EXCEPT !.payee = FALSE], [Tx EXCEPT !.succeeded = FALSE]}
NodeOf(tx) == [url |-> TRUE, answer |-> "answers", chain |-> "base", shows |-> tx]
Nodes == {NodeOf(tx) : tx \in Shown} \cup {[NodeOf(Tx) EXCEPT !.answer = "down"], [NodeOf(Tx) EXCEPT !.chain = "other"], [NodeOf(Tx) EXCEPT !.url = FALSE]}
PaymentCase ==
  [input |-> "sound", type |-> TRUE, keys |-> "one", signed |-> TRUE, receipt |-> "none", base |-> TRUE, settlement |-> "settled",
   transaction |-> "hash", units |-> 5, nodes |-> <<NodeOf(Tx), NodeOf(Tx)>>, truth |-> Tx]
PaymentChanges ==
  [input |-> {"malformed"}, type |-> {FALSE}, keys |-> {"none", "two"}, signed |-> {FALSE}, receipt |-> {"same", "other", "unreadable"},
   base |-> {FALSE}, settlement |-> {"failed", "pending"}, transaction |-> {"empty", "malformed"}, units |-> {4, 6},
   nodes |-> {<<>>} \cup {<<n>> : n \in Nodes} \cup (Nodes \X Nodes), truth |-> Shown]

Url(https, port, literal, origin) == [https |-> https, port |-> port, literal |-> literal, origin |-> origin]
Home == Url(TRUE, 443, FALSE, "home")
Hop(url, addresses, answer) == [url |-> url, addresses |-> addresses, answer |-> answer]
Jwk(key) == [kid |-> "kid", key |-> key, shape |-> TRUE]
Visit(first, second, document) == [first |-> first, second |-> second, document |-> document]
Document == Hop(Home, {"public"}, "document")
FirstHops == {Hop(Home, {"public"}, a) : a \in {"document", "redirect", "no-location", "bad-location", "down", "not-200"}}
             \cup {Hop(Home, {"public", "private"}, "document"), Hop(Home, {}, "document")}
SecondHops == {Document, Hop(Url(TRUE, 443, FALSE, "away"), {"public"}, "document"), Hop(Home, {"private"}, "document"), Hop(Home, {"public"}, "redirect")}
Documents == {{Jwk("k1")}, {Jwk("k2")}, {Jwk("k1"), Jwk("k2")}, {[Jwk("k1") EXCEPT !.shape = FALSE]}, {}}
Visits == {Visit(f, s, d) : f \in FirstHops, s \in SecondHops, d \in Documents}
JwksCase == [kid |-> "kid", served |-> <<Visit(Document, Document, {Jwk("k1")})>>]
JwksChanges ==
  [kid |-> {"gone"}, served |-> {<<Visit(Document, Document, {Jwk("k1")}), v>> : v \in Visits}
     \cup {<<v, Visit(Document, Document, {Jwk("k2")})>> : v \in Visits}
     \cup {<<Visit(Hop(Url(h, p, l, "home"), {"public"}, "document"), Document, {Jwk("k1")})>> : h \in Both, p \in {443, 80}, l \in Both}]

Offered(network, amount) == [scheme |-> "exact", network |-> network, asset |-> "usdc", amount |-> amount]
Exchange ==
  [key |-> [scheme |-> "exact", network |-> "eip155:84532", facilitator |-> "x402org"], index |-> 0,
   requirements |-> [offers |-> <<Offered("eip155:84532", "1000"), Offered("base-sepolia", "2000")>>, url |-> "url"],
   payload |-> [value |-> "1000"], settle |-> [transaction |-> "0x"]]
ExchangeChanges ==
  [key |-> {[Exchange.key EXCEPT !.facilitator = "coinbase-cdp", !.network = n] : n \in {"base-sepolia", "eip155:84532"}}
           \cup {[Exchange.key EXCEPT !.facilitator = "unknown"]}, index |-> {-1, 1, 2},
   requirements |-> {None, Malformed, [Exchange.requirements EXCEPT !.offers = None], [Exchange.requirements EXCEPT !.url = Malformed]}
                    \cup {[Exchange.requirements EXCEPT !.offers[1].amount = v] : v \in {None, Malformed, "2000"}},
   payload |-> {None, Malformed, [value |-> None], [value |-> Malformed], [value |-> "2000"]}, settle |-> {None, Malformed, [transaction |-> None], [transaction |-> Malformed]}]

\* ---- approvals: a minute is two milliseconds, four halves
Shop == [scheme |-> "https", userinfo |-> FALSE, origin |-> "shop"]
Approval(kind) ==
  [kind |-> kind, object |-> TRUE, amount |-> 15000, currency |-> "USD", url |-> Shop, scope |-> "listed", entries |-> 1, minutes |-> 2, charges |-> 2, ends |-> 12,
   status |-> IF kind = "reap" THEN "ACTIVE" ELSE "pay_per_use",
   options |-> [key |-> "ed25519", agents |-> {"agent"}, maxUses |-> 1, approvedAt |-> 5, iat |-> None]]
Approvals == {Approval(k) : k \in {"crossmint", "basis-theory", "prava", "reap", "skyfire"}}
ApprovalChanges ==
  [object |-> {FALSE}, amount |-> {Malformed, 0, 15005, 15009}, currency |-> {"JPY", "XXX"},
   url |-> {None, Malformed, [Shop EXCEPT !.scheme = "ftp"], [Shop EXCEPT !.userinfo = TRUE]}, scope |-> {"any", "all"}, entries |-> {0, 2}, minutes |-> {Malformed, 1, 9},
   charges |-> {None, Malformed, 1}, ends |-> {None, Malformed, 11, 13, 90}, status |-> {"PAUSED"},
   options |-> {[Approval("reap").options EXCEPT !.maxUses = u] : u \in {Malformed, 2, 3}} \cup {[Approval("reap").options EXCEPT !.approvedAt = t] : t \in {None, 4}}
               \cup {[Approval("reap").options EXCEPT !.key = "rsa"], [Approval("reap").options EXCEPT !.agents = {}], [Approval("reap").options EXCEPT !.iat = Malformed]}]

\* ---- purchases, record input and requests
Clean == [long |-> FALSE, email |-> FALSE, runs |-> {}]
CardRun == [groups |-> <<4, 4, 4, 4>>, joined |-> <<"-", "-", "-">>, luhn |-> {<<1, 4>>}, touchesLeft |-> FALSE, touchesRight |-> FALSE]
Texts == {[Clean EXCEPT !.runs = {CardRun}], [Clean EXCEPT !.runs = {[CardRun EXCEPT !.joined = <<"-", " ", "-">>]}],
          [Clean EXCEPT !.runs = {[CardRun EXCEPT !.touchesRight = TRUE]}], [Clean EXCEPT !.runs = {[CardRun EXCEPT !.groups = <<16>>, !.joined = <<>>, !.luhn = {<<1, 1>>}]}],
          [Clean EXCEPT !.long = TRUE], [Clean EXCEPT !.email = TRUE]}
InputCase == [json |-> TRUE, size |-> "within", extra |-> {}, wrong |-> {}, items |-> <<Clean, Clean>>, agentName |-> Clean]
InputChanges ==
  [json |-> {FALSE}, size |-> {"over"}, extra |-> {{"/note"}}, wrong |-> {{r} : r \in {"/order", "/call_seq", "item:sku", "/order_ref"}},
   items |-> {<<>>} \cup {<<t, Clean>> : t \in Texts} \cup {<<Clean, t>> : t \in Texts}, agentName |-> Texts]

Item == [price |-> 3, sku |-> "a", category |-> "c", refundable |-> TRUE, from |-> 2, until |-> 4, location |-> "l"]
Items == {<<>>, <<Item, [Item EXCEPT !.price = 9]>>, <<Item, [Item EXCEPT !.price = None]>>, <<[Item EXCEPT !.sku = "b"]>>, <<Item, [Item EXCEPT !.sku = None]>>,
          <<[Item EXCEPT !.refundable = None]>>, <<Item, [Item EXCEPT !.refundable = FALSE]>>, <<[Item EXCEPT !.until = 9]>>, <<Item, [Item EXCEPT !.from = None]>>,
          <<[Item EXCEPT !.location = "m"]>>}
NoLimits == [l \in ItemLimits \cup OrderLimits |-> None]
AllLimits ==
  [NoLimits EXCEPT !["currency"] = "GBP", !["max_total_minor"] = 10, !["merchants"] = {"m"}, !["max_unit_price_minor"] = 5, !["items"] = {"a"},
                   !["categories"] = {"c"}, !["refundable_only"] = TRUE, !["service_window"] = [from |-> 1, until |-> 5], !["locations"] = {"l"}]
PurchaseOrder == [currency |-> "GBP", total |-> 8, merchant |-> "m", items |-> <<Item>>]
PurchaseCase ==
  [reading |-> "ok", plain |-> TRUE, wrong |-> {}, texts |-> <<Clean>>, m6 |-> {}, unsupported |-> {}, calendar |-> TRUE, card |-> AllLimits,
   order |-> PurchaseOrder, valid |-> [from |-> 1, until |-> 9], at |-> 5, kid |-> "agent", agents |-> {"agent"}, maxUses |-> None, usesSoFar |-> 0]
PurchaseChanges ==
  [reading |-> {"duplicate-member"}, plain |-> {FALSE}, wrong |-> {{"item:sku"}}, texts |-> {<<Clean, t>> : t \in Texts},
   m6 |-> {{r} : r \in {"bad-signature", "bad-card", "time-not-z"}}, unsupported |-> {{"per_day"}}, calendar |-> {FALSE},
   card |-> {NoLimits} \cup {[AllLimits EXCEPT ![l] = None] : l \in DOMAIN AllLimits} \cup {[AllLimits EXCEPT !["refundable_only"] = FALSE]},
   order |-> {[PurchaseOrder EXCEPT !.items = its] : its \in Items}
             \cup {[PurchaseOrder EXCEPT !.currency = "EUR"], [PurchaseOrder EXCEPT !.total = 11], [PurchaseOrder EXCEPT !.merchant = "n"]},
   valid |-> {[from |-> 6, until |-> 9], [from |-> 1, until |-> 4], [from |-> 5, until |-> 5]}, kid |-> {"stranger"}, maxUses |-> {2}, usesSoFar |-> {1, 2}]

HttpCase(server) ==
  [server |-> server, host |-> TRUE, path |-> IF server = "trial" THEN "/record" ELSE "/v1/check", method |-> "POST", token |-> TRUE, auth |-> "right",
   typed |-> TRUE, body |-> "ok", result |-> IF server = "trial" THEN "ok" ELSE "receipt"]
HttpChanges(server) ==
  [host |-> {FALSE}, path |-> {"/record", "/await", "/gap", "/health", "/v1/check", "/other"}, method |-> {"GET"}, auth |-> {"none", "wrong"},
   token |-> IF server = "trial" THEN {FALSE} ELSE {}, typed |-> {FALSE}, body |-> {"large", "not-json", "not-utf8", "shapeless"},
   result |-> IF server = "trial" THEN {"caller", "timeout", "stopped", "throws"} ELSE {"record-failed", "no-receipt", "throws"}]

\* ---- instructions, as the purchase check and the evidence verifier read them
When1(n) == [reads |-> TRUE, calendar |-> TRUE, text |-> n, ms |-> n]
Rolls(n) == [When1(n) EXCEPT !.calendar = FALSE, !.ms = n + 3]
PayLimits == ("chain_id" :> "base") @@ ("asset" :> "usdc") @@ ("max_amount" :> 10) @@ ("payees" :> {"p"})
CardInstruction ==
  [flaws |-> {}, exact |-> TRUE, v |-> "0.3", key |-> "ed25519", thumbprint |-> TRUE, agents |-> {"agent"}, text |-> "text",
   constraints |-> [exact |-> TRUE, payment |-> <<>>, budget |-> None, maxUses |-> 2, card |-> AllLimits, from |-> When1(2), until |-> When1(8)],
   iat |-> When1(1), sig |-> "holds"]
PayInstruction == [CardInstruction EXCEPT !.v = "0.2", !.constraints.payment = PayLimits, !.constraints.card = None]
PurchaseInstructions ==
  {CardInstruction} \cup {[CardInstruction EXCEPT !.flaws = {f}] : f \in {"bom", "not-a-string", "too-large"}}
  \cup {[CardInstruction EXCEPT !.constraints = c] : c \in
          LET C == CardInstruction.constraints IN
          {[C EXCEPT !.exact = FALSE], [C EXCEPT !.payment = PayLimits], [C EXCEPT !.payment = "asset" :> "usdc"], [C EXCEPT !.payment = [PayLimits EXCEPT !["payees"] = Malformed]],
           [C EXCEPT !.budget = 5], [C EXCEPT !.budget = Malformed], [C EXCEPT !.maxUses = None], [C EXCEPT !.maxUses = 0], [C EXCEPT !.card = None], [C EXCEPT !.card["items"] = Malformed],
           [C EXCEPT !.card = [NoLimits EXCEPT !["currency"] = "GBP"]], [C EXCEPT !.card = [NoLimits EXCEPT !["currency"] = "GBP", !["refundable_only"] = FALSE]],
           [C EXCEPT !.from = Rolls(2)], [C EXCEPT !.from = Rolls(6)], [C EXCEPT !.until = Malformed], [C EXCEPT !.until = [When1(8) EXCEPT !.reads = FALSE]]}}
  \cup {[CardInstruction EXCEPT !.v = "0.2"], [CardInstruction EXCEPT !.agents = {}], [CardInstruction EXCEPT !.iat = Rolls(1)], [CardInstruction EXCEPT !.sig = "breaks"],
         [CardInstruction EXCEPT !.sig = Malformed], [CardInstruction EXCEPT !.thumbprint = FALSE]}
Carried(profile, i) == [profile |-> profile, i |-> i, digest |-> IF profile \in {"0.2", "0.3"} THEN "D" ELSE "V"]
CardShown(i) ==
  [i |-> i, order |-> PurchaseOrder, kid |-> "agent", at |-> When1(5), usesSoFar |-> 1, subject |-> "card", members |-> <<Carried("0.3", i)>>, cited |-> "D", arguments |-> TRUE,
   charge |-> [order |-> PurchaseOrder, orderOk |-> TRUE, kid |-> "agent", at |-> When1(5)], pv |-> None, unread |-> FALSE, logs |-> <<<<"D", "D">>>>]
Paid(asset, payee, amount) == [asset |-> asset, payee |-> payee, amount |-> amount]
Payment1(moves) == [chain |-> "base", movements |-> moves, ms |-> 5, kid |-> "agent"]
PayShown(i, profile) ==
  [CardShown(i) EXCEPT !.subject = "payment", !.members = <<Carried(profile, i)>>, !.charge = None, !.pv = Payment1(<<Paid("usdc", "p", 4), Paid("usdc", "p", 6)>>), !.logs = <<<<"D">>>>]
InstructionCases == {CardShown(i) : i \in PurchaseInstructions} \cup {PayShown(PayInstruction, "0.2"), PayShown(CardInstruction, "0.3"), PayShown([CardInstruction EXCEPT !.constraints.payment = PayLimits], "0.3")}
InstructionChanges ==
  [order |-> {[PurchaseOrder EXCEPT !.items = its] : its \in {<<Item, [Item EXCEPT !.sku = "b"]>>, <<Item, [Item EXCEPT !.category = None]>>}} \cup {[PurchaseOrder EXCEPT !.total = 11]},
   kid |-> {"stranger"}, at |-> {When1(1), When1(9)}, usesSoFar |-> {0, 2}, cited |-> {None, "V"}, arguments |-> {FALSE}, unread |-> {TRUE},
   members |-> {<<>>, <<Carried("vi-0.1", None)>>, <<Carried("vi-0.1", None), Carried("0.3", CardInstruction)>>, <<Carried("0.2", PayInstruction), Carried("0.3", CardInstruction)>>,
                <<[Carried("0.3", CardInstruction) EXCEPT !.digest = "E"], Carried("0.2", PayInstruction)>>, <<Carried("0.2", [PayInstruction EXCEPT !.constraints.budget = 9])>>,
                <<Carried("0.2", [PayInstruction EXCEPT !.constraints.budget = Malformed])>>, <<Carried("0.2", [PayInstruction EXCEPT !.sig = "breaks"]), Carried("0.3", CardInstruction)>>},
   charge |-> {None} \cup {[CardShown(CardInstruction).charge EXCEPT !.order = None, !.orderOk = FALSE]}
              \cup {[CardShown(CardInstruction).charge EXCEPT !.order = o] : o \in {[PurchaseOrder EXCEPT !.total = 11, !.items[1].category = None], [PurchaseOrder EXCEPT !.items[1].sku = "b"], [PurchaseOrder EXCEPT !.items = <<Item, [Item EXCEPT !.category = None]>>]}}
              \cup {[CardShown(CardInstruction).charge EXCEPT !.kid = "stranger"], [CardShown(CardInstruction).charge EXCEPT !.at = When1(9)]},
   pv |-> {None} \cup {Payment1(<<Paid("usdc", "p", 4), m>>) : m \in {Paid("usdc", "p", 7), Paid("usdc", "q", 1), Paid("dai", "p", 1)}}
          \cup {[Payment1(<<Paid("usdc", "p", 4)>>) EXCEPT !.kid = "stranger"], [Payment1(<<>>) EXCEPT !.ms = 9]},
   logs |-> {<<<<"D">>>>, <<<<"D", "D">>, <<"D">>>>, <<<<"D", "D", "D">>>>}]

\* ---- commands
F(n) == [kind |-> "flag", flag |-> n, value |-> "none"]
E(n, v) == [kind |-> "eq", flag |-> n, value |-> v]
W(v) == [kind |-> "word", flag |-> "none", value |-> v]
Sep == [kind |-> "sep", flag |-> "none", value |-> "none"]
FW(n, v) == <<F(n), W(v)>>

Draft(by, event, ts) ==
  [seq |-> 0, v |-> "v1", uri |-> "none", thumb |-> by, kid |-> by, ts |-> ts, event |-> event, commit |-> event, paid |-> "none", output |-> TRUE, prev |-> None]
Chain1(by) == <<Sealed(<<>>, Draft(by, "e1", 1), by)>>
Chain2(by) == Append(Chain1(by), Sealed(Chain1(by), Draft(by, "e2", 2), by))
Hosted == <<Sealed(<<>>, [Draft("key", "e1", 1) EXCEPT !.uri = "https"], "key")>>
Undelivered == <<Sealed(<<>>, [Draft("key", "e1", 1) EXCEPT !.paid = "ref", !.output = FALSE], "key")>>
Edited == [Chain2("key") EXCEPT ![2].event = "e3", ![2].commit = "e3"]
Dropped == <<Chain2("key")[2]>>
Replaced == <<Sealed(<<>>, Draft("key", "e3", 1), "key"), Chain2("key")[2]>>
Garbage == <<[kind |-> "garbage"]>>
Lines1 == {<<>>, Garbage, Edited, Dropped, Replaced, Chain2("other"), Hosted, Undelivered, Append(Chain2("key"), Checkpoint(Chain1("key"), "key"))}

\* logs as both verifiers read them: what an operator signs, and what is done to it
Old(by) == [Draft(by, "e1", 1) EXCEPT !.v = "v0", !.prev = GenesisPrevHash("v0")]
Second(by) == [Chain2(by)[2] EXCEPT !.uri = "none"]
Resigned(r, by) == Record(Content(r), by)
LogCase == [lines |-> Chain2("key"), odd |-> {}, legacy |-> {"old"}, operator |-> {[thumb |-> "key", ed25519 |-> TRUE, canonical |-> TRUE]}]
LogLines ==
  Lines1 \cup {Chain2("old"), Chain2("key") \o Garbage, Append(Chain2("key"), Checkpoint(Chain2("key"), "key")), Append(Chain2("key"), Checkpoint(Chain2("key"), "other")),
    Append(Chain2("key"), Checkpoint(Hosted \o Hosted, "key")),
    <<Checkpoint(Chain1("key"), "key")>> \o Chain2("key"), <<Resigned(Old("key"), "key")>>, <<Resigned([Old("key") EXCEPT !.uri = "insecure"], "key")>>}
  \cup {<<Chain1("key")[1], Resigned(r, "key")>> :
          r \in LET R == Second("key") IN {[R EXCEPT !.ts = 0], [R EXCEPT !.ts = Unreadable], [R EXCEPT !.uri = "https"], [R EXCEPT !.thumb = "other"], [R EXCEPT !.kid = "other"],
                                           [R EXCEPT !.v = "v0"], [R EXCEPT !.v = "v2"], [R EXCEPT !.commit = "e3"], [R EXCEPT !.seq = 2]}}
LogChanges ==
  [lines |-> LogLines, odd |-> {{<<i, r>>} : i \in {1, 2}, r \in OddRules}, legacy |-> {{}, {"key"}},
   operator |-> {{}, {[thumb |-> "other", ed25519 |-> TRUE, canonical |-> TRUE]}, {[thumb |-> "key", ed25519 |-> FALSE, canonical |-> TRUE]}}]

Witnessed(lines, n, by) == [count |-> n, hash |-> EntryHash(lines[n]), fork |-> "false", id |-> "id", by |-> by, chain |-> TRUE]
Page(receipts, next) == [ok |-> TRUE, next |-> next, receipts |-> receipts]
VerifyArgs ==
  {<<W("chain")>>} \cup {<<W("chain")>> \o a : a \in
    {FW("jwks", "url"), FW("key", "file") \o FW("jwks", "url"), <<F("key")>>, <<E("key", "file")>>,
     FW("key", "file") \o FW("expect-thumbprint", "key"), FW("key", "file") \o FW("expect-thumbprint", "other"),
     FW("key", "file") \o <<F("expect-thumbprint")>>, FW("key", "file") \o FW("trust-file", "file"), FW("key", "file") \o <<F("trust-file")>>,
     FW("key", "file") \o FW("trust-file", "file") \o <<E("expect-thumbprint", "key")>>, FW("key", "file") \o <<F("allow-unproven-delivery")>>,
     FW("key", "file") \o FW("witness", "url") \o FW("witness-key", "hex"), FW("key", "file") \o FW("witness", "url"),
     FW("key", "file") \o FW("witness-file", "file") \o FW("witness-key", "hex"), FW("key", "file") \o FW("witness-file", "file"),
     FW("key", "file") \o FW("witness-account-key-file", "file")}}
     \cup {<<F("allow-unproven-delivery"), W("chain"), F("key"), W("file")>>, <<>>, <<F("key"), W("chain")>>}
VerifyCase ==
  [argv |-> <<W("chain")>> \o FW("key", "file"), lines |-> Chain2("key"), identity |-> "key", env |-> FALSE,
   published |-> [s \in {"flag", "receipt-jwks", "env", "default"} |-> "key"], trustReads |-> TRUE, trusted |-> {"key"}, base |-> TRUE, pin |-> TRUE,
   sidecar |-> "reads", sidecarReceipts |-> {Witnessed(Chain2("key"), 2, "witness")}, witnessKey |-> "witness", witnessKeys |-> {[id |-> "id", key |-> "witness"]},
   pages |-> <<Page({Witnessed(Chain2("key"), 1, "witness")}, "1"), Page({Witnessed(Chain2("key"), 2, "witness")}, "none")>>]
VerifyChanges ==
  [argv |-> VerifyArgs, lines |-> Lines1, identity |-> {"none", "other"}, env |-> {TRUE},
   published |-> {[VerifyCase.published EXCEPT ![s] = k] : s \in DOMAIN VerifyCase.published, k \in {"none", "other"}},
   trustReads |-> {FALSE}, trusted |-> {{"other"}, {"key", "other"}}, base |-> {FALSE}, pin |-> {FALSE}, sidecar |-> {"unreadable"},
   sidecarReceipts |-> {{}, {Witnessed(Chain2("other"), 2, "witness")}, {Witnessed(Chain2("key"), 2, "other")}}, witnessKey |-> {"other"},
   pages |-> {<<Page({}, "none")>>, <<Page({Witnessed(Chain2("key"), 1, "witness")}, "1"), Page({}, "1")>>,
              <<Page({Witnessed(Chain2("key"), 1, "witness")}, "1"), Page({}, "2"), Page({}, "none")>>,
              <<[Page({Witnessed(Chain2("key"), 1, "witness")}, "none") EXCEPT !.ok = FALSE]>>}]

Reply == [net |-> "answers", status |-> 201, body |-> "strings", code |-> FALSE, key |-> "witness", signed |-> "witness", matches |-> TRUE]
WorldOf(argv) == [argv |-> argv, base |-> TRUE, pin |-> TRUE, accountFile |-> "key", accountEnv |-> "unset", identity |-> "key"]
WitnessArgs == FW("witness", "url") \o FW("witness-key", "hex")
TargetArgs == {WitnessArgs, FW("witness-name", "n"), WitnessArgs \o <<F("witness-account-key-file")>>, WitnessArgs \o FW("witness-account-key-file", "f"), <<F("witness-account-key")>>}
TargetChanges == [base |-> {FALSE}, pin |-> {FALSE}, accountFile |-> {"unreadable", "malformed", "the-key-itself"}, accountEnv |-> {"key", "malformed"}, identity |-> {"none", "other"}]

CheckpointCase == WorldOf(<<W("chain")>>) @@ [lines |-> Chain2("key"), sidecar |-> "reads", atHead |-> "none", legacyKid |-> FALSE, reply |-> Reply]
CheckpointChanges ==
  TargetChanges @@ [argv |-> {<<>>} \cup {<<W("chain")>> \o a : a \in TargetArgs}, lines |-> Lines1, sidecar |-> {"unreadable"},
    atHead |-> {"bare", "witnessed"}, legacyKid |-> {TRUE},
    reply |-> {[Reply EXCEPT !.net = "timeout"], [Reply EXCEPT !.net = "down"], [Reply EXCEPT !.status = 400, !.code = TRUE], [Reply EXCEPT !.status = 500],
               [Reply EXCEPT !.body = "other"], [Reply EXCEPT !.key = "none"], [Reply EXCEPT !.signed = "other"], [Reply EXCEPT !.matches = FALSE]}]

ProxyArgs == FW("policy", "file") \o FW("server-label", "name")
ProxyCase == WorldOf(ProxyArgs \o <<Sep, W("server")>>) @@ [writable |-> TRUE, policy |-> TRUE]
ProxyChanges ==
  TargetChanges @@ [writable |-> {FALSE}, policy |-> {FALSE},
    argv |-> {<<>>, ProxyArgs, ProxyArgs \o FW("dir", "d") \o <<F("dir"), Sep, W("server")>>, <<Sep>> \o ProxyArgs} \cup {ProxyArgs \o a \o <<Sep, W("server")>> : a \in TargetArgs
      \cup {FW("jwks-uri", "https"), FW("jwks-uri", "http"), FW("checkpoint-every", "positive"), FW("checkpoint-every", "zero"), <<F("checkpoint-every")>>,
            <<F("allow-nonstandard-tool-names")>>, <<E("allow-nonstandard-tool-names", "yes")>>}}]

DaemonArgs(c) == IF c = "trial-recorder" THEN FW("server-label", "name") ELSE FW("token-file", "file")
DaemonCases == {WorldOf(DaemonArgs(c)) @@ [command |-> c, token |-> "text", opens |-> TRUE, listens |-> TRUE, signalled |-> FALSE] : c \in {"trial-recorder", "purchase-check"}}
DaemonChanges ==
  TargetChanges @@ [token |-> {"unreadable", "empty"}, opens |-> {FALSE}, listens |-> {FALSE}, signalled |-> {TRUE},
    argv |-> {<<>>} \cup {DaemonArgs(c) \o a : c \in {"trial-recorder", "purchase-check"}, a \in TargetArgs
      \cup {<<F("dir")>>, FW("host", "loopback"), FW("host", "0.0.0.0"), FW("port", "port"), FW("port", "x"), FW("jwks-uri", "http"), FW("jwks-uri", "https"), <<F("token-file")>>, FW("token-file", "file")}}]

EraseCase == [argv |-> FW("args-hash", "hash"), unreadable |-> FALSE]
EraseChanges ==
  [unreadable |-> {TRUE}, argv |-> {<<>>, FW("args-hash", "md5"), FW("order-ref", "printable"), FW("order-ref", "binary"), <<F("order-ref")>>,
                                    FW("args-hash", "hash") \o FW("order-ref", "printable")}]
PayCase ==
  [argv |-> <<W("verify"), W("attestation")>> \o FW("rpc", "url") \o FW("pay-to", "0x"), attestation |-> TRUE, receiptReads |-> TRUE, keysRead |-> TRUE, payment |-> 0]
PayChanges ==
  [attestation |-> {FALSE}, receiptReads |-> {FALSE}, keysRead |-> {FALSE}, payment |-> {1, 2},
   argv |-> {<<W("verify")>>, PayCase.argv \o <<F("keys")>>, PayCase.argv \o FW("keys", "file"), PayCase.argv \o FW("keys", "url"), PayCase.argv \o FW("receipt", "file"),
             <<W("verify"), W("attestation")>> \o FW("rpc", "url"), <<W("verify"), W("attestation")>> \o FW("pay-to", "0x"), <<W("verify"), W("attestation"), F("rpc"), F("pay-to"), W("0x")>>,
             <<W("attestation"), W("verify")>> \o FW("rpc", "url") \o FW("pay-to", "0x"), <<W("verify")>> \o PayCase.argv}]
PackedArgs == FW("dir", "d") \o FW("out", "o") \o FW("instructions-dir", "i") \o FW("request-file", "r") \o FW("consent-file", "c") \o FW("provider-key", "p")
PackedCase == [argv |-> PackedArgs \o FW("instruction", "sha"), pin |-> TRUE, base |-> TRUE, outExists |-> FALSE, built |-> 0, writable |-> TRUE]
PackedChanges ==
  [pin |-> {FALSE}, base |-> {FALSE}, outExists |-> {TRUE}, built |-> 2..7, writable |-> {FALSE},
   argv |-> {PackedArgs, PackedArgs \o FW("from", "a"), PackedArgs \o FW("from", "a") \o FW("to", "b"), PackedArgs \o FW("order-ref", "m:o"), PackedArgs \o FW("order-ref", "malformed"), PackedArgs \o FW("order-ref", "m:o") \o FW("instruction", "sha")}
            \cup {PackedCase.argv \o a : a \in {FW("key", "k") \o FW("jwks", "https"), FW("jwks", "http"), FW("witness", "url"), FW("witness", "url") \o FW("witness-key", "hex"),
                    FW("witness", "url") \o FW("witness-key", "hex") \o FW("witness-name", "n"), FW("witness-key", "hex"), <<F("witness-file-only")>> \o FW("witness-key", "hex"), <<F("out")>>}}]

\* ---- issuer packs and releases
Decided(picked, instruction, args) == [picked |-> picked, instruction |-> instruction, args |-> args]
PackChain(decisions) == [empty |-> FALSE, reads |-> TRUE, decisions |-> decisions, others |-> FALSE, verdict |-> "valid", paid |-> TRUE, listed |-> {1}, copied |-> {1}, carried |-> {1}]
Mine1 == PackChain(<<Decided(TRUE, "i", "committed"), Decided(FALSE, "i", "committed")>>)
Chains1 == {[Mine1 EXCEPT !.reads = FALSE], [Mine1 EXCEPT !.empty = TRUE], [Mine1 EXCEPT !.others = TRUE], [Mine1 EXCEPT !.verdict = "tampered"], [Mine1 EXCEPT !.paid = FALSE],
            [Mine1 EXCEPT !.copied = {1, 3}], [Mine1 EXCEPT !.listed = {3}], [Mine1 EXCEPT !.carried = {1, 3}], [Mine1 EXCEPT !.copied = None, !.carried = None],
            PackChain(<<Decided(TRUE, "i", "missing")>>), PackChain(<<Decided(TRUE, "i", "other")>>), PackChain(<<Decided(TRUE, "j", "committed")>>),
            PackChain(<<Decided(TRUE, "i", "committed"), Decided(FALSE, "j", "committed")>>), PackChain(<<Decided(FALSE, "j", "committed")>>)}
PackCase ==
  [bad |-> {}, chains |-> <<Mine1>>, witness |-> "sidecar", instructions |-> {"i"}, principal |-> TRUE, consents |-> {"i"}, consentMissingOk |-> FALSE,
   allowFailed |-> FALSE, fits |-> TRUE, wrong |-> {}, signed |-> TRUE, zip |-> TRUE]
PackChanges ==
  [bad |-> {{"now"}, {"provider-key"}}, chains |-> {<<>>} \cup {<<c>> : c \in Chains1} \cup {<<Mine1, c>> : c \in Chains1}, witness |-> {"none", "online"},
   instructions |-> {{}}, principal |-> {FALSE}, consents |-> {{}}, consentMissingOk |-> {TRUE}, allowFailed |-> {TRUE}, fits |-> {FALSE},
   wrong |-> {{"pack.json"}}, signed |-> {FALSE}, zip |-> {FALSE}]

Artifact ==
  [installs |-> TRUE, files |-> Gate!RequiredFiles \cup {"receipt"}, surface |-> Gate!RequiredSurface, version |-> "new", agent |-> "new", installed |-> 3, boot |-> 2,
   vectors |-> TRUE, identity |-> "kid", exported |-> "kid", exports |-> TRUE, forbidden |-> {}, cr |-> FALSE]
Run(n, s, c) == [name |-> n, status |-> s, conclusion |-> c, commit |-> "same"]
Answer1(rows) == [http |-> 200, json |-> TRUE, shape |-> TRUE, total |-> Cardinality(rows), rows |-> rows]
Green == {Run(n, "completed", "success") : n \in Gate!Expected}
Answers ==
  {Answer1(rows) : rows \in {Green, {}, Green \ {Run("scan", "completed", "success")}, Green \cup {Run("scan", "completed", "failure")},
                             Green \cup {Run("audit", "queued", "none")}, Green \cup {[Run("audit", "completed", "success") EXCEPT !.commit = "other"]}}}
  \cup {[Answer1(Green) EXCEPT !.http = 403], [Answer1(Green) EXCEPT !.http = 502], [Answer1(Green) EXCEPT !.json = FALSE], [Answer1(Green) EXCEPT !.shape = FALSE],
        [Answer1(Green) EXCEPT !.total = 101]}
CiCase ==
  [unknown |-> FALSE, spec |-> "none", seconds |-> "positive", commit |-> "sha", fixture |-> FALSE, noTagCheck |-> FALSE, api |-> None, expect |-> None, declared |-> "new",
   artifact |-> Artifact, harness |-> TRUE, tag |-> "sha", maxPolls |-> 2, answers |-> <<Answer1({}), Answer1(Green)>>]
ReleaseCases == {CiCase, [CiCase EXCEPT !.commit = None]}
ReleaseChanges ==
  [unknown |-> {TRUE}, spec |-> {"missing"}, seconds |-> {"zero"}, commit |-> {"short"}, fixture |-> {TRUE}, noTagCheck |-> {TRUE}, api |-> {"loopback", "public"},
   expect |-> {"old"}, declared |-> {"newer"}, harness |-> {FALSE}, tag |-> {"other", "none"}, answers |-> Answers \X Answers,
   artifact |-> {[Artifact EXCEPT !.installs = FALSE], [Artifact EXCEPT !.files = {"recorder", "receipt"}], [Artifact EXCEPT !.surface = {"jcs"}],
                 [Artifact EXCEPT !.surface = @ \ {"paymentRef"}], [Artifact EXCEPT !.version = "old"], [Artifact EXCEPT !.agent = "old"], [Artifact EXCEPT !.installed = 100],
                 [Artifact EXCEPT !.boot = 1], [Artifact EXCEPT !.vectors = FALSE], [Artifact EXCEPT !.exported = "other"], [Artifact EXCEPT !.exports = FALSE],
                 [Artifact EXCEPT !.forbidden = {"test"}], [Artifact EXCEPT !.cr = TRUE]}]

MCGenuine ==
  ("bundle" :> {CardBundle, EvmBundle, CalldataBundle}) @@ ("ordering" :> {OrderingCase}) @@ ("payment" :> {PaymentCase}) @@ ("jwks" :> {JwksCase}) @@ ("payment-ref" :> {Exchange}) @@ ("mapper" :> Approvals) @@ ("instruction" :> InstructionCases) @@ ("log" :> {LogCase})
  @@ ("purchase" :> {PurchaseCase}) @@ ("input" :> {InputCase}) @@ ("trial-http" :> {HttpCase("trial")}) @@ ("purchase-http" :> {HttpCase("purchase")}) @@ ("verify" :> {VerifyCase}) @@ ("checkpoint" :> {CheckpointCase})
  @@ ("proxy" :> {ProxyCase}) @@ ("daemon" :> DaemonCases) @@ ("erase" :> {EraseCase}) @@ ("pay" :> {PayCase}) @@ ("packed" :> {PackedCase})
  @@ ("pack" :> {PackCase}) @@ ("release" :> ReleaseCases)
MCAlternatives ==
  ("bundle" :> BundleChanges) @@ ("ordering" :> OrderingChanges) @@ ("payment" :> PaymentChanges) @@ ("jwks" :> JwksChanges) @@ ("payment-ref" :> ExchangeChanges) @@ ("mapper" :> ApprovalChanges) @@ ("instruction" :> InstructionChanges) @@ ("log" :> LogChanges)
  @@ ("purchase" :> PurchaseChanges) @@ ("input" :> InputChanges) @@ ("trial-http" :> HttpChanges("trial")) @@ ("purchase-http" :> HttpChanges("purchase")) @@ ("verify" :> VerifyChanges) @@ ("checkpoint" :> CheckpointChanges)
  @@ ("proxy" :> ProxyChanges) @@ ("daemon" :> DaemonChanges) @@ ("erase" :> EraseChanges) @@ ("pay" :> PayChanges) @@ ("packed" :> PackedChanges)
  @@ ("pack" :> PackChanges) @@ ("release" :> ReleaseChanges)
MCMaxAlterations == [p \in DOMAIN MCGenuine |-> IF p \in {"bundle", "ordering", "instruction"} THEN 2 ELSE 3]
=============================================================================
