---------------------------- MODULE JwksResolve -----------------------------
(***************************************************************************)
(* Resolving a key at a jwks_uri, src/vendor/recorder/jwks.ts: the targets   *)
(* that are refused, the redirect that is followed, the documents that are   *)
(* read and the cache of one process.                                        *)
(*                                                                          *)
(* A hop is [url, addresses, answer]: the URL [https, port, literal, origin],*)
(* what its name resolves to, and what the server answers.  A document is a  *)
(* set of keys [kid, key, shape, copy].                                      *)
(***************************************************************************)
EXTENDS Integers, FiniteSets, Checks

Failed(kind) == [ok |-> FALSE, kind |-> kind]
Key(k) == [ok |-> TRUE, key |-> k]

\* isPrivateAddress: an address that embeds another is classified by that one,
\* and what cannot be classified is private.
IsPrivate(address) == address # "public"

\* validateFetchTarget
TargetError(url) ==
  Decide(<<When(~url.https, "non_https"), When(url.port # 443, "forbidden_port"), When(url.literal, "ip_literal_host")>>, "none")

\* guardedLookup: one private address among the answers refuses them all.
LookupError(addresses) ==
  Decide(<<When(\E a \in addresses : IsPrivate(a), "private_address"), When(addresses = {}, "fetch_failed")>>, "none")

\* What may be served at a URL: a hop, the one it may send to, and a document.
HopAnswers == {"down", "late", "redirect", "no-location", "bad-location", "not-200", "not-json-type", "over-64k", "malformed", "document"}
Redirects == {"redirect", "no-location", "bad-location"}
IsVisit(s) == s.first.answer \in HopAnswers /\ s.second.answer \in HopAnswers /\ IsFiniteSet(s.document)

\* What one hop's answer is worth: "follow", "document" or why not.
Answer(hop, next, left) ==
  Decide(<<When(hop.answer = "down" \/ hop.answer = "late", "fetch_failed"),
           When(hop.answer \in Redirects /\ (left = 0 \/ hop.answer = "no-location"), "too_many_redirects"),
           When(hop.answer = "bad-location" \/ (hop.answer = "redirect" /\ (next.url.origin # hop.url.origin \/ next.url.https # hop.url.https)),
                "cross_origin_redirect"),
           When(hop.answer = "redirect", "follow"),
           When(hop.answer = "not-200", "fetch_failed"), When(hop.answer = "not-json-type", "bad_content_type"),
           When(hop.answer = "over-64k", "fetch_failed"), When(hop.answer = "malformed", "malformed_jwks")>>, "document")

\* fetchJwks: one redirect at most.
Fetch(first, second) ==
  LET try(hop, next, left) ==
        Decide(<<When(TargetError(hop.url) # "none", TargetError(hop.url)),
                 When(LookupError(hop.addresses) # "none", LookupError(hop.addresses))>>, Answer(hop, next, left))
  IN  IF try(first, second, 1) = "follow" THEN try(second, second, 0) ELSE try(first, second, 1)

\* findJwksByKid and ed25519PublicKeyFromJwk: exactly one key of that kid, made
\* for signatures.
PickKey(document, kid) ==
  LET matches == {k \in document : k.kid = kid} IN
  Decide(<<When(Cardinality(matches) > 1, Failed("duplicate_kid")), When(matches = {}, Failed("kid_not_found")),
           When(\E k \in matches : ~k.shape, Failed("malformed_jwk"))>>, Key({k.key : k \in matches}))

\* resolveKeyFromJwks, the i-th time in one process: the cache holds the first
\* document that was read, and a failure is not remembered.
ResolveKey(j, i) ==
  LET s == j.served[i]
      read == {k \in 1 .. i : Fetch(j.served[k].first, j.served[k].second) = "document"}
  IN  IF TargetError(s.first.url) # "none" THEN Failed(TargetError(s.first.url))
      ELSE IF read = {} THEN Failed(Fetch(s.first, s.second))
      ELSE PickKey(j.served[Min(read)].document, j.kid)

\* The verifications of one process at one URL in turn, while what is served
\* there changes between them.
ResolveAll(j) == [i \in DOMAIN j.served |-> ResolveKey(j, i)]

\* One process never judges two chains of one kid by two keys, and every key it
\* has was served, alone under its kid, from public addresses.
OneKeyPerKid(j) ==
  LET results == ResolveAll(j)
      keys == {i \in DOMAIN results : results[i].ok}
  IN  /\ \A i, k \in keys : results[i].key = results[k].key
      /\ \A i \in keys : \E k \in 1..i :
           LET s == j.served[k] IN
           /\ s.first.addresses = {"public"} /\ s.first.answer \in {"document", "redirect"}
           /\ s.first.answer = "redirect" =>
                s.second.addresses = {"public"} /\ s.second.answer = "document" /\ s.second.url.origin = s.first.url.origin
           /\ Cardinality({x \in s.document : x.kid = j.kid}) = 1
=============================================================================
