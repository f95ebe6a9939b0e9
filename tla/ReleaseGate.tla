----------------------------- MODULE ReleaseGate -----------------------------
(***************************************************************************)
(* The release gate, scripts/release-gate.mjs: the pack gate's checks and    *)
(* the wait for CI on the tagged commit (--require-ci).                      *)
(*                                                                          *)
(* `g` holds the arguments, what the installed artifact shows, the tag as    *)
(* the origin peels it, and what GitHub answers to each poll: [http, shape,  *)
(* total, rows], a row being [name, status, conclusion, commit].             *)
(***************************************************************************)
EXTENDS Integers, FiniteSets, Checks

CONSTANT None

\* The arguments that end the gate with 2 before anything runs.
GateUsage(g) ==
  \/ g.unknown \/ g.spec = "missing" \/ g.seconds # "positive"
  \/ g.commit \notin {None, "sha"}
  \/ g.commit = None /\ (g.fixture \/ g.noTagCheck)
  \/ g.api # None /\ (~g.fixture \/ g.api # "loopback")

PassIf(holds) == IF holds THEN "PASS" ELSE "FAIL"
RequiredFiles == {"cli", "recorder", "LICENSE", "NOTICE"}
RequiredSurface == {"jcs", "rfc7638Thumbprint", "strictJsonParse", "StrictJsonParseError", "paymentRef"}

\* Outside the two commands of the end-to-end check and the import of the
\* exports nothing that throws is caught: an artifact that lacks what the
\* checks call ends the gate with 2, whatever was recorded before.
Throws(a) == ~a.installs \/ ~({"recorder", "receipt"} \subseteq a.files) \/ ~(RequiredSurface \ {"paymentRef"} \subseteq a.surface)

\* The checks of the installed artifact, in the order they are recorded.
PackReport(g) ==
  LET a == g.artifact IN
  Report(<<Check("INSTALL", {}, "PASS"),
           Check("VERSION", {}, PassIf(a.version = IF g.expect = None THEN g.declared ELSE g.expect)),
           Check("PROD-GRAPH", {}, PassIf(a.installed <= 8)),
           Check("FILES", {}, PassIf(RequiredFiles \subseteq a.files)),
           Check("BOOT", {}, PassIf(a.boot = 2)),
           Check("SURFACE", {}, PassIf(RequiredSurface \subseteq a.surface)),
           Check("AGENT-VERSION", {}, PassIf(a.agent = a.version)),
           Check("CORPUS", {}, PassIf(a.vectors)),
           Check("CLI/E2E", {}, PassIf(a.identity # "none" /\ a.exported = a.identity)),
           Check("EXPORTS", {}, PassIf(a.exports)), Check("PACKED-PATHS", {}, PassIf(a.forbidden = {})), Check("CR", {}, PassIf(~a.cr))>>)

\* runPackGate: every check is made, and one that fails is enough.
PackGate(g) == IF Throws(g.artifact) THEN 2 ELSE IF Lines(PackReport(g), "FAIL") # {} THEN 1 ELSE 0

----------------------------------------------------------------------------
\* --require-ci

Expected == {"build-test-conformance", "audit", "scan"}

\* judgeCheckRuns: a page that does not hold every run is no verdict.
Judge(body) ==
  Decide(<<When(~body.shape \/ body.total # Cardinality(body.rows), "error"),
           When(\E r \in body.rows : r.commit = "other", "fail"),
           When(\E r \in body.rows : r.status = "completed" /\ r.conclusion # "success", "fail"),
           When(body.rows = {} \/ (\E n \in Expected : \A r \in body.rows : r.name # n)
                \/ (\E r \in body.rows : r.status # "completed"), "pending")>>, "pass")

\* One poll: a refusal of GitHub's own ends the wait, another answer that is
\* no list does not.
Poll(answer) ==
  Decide(<<When(answer.http \in {401, 403, 429}, "fail"), When(answer.http # 200 \/ ~answer.json, "pending")>>, Judge(answer))

\* runRequireCi: the tag first, then polls until one decides or the last.
RequireCi(g) ==
  LET deciding == {n \in 1..g.maxPolls : Poll(g.answers[n]) # "pending"}
      verdict == IF deciding = {} THEN "fail" ELSE Poll(g.answers[Min(deciding)])
  IN  Decide(<<When(~g.harness, 2), When(~g.noTagCheck /\ g.tag # "sha", 1), When(verdict = "error", 2),
               When(verdict = "fail" \/ g.noTagCheck, 1)>>, 0)

GateExit(g) == IF GateUsage(g) THEN 2 ELSE IF g.commit = None THEN PackGate(g) ELSE RequireCi(g)

\* A release that passes: the artifact is this tree's version, or the tag is the commit, a poll showed each expected
\* check of it, all with success, and no earlier poll showed one that failed.
ReleaseIsGreen(g) ==
  GateExit(g) = 0 =>
    IF g.commit = None
    THEN LET a == g.artifact IN (g.expect = None => a.version = g.declared) /\ a.agent = a.version /\ RequiredSurface \subseteq a.surface /\ a.forbidden = {}
    ELSE /\ g.tag = "sha" /\ ~g.noTagCheck
         /\ \E n \in 1..g.maxPolls :
              LET rows == g.answers[n].rows IN
              /\ g.answers[n].total = Cardinality(rows)
              /\ \A e \in Expected : \E r \in rows : r.name = e
              /\ \A r \in rows : r.status = "completed" /\ r.conclusion = "success" /\ r.commit # "other"
              /\ \A m \in 1..(n - 1) : g.answers[m].json /\ g.answers[m].http = 200 => \A r \in g.answers[m].rows : r.status = "completed" => r.conclusion = "success"
=============================================================================
