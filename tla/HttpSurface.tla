---------------------------- MODULE HttpSurface -----------------------------
(***************************************************************************)
(* The two loopback servers, src/trial/http.ts and src/purchase/http.ts: in  *)
(* which order a request is refused, what reaches the recorder or the check, *)
(* and the status of its answer.                                             *)
(*                                                                          *)
(* A request `h` is to the "trial" or the "purchase" server; `h.token` is    *)
(* whether the server was given one (the purchase server always is), `h.auth`*)
(* what the request carries, `h.result` what the call behind it answers.     *)
(***************************************************************************)
EXTENDS Integers, Checks

\* What the call behind a request answers.
Results(server) ==
  IF server = "trial" THEN {"ok", "caller", "timeout", "stopped", "throws"} ELSE {"receipt", "record-failed", "no-receipt", "throws"}
HttpField(server, f, value) == (f = "server" => value = server) /\ (f = "result" => value \in Results(server))

Posts(h) == IF h.server = "trial" THEN {"/record", "/await", "/gap"} ELSE {"/v1/check"}
Authorized(h) == (h.server = "trial" /\ ~h.token) \/ h.auth = "right"

\* statusOf: the caller's own mistakes are 422 and a recorder that stopped or
\* failed is 503; a purchase is answered 200 only when its receipt is kept.
StatusOf(h) ==
  IF h.server = "purchase"
    THEN Decide(<<When(h.result = "record-failed", 503), When(h.result = "no-receipt", 422)>>, 200)
    ELSE Decide(<<When(h.result = "ok", 200), When(h.result = "caller", 422), When(h.result = "timeout", 504)>>, 503)

\* handle: the answer that is given before anything is called, or 0.
Refusal(h) ==
  Decide(<<When(~h.host, 403),
           When(h.path = "/health" /\ h.server = "trial", IF h.method = "GET" THEN 200 ELSE 405),
           When(h.path \notin Posts(h), 404), When(h.method # "POST", 405),
           When(~Authorized(h), 401), When(~h.typed, 415), When(h.body = "large", 413), When(h.body \in {"not-json", "not-utf8"}, 400),
           When(h.path = "/await" /\ h.body = "shapeless", 400)>>, 0)

\* What the caller hears, and whether the call behind it was made.
Handle(h) ==
  IF Refusal(h) # 0 THEN [status |-> Refusal(h), called |-> FALSE]
  ELSE [status |-> IF h.result = "throws" THEN 500 ELSE StatusOf(h), called |-> TRUE]

\* Nothing is recorded or decided for a caller the server was not told of, and
\* a 200 to a call means that what it asked for is kept.
CallIsDue(h) ==
  LET out == Handle(h) IN
  /\ out.called => h.host /\ (h.token => h.auth = "right")
  /\ out.called /\ out.status = 200 => h.result \in {"ok", "receipt"}
=============================================================================
