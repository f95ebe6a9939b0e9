# A TLA+ model of chirindo

chirindo is a gate between an agent and the MCP servers it calls. It decides
whether a `tools/call` may run, and leaves a signed, hash-chained receipt of
every decision. Around the gate stand a purchase check, a trial recorder, a
client of a witness, and programs that verify what the others left. This
directory holds TLA+ modules for the parts where the order of events matters and
for the parts that judge, the TLC runs that check them on small instances, and
proofs that hold for every instance. Paths below are relative to the
repository; `src/…` is the TypeScript source.

Contents: [inventory](#inventory) · [what is modelled](#modules) ·
[runs](#runs) · [fairness](#fairness) · [proofs](#proofs) ·
[findings](#findings) · [observations](#observations) · [what is left out](#what-is-not-modelled).

To run everything by hand:

    tlc -config MCGate_faults.cfg MCGate        # likewise the other .cfg files
    tlapm GateProofs.tla               # and the other ...Proofs modules

## Inventory

The system is a set of Node processes. Each has one event loop, so a handler
runs to its first `await` with nothing in between; concurrency comes from the
order of events (client, downstream server, witness, timers, setImmediate),
from several processes over one directory, and from processes and appends that
fail half-way.

| component | source | state | operations | what is hard |
|---|---|---|---|---|
| stdio gate | `src/proxy.ts`, `src/policy.ts`, `src/rpc.ts`, `src/member-names.ts` | `pendingAllows`, the chain file, two line buffers, the receipt count | a client line is refused, denied, forwarded; a downstream line is paired with its call, receipted, released or withheld; policy re-read per call; end of either stream | ids reused by two sides; appends that fail in between; a denial told before it is recorded |
| receipts and chain file | `src/receipt.ts`, `src/vendor/recorder/{io,record,chain,hash}.ts` | the JSONL file | read the head, append a record | no lock, no fsync; a line that is cut, or lacks only its newline |
| hook and adapters | `src/vendor/recorder/cli/hook.ts`, `adapter/*` | the chain file | one process per event appends one record | two processes that read the same head |
| checkpoint driver | `src/checkpoint.ts` | `queue`, `last`, `scheduled`, `inflight`, `closed` | afterReceipt, setImmediate, POST, record, shutdown | order of the sidecar; answers after the deadline; receipts during the shutdown |
| purchase check | `src/purchase/{check,limits,time,m6,member}.ts` | lock file, chains of all sessions, `uses`, `allowed`, `head`, `lastTsMs`, `chainBroken` | open and rebuild, check, close | crash at any point; a repeat after a restart; torn appends; clocks that run back |
| trial recorder | `src/trial/{recorder,files,rules}.ts` | queue, waiters, heads of several sessions, stop, lock | record, pump, catch up, await, close | state read before an await and used after it; a late answer; stop and resume |
| the two over HTTP | `src/{purchase,trial}/http.ts` | none | one request, one call | order of refusals |
| witness client | `src/witness.ts` | sidecar file | POST a checkpoint, collect receipts, verify a chain against them | a receipt beyond the chain at hand, forks |
| chain verifier | `src/vendor/recorder/cli/verify.ts` | none | verdict on a file | precedence of findings; key and pins |
| JWKS resolution | `src/vendor/recorder/jwks.ts` | a cache | guarded fetch, key selection | redirects, a rotation between two reads |
| payment attestation, payment references | `src/payment.ts`, `src/vendor/recorder/{payment-ref,x402-registry}.ts` | none | evaluate RPC answers; derive a reference | sources that disagree |
| issuer pack, mappers | `src/issuer/pack.ts`, `src/purchase/mappers.ts` | none | build and check a pack; approval to instruction | what is left out silently; rounding |
| command line | `src/cli.ts` | the process | parse, start, wait, exit | flags that vanish; the shutdown wait |
| evidence-bundle verifier, ordering checker, release gate | `examples/…/lib/{verify,check}.mjs`, `scripts/release-gate.mjs` | none | verdict and exit code | which check needs which; facts never read |
| identity and keys | `src/vendor/recorder/{identity,key,sign,canonicalize}.ts` | two files | init, load | none beyond the two writes |

They meet as follows. The gate and the purchase check call `appendReceipt` and
then `ProxyCheckpointer.afterReceipt`, both synchronously; the checkpointer
POSTs later, from the event loop. The gate and a hook may write the same chain
file; purchase checks and trial recorders never do (a lock, and a chain per
session). The verifier is also what the purchase check opens a directory with: a
chain that it refuses keeps the directory shut for good.

What makes each part correct:

- **gate**: nothing runs that the policy denies; no result of a call reaches
  the client without its receipt; receipts say exactly what ran and what came
  of it; each line gets one answer; no id stays taken.
- **chain file**: what verifies is a chain somebody really wrote, and writers
  that keep out of each other's way never spoil it.
- **checkpoint driver**: sidecar lines in chain order, each once; nothing built
  is lost silently; the shutdown covers the head.
- **purchase check**: no instruction is used more often than it says and no
  order twice, across crashes and restarts; what was answered stays on file;
  the directory can always be opened again; what is allowed is inside what the
  instruction says.
- **trial recorder**: no caller is forgotten, an answer is backed by a line on
  file, heads are sent in order, a close accounts for its head, catch-up picks
  up what earlier sessions left.
- **verifiers and commands**: a positive verdict or an exit 0 implies what it
  says, whatever else the input holds.

## Modules

| module | role |
|---|---|
| `Gate`, `MCGate` | the stdio proxy: one action per handler |
| `GatePromise` | what the gate promises about each client line, without ids, queues or files |
| `GateProofs` | theorems about `Gate` |
| `Checkpointer`, `MCCheckpointer` | `ProxyCheckpointer` |
| `CheckpointerProofs` | theorems about `Checkpointer` |
| `PurchaseCheck`, `MCPurchase` | processes, lock, chain files, the check |
| `PurchaseLedger` | what the purchase check promises a provider |
| `PurchaseCheckProofs` | theorems about `PurchaseCheck` |
| `TrialRecorder`, `MCTrial` | recorders over one directory |
| `TrialRecorderProofs` | theorems about `TrialRecorder` |
| `SharedChain`, `MCChain` | one chain file, its writers, `checkpoint`, `verify --witness`, and edits; extends the next two |
| `SharedChainProofs` | theorems about `SharedChain` |
| `ChainVerify` | the parse and the verdict on a chain, the key that is used, the exit code |
| `WitnessCheck` | a witness's reply, the collection of receipts, their verdict on a chain |
| `CommandLine` | `parseArgs` and the commands, on top of the two before |
| `PurchaseJudge`, `RecordInput`, `HttpSurface` | the judgement of a purchase, the input rules of the trial recorder, the two servers |
| `JwksResolve`, `PaymentVerify`, `PaymentRef`, `Mappers` | key resolution, payment attestation, payment references, mappers |
| `IssuerPack`, `BundleVerify`, `OrderingCheck`, `ReleaseGate` | the pack, the two example verifiers, the release gate |
| `Instructions` | what the purchase check and the bundle verifier make of one signed instruction: M6 and B-INS |
| `LogRules` | a log as the bundle verifier reads it (M2, M3, Annex B), beside `verify` |
| `Checks`, `Values` | checks in a fixed order, and reports whose checks need others; the two members of facts that are not values |
| `Verdicts`, `MCVerdicts` | composes the modules that judge: cases, what is changed in them, and what a verdict promises |
| `ChecksProofs` | lemmas about lists of checks, reports, files, the verdict on a chain and the verdict on receipts |
| `AcceptedProofs` | lemmas about what the servers, the recorder, the mappers, the purchase check and the instruction rules accept |
| `VerdictsProofs` | theorems about `Verdicts` |

Definitions marked `Mutant:` are not part of a model. Each is a variant of the
definition after it with a plausible bug put in, kept to show that the property
named with it in PROJECT.json notices that bug.

### Gate

A client line is known by its number. Its text is reduced to the class the
gate's checks put it in (`handleClientLine` to `gateToolsCall`), its id and its
tool; which texts fall in which class is analysis of one line and is left to the
unit tests. `pending` is `pendingAllows` with each call named by its line;
`inbox` is what the downstream holds and has not answered; `chain` is what a
reader of the chain file finds. `answers[l]` collects what the client was sent
under line `l`: an error, a denial, its result, or the notice that its result is
withheld.

| action | code |
|---|---|
| `RefuseLine`, `RefuseBatch`, `RefuseMessage` | `refuseLine`, `refuseBatch`, and the member-name, method and `__proto__` checks of `handleClientLine` |
| `RefuseWithoutId`, `RefuseFlawedCall`, `RefuseInFlight` | the branches of `gateToolsCall` |
| `DenyCall`, `AllowCall` | `handleToolsCall` |
| `RelayRequest`, `RelayNotification` | everything else, forwarded as it came |
| `DownstreamAnswers`, `ServerRequest` | `handleDownstreamLine` on an answer, and on a request the server sends of its own |
| `EditPolicy` | the operator edits the policy file; `loadPolicy` reads it on each call |
| `ClientEnds`, `DownstreamExits`, `Exit` | the stream ends and the process end |

`WriteReceiptSafely(r, n, k)` is `writeReceiptSafely` called n times in a row
(n is 0 or 1, or more for a batch). How an append may fail is the constant
`Faults`: refused with nothing written, cut inside the line, landed whole and
yet thrown, or stopped exactly before the newline. The last is not a cut line:
the parser accepts a final line without its newline, and the next append goes
on the same line. `Returns` is what the call reports to `handleDownstreamLine`.
What a peer may do with ids is the constant `Peers`: a client that has two
requests in flight under one id (`sharedId`), a server that sends requests of
its own (`serverRequest`). With `Peers = {}` ids are what JSON-RPC wants.

`EIO` on reading the chain back, or a policy file replaced during the read, act
as "refused" and as a policy that does not load.

### GatePromise

A line goes from unread to settled, or to running and then to released or
withheld, once each. A denial may be recorded when a line settles; a result is
released only in the step that records its allow receipt. `KeepsPromise` is
`GatePromise!Spec` under the mapping `Fate`, `Recorded`.

### Checkpointer

A checkpoint is named by the order it was built in and carries the count of the
head it signs. `scheduled`, `queue`, `last` are the fields of
`ProxyCheckpointer` (`queue` is `inflight`, in the order of the promise chain);
`appends` is every append to the sidecar, a failed one among them as "no line".
`Immediate` is the setImmediate callback, `PostReturns` the end of a POST with
its `record`, `End` the end of `Promise.race([queue, deadline])` with what is
still in flight written as `witness_timeout`. `shutdown` awaits the promise
chain as it stands at that moment, so what is queued later is not waited for
(`Waiting`); `shut` remembers where things stood then.

The model has no kill: a killed process writes nothing more, and
`src/README.md` says so. It counts the receipts of one process; a chain with
earlier records differs by a constant.

### PurchaseCheck

`disk` has the complete lines of each session's chain, `torn` the files that end
without a newline. `check()` is synchronous, so one call is one action
(`CheckWritten`, `CheckRepeated`, `CheckFailed`), with the process's death
inside the append as a case of its own (`DieWriting`). Between opening and the
first check lie two steps, `TakeLock` and `Rebuild`, since a process can die
between them, and `close()` awaits the witness, so it is two steps as well.

A purchase is an instruction, an order reference and an order. Whether an order
suits an instruction, apart from time and uses, is the constant `Within`: that
part of `judgeLimits` is a function of the two documents, and the module
`PurchaseJudge` is that function. Times are small integers, and `Skew` stands
for `MAX_SKEW_MS`.

What `CheckFailed` leaves in the file is nothing, part of a line, or the whole
line: the append threw and the cut back to the last good length threw too. The
case where the cut succeeds changes nothing and is left out as a stutter.

### PurchaseLedger

A set of purchases that only grows, at most `MaxUses` per instruction (counted
in `used`) and one per order reference, and callers that are told "allow" only
for members of it. `KeepsLedger` is its specification under the mapping that
reads `disk`.

### TrialRecorder

Session `s` is a recorder with its chain (`lines`), kept arguments (`args`),
witness sidecar and memory (`driver`), which mirrors the object's fields: how
many entries it recorded, which own head was last `tried`, the greatest count
with a good receipt (`ok`), `receipts` at hand, the catch-up `queue`, the POST
`inflight`, `stopped`. An action is what happens between two awaits.

| action | code |
|---|---|
| `Open` | `openTrialRecorder`: the lock, the immediate of the catch-up |
| `Record`, `RecordFails` | `record` with `RetainedArgs`, the append, and the cut back that may fail (`broken`) |
| `Immediate`, `RunCatchUp` | the two `setImmediate` callbacks; `Pump` is `pump` |
| `PostReturns` | `finish`: sidecar line, receipt, stop code, waiters, next POST |
| `AwaitWitness`, `WaiterTimesOut` | `awaitWitness` and its timer |
| `Close`, `StopWaiting`, `CloseEnds` | `close()` up to its await, the end of the wait (idle or timed out), and the rest |
| `Die`, `GoesQuiet`, `Midnight` | a process dies, `CATCH_UP_QUIET_MS` pass, the stop ends |

`told` holds the ok answers of the last step, so that the properties can speak
of answers without a history. Receipts, forks, errors and stop codes are the
`Outcomes` of a POST; a POST that times out is an error. `Sidecar` may lose its
line (`damaged`): `readSidecar` then refuses the file for ever.

`newer` is the order of the chain files' modification times, which decides what
a catch-up looks at: the `CATCH_UP_CHAINS` chains written last, and of those
that need it at most `CATCH_UP_POSTS` (`CatchUpHeads`, `recorder.ts:441-442`). A
tail beyond either limit is passed over, by this recorder and, if nothing
changes, by the next. `Promised` is the tail within them, and `TailIsPickedUp`
speaks of no other. A failed record or a death may have touched the file
or not. `MaxOpen` bounds how many recorders are open at once.

`Pump` has no counterpart of the catch at `recorder.ts:396-402`: it is for a head
of which no checkpoint can be built, and `buildCheckpointFromHead` refuses only a
count below 1 or beyond the safe integers (`checkpoint.ts:55-56`), which no head
in the queue has.

### SharedChain, ChainVerify, WitnessCheck

A record is what `verify` looks at: seq, version, key and pins, timestamp,
event and its commitment, payment and output, previous hash, signature. A hash
is the content it is over (`EntryHash`), a signature is who signed which content
(`Signed`); two contents with one hash do not exist here. `VerifyChain` is the
verdict with its findings in the code's precedence.

`Read` and `AppendLine` are the two halves of a hook or of a gate's append, so
that others come in between; `CheckpointVerifies` and `CheckpointSigns` the two
reads of `chirindo checkpoint`; `AuditVerifies`, `AuditReads` and `AuditCompares`
the verdict on the chain, the second read of it and the fetch of the receipts in
`verify --witness`. `Edit` is what somebody without the key may do to the file:
cut it, take a line out, alter a field, put the in-file checkpoint of
`writeChainFile` behind it; it comes between commands, not between the reads of
one, where appends do. `histories` keeps the chains that writers signed the head
of.

A record is stamped with what `clock` shows (`Draft`). `ClockMoves` sets the
clock to any of `Times`: gate and hook stamp the wall clock as it is, without
a look at the records before. `setBack` notes that a record was stamped more than
`Skew` before an earlier one, and `OrderlyChainVerifies` says what follows: an
orderly, unedited chain verifies exactly if that never happened.

### The programs that judge

`Verdicts` composes the modules without state. A case starts as it should be
(`Genuine`); one field after another is changed to one of its alternatives, and
on each case on the way the verdict is held against what it promises, stated
apart from the code: for `verify`, for instance, from the arguments as they
stand on the line and not as `parseArgs` reads them, and for a payment from what
the chain really holds, which no check reads. Of the arguments those before the
first `--` count, and of a flag given twice the last one decides.

- `CommandLine`: `parseArgs` with its boolean flags, `=` and `--`; then
  `VerifyCommand`, `CheckpointCommand`, `Daemon` (purchase-check, trial-recorder),
  `ProxyCommand`, `TrialErase`, `PaymentCommand`, `IssuerPackCommand`, each the
  refusals in their order and the exit code. Words that are no flags keep their
  order and number, which `payment verify <file>` needs. The two reads of
  `checkpoint` see one file here; `SharedChain` has them apart.
- `PurchaseJudge` is steps 1 to 4 of a check; `RecordInput` the checks on a
  record with the digit-run screen; `HttpSurface` the refusals of both servers.
- `JwksResolve` has the address guard, one redirect (and one without a Location,
  or with one that is no URL), the document checks and the cache of a process. `PaymentVerify` has observation,
  agreement and exit; `PaymentRef` offers, artifacts and fields; `Mappers` each
  mapper's refusals and limits, with amounts and times finer than the unit.
- `IssuerPack` builds a pack's members from chains and checks a pack;
  `BundleVerify` and `OrderingCheck` are reports (`Checks!Report`) whose checks
  run only when those they need have passed; `ReleaseGate` is the pack gate and
  the poll of CI.
- `Instructions` puts two readers of one member side by side: `m6.ts`, which the
  purchase check accepts an instruction with, and `instructions.mjs`, with which
  a bundle's reader holds the payment and the order against it. The program
  "instruction" is a bundle with such members; `RefusesMoreNeverLess` says that
  what the check takes the verifier takes, that a purchase the check allowed reads
  BOUND, and that BOUND and EXCEEDS stand for inside and outside what the
  instruction says.
- `LogRules` does the same for a log: the program "log" is one log, read by
  `verify` (`VerifyChain`) and by M2 and M3 of the bundle verifier, and
  `VerifiersAgree` says where the two verdicts must be one.

## Runs

| run | instance | shows | states |
|---|---|---|---|
| `gate_faults` | 3 lines, 2 ids, 2 tools, batches of 2, all faults but `unended` | the receipts, the executions and the answers agree; the gate implements `GatePromise` | 190k |
| `gate_peers` | 3 lines, 2 ids, both liberties with ids, appends that stop before the newline | denials are on record, and every run is answered | 354k |
| `gate_server_request` | 2 lines, 1 id | finding 1 | violated |
| `gate_glued` | 2 lines, 1 id | finding 2 | violated |
| `checkpointer` | every 2nd of 6 receipts, all faults | order, completeness and coverage of the sidecar | 5k |
| `checkpointer_late` | every 2nd of 3 receipts, receipts during the shutdown | finding 3 | violated |
| `purchase` | 2 processes, 2 sessions of 3 records, 3 references, 3 orders of which one is never within the limits, 2 uses | no overspending, nothing lost, the directory opens again; the check implements `PurchaseLedger` | 168k |
| `trial` | 2 recorders of 2 and 1 entries, at once or in turn, 1 caller, 1 fault | answers are witnessed, nobody is forgotten, the close accounts for its head, arguments are kept, sidecars in order | 2.4M |
| `trial_live` | 4 recorders in turn, three of them of 1 entry, a catch-up of 2 chains and 1 POST | heads are sent; the newest tail is picked up though there are more tails than a catch-up looks at or sends | 133k |
| `chain` | 2 writers, 3 signed chains, instants 0 to 2 and a skew of 1, 1 edit, cut write, lost reply or move of the clock | what "valid" and "pass" are worth | 1.07M |
| `verdicts` | 21 programs, up to three fields of a case changed (bundles, orderings, instructions: two) | positive verdicts and zero exits imply what they say | 224k |
| `verdicts_pins` | the same | finding 4 | violated |

Why these bounds. Three client lines are two calls and a third message between
or after them: enough for an id to be used again while in flight, after a
denial, after an answer, and after a failed append. A batch of two has a cut
between its elements. For the checkpoint driver six receipts give three due
checkpoints and a head that is and is not one of them, with two in the queue
while a third is scheduled. For the purchase check two processes race for the
lock, and two sessions are one crash and one recovery; three records let a
session be written to after a failed append would have gone unnoticed; three
references are more than the two uses; instants 0 to 2 with a skew of 1 are the
least that tell the greatest time from the latest, and the last instant is one
at which the instruction has expired. Two trial recorders are one that leaves a
tail and one that catches up, at once or later; two entries let a head be
recorded while another is in flight, and one remembered entry lets one be
forgotten. Under fairness four recorders come one after another (`MaxOpen` is 1),
three of which may leave a tail: more than the two chains a catch-up looks at
there, and two more than the one it sends, so that both limits cut something
off. That run has closings and no deaths, failed writes or recorders side by
side; those are in `trial`. Two writers overlap in every way two appends can;
three signed chains are two lines and a fork of the second. The clock starts at 2
and may be set to 1, within the skew, or to 0, beyond it. Three changed fields are more than any
one check of a verdict reads together, and the report checks need two of their
prerequisites changed at most.

`CHECK_DEADLOCK FALSE` throughout: a session ends, and the bounds end it.

Each property and what could break it is stated in the comment over it. For
every property there is a mutant in PROJECT.json: a definition of the model
with a plausible bug, under which the same run finds the property violated.

`EveryRunIsAnswered` has an exception for a client that has two requests under
one id in flight: once an append has failed, the notice that a result is
withheld goes to the later of the two, and the earlier may never be answered.

## Fairness

- `Gate!FairSpec`: weak fairness of each answer. A downstream that runs answers
  each request it holds, and the event loop delivers it. That the client sends
  anything, or that either side ever stops, is not assumed. The code has no
  timeout for a downstream that never answers; `EveryRunIsAnswered` says that
  the gate loses no answer, not that one comes.
- `Checkpointer!FairSpec`: weak fairness of `Immediate` (the event loop reaches
  its check phase), `PostReturns` (every POST has a timeout in
  `witnessCheckpoint`) and `End` (the deadline timer). Receipts and the
  shutdown need never come.
- `TrialRecorder!Spec`: weak fairness, per session, of the two immediates, of
  `PostReturns` (a POST has a timeout), of `StopWaiting` and `CloseEnds` (the
  deadline of `close`). That anybody records, waits or closes is not assumed.
- `PurchaseCheck` and `SharedChain` state no liveness: a check, a hook or a
  command returns or its process dies.

## Proofs

`tlapm` checks eight modules, for every value of the constants within the
assumptions named. Every safety invariant and every action property a passing
run checks is the statement of a theorem; the liveness properties are not.

**`GateProofs`**, for every set of ids and tools and every bound:

- `TypeCorrect`: types, with no assumption but the constants'.
- `InvCorrect`: `GateInv` is an invariant when `Peers = {}` and no append stops
  exactly at the newline (findings 1 and 2 are what happens otherwise). From it
  follow `ReceiptsMatchExecutionHolds`, `ResultsAreReceiptedHolds`,
  `AllowsAreDeliveredHolds`, `OneReceiptPerRunHolds`, `OneAnswerPerLineHolds`,
  `PendingIsInFlightHolds`.
- `BrokenChainReleasesNothingHolds`: an action property, from the same invariant.
- `KeepsPromiseHolds`: every step of the gate is a step of `GatePromise` or a
  stutter.
- `DenialsAreReceiptedHolds`: for any peers and any faults, so it needs none of
  `GateInv`; that the chain a reader finds only grows until it breaks is enough.

The safety properties are not inductive alone: that a released result has its
receipt needs that the answer in hand belongs to the call pending under its id.
`GateInv` adds three facts. `UnreadLinesAreFresh`: a line not read yet has no
trace anywhere, so a step that reads one cannot clash. `InboxIsOpen`: a request
the downstream holds is unanswered, alone under its id, and pending under that
id exactly if it is a call; so its answer settles that call and no other.
`PendingIsHeld`: while the downstream runs it holds every pending call. With
these each action changes the chain by copies of one receipt (`WriteEffect`),
which disturbs no earlier one.

For the refinement `StepKinds` sorts every step into four kinds (a line is
settled, a line runs, a run is answered, nothing the promise speaks of
happens); `PromiseStep` then maps each kind, `RecordedEffect` giving what a
write adds to the decisions on record.

**`PurchaseCheckProofs`**, for any number of processes, sessions, instructions,
references and instants: `PurchaseInvCorrect`, and from it `TypeCorrect`,
`NoOverspendHolds`, `OneAllowPerRefHolds`, `ToldIsKeptHolds`,
`FilesVerifyHolds`, the action property `NothingAfterATornLineHolds`, and the
refinement `KeepsLedgerHolds`. That no instruction is overspent is a fact about
the files, but the code decides from memory; `PurchaseInv` therefore says that
one process holds the directory (`OneHolder`), that its session is the newest
one (`MemoryIsLatest`, `LaterIsEmpty`), and that its counts, allows, head and
greatest time are those of the files (`MemoryMatchesFiles`). A failed append
that landed breaks the last until the next rebuild, which is why it is stated
for a process whose `broken` is false. The count of uses is the cardinality of
a set of places, so the proof carries its finiteness along.

**`CheckpointerProofs`**, for every `Every`, every bound and all faults:
`CheckpointerInvCorrect`, then `TypeCorrect`, `SidecarInOrderHolds`,
`NothingIsLostHolds`, `ShutdownCoversHeadHolds`, `FailedHeadIsRetriedHolds`. The
core is `Pipeline`: appended, queued and scheduled checkpoints are, end to end,
the numbers from 1 to the last one built. Order and completeness of the sidecar
are both read off it; the head's state (`LastIsNewest`, `ErrorIsFailure`) ties
what `last` says to the newest of them.

**`TrialRecorderProofs`**, for any number of recorders, entries, callers and
faults, under the assumptions on the constants alone: `TrialInvCorrect`, then
`TypeCorrect`, `AnswersAreWitnessedHolds`, `NoForgottenWaiterHolds`,
`CloseAccountsForHeadHolds`, `EntriesKeepTheirArgumentsHolds` and
`SidecarInOrderHolds`. An ok answer is witnessed and a sidecar is in
order only because every head in flight is real, so `TrialInv` says of each
session that it is `Sound`: a recorder knows no more of its chain than the file
holds (`ChainIsKnown`), its own head in flight lies within that chain and no
sidecar line is beyond it, and a head of an earlier session is the last of a
recorder that is gone (`HeadsAreReal`); receipts held are on file
(`SidecarIsSound`, `ReceiptsAreOnFile`), and a close has left a line for the head,
unless the sidecar could not be written (`HeadIsAccountedFor`). A session is disturbed only by its own recorder, or, once
that is gone, by the catch-up of a later one; `OthersStaySound` frames the rest.
The first receipt that covers an entry is a least element, taken from the
well-foundedness of the naturals.

**`SharedChainProofs`**, for any number of writers, signed chains and faults,
every clock and every skew: `ChainInvCorrect`, then `ValidIsHistoryHolds`,
`OrderlyChainVerifiesHolds`, `PassKeepsWitnessedHolds`,
`HonestIsNotTamperedHolds`. What verifies is a fact about a file that others
have cut, altered and glued, so the invariant cannot say how the file came
about. It says what nobody without the key can change: every line, in the file
and in what a writer has read, carries the key's signature over nothing but the
head of a chain that was signed (`LinesAreGenuine`, `ReadingIsGenuine`), and a
signed head names its own place and the line before it (`HistoriesAreSigned`).
The verdict's own checks do the rest: what `VerifyChain` calls valid has sequence,
links and signatures in place (`ValidMeans`), so its i-th line is the head of
some signed chain of length i. The other two parts are about a chain nobody
disturbed: its lines are in order (`UndisturbedIsOrderly`), its receipts are
over heads of it (`StoredIsTyped`, `UndisturbedIsWitnessed`), and an audit holds
the file as it is unless it moved (`AuditIsOfTheFile`). That such a chain
verifies is an equivalence (`SetBackIsRegression`): `setBack` is true exactly if
two of its lines are out of order by more than the skew, and then the regression is the only finding left
for `VerifyChain` to report. `PassKeepsWitnessed` and
`HonestIsNotTampered` are about the verdict of the last step and are carried as
parts of the invariant.

The statement is line by line on purpose. "A file that verifies is, as a whole, a
chain some writer had read" is false once two things go wrong: lines a and b
stand in the file, a is altered, and a writer reads both; the file is cut, a and
b are written anew; then that writer, which still holds the altered reading,
appends c behind b. The three lines verify, and nobody ever saw all three.
The run `chain` allows one fault, and in its instance the stronger statement
holds too; with a third writer and a second fault TLC finds the sequence told
here.

**`ChecksProofs`** states once what every judging program is built from. The lemma
`DecideIsFirst`: a list of checks answers with the first that applies, and with
the default if none does; from it one lemma per length of list, so that a proof
about a program cites the list it walks. `ReportExists` and `ReportLines`: a
report has one line per check, each decided by the lines before it; the report
is a recursive function, and its existence is shown for its finite domain.
`CleanReport`: in a report without a FAIL line and with its checks in order of
need, every check ran. `ValidMeans`, `ValidDelivers`: what a valid chain holds.
`PassMeans`: what a witness's pass says of each receipt. These use
`Skew \in Nat` and nothing else of the constants.

**`AcceptedProofs`** takes the programs that accept something, each as a fact
about one case: a request that is answered 200 was due (`EveryCallIsDue`), a
record taken by the recorder holds nothing it screens for (`TakenIsSafe`), a
mapped approval widens nothing (`NothingIsWidened`, with `Minute \in Nat`), a
purchase allowed is inside its instruction (`AllowedIsInside`), and the two
readers of an instruction agree (`ReadersAgree`). The last is the long one: what
the bundle verifier sums over a bundle's movements is a recursive total, so
`TotalExists` gives its values on an interval and `TotalGrows` that it is no
less than any one of its terms. It needs `None # Malformed`, and that an order
of the committed shape names every item's sku (`card.mjs:42`).

**`VerdictsProofs`**: `BundleVerdictAlwaysHolds`, `OrderingVerdictAlwaysHolds`,
`OneSourceNeverDecidesHolds`,
`AcceptedIsWithinTheRulesHolds`, `VerifyEarnsItsZeroHolds`,
`CommandsKeepTheirWordHolds`. They hold for every set of cases and every change
to them, any number of fields at once, so long as each field holds what its
program reads there; that is `VerdictsAssumption`, a typing of the cases and no
more, and TLC evaluates it on the cases of the run. The lemma
`FactsAreTypedHolds` carries it along, and the rest is one argument per program
over an arbitrary typed case:

- bundles: a verdict of recorded-before needs the witness and the card bindings,
  which are bound only over a list without a fork (`WitnessBinds`, `ListIsClean`,
  `CardBinds`); no table of verdicts reaches VERIFIES without the chain's own
  answer (`CardEarns`, `ChainNeverVerifies`).
- orderings: an exit 0 is a report without FAIL. Each part's checks are shown to
  need only earlier ones (`...InOrder`), so by `CleanReport` all were made and no
  status hides behind NOT CHECKED (`CleanIsShown`).
- payments and keys: agreement is with each node (`AgreementIsOfEach`), so one
  honest node bounds what they say; one process resolves a kid from the first
  document that held it (`ReadFromTheFirst`).
- logs: M2 with M3 and `VerifyChain` are shown equivalent record by record, under
  the conditions `VerifiersAgree` names.
- commands: `Parsed` relates what `parseArgs` leaves to the arguments as they
  stand, for a line of any length; then verify's zero is `ValidMeans`,
  `ValidDelivers` and `PassMeans` under the key that was read (`VerifyIsEarned`),
  and each other command is its own list of refusals (`CheckpointKeeps`,
  `DaemonKeeps`, `ProxyKeeps`, `EraseKeeps`, `PaymentKeeps`, `PackedKeeps`).
- pack and release: the receipts a pack cites are finitely many, so "no more than
  one" is one (`CitedIsFinite`, `AtMostOne`); of the polls of CI the least that
  decides is the one that counts (`CiPasses`).

Only model-checked: the liveness properties `EveryRunIsAnswered`,
`CheckpointsAreRecorded`, `HeadsAreSent` and `TailIsPickedUp`, which rest on
fairness, and the properties of the four runs that TLC finds violated. Out of
the prover's reach is also induction over data; where a recursive function
occurs (reports, totals) the proofs use its existence on a finite domain and the
least element at which something fails, and no more.

## Findings

1. **A request of the server's own takes the place of a result**
   (`gate_server_request`). `handleDownstreamLine` pairs a line with a call by
   its id alone (`src/src/proxy.ts:943`), and a server numbers its own requests
   itself. Its `ping` with id 1 while the client's call 1 is in flight is taken
   for the answer: the receipt has no result, and the real result later passes
   as an unrelated line, with no receipt over it.
2. **A receipt glued to the one before it** (`gate_glued`). After an append that
   stopped just before its newline the file still parses, the next append goes
   on the same line and is reported as written, and its result is released; no
   reader can parse the line with both. The purchase check and the trial
   recorder cut such an end off; the gate does not.
3. **A head the shutdown does not cover** (`checkpointer_late`). The shutdown
   checkpoints the head it finds, then waits up to 5 s for the witness while
   the stream handlers stay attached. A receipt written meanwhile moves the head
   past the last checkpoint in the sidecar.
4. **A pin that is dropped** (`verdicts_pins`). `--expect-thumbprint` without a
   value is not among `args.multi` (`src/src/cli.ts:978`), so with `--key file`
   the chain verifies with no pin at all; a trust file that holds `[]` likewise.
   The comment at `src/src/cli.ts:973-977` rules exactly that out.

Each is quoted with its source in PROJECT.json.

## Observations

Met while modelling, and kept out of the findings: they surprise, but no run of
this project is about them alone. Each stands in a model as the code has it.

- `chirindo checkpoint` verifies the chain and then reads it again
  (`src/src/cli.ts:817`, `827`). Two hooks that both read an empty chain, one
  line, the verification, the other line, the second read: the head signed is of
  a chain that does not verify. The comment at 786-788 says "a checkpoint can
  only ever vouch for a chain we can stand behind".
- `verify --witness` fetches receipts after it has read the chain
  (`src/src/witness.ts:568`, `575`): a chain that grew in between is called
  tampered, "beyond the chain". `HonestIsNotTampered` has `~said.moved` for it.
- Two hooks at once take the same seq and leave a file that does not verify:
  the comment at `hook.ts:129`, that sessions which share the fallback file still
  verify, holds as long as they take turns. `OrderlyChainVerifies` has
  `~overlapped` for it.
- Gates, hooks and trial recorders stamp the wall clock as it is
  (`receipt.ts:179`, `chain.ts:159`, `recorder.ts:217`). A clock that is set back
  beyond the skew leaves a chain that is called tampered, "timestamp regression"
  (`verify.ts:477`), though nobody touched it. The purchase check alone looks: it
  records nothing while its clock is that far back (`check.ts:471`).
  `OrderlyChainVerifies` says both halves.
- A catch-up looks at the newest `CATCH_UP_CHAINS` chains and sends at most
  `CATCH_UP_POSTS` heads (`recorder.ts:441-442`): a tail behind these is left
  until the chains in front of it are covered or out of the way. `Promised` in
  `TailIsPickedUp` is the limit.
- After a stop, midnight sends nothing by itself (`recorder.ts:360`): a head
  recorded meanwhile waits for the next record. Hence the `~stopped` in
  `HeadsAreSent`.
- A sidecar with a torn line makes every later catch-up skip its session
  (`recorder.ts:459-464`). Hence `damaged` in `TailIsPickedUp`.
- `--max-skew-ms abc` is NaN and disables the timestamp check
  (`cli.ts:967-971`). `proxy --jwks-uri` without a value is ignored, where the
  daemons refuse it (`cli.ts:1151`).
- The block time is part of the observation on which payment nodes must agree
  (`payment.ts`), though a comment there says it is reported and not checked.
- The release gate ends with 2 ("harness") for an artifact that lacks an export
  it has just listed as a failed check, and an "informational" threshold fails it.
- `usesOf` counts a use for every record in every carried log that names the
  instruction (`instructions.mjs:193`), so a bundle that carries a prefix copy of
  a log beside it counts the same uses twice. It errs on the strict side.
- In B-INS the row FAIL and the branch for an order that is not in shape are
  never reached: a member that fails M6 or M8 stops the run before
  (`verify.mjs:350`).
- M2 and `verify` differ at the edges: M2 ignores the `jwks_uri` of a v0 record,
  which `verify` refuses when it is insecure; M2 wants a readable `ts`, which
  `verify` passes over; M2 wants one version and one `jwks_uri` throughout. M3
  takes an in-file checkpoint over fewer records than there are, which `verify`
  calls a count mismatch. `VerifiersAgree` names these conditions.
- An issuer pack copies the witness sidecar and reads it again afterwards
  (`pack.ts:435`), so what it lists and what it carries may differ.

## What is not modelled

- **Text**: how lines are split from chunks, decoded and classified, JSON member
  names, number ranges, nesting depth. The classes are inputs of the model.
- **Cryptography**: hashes and signatures are taken to identify what they are
  over. A record's place and what it grants stand for its bytes. Identity files
  and key formats belong here; `writeIdentity` writes two files one after the
  other after an existence check, so two inits at once or a crash between the
  writes leave a pair that does not match, which the next verification shows.
- **Power loss**: nothing is fsynced, so a machine that loses power may lose
  lines that were answered on. The files of the models survive a process only.
- **The operator removing a lock that is in use**, which the documentation tells
  them not to do; `close()` then removes the lock whoever holds it.
- **A gate killed between telling the client of a denial and recording it**: the
  two are one action, as they are one synchronous handler.
- **A downstream that never answers**: the code has no timeout, so nothing
  follows (see [fairness](#fairness)).
- **A downstream that answers one request twice**, and writes to one that has
  just died (`EPIPE` ends the process, which `DownstreamExits` and `Exit` cover).
- **An unbounded queue** of checkpoints behind a slow witness: the bounds of a
  run cap it, and the code states no limit to hold it against.
- **Arguments retained beside a purchase chain**: as in the trial recorder, where
  `EntriesKeepTheirArguments` covers it, an orphan is possible and harmless.
- **Trial recorder**: validation of the options, `eraseRetained`, gap and timing
  lines (they change no other state).
- **Evidence bundles**: records that refuse, the times and orderings that are
  printed, and the list of limits. `Instructions` takes amounts and times as
  small numbers.
- **Adapters, printing, zip, PDF, wording, staging of a release**:
  transformations of one document, or I/O.
