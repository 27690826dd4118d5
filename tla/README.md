# Formal models of tlsctl

tlsctl is a command line tool that inspects the TLS configuration and the
certificates of many endpoints at once (`tlsctl client`) or of PEM data
(`tlsctl pem`), optionally with revocation checks, and tells of it in several
output formats and in its exit status. This directory holds TLA+ models of the
parts whose correctness depends on order, time, concurrency or failure, the TLC
configurations that check them, and TLAPS proofs of the safety properties of all of
them. Paths below are relative to the repository root.

```
tlc -config Batch_check.cfg MCBatch.tla      # one run; the others are alike
tlapm BatchProofs.tla                        # the proofs
```

`PROJECT.json` maps every definition to the lines it models and lists runs,
hazards, theorems, and, for every property, a plausible bug (a *mutant*: the
operators commented "Mutant" in the modules) that makes the property fail.

## 1. Inventory

How a run of `tlsctl client` passes through the parts:

```
 Execute ── Config ── RunE ── targets ── queryTargets ──────────────── finishResults ── Execute
 (signal    (file,    (flag   (stdin,     feeding loop ─> N workers     tally, render,   (exit
  context)   flags)    checks) files)       |     each, per target:     diagnose          status)
                                            |     QueryContext ─> dialTLS (many times)
                                            |     CheckCert    ─> responders
                                            └──── results[i]
```

| component | state | operations | what is hard | what makes it correct | module |
|---|---|---|---|---|---|
| worker pool, `cmd/client.go` queryTargets | jobs channel, WaitGroup, results slice, one context per target | feed, receive, query, revoke, look at the context, store, close, wait | unlocked slice written by several goroutines; timers and Ctrl-C at any moment; the feeding loop does not look at the context | one slot per worker; every input gets its own result; a check cut short is a failure; the pool drains | Batch |
| report, `cmd/client.go` finishResults | exit tracker, the two streams | tally, render (one document or one by one), name failures, return on a write error | quiet and structured modes differ in who names a failure; rendering happens after the tally, on a running clock | every input is reported once on the right stream, in input order; exit status and output tell the same story | Batch, Report |
| exit status, `cmd/exitcode.go`, `cmd/root.go` Execute | the tracker's code | Set, Code, os.Exit | severity is not the numeric order | the documented precedence 1 > 3 > 2 > 4 > 0 | ExitCodes, Batch |
| health assessment, `internal/tlsquery/health.go` | none | Health | a certificate expires between query and report; inclusive boundaries | one assessment for exit code and all renderers | Health, Durations, Report |
| renderers, `internal/output` | the first write error, the CSV buffer | Render, RenderBatch, checkedWriter, Flush | soft-fail must stay visible; the envelope counts failures on its own; writes fail one by one and buffered ones late | status, reason, sign and envelope agree with the health; nil means all is written; no hole in the output | Report, Durations, Output |
| revocation checker, `internal/revocation` | attempts, CheckedAt, per-request contexts | CheckCert, checkCRL, checkOCSP, checkFreshness, computeOverallStatus, applySoftFail | responders that hang, fail or are stale; parent context ends in between | a verdict has a fresh, sound answer behind it; policy table; bounded overrun | Freshness, Revocation |
| verification and issuer selection, `internal/tlsquery/query.go`, `pem.go`, `chain.go`, `internal/revocation/checker.go` | none | QueryContext's verification, verifyPEMChain, abbreviateVerifyError, RevocationCertificates, ValidateIssuer | several candidate chains, equal names and keys; the clock is read three times | the issuer handed to the checker signed the leaf; the label fits a certificate of the chain | Verify |
| connection, `internal/tlsquery/dial.go`, `proxy.go` | socket, its deadline, AfterFunc callbacks | dial, proxy negotiation, STARTTLS, handshake | callbacks close the socket concurrently; watch is handed from one function to the next | no leak; phase and overall bounds; prompt cancellation | Dial, Connection |
| STARTTLS dialogues, `internal/tlsquery/starttls.go` | private bufio.Reader | SMTP, IMAP, POP3, LDAP | multi-line and untagged replies; bytes read ahead are lost | the handshake starts in step with the server; the dialogue goes on while the server goes along | StartTLS, Connection |
| query and probes, `internal/tlsquery/query.go`, `dial.go` | version and suite lists | QueryContext, probeTLSVersions, probeCipherSuites | dozens of connections under one deadline, loops that end silently | a complete report or an error, never a truncated one | Probe |
| configuration, `internal/config`, `cmd/root.go` | decoded sections, flags | Load, validate, FlagValues, loadAndApplyConfig, RunE's checks | map iteration order; sections for other commands | documented precedence; bad values are refused, good ones never | Config, Invocation |
| client and pem commands, `cmd/client.go`, `cmd/pem.go`, `cmd/root.go` | stdin, CA pool, the context | RunE, ParsePEM, closing stdin on Ctrl-C | Ctrl-C closes stdin under a blocked read, on a goroutine of its own | no connection before all inputs are valid; an interrupted read is a failure; the command ends | Command, Invocation |
| targets and endpoints, `cmd/client.go`, `internal/cli/endpoint.go` | none | collectTargets, readTargetsFromFile, NormalizeEndpoint | IPv6 forms, brackets, zones, URLs, comments | an endpoint means what was written; refused exactly when malformed | Targets, Destinations |
| proxy selection, `internal/tlsquery/proxy.go` | environment | ValidateProxy, resolveProxy, parseProxy | flag against NO_PROXY, two parsers, default ports | direct only when nothing that can be read asks for a proxy; the port that was written | Proxy, Destinations |
| certificate description, cipher names | none | formatting | – | – | not modelled |
| release workflow, `.github/workflows/release.yaml`, `.goreleaser.yaml` | tags, releases, images, the queue of runs | checkout, test, tag, view, image, draft, upload, undraft | a run fails anywhere and is run again, for another commit perhaps | a version is built from the one tested commit its tag names; a published release stays whole; an interrupted one can be resumed | Release |
| CI, container, scripts, version command, entry point | none | linear steps | – | – | not modelled |

The same list, with source paths and status, is in `PROJECT.json` under
`components`; the hazards of the code, each at its line and with the properties
aimed at it, are there under `hazards`.

## 2. Modules and how they correspond to the code

**ExitCodes** – `ExitTracker` and `exitPriority`, the mapping from a health to
a code. Pure; used by Batch, BatchPromise and Report.

**Batch** – one run of the client command from known targets to exit status.
The main goroutine is `main` (feeding → waiting → tally → render → diagnose →
done), each worker is a `pc`. `Dispatch` is the rendezvous on the unbuffered
channel; `StartTimer`, `QuerySucceeds/QueryFails`, `Revoke`, `LateCheck`,
`Store` are the statements of the worker's loop body up to the slot write;
`Expire` and `Interrupt` are the per-target timer and `signal.NotifyContext`.
`QueryContext` and `CheckCert` are seen through what they may return:
any health, an error, and – only if the context is done – a revocation check
that gave sources up (`whole = FALSE`). The look at the context after both
(`client.go:174`) is its own step, because the timer may fire on either side
of it. `Tally`, `Render*`, `Diagnose*` and `WriteFails` are finishResults with
its early returns; `ProcessStatus` is what Execute passes to os.Exit.

**BatchPromise** – the abstract specification: every input is settled once;
the process exits when all are settled; its status is the worst of them or 1.
Batch implements it under the mapping `Promise` (results → outcome).

**BatchProofs** and the other `…Proofs` modules – theorems, section 5. One module
holds the proofs about the parts that belong together: ConnectionProofs those of
Dial and Connection, QueryProofs of Verify and Probe, ReportProofs of Report and
Output, InputProofs of Targets, Proxy, Destinations, Config and Invocation. Probe, Config and
Output therefore give their `Init`, `Next` and variables names of their own
(`QueryInit`, `ConfigInit`, `OutputInit`, ...).

**ContextCall** – what the worker of Batch relies on when it hands a context to
QueryContext and to the revocation check: the call returns once the context is
done, and only a context that is done excuses an answer with parts left out.
Probe and Revocation each implement it (`HonoursContext`, a refinement with
their own state mapped to `ctx` and `result`), and it is the freedom Batch gives
to its calls. So the three models fit together without one state space for all.

**Command** – both RunE functions from valid configuration to the exit status,
with the goroutines Ctrl-C involves: `Press`, `Cancel` (the goroutine of
NotifyContext ends the context), `CloseStdin` (the AfterFunc callback). The
input arrives in pieces from a writer that may stop early or never close;
`ReadData`, `ReadEOF` and `ReadAborted` are the ways in which a read returns. The
pool is seen as in BatchPromise, with `traffic` as the history of connections.

**Freshness** – `Fresh` is checkFreshness with its four boundaries, `JudgeCRL`
and `JudgeOCSP` the judgement of one answer after the HTTP exchange (signature,
issuer, parsing and size limits together are the field `sound`),
`OverallStatus` and `ApplySoftFail` the two functions of those names.

**Revocation** – one CheckCert: `Start` (one reading of the clock, early
returns), per responder `SendRequest`, `AnswerArrives` or `RequestFails`,
`Decide` (stop at good or revoked, at the end of the list, or when the parent
is done), `Conclude`. The parent context, the request's own timeout and the
clock are actions of the environment.

**Health** – `ChainInfo.Health` as `HealthOf(chain, now, warningDays)`.

**Durations** – time.Duration as a number of fixed width: `Sub` saturates like
time.Time.Sub, `DaysAsDuration` wraps around, `Days` is truncated towards zero.

**Report** – finishResults again, now with the clock and data instead of the
streams: the single reading of `NowFunc`, the tally, and what each family of
renderers says of a chain: `HumanLine` (with its sign and number of days),
`TextLine`, `BatchLine` (`tls_status`, `days_remaining`) and the envelope's status.

**Dial** – one connection. `pc` names the phase; `Setup` is
`context.AfterFunc` + `SetDeadline(phaseDeadline)`, done once by
dialViaProxyContext and once by dialTLS; `watch` is the state of the two
callbacks (armed, running because the context ended, off), where a running one
is not taken back by `stop()`. The clock advances only while the goroutine is
blocked and nothing is due, so that it measures how long peers can hold on.

**StartTLS** – both ends of the dialogue. `wire` and `buffer` separate what was
sent from what the client's bufio.Reader took, since the buffer is dropped on
return; the server may continue, refuse, garble, hang up or fall silent.

**Connection** – the two together: the "starttls" phase of Dial, there an
arbitrary peer, is here the dialogue of StartTLS (`ClientTalks`, `ServerTalks`)
through the same socket. `DialogueCut` is how a read or a write of the dialogue
fails: by the deadline that Dial's `Setup` armed or by a socket that one of its
callbacks closed. `DialogueReady` and `DialogueFailed` are negotiateStartTLS's
returns. The server may greet before the client listens.

**Probe** – QueryContext with the two probe loops, one action per connection
and per loop head, against a peer with an order of preference.

**Config** – from the file and the command line to flags that are validated.
Values are abstracted to where they came from, or "bad"; three keys stand for
the three kinds of keys (known to all sections and both commands; to global and
client; to client only). `Valid` has the checks of Settings.validate one by one.
`configDir` says whether there is a place for a default file (DefaultPath).
`Apply` takes the map's entries in any order.

**Verify** – one input's verdict: `VerifyLeaf` and `VerifyChain` are the two
halves of x509's Verify, each with its own reading of the clock, `Label` is
abbreviateVerifyError with a third one, `SelectIssuer` is RevocationCertificates.
A certificate is a record of names, keys and dates; it is signed by a key. When
no chain is found (`NoChain`), x509 returns the error of the last issuer it tried:
one that is out of its dates (`culprit`), or an unknown authority. Which comes last
depends on key identifiers that are not modelled, so that `IssuerErrors` allows
every order. `Label` compares the clock with the dates of the culprit, as the
code does, and not with the leaf's.

**Output** – finishResults again, down to each write. `Lines` of a result are
the pieces its renderer writes; each write may succeed, fail, or be cut; the
CSV writer holds records back and `Flush` tells of an error late. `Part` and
`Whole` say what a reader should find of one input and of all.

**Targets** – collectTargets over texts, which are sequences of any length over
the few characters the code tells apart. `ReadLine` is the loop of
readTargetsFromFile, `Collect` the appended arguments, `Normalize` the loop over
both. The functions of `net` and `netip` are external, modelled by what they
accept and return (`SplitHostPort`, `JoinHostPort`, `IsIPv6`); the grammar a
user follows (`WellFormed`, `Spellings`) is stated apart from them.

**Proxy** – `Validate`, `Resolve` and `Dial` over the parts of a URL that
url.Parse returns. http.ProxyFromEnvironment is external (`Environment`): it
reads a value that does not parse again behind "http://", and drops one that
does not parse either way without an error.

**Destinations** – the order in which RunE uses the two: `CheckProxy` before any
file is read, `CollectTargets` as a whole, `Connect` only with a complete list.

**Invocation** – Config, then Destinations: PersistentPreRunE applies the
configuration to the flags and RunE checks them (`Configure`), and the client
command goes on to its proxy and its targets (`Visit`).

**Release** – the release workflow: one run at a time with one waiting
(concurrency group) through `Validate`, `Test`, `Tag`, `View`, `PushImage`, `Upload`,
`Complete` and `Undraft`, a `Fault` at any of them, `Rerun` for the commit a run began
with, `Push` and `Dispatch` in between. Tags, releases and images are separate
and fail apart; `latest` moves with each image; `blindly` records that `gh release view` failed unseen.

MC modules only add constants that a `.cfg` cannot express.

Data that no property distinguishes is left out everywhere: names, subjects,
wording, layout, byte formats, cryptography.

## 3. What is checked

| run | instance | distinct states | what it shows |
|---|---|---|---|
| batch_check | 3 targets, 2 workers, three kinds of flags, fair | 1.2 M | truncated checks are failures; exit precedence; both streams complete, in order and with each input's own result; Batch implements BatchPromise, its liveness included: the command ends |
| revocation_check | 2 responders, dates and clock 0..3, fair | 257 k | evidence for each verdict, policy table, overrun of at most one attempt; the check ends and implements ContextCall |
| report_check | 2 results, dates {0,2,3,4}, clock 0..3, a day of 2, durations up to 3 | 2.5 M | exit code, envelope and output agree; judged at report time; soft-fail visible; the number of days fits the status |
| report_text_reason | 1 result | (violation) | a reason that is not shown, section 6 |
| connection_check | connect 2, handshake 3, overall 1..9, up to 2 extra lines per reply, fair | 736 k | no leak, bounds of phases and deadline, prompt cancel, in step at the handshake, the dialogue goes on, termination |
| probe_check | 2 legacy suites, 4 versions, fair | 195 k | only what was seen; the search ends, at most one connection late; complete or an error (ContextCall) |
| invocation_check | 3 sections and 3 kinds of keys, with and without a configuration directory; 21 hosts × 5 bracketings × 14 ports, lists and files, 5 protocols; 226 values of --proxy, 9 of the environment | 644 k | precedence and "refused exactly when bad"; endpoints mean their inputs; lists are refused exactly when malformed; the route and port configured |
| invocation_environment | the same | (violation) | an environment that is dropped, section 6 |
| command_check | 2 pieces of input, fair | 43 k | no traffic before everything is valid; interrupted reads fail; codes other than 1 follow a complete inspection; the command ends |
| verify_check | 7 certificates, inputs of up to 3, clock 0..2 | 233 k | labels fit a certificate of the chain; issuers by relationship, and the verified one first |
| output_check | 3 shapes of chain, reports of 1 to 3 inputs, 7 formats | 10 k | nil means whole; no hole; columns fit |
| release_check | 4 commits, 2 versions, 2 faults, 2 dispatches, fair | 29 k | one tested commit per version, `latest` included; published stays whole; resumption |

Why the bounds are enough:

* *Batch.* Three targets on two workers is the smallest instance in which a
  worker comes back for a second job while another holds one, and in which the
  middle input differs from first and last. `MCInit` keeps one combination
  of flags for each way of reporting (structured, line by line, quiet), the last
  one without a revocation check; the proofs of section 5 remove this and the
  bound on targets and workers for everything but liveness.
* *Revocation.* The loop compares a responder only with "is it the last";
  two responders show first, last and both. `FutureSkew = 1`, `MaxAge = 1` and a
  clock of 3 put dates on, before and after each boundary; 0 is the missing date.
* *Report.* The four dates and the clock carry a certificate across each
  boundary between query, tally and rendering. A day of two units gives
  fractions of days in both directions; a largest duration of 3 is exceeded by
  the difference of 4 and 0, while the warning period of one day fits it, as it
  must (section 5).
* *Connection.* Overall deadlines from 1 up to more than the sum 2+3+3 of the
  phases, so that every phase can be the one the deadline cuts, and none.
  Continuation lines beyond the second change nothing in the client, which keeps
  no count except limits of length.
* *Probe.* Two suites give all relations between offered and accepted lists
  (none, one, both in either order); a third adds only longer lists.
* *Config.* Keys do not interact; one per kind covers the code, and all three
  together cover the loop over the map.
* *Command.* Two pieces: a bad one before and after a good one, and a writer
  that stops in between.
* *Verify.* The seven certificates are chosen so that names, keys, signatures
  and dates disagree in every pair the code compares: a cross-signed issuer, a
  renewed one of the same name, one that may not sign, an expiring root. Three
  in a row put leaf, decoy and issuer in each order. Section 5 removes the choice.
* *Output.* A write fails at every position of every report; `Room = 2` makes
  the CSV buffer overflow in the middle of one.
* *Targets and proxies.* Every host form with every bracketing and port, alone; lists
  only for what depends on neighbours (comments, empty lines, order). Every
  combination of URL parts for the flag; the environment needs one value per
  branch. Configuration, targets and proxies vary one at a time (`MCInit` of
  MCInvocation): what they share is the order of the steps and whether NO_PROXY
  names the endpoint; section 5 lets them vary together.
* *Release.* The commits are a version whose tests fail, its repair, a new
  version, and the first one named again by mistake; two faults let a re-run
  fail as well. The proofs remove these bounds.

Deadlock is checked in every run: an ended program is an explicit stuttering
action (`Terminated`, `Returned`, `Over`, ...), so that a deadlock is a real one.
Unbounded variables: `lateDials` and `clock` of Dial are bounded by the
properties themselves (`StopsInTime`, `Bounded`); `MaxTime`,
`MaxOverall` and `MaxMore` are named in their modules as bounds of the model.

Two properties carry more than their names say. `KeepsPromise` is a whole
specification, BatchPromise with its fairness, so that it contains termination:
the exit of the abstract batch must come. `HonoursContext` of Probe and
Revocation likewise contains completeness: ContextCall has no step from a call
whose context is live to an answer with parts left out.

## 4. Fairness

Fairness stands for two things the code may rely on: the Go scheduler runs a
goroutine that can run, and timers fire. It never says that a peer answers.

* Batch: main and workers take their own steps; each live per-target timer
  fires (`--timeout` is always finite and positive); `QueryContext` and
  `CheckCert` are only sure to return once the context is done – which is what
  Dial, Probe and Revocation show of them. Writes to stdout return. Ctrl-C is
  never obliged to happen.
* Revocation: own steps, `--revocation-timeout`, and the return of a request
  whose context is done. No fairness on answers nor on the parent, since the
  pem command has no overall deadline.
* Connection: dialTLS's own steps, the clock, callbacks that were started, and
  the failure of I/O that nothing can continue (`Stuck`: past its deadline, socket
  closed, context seen by the handshake; `DialogueCut` in the dialogue). The
  client reads what has arrived. The server owes nothing.
* Probe: each connection ends (`DialEnds`), and own steps. The context need not end.
* Command: RunE's own steps, the end of each query (Batch's and ContextCall's
  promise), and the two goroutines of the interrupt. Nobody has to write, to
  close the input, or to press Ctrl-C: `CommandEnds` starts from one of these.
* Release: a run that has begun goes on (weak), and maintainers come back to a
  failed run for as long as it can be run again (strong, since other runs keep
  interrupting). A person is behind that, not a scheduler: `Resumes` says that
  the workflow lets them finish, not that they will.
* ContextCall: a return is owed only when the context is done.

## 5. What is proved

`BatchProofs` proves, for every number of targets and every concurrency the
flags allow (`BatchAssumption`: at least one target, `--concurrency` in 1..256,
both enforced before the pool starts):

| theorem | property | |
|---|---|---|
| TypeCorrect | TypeOK | |
| SlotsAreOwned | SlotOwnership | no two workers hold one slot |
| NothingIsLost | ReportIsComplete | after wg.Wait every input has its own result |
| TruncationIsFailure | NoTruncatedSuccess | a check given up is never a success |
| ExitStatusIsWorst | ExitPrecedence | the status is the documented worst |
| EveryInputIsReported | EveryInputReported | once, right stream, input order, its own result |
| ResultsStay | ResultsAreFinal | a slot is written once |
| BatchKeepsPromise | (safety of KeepsPromise) | Batch implements BatchPromise |

The argument. None of these is inductive alone. The inductive invariant is

```
IInv == TypeOK /\ JobsAccounted /\ SlotOwnership /\ TruncationSeen
               /\ TrackerIsWorst /\ ReportSoFar
```

* `JobsAccounted`: each index below `next` is in exactly one place, its slot or
  one worker's hands, and indices from `next` on are untouched. Needed because
  slot ownership survives `Dispatch` only if the new index is fresh, and because
  completeness at `AllExited` follows from "nobody holds a job and next is past
  the end" – the WaitGroup says nothing of results.
* `TruncationSeen`: a chain that is not whole implies that its worker's context
  is done, and keeps it so until `LateCheck` turned it into an error. This is
  where the order of the look at the context and the store matters.
* `TrackerIsWorst`: during the tally the tracker is the worst of the results
  before the cursor; `TrackerSetFact` is the lemma about `Set`.
* `ReportSoFar`: what stands on both streams, per phase and cursor.

Each part has an `Init…` and a `Next…` lemma with a step per action;
`InvariantHolds` combines them, and the theorems follow from it. The refinement
maps `Init` to `Init`, `Store` to `Settle`, the last step of the report to
`Exit`, and everything else to a stutter; `WorstAgree` shows that the two
definitions of "worst" – one by cases on the code's side, one by precedence in
the promise – are equal. Once the pool is closed nothing disturbs the first
parts; `PoolSteps` and `QuietJobs` say so once for all report steps.

The other proof modules have the same layout – an inductive invariant of named
parts, one lemma per action, a theorem that it holds, then a theorem per property –
and hold for every value of the constants within these assumptions:

| module | theorems | assumed | what makes the invariant inductive |
|---|---|---|---|
| CommandProofs | TypeOK, ValidBeforeTraffic, InterruptedReadFails, OtherCodesMeanInspected | `MaxPieces` a number | `Checked`: what has been validated at each point of RunE, which differs between client and pem; `Interrupted`: an early end of the context lasts |
| RevocationProofs | TypeOK, VerdictHasEvidence, PolicyTable, RespondersInOrder, NoAttemptAfterLate | any number of responders, CRLs of any length | `OnlyLast`: only the last attempt can be decisive or late; `Evidence`: the answer behind it is the one kept. The first responder that decided exists because a non-empty set of positions has a least member |
| ReportProofs | TypeOK, ExitMatchesOutput, JudgedAtReport, NoSilentSoftFail, DaysFitStatus | any number of results, any dates; `WarningDays * Day < MaxDuration` | `Tracked`: the tracker is the worst of those counted; `Printed`: all lines are made with the one reading of the clock. `PeriodFits` and `SubAgrees` are the facts about durations |
| ReportProofs (Output) | NilMeansWhole, NoHole, ColumnsFit | any chains, any report of them, any size of csv.Writer's buffer, and every way in which Write takes, cuts or refuses a piece (`OutputAssumption` says what a chain is) | `Writing`: what is written, what is held back and what is still to write make up the parts of the inputs so far – until a write is refused, after which what is written stays a beginning (`IsCut`). An input that failed has an empty part, so that the next chain's part follows the last one's (`NextPart`) |
| ConnectionProofs (Dial) | TypeOK, NoLeak, Bounded, PromptCancel | positive timeouts | `Watched`: while a peer is waited for, a callback is armed or on its way; `Spent`: how late each phase can be, with and without a proxy |
| ConnectionProofs (Connection) | Connection implements Dial and StartTLS; hence NoLeak, Bounded, PromptCancel | the same, any number of lines | none: each step of the composition is a step of one part and a stutter of the other, or a step of both |
| ConnectionProofs (the dialogue) | HandshakeInStep, DialogueGoesOn | the same | `InTurn`: the server is in the client's exchange or one ahead, as the lines in flight and in the client's buffer tell; `ReadBeforeSend`: a client with a command to send has read everything; `CommandInTurn`: a command is on its way exactly if the server waits for it. `ReadyBeforeTLS`: no handshake before the dialogue is ready |
| QueryProofs (Verify) | TypeOK, LabelFits, IssuerByRelationship, TrustedIssuerUsed | any certificates with dates, any trust pools and lengths | `ChainFromLeaf`: what x509 puts first begins with the leaf and a certificate that signed it; `ReadingsInOrder` orders the readings of the clock; `FailureHasCause`: an error about dates names a certificate on the way (`OnTheWay`: the leaf or an issuer some walk comes to) that was out of its dates when x509 looked, and an unknown authority means that some walk ends without an issuer (`DeadEnd`). `ErrorsHaveCause` shows this of every order of the candidates |
| QueryProofs (Probe) | ReportsWhatWasSeen, at most one late connection (the safety half of StopsInTime), QueryContext takes the steps of ContextCall (the safety half of HonoursContext) | any finite set of suites, any preferences of the peer | `SearchInStep`: what has been found are the first suites of the peer's preference, and exactly the others are still offered; `WholeSoFar`: as long as nothing has gone wrong nothing was left out – this is what makes a result complete |
| RevocationProofs (CheckHonoursContext) | CheckCert takes the steps of ContextCall | as RevocationProofs | the invariant above: an attempt that was given up means that the context is done |
| InputProofs (Targets) | EndpointsMeanInputs, RefusedExactlyMalformed | texts, files and lists of any length; the characters of addresses and ports are among `Chars` (`TargetsAssumption`) | `ListedBy`: a map from the list to the inputs, in their order, that leaves out the empty ones; `TakenBy`: the same from the endpoints to the list. Both are needed at once, because a property of an endpoint speaks of the input two lists back |
| InputProofs (Destinations) | RouteAsConfigured | any URLs, settings that do not parse included | `ProxyInv`: a proxy that was chosen was accepted, and nothing is resolved before the list is complete |
| InputProofs (Config) | Precedence, RefusedExactlyWhenBad | any file and command line over the three kinds of keys | `ChecksComplete`: the separate checks leave out no value of any section. `AppliedSoFar`: in whichever order the map is walked, a value that is left is the file's and its flag untouched, one that is gone was applied where it belongs |
| InputProofs (Invocation) | Invocation implements Config and Destinations; hence all five properties hold of an invocation | the same | none: each step of one part is a stutter of the other |
| ReleaseProofs | TypeOK, OneTestedCommit, PublishedStaysWhole | VERSION is a function of the commit | `TagKnown`: what a run read of the tag is still true when it uses it, because runs exclude each other; `Guarded`: a run only publishes over a published release if gh failed to mention it |

The assumption of ReportProofs is strict because the first attempt failed on
`<=`: with equality a difference cut at the largest duration would count as
expiring. Go's numbers (10000 days of some 106751) keep well clear of it.

ConnectionProofs is where the choice of Dial's arbitrary peer pays: nothing about
sockets, deadlines and callbacks is proved twice.

Recursion and sequences. What a filter, a join or a search returns is a matter of
induction over its data, and the library's induction theorems cannot be
instantiated by the installed provers. The proofs go by a least counterexample
instead: of the numbers that refute a claim one is the least (`Counting`,
`LeastExists`, `LeastIs`, from WFMin), and the step before it refutes that. So
ReportProofs shows what FlattenSeq joins (`FlattenIs`, `FlattenAppend`) and from it
what the filters of Output keep; QueryProofs what has been found of a peer's
preference; InputProofs where a text is split (`BareAt`, `WrappedAt`), that it is
split again where it was joined – the brackets that net.JoinHostPort adds are there
exactly when the host has a colon (`JoinSplits`, `WrittenSplits`).

Proved only: SlotOwnership, ReportIsComplete and ResultsAreFinal (Batch),
RespondersInOrder (Revocation), and the types. The runs state what follows from them.

Only model-checked: liveness, that is the fairness half of `KeepsPromise` and
`HonoursContext`, and every `…Ends`, `StopsInTime` and `Resumes`. Liveness under
fairness is out of the prover's reach. Every safety property a passing run checks
is a theorem.

## 6. Findings

**report_text_reason.** The text format's status line (`internal/output/verbose.go:24`) is printed with
a reason if the *health* has one, but prints the chain's *verification error*
instead of it. `internal/tlsquery/health.go:9` calls Health "the shared
certificate assessment used by output and exit codes"; the human format prints
its reason. The run's counterexample is a verified chain that is revoked: its
reason is "certificate revoked", its line is `Status: insecure ()`. The same
follows for a verified chain whose revocation check failed, that is about to
expire (`Status: expiring ()`) or expired since the query. A chain that is
revoked *and* unverified shows the verification error in the place of the reason;
the property is not about these. Exit code and status word are right.

**invocation_environment.** README.md:223 says "Without `--proxy`, target
connections use `HTTPS_PROXY` and `NO_PROXY`". http.ProxyFromEnvironment reports
no error for a value it cannot parse, such as `HTTPS_PROXY='proxy host:8080'`: it
returns no proxy, and resolveProxy (`internal/tlsquery/proxy.go:37`) takes that for
a direct connection. The run's counterexample is a target that NO_PROXY does not
name and that is reached directly. A value that parses and is no proxy the code
accepts (a scheme, a path, a port out of range) is an error, as is anything wrong
with `--proxy`; `RouteAsConfigured` says so and is proved.

Three more divergences were met while modelling. Each is in the model as the code
has it, and follows from one definition, so that no run is spent on it:

* README.md:175 says "displayed days are rounded down for future expiry". The
  number comes from time.Time.Sub (`internal/output/human.go:32`, `csv.go:69`;
  `Days` of Durations), which stops at about 292 years: a certificate without a
  well-defined end (9999-12-31) is shown with 106751 days whenever it is looked
  at. Its status is right, which `JudgedAtReport` and `DaysFitStatus` include.
* README.md:228 says "omitted proxy ports default to 80 and 443 respectively".
  `http://proxy:` is accepted (`internal/tlsquery/proxy.go:49` only checks a port
  that is not empty), and as its Host does split, no default is added: the empty
  port is dialled (`EmptyPort` of Proxy, which `PortFollows` leaves to the code).
* README.md:93 says "The `latest` image tag tracks releases". goreleaser pushes the
  image under both tags (`.goreleaser.yaml:53`) before the files of the draft, and the
  workflow publishes the draft after that (`PushImage` of Release). A run that fails
  in between leaves `latest` on a version that is not released, until it is repeated,
  and a repeated run of an older version moves it back. What holds is that `latest`
  is the image of a version built from its one tested commit (`OneTestedCommit`).

What a reader of the output should know, and no doc denies: the label of a failed
verification may be about the dates of an issuer (`internal/tlsquery/query.go:152`),
although it stands beside the leaf; with several issuers of one name, one of them
out of its dates, it may be that or "unknown authority". And a certificate that
becomes valid between x509's reading of the clock and the label's is called expired.
`LabelFits` allows for both.

## 7. Not modelled

* Byte formats: X.509, CRL and OCSP encodings, BER, PEM, JSON, YAML, and
  cryptography. Each appears as the verdict the code derives from it.
* Certificate description, the names of fields and the wording: formatting. (Which
  lines, rows and columns there are is part of Output.)
* Limits on sizes (CRL and OCSP bodies, line lengths, number of targets): they
  end in an error that is modelled; their numbers are not.
* CI, container files, helper scripts, the version command and `main`: linear, no
  state kept.

Where a model stops short of the system, on purpose:

* *Command.* A read that blocks in the operating system (a terminal, a redirected
  descriptor that cannot be polled) is not ended by Close, so `CommandEnds` asks
  for `pollable`; nor does Ctrl-C close a FIFO named on the command line. The
  user presses once: NotifyContext swallows further presses. A press that comes
  with the last byte may reach the context after the read has succeeded; then the
  run counts as one that was interrupted during its work, as in the code.
  SIGPIPE, which ends the process from outside, is left out.
* *Output.* The YAML encoder closes over its own buffer after an error and may
  write it again, so that `NoHole` is about the other formats.
* *Targets.* A zone that holds a bracket (`::1%]`) is accepted and no later step can
  split it: `Odd` names these inputs, and no property is claimed of them. A port
  with a sign (`+443`) is accepted, as strconv.Atoi reads it, and part of the grammar
  that `RefusedExactlyMalformed` compares with.
* *Revocation.* Freshness is judged by the one reading of the clock at the beginning of
  the check, in the code and in `VerdictHasEvidence`: an answer that expires during
  a slow check still counts, and nothing says that it should not.
* *Probe.* `ReportsWhatWasSeen` accepts every beginning of the peer's preference, the
  empty one too: a version whose first enumerating connection failed is reported
  without suites.
* *StartTLS.* The server never pipelines plaintext behind its go-ahead, so that what
  a client would lose with its buffer is covered only for replies.
* *Release.* What happens after `gh release view` failed unseen is excepted from
  `PublishedStaysWhole`: a published release is then published over.
* *Revocation and Probe* are composed with Batch through ContextCall only, and
  Probe sees a connection as an action that ends, which is what Connection shows.
* *Connection.* BER and the limits on the length and number of lines are abstracted
  to malformed replies.

## 8. Plan

The parts were modelled in this order: Batch with BatchPromise; Freshness and
Revocation; Health and Report; Dial; Probe; StartTLS; Config; then Command,
Verify, Output, Targets, Proxy, Release and ContextCall; then the compositions
Connection, Destinations and Invocation; each with its proofs when they were in reach.

Every safety property the runs check is proved. Left, in this order:

1. The proofs about sequences (`Counting`, `FlattenIs`, the facts about `Only` and
   about parts of texts) as one module that the others extend.
2. Targets: the inputs in `Odd` are outside both of its properties. What the code makes
   of them – an endpoint that no later step can split, hence a failed target – can be
   stated as a property of its own.
3. The environment's proxy choice is external; a model of its NO_PROXY matching
   would replace `excluded`.
