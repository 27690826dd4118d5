-------------------------------- MODULE Batch --------------------------------
(***************************************************************************)
(* One run of `tlsctl client` from the moment its targets are known:       *)
(* queryTargets (cmd/client.go) feeds the targets to a pool of worker      *)
(* goroutines over an unbuffered channel, each worker queries its target   *)
(* under a context of its own and stores the result in the target's slot;  *)
(* finishResults then tallies the exit code, renders the results and       *)
(* names the failures on stderr; Execute (cmd/root.go) turns all of it     *)
(* into the exit status.                                                   *)
(*                                                                         *)
(* QueryContext and CheckCert are seen here through what they return; the  *)
(* modules Dial, Probe and Revocation look inside.                         *)
(***************************************************************************)
EXTENDS Naturals, Sequences, ExitCodes

CONSTANTS NTargets,     \* len(targets)
          Concurrency   \* --concurrency

ASSUME BatchAssumption ==
    /\ NTargets \in Nat \ {0}
    /\ Concurrency \in 1..256

Targets == 1..NTargets
Workers == 1..(IF Concurrency <= NTargets THEN Concurrency ELSE NTargets)

VARIABLES
    opts,         \* the flags that steer this part of the run
    main,         \* where the main goroutine is
    next,         \* the index the feeding loop sends next
    interrupted,  \* Ctrl-C cancelled the parent context
    pc,           \* where each worker is
    job,          \* the index each worker is on, 0 for none
    chain,        \* the local `chain` of each worker's loop body
    err,          \* its local `err` is not nil
    ctx,          \* each worker's targetCtx: "none", "live" or "done"
    results,      \* the results slice
    cursor,       \* the index of the loop finishResults is in
    exit,         \* the ExitTracker's code
    stdout,       \* the inputs written to stdout, in order
    stderr,       \* the inputs whose error was written to stderr, in order
    runErr        \* RunE returned an error

workerVars == <<pc, job, chain, err, ctx>>
reportVars == <<cursor, exit, stdout, stderr, runErr>>
vars == <<opts, main, next, interrupted, pc, job, chain, err, ctx, results,
          cursor, exit, stdout, stderr, runErr>>

-----------------------------------------------------------------------------
\* quiet: --quiet; structured: the format's renderer is a BatchRenderer;
\* revocation: --revocation names a mode.
Options == [quiet : BOOLEAN, structured : BOOLEAN, revocation : BOOLEAN]

\* A ChainInfo: the health it will be given, and whether the revocation check
\* worked through its sources (TRUE) or gave some up because the target's
\* context was done (FALSE).
Chain    == [health : HealthStatus, whole : BOOLEAN]
NilChain == [health |-> "none", whole |-> FALSE]

\* targetResult; NoResult is its zero value, endpoint 0 standing for "".
Result   == [endpoint : Targets, chain : Chain \cup {NilChain}, err : BOOLEAN]
NoResult == [endpoint |-> 0, chain |-> NilChain, err |-> FALSE]

WorkerPC == {"receive", "start", "query", "revoke", "check", "store", "exited"}
MainPC   == {"feeding", "waiting", "tally", "render", "diagnose", "done"}

\* A worker is busy with a job from the receive to the store.
Busy(w) == pc[w] \notin {"receive", "exited"}

\* The jobs channel was closed.
Closed == main # "feeding"

ResultCode(r) ==
    IF r.err THEN ExitRuntimeError
             ELSE HealthCode(r.chain.health)

Init ==
    /\ opts \in Options
    /\ main = "feeding"
    /\ next = 1
    /\ interrupted = FALSE
    /\ pc = [w \in Workers |-> "receive"]
    /\ job = [w \in Workers |-> 0]
    /\ chain = [w \in Workers |-> NilChain]
    /\ err = [w \in Workers |-> FALSE]
    /\ ctx = [w \in Workers |-> "none"]
    /\ results = [i \in Targets |-> NoResult]
    /\ cursor = 1
    /\ exit = ExitOK
    /\ stdout = << >>
    /\ stderr = << >>
    /\ runErr = FALSE

-----------------------------------------------------------------------------
(* The feeding loop and the worker pool: queryTargets.                     *)

\* jobs <- targetJob{index, endpoint} meets `range jobs` in worker w: the
\* channel has no buffer, so the send and the receive are one step.
Dispatch(w) ==
    /\ main = "feeding"
    /\ next <= NTargets
    /\ pc[w] = "receive"
    /\ pc' = [pc EXCEPT ![w] = "start"]
    /\ job' = [job EXCEPT ![w] = next]
    /\ next' = next + 1
    /\ UNCHANGED <<opts, main, interrupted, chain, err, ctx, results, reportVars>>

CloseJobs ==
    /\ main = "feeding"
    /\ next > NTargets
    /\ main' = "waiting"
    /\ UNCHANGED <<opts, next, interrupted, workerVars, results, reportVars>>

\* Mutant: the query runs under a background context.
StartTimerBackground(w) ==
    /\ pc[w] = "start"
    /\ pc' = [pc EXCEPT ![w] = "query"]
    /\ UNCHANGED <<opts, main, next, interrupted, job, chain, err, ctx, results, reportVars>>

\* context.WithTimeout: the clock of --timeout starts here.  A child of a
\* cancelled parent is done from birth.
StartTimer(w) ==
    /\ pc[w] = "start"
    /\ ctx' = [ctx EXCEPT ![w] = IF interrupted THEN "done" ELSE "live"]
    /\ pc' = [pc EXCEPT ![w] = "query"]
    /\ UNCHANGED <<opts, main, next, interrupted, job, chain, err, results, reportVars>>

\* QueryContext returns a chain.  A context that is done by now does not rule
\* that out: it may have run out after the last look QueryContext took at it.
QuerySucceeds(w) ==
    /\ pc[w] = "query"
    /\ \E h \in HealthStatus \ {"revocation_error"} :
          chain' = [chain EXCEPT ![w] = [health |-> h, whole |-> TRUE]]
    /\ pc' = [pc EXCEPT ![w] = IF opts.revocation THEN "revoke" ELSE "check"]
    /\ UNCHANGED <<opts, main, next, interrupted, job, err, ctx, results, reportVars>>

QueryFails(w) ==
    /\ pc[w] = "query"
    /\ err' = [err EXCEPT ![w] = TRUE]
    /\ pc' = [pc EXCEPT ![w] = "check"]
    /\ UNCHANGED <<opts, main, next, interrupted, job, chain, ctx, results, reportVars>>

\* A check that runs out of its context may leave sources untried (ContextCall
\* states what both calls promise, Probe and Revocation keep it).
MayBeWhole(w) == IF ctx[w] = "done" THEN BOOLEAN ELSE {TRUE}

\* runRevocationCheck: the leaf stays as it was (good, not checked, unknown),
\* turns out revoked, or the check failed without --soft-fail.  With it, a
\* check cut short leaves the health alone.
Revoke(w) ==
    /\ pc[w] = "revoke"
    /\ \E h \in {chain[w].health, "insecure", "revocation_error"}, whole \in MayBeWhole(w) :
          chain' = [chain EXCEPT ![w] =
                      [health |-> h, whole |-> chain[w].whole /\ whole]]
    /\ pc' = [pc EXCEPT ![w] = "check"]
    /\ UNCHANGED <<opts, main, next, interrupted, job, err, ctx, results, reportVars>>

\* Mutant: the context is not looked at again.
LateCheckMissing(w) ==
    /\ pc[w] = "check"
    /\ pc' = [pc EXCEPT ![w] = "store"]
    /\ UNCHANGED <<opts, main, next, interrupted, job, chain, err, ctx, results, reportVars>>

\* if err == nil && targetCtx.Err() != nil { err = targetCtx.Err() }
LateCheck(w) ==
    /\ pc[w] = "check"
    /\ err' = [err EXCEPT ![w] = err[w] \/ ctx[w] = "done"]
    /\ pc' = [pc EXCEPT ![w] = "store"]
    /\ UNCHANGED <<opts, main, next, interrupted, job, chain, ctx, results, reportVars>>

\* cancel(), then results[job.index] = targetResult{...}.
Store(w) ==
    /\ pc[w] = "store"
    /\ results' = [results EXCEPT ![job[w]] =
                     [endpoint |-> job[w], chain |-> chain[w], err |-> err[w]]]
    /\ job' = [job EXCEPT ![w] = 0]
    /\ chain' = [chain EXCEPT ![w] = NilChain]
    /\ err' = [err EXCEPT ![w] = FALSE]
    /\ ctx' = [ctx EXCEPT ![w] = "none"]
    /\ pc' = [pc EXCEPT ![w] = "receive"]
    /\ UNCHANGED <<opts, main, next, interrupted, reportVars>>

\* `range jobs` ends on the closed channel; the goroutine leaves the WaitGroup.
WorkerExits(w) ==
    /\ pc[w] = "receive"
    /\ Closed
    /\ pc' = [pc EXCEPT ![w] = "exited"]
    /\ UNCHANGED <<opts, main, next, interrupted, job, chain, err, ctx, results,
                   reportVars>>

\* wg.Wait() returns and finishResults starts its first loop.
AllExited ==
    /\ main = "waiting"
    /\ \A w \in Workers : pc[w] = "exited"
    /\ main' = "tally"
    /\ UNCHANGED <<opts, next, interrupted, workerVars, results, reportVars>>

\* The timer of a target's context fires.
Expire(w) ==
    /\ ctx[w] = "live"
    /\ ctx' = [ctx EXCEPT ![w] = "done"]
    /\ UNCHANGED <<opts, main, next, interrupted, pc, job, chain, err, results,
                   reportVars>>

\* Ctrl-C: signal.NotifyContext cancels the parent and with it every child.
Interrupt ==
    /\ ~interrupted
    /\ main # "done"
    /\ interrupted' = TRUE
    /\ ctx' = [w \in Workers |-> IF ctx[w] = "live" THEN "done" ELSE ctx[w]]
    /\ UNCHANGED <<opts, main, next, pc, job, chain, err, results, reportVars>>

-----------------------------------------------------------------------------
(* The report: finishResults.                                              *)

Tally ==
    /\ main = "tally"
    /\ cursor <= NTargets
    /\ exit' = TrackerSet(exit, ResultCode(results[cursor]))
    /\ cursor' = cursor + 1
    /\ UNCHANGED <<opts, main, next, interrupted, workerVars, results,
                   stdout, stderr, runErr>>

\* Mutant: --quiet silences stderr too.
TallyDoneSilent ==
    /\ main = "tally" /\ cursor > NTargets
    /\ cursor' = 1
    /\ main' = IF opts.quiet THEN "done" ELSE "render"
    /\ UNCHANGED <<opts, next, interrupted, workerVars, results,
                   exit, stdout, stderr, runErr>>

\* The second and the third loop start again at the first result.
TallyDone ==
    /\ main = "tally"
    /\ cursor > NTargets
    /\ cursor' = 1
    /\ main' = IF opts.quiet THEN "diagnose" ELSE "render"
    /\ UNCHANGED <<opts, next, interrupted, workerVars, results,
                   exit, stdout, stderr, runErr>>

\* A BatchRenderer writes one document with every input in it, errors too, so
\* renderedErrors is set and nothing is left to say on stderr.
RenderBatch ==
    /\ main = "render"
    /\ opts.structured
    /\ stdout' = [i \in Targets |-> i]
    /\ main' = "done"
    /\ UNCHANGED <<opts, next, interrupted, workerVars, results,
                   cursor, exit, stderr, runErr>>

\* The other renderers write the chains one by one and pass over the failures.
RenderNext ==
    /\ main = "render"
    /\ ~opts.structured
    /\ cursor <= NTargets
    /\ stdout' = IF results[cursor].err THEN stdout ELSE Append(stdout, cursor)
    /\ cursor' = cursor + 1
    /\ UNCHANGED <<opts, main, next, interrupted, workerVars, results,
                   exit, stderr, runErr>>

RenderDone ==
    /\ main = "render"
    /\ ~opts.structured
    /\ cursor > NTargets
    /\ cursor' = 1
    /\ main' = "diagnose"
    /\ UNCHANGED <<opts, next, interrupted, workerVars, results,
                   exit, stdout, stderr, runErr>>

Diagnose ==
    /\ main = "diagnose"
    /\ cursor <= NTargets
    /\ stderr' = IF results[cursor].err THEN Append(stderr, cursor) ELSE stderr
    /\ cursor' = cursor + 1
    /\ UNCHANGED <<opts, main, next, interrupted, workerVars, results,
                   exit, stdout, runErr>>

DiagnoseDone ==
    /\ main = "diagnose"
    /\ cursor > NTargets
    /\ main' = "done"
    /\ UNCHANGED <<opts, next, interrupted, workerVars, results, reportVars>>

\* A write that has something to say fails and RunE returns its error at once.
WriteFails ==
    /\ \/ main = "render" /\ opts.structured
       \/ main = "render" /\ cursor <= NTargets /\ ~results[cursor].err
       \/ main = "diagnose" /\ cursor <= NTargets /\ results[cursor].err
    /\ runErr' = TRUE
    /\ main' = "done"
    /\ UNCHANGED <<opts, next, interrupted, workerVars, results,
                   cursor, exit, stdout, stderr>>

\* The process is gone.
Terminated == main = "done" /\ UNCHANGED vars

-----------------------------------------------------------------------------
\* Execute: an error of the command wins over the tracker's code.
ProcessStatus == IF runErr THEN ExitRuntimeError ELSE exit

WorkerStep(w) ==
    \/ StartTimer(w) \/ QuerySucceeds(w) \/ QueryFails(w) \/ Revoke(w)
    \/ LateCheck(w) \/ Store(w) \/ WorkerExits(w)

Report ==
    \/ Tally \/ TallyDone \/ RenderBatch \/ RenderNext \/ RenderDone
    \/ Diagnose \/ DiagnoseDone \/ WriteFails

Next ==
    \/ \E w \in Workers : Dispatch(w) \/ WorkerStep(w) \/ Expire(w)
    \/ CloseJobs \/ AllExited \/ Interrupt
    \/ Report
    \/ Terminated

Spec == Init /\ [][Next]_vars

\* The Go scheduler runs every goroutine that can run, every timer fires
\* (--timeout is finite) and a write to stdout or stderr returns.  A peer owes
\* nothing: a query or a revocation check is only sure to return once its
\* context is done.
Fairness ==
    /\ WF_vars(\E w \in Workers : Dispatch(w))
    /\ WF_vars(CloseJobs) /\ WF_vars(AllExited) /\ WF_vars(Report)
    /\ \A w \in Workers :
          /\ WF_vars(Expire(w))
          /\ WF_vars(StartTimer(w) \/ LateCheck(w) \/ Store(w) \/ WorkerExits(w))
          /\ WF_vars(ctx[w] = "done" /\ (QuerySucceeds(w) \/ QueryFails(w) \/ Revoke(w)))

FairSpec == Spec /\ Fairness

-----------------------------------------------------------------------------
TypeOK ==
    /\ opts \in Options
    /\ main \in MainPC
    /\ next \in 1..(NTargets + 1)
    /\ interrupted \in BOOLEAN
    /\ pc \in [Workers -> WorkerPC]
    /\ job \in [Workers -> Targets \cup {0}]
    /\ chain \in [Workers -> Chain \cup {NilChain}]
    /\ err \in [Workers -> BOOLEAN]
    /\ ctx \in [Workers -> {"none", "live", "done"}]
    /\ results \in [Targets -> Result \cup {NoResult}]
    /\ cursor \in 1..(NTargets + 1)
    /\ exit \in ExitCode
    /\ stdout \in Seq(Targets)
    /\ stderr \in Seq(Targets)
    /\ runErr \in BOOLEAN

\* "Each worker owns a distinct result slot" (client.go:161): no two workers
\* hold the same job, and the slot of a job in hand has not been written.
SlotOwnership ==
    \A v \in Workers : Busy(v) =>
        /\ results[job[v]] = NoResult
        /\ \A w \in Workers \ {v} : Busy(w) => job[w] # job[v]

\* What finishResults reads is complete: once wg.Wait has returned every input
\* has a result, and it is the result of that input ("Results retain input
\* order").
ReportIsComplete ==
    main \in {"tally", "render", "diagnose", "done"} =>
        \A i \in Targets : results[i].endpoint = i

\* An exhausted --timeout or Ctrl-C is a failed input even under --soft-fail:
\* a chain whose revocation check was given up is never recorded as a success
\* (client.go:174).
NoTruncatedSuccess ==
    \A i \in Targets :
        results[i] # NoResult /\ ~results[i].err => results[i].chain.whole

\* README: the exit status is the most severe of all inputs, in the order
\* 1 > 3 > 2 > 4 > 0.
WorstCode ==
    LET Some(s) == \E i \in Targets : ~results[i].err /\ results[i].chain.health = s
    IN  IF \E i \in Targets : results[i].err THEN 1
        ELSE IF Some("revocation_error") THEN 3
        ELSE IF Some("insecure") THEN 2
        ELSE IF Some("expiring") THEN 4
        ELSE 0

ExitPrecedence ==
    main = "done" => ProcessStatus = IF runErr THEN 1 ELSE WorstCode

\* The failed inputs, and those that belong on stdout.
Failed == {i \in Targets : results[i].err}
Shown  == IF opts.quiet THEN {}
          ELSE IF opts.structured THEN Targets ELSE Targets \ Failed

Elements(s)   == {s[k] : k \in 1..Len(s)}
Increasing(s) == \A j, k \in 1..Len(s) : j < k => s[j] < s[k]

\* README, Multiple Endpoints: when the command ends without a write error,
\* every failed input has been named exactly once, on stdout by the structured
\* formats and on stderr otherwise (quiet mode too); every successful input is
\* on stdout unless --quiet; both streams keep the input order, and what stands in an
\* input's place is what was found out about that input and no other.
EveryInputReported ==
    main = "done" /\ ~runErr =>
        /\ Elements(stdout) = Shown
        /\ \A i \in Elements(stdout) \cup Elements(stderr) : results[i].endpoint = i
        /\ Elements(stderr) = Failed \ Shown
        /\ Increasing(stdout) /\ Increasing(stderr)

\* A recorded result is final: no later step replaces it.
ResultsAreFinal ==
    [][\A i \in Targets : results[i] # NoResult => results'[i] = results[i]]_vars

\* The batch as its user sees it: which inputs are settled and how, and the
\* status the process ends with.
OutcomeOf(r) ==
    IF r = NoResult THEN "pending"
    ELSE IF r.err THEN "error" ELSE r.chain.health

Promise == INSTANCE BatchPromise WITH
    outcome <- [i \in Targets |-> OutcomeOf(results[i])],
    exited  <- main = "done",
    status  <- IF main = "done" THEN ProcessStatus ELSE ExitOK

\* The worker pool and the report keep the promise of BatchPromise.  With it the
\* command ends whatever the peers do, also after Ctrl-C and with more targets
\* than workers.
KeepsPromise == Promise!Spec
=============================================================================
