------------------------------- MODULE Report -------------------------------
(***************************************************************************)
(* The report of a run, with the clock: finishResults (cmd/client.go)      *)
(* reads the time once, derives the exit code from the health of every     *)
(* result at that time, and hands the same reading to the renderer         *)
(* (internal/output), which assesses every chain again while it writes.    *)
(* The queries lie up to minutes back, so a certificate may have expired,  *)
(* or come into its warning period, since it was verified.                 *)
(***************************************************************************)
EXTENDS Health

CONSTANTS NResults,     \* len(results)
          WarningDays,  \* --expiry-warning
          Dates,        \* the dates a certificate may carry
          MaxTime       \* the clock stops here (a bound of the model)

\* A warning period is shorter than the largest duration: --expiry-warning goes up to
\* 10000 days of some 106751.
ASSUME ReportAssumption ==
    /\ NResults \in Nat \ {0}
    /\ WarningDays \in 1..10000 /\ WarningDays * Day < MaxDuration
    /\ Dates \subseteq Nat
    /\ MaxTime \in Nat

VARIABLES
    format,   \* --output: the renderer
    results,  \* the targetResults
    clock,    \* the wall clock
    now,      \* what rt.NowFunc() returned
    pc,       \* where finishResults is
    cursor,   \* the index of its current loop
    exit,     \* the ExitTracker's code
    printed,  \* per result, what the output says of it
    envelope  \* the status of the JSON/YAML envelope

vars == <<format, results, clock, now, pc, cursor, exit, printed, envelope>>

Format == {"human", "text", "json"}
Structured == format = "json"

\* A chain as QueryContext or ParsePEM leaves it at time t: x509 verification
\* includes the dates, so that only a certificate valid at t is verified.
ChainAt(t) ==
    {c \in [verified : BOOLEAN, verificationError : {"", "unknown authority"},
            notBefore : Dates, notAfter : Dates, revocation : RevocationStatus \cup {""}] :
        /\ c.notBefore <= c.notAfter
        /\ c.verified => c.notBefore <= t /\ t <= c.notAfter
        /\ c.verified <=> c.verificationError = ""}

Failure == [err |-> TRUE]
ResultAt(t) == {Failure} \cup [err : {FALSE}, chain : ChainAt(t)]

\* What the output says of a result.  status and reason stand on the status
\* line (or in tls_status); mark is the sign of the human format; days stand in
\* its message, "expires in" or "expired", and in days_remaining of a CSV summary.
NoLine == [status |-> "", reason |-> "", mark |-> "", days |-> 0, expired |-> FALSE]

Init ==
    /\ format \in Format
    /\ clock \in 0..MaxTime
    /\ results \in [1..NResults -> ResultAt(clock)]
    /\ now = 0
    /\ pc = "clock"
    /\ cursor = 1
    /\ exit = ExitOK
    /\ printed = [i \in 1..NResults |-> NoLine]
    /\ envelope = ""

Tick ==
    /\ clock < MaxTime /\ pc # "done"
    /\ clock' = clock + 1
    /\ UNCHANGED <<format, results, now, pc, cursor, exit, printed, envelope>>

\* now := rt.NowFunc()
ReadClock ==
    /\ pc = "clock"
    /\ now' = clock
    /\ pc' = "tally"
    /\ UNCHANGED <<format, results, clock, cursor, exit, printed, envelope>>

\* updateExitCodeForChain with the reading of the clock.
CodeOf(result) ==
    IF result.err THEN ExitRuntimeError
    ELSE HealthCode(HealthOf(result.chain, now, WarningDays).status)

Tally ==
    /\ pc = "tally" /\ cursor <= NResults
    /\ exit' = TrackerSet(exit, CodeOf(results[cursor]))
    /\ cursor' = cursor + 1
    /\ UNCHANGED <<format, results, clock, now, pc, printed, envelope>>

TallyDone ==
    /\ pc = "tally" /\ cursor > NResults
    /\ cursor' = 1
    /\ pc' = "render"
    /\ UNCHANGED <<format, results, clock, now, exit, printed, envelope>>

\* Mutant: the renderers read the clock themselves.
RenderTimeOwn == clock

\* Options.Now: the renderers ask for the time again and are given finishResults'
\* reading of it.
RenderTime == now

\* Mutant: the sign is that of the health alone.
HumanMarkOfHealth(chain, health) ==
    IF health.status \in {"insecure", "revocation_error"} THEN "bad"
    ELSE IF health.status = "expiring" THEN "warning" ELSE "ok"

\* HumanRenderer.Render: the sign in front of the status.
HumanMark(chain, health) ==
    IF health.status \in {"insecure", "revocation_error"} THEN "bad"
    ELSE IF health.status = "expiring" THEN "warning"
    ELSE IF chain.revocation \notin {"", "good", "revoked", "error"} THEN "warning"
    ELSE "ok"

\* HumanRenderer: the reason is left out for a certificate that expires soon.
HumanLine(chain) ==
    LET health == HealthOf(chain, RenderTime, WarningDays)
    IN  [status  |-> health.status,
         reason  |-> IF health.status = "expiring" THEN "" ELSE health.reason,
         mark    |-> HumanMark(chain, health),
         days    |-> Days(chain.notAfter, RenderTime),
         expired |-> RenderTime > chain.notAfter]

\* VerboseTextRenderer: the status line is guarded by the health's reason but
\* prints the chain's verification error (verbose.go:24).
TextLine(chain) ==
    LET health == HealthOf(chain, RenderTime, WarningDays)
    IN  [NoLine EXCEPT !.status = health.status,
                       !.reason = IF health.reason # "" THEN chain.verificationError ELSE ""]

\* TargetResult.TLSStatus, empty for a failed input, and the days of a CSV summary.
BatchLine(result) ==
    IF result.err THEN NoLine
    ELSE [NoLine EXCEPT !.status = HealthOf(result.chain, RenderTime, WarningDays).status,
                        !.days = Days(result.chain.notAfter, RenderTime)]

LineOf(result) ==
    IF Structured THEN BatchLine(result)
    ELSE IF result.err THEN NoLine
    ELSE IF format = "human" THEN HumanLine(result.chain)
    ELSE TextLine(result.chain)

Render ==
    /\ pc = "render" /\ cursor <= NResults
    /\ printed' = [printed EXCEPT ![cursor] = LineOf(results[cursor])]
    /\ cursor' = cursor + 1
    /\ UNCHANGED <<format, results, clock, now, pc, exit, envelope>>

\* toBatchEnvelope: the status of the whole batch, from the failed inputs.
EnvelopeStatus ==
    LET failed == {i \in 1..NResults : results[i].err}
    IN  IF failed = {} THEN "success"
        ELSE IF failed = 1..NResults THEN "failure"
        ELSE "partial_success"

RenderDone ==
    /\ pc = "render" /\ cursor > NResults
    /\ envelope' = IF Structured THEN EnvelopeStatus ELSE ""
    /\ pc' = "done"
    /\ UNCHANGED <<format, results, clock, now, cursor, exit, printed>>

Finished == pc = "done" /\ UNCHANGED vars

Next == ReadClock \/ Tally \/ TallyDone \/ Render \/ RenderDone \/ Tick \/ Finished

Spec == Init /\ [][Next]_vars

-----------------------------------------------------------------------------
TypeOK ==
    /\ format \in Format
    /\ clock \in 0..MaxTime /\ now \in 0..MaxTime
    /\ pc \in {"clock", "tally", "render", "done"}
    /\ cursor \in 1..(NResults + 1)
    /\ exit \in ExitCode
    /\ \A i \in 1..NResults :
          /\ printed[i].status \in HealthStatus \cup {""}
          /\ printed[i].mark \in {"", "ok", "warning", "bad"}
          /\ printed[i].days \in Int /\ printed[i].expired \in BOOLEAN
    /\ envelope \in {"", "success", "partial_success", "failure"}

\* The statuses on stdout and the exit status tell the same story, although
\* they are computed one after the other while the clock runs: the exit code is
\* the highest the printed statuses and the failed inputs ask for, and the
\* envelope of the structured formats says "success" unless that is 1.
ExitMatchesOutput ==
    pc = "done" =>
        LET codes == {IF results[i].err THEN ExitRuntimeError
                      ELSE HealthCode(printed[i].status) : i \in 1..NResults}
        IN  /\ exit \in codes
            /\ \A c \in codes : exitPriority[c] <= exitPriority[exit]
            /\ Structured => (envelope = "success" <=> exit # ExitRuntimeError)

\* A chain verified at the query is judged by the time of the report.  README,
\* Exit codes: "The comparison uses elapsed time, including the exact threshold":
\* what is shown as "secure" has more than the warning period left then, and what
\* is shown as "expiring" has not expired and no more than the period left, also
\* for dates whose difference is cut at the largest duration.
JudgedAtReport ==
    \A i \in 1..NResults :
        /\ printed[i].status = "secure" =>
              now \in results[i].chain.notBefore..results[i].chain.notAfter
              /\ results[i].chain.notAfter > now + WarningDays * Day
        /\ printed[i].status = "expiring" =>
              results[i].chain.notAfter \in now..(now + WarningDays * Day)

\* README, Quick start: an unavailable soft-fail revocation check remains
\* visible; the human format gives its clean sign only to a secure chain whose
\* revocation was either not asked for or established.
NoSilentSoftFail ==
    \A i \in 1..NResults :
        printed[i].mark = "ok" =>
            printed[i].status = "secure" /\ results[i].chain.revocation \in {"", "good"}

\* The number of days, the words and the status of a line fit each other: whoever
\* compares the days with the threshold comes to the status, except on the
\* threshold's own day, where the fraction that is not shown decides; and
\* "expired" is said of what has ended and only then.
DaysFitStatus ==
    \A i \in 1..NResults :
        LET line == printed[i]
        IN  line.status # "" /\ format # "text" =>
                /\ line.days < WarningDays => line.status # "secure"
                /\ line.days > WarningDays => line.status # "expiring"
                /\ line.expired => line.days <= 0 /\ line.status \notin {"secure", "expiring"}
                /\ format = "human" => (line.expired <=> now > results[i].chain.notAfter)

\* health.go:9, "Health is the shared certificate assessment used by output and
\* exit codes": a verified chain that is not secure any more is shown with the
\* reason its health gives, unless the format leaves reasons out.
ReasonIsHealthReason ==
    \A i \in 1..NResults :
        /\ format = "text" /\ printed[i].status \notin {"", "secure"}
        /\ results[i].chain.verified
        => printed[i].reason = HealthOf(results[i].chain, now, WarningDays).reason
=============================================================================
