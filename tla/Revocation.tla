----------------------------- MODULE Revocation -----------------------------
(***************************************************************************)
(* One revocation check: Checker.CheckCert for the one method the command  *)
(* line names (internal/revocation/checker.go), with the loop over the     *)
(* certificate's responders of checkCRL and checkOCSP and one HTTP request *)
(* per responder.                                                          *)
(*                                                                         *)
(* The HTTP exchange is the environment: a responder may answer anything,  *)
(* fail, or hang; only the request's own timer and the parent context end  *)
(* a request that hangs.  The clock runs while requests are out.           *)
(***************************************************************************)
EXTENDS Freshness

CONSTANTS NResponders,  \* len(leaf.CRLDistributionPoints) or len(leaf.OCSPServer)
          Entries,      \* the entry lists a CRL may have
          MaxTime       \* the clock and the dates stop here (a bound of the model)

ASSUME RevocationAssumption ==
    /\ NResponders \in Nat
    /\ MaxTime \in Nat \ {0}
    /\ Entries \subseteq Seq({"other", "leaf", "critical"})

VARIABLES
    input,     \* what CheckCert is called with
    pc,        \* where CheckCert is
    clock,     \* the wall clock
    now,       \* the one reading of it CheckCert takes (CheckedAt)
    parent,    \* opts.Context: "live" or "done"
    request,   \* the context of the request that is out: "none", "live", "done"
    answer,    \* the last answer received, NoAnswer if there is none
    attempts,  \* info.Results: the status of each attempt, in order, and
               \* whether opts.Context was done when it ended
    overall    \* info.OverallStatus, "" until it is computed

vars == <<input, pc, clock, now, parent, request, answer, attempts, overall>>

-----------------------------------------------------------------------------
Status == {"good", "revoked", "unknown", "not_checked", "not_supported", "error"}

\* method: --revocation; leaf: a leaf was parsed; issuer: ValidateIssuer
\* accepts the issuer; responders: how many the certificate names; softFail.
Inputs == [method : {"crl", "ocsp"}, leaf : BOOLEAN, issuer : BOOLEAN,
           responders : 0..NResponders, softFail : BOOLEAN]

\* The dates reach past the clock, so that ThisUpdate can be in the future.
Dates   == 0..(MaxTime + FutureSkew + 1)
Answers == IF input.method = "crl" THEN CRLAnswer(Dates, Entries) ELSE OCSPAnswer(Dates)

NoAnswer == [sound |-> FALSE]

Attempt == [status : Status, late : BOOLEAN]

PC == {"start", "request", "await", "decide", "overall", "done"}

Judge(a) == IF input.method = "crl" THEN JudgeCRL(a, now) ELSE JudgeOCSP(a, now)

Decisive(status) == status \in {"good", "revoked"}

Init ==
    /\ input \in Inputs
    /\ pc = "start"
    /\ clock \in 1..MaxTime
    /\ now = 0
    /\ parent \in {"live", "done"}
    /\ request = "none"
    /\ answer = NoAnswer
    /\ attempts = << >>
    /\ overall = ""

Record(status) ==
    attempts' = Append(attempts, [status |-> status, late |-> parent = "done"])

\* CheckCert up to the responder loop: the clock is read once, and three early
\* returns stand for all responders with a single result.
Start ==
    /\ pc = "start"
    /\ now' = clock
    /\ \/ /\ ~input.leaf
          /\ Record("not_checked") /\ pc' = "overall"
       \/ /\ input.leaf /\ input.responders = 0
          /\ Record("not_supported") /\ pc' = "overall"
       \/ /\ input.leaf /\ input.responders > 0 /\ ~input.issuer
          /\ Record("not_checked") /\ pc' = "overall"
       \/ /\ input.leaf /\ input.responders > 0 /\ input.issuer
          /\ pc' = "request" /\ UNCHANGED attempts
    /\ UNCHANGED <<input, clock, parent, request, answer, overall>>

\* Mutant: no timeout of its own, the request lives with its parent.
SendRequestNoTimeout ==
    /\ pc = "request"
    /\ request' = IF parent = "done" THEN "done" ELSE "none"
    /\ pc' = "await"
    /\ UNCHANGED <<input, clock, now, parent, answer, attempts, overall>>

\* context.WithTimeout(parent, timeout) and client.Do.
SendRequest ==
    /\ pc = "request"
    /\ request' = IF parent = "done" THEN "done" ELSE "live"
    /\ pc' = "await"
    /\ UNCHANGED <<input, clock, now, parent, answer, attempts, overall>>

\* The response is in and read; its judgement uses the reading of the clock
\* from the start of the check.  A context that is done by now does not undo it.
AnswerArrives ==
    /\ pc = "await"
    /\ \E a \in Answers :
          /\ answer' = a
          /\ Record(Judge(a))
    /\ request' = "none"
    /\ pc' = "decide"
    /\ UNCHANGED <<input, clock, now, parent, overall>>

\* No response: a bad URL, a refused connection, a done context.
RequestFails ==
    /\ pc = "await"
    /\ Record("error")
    /\ request' = "none"
    /\ pc' = "decide"
    /\ UNCHANGED <<input, clock, now, parent, answer, overall>>

\* Mutants: the loop goes on when the context is done; it stops at a responder
\* that fails.
DecideTo(next) ==
    /\ pc = "decide" /\ pc' = next
    /\ UNCHANGED <<input, clock, now, parent, request, answer, attempts, overall>>
DecideIgnoresContext ==
    DecideTo(IF \/ Decisive(attempts[Len(attempts)].status)
                \/ Len(attempts) = input.responders
             THEN "overall" ELSE "request")

DecideOnError ==
    DecideTo(IF \/ attempts[Len(attempts)].status # "unknown"
                \/ parent = "done" \/ Len(attempts) = input.responders
             THEN "overall" ELSE "request")

\* After each responder: stop at a usable result, stop when opts.Context is
\* done, otherwise go on to the next.
Decide ==
    /\ pc = "decide"
    /\ pc' = IF \/ Decisive(attempts[Len(attempts)].status)
                \/ parent = "done"
                \/ Len(attempts) = input.responders
             THEN "overall" ELSE "request"
    /\ UNCHANGED <<input, clock, now, parent, request, answer, attempts, overall>>

Conclude ==
    /\ pc = "overall"
    /\ overall' = ApplySoftFail(
                     OverallStatus([k \in 1..Len(attempts) |-> attempts[k].status]),
                     input.softFail)
    /\ pc' = "done"
    /\ UNCHANGED <<input, clock, now, parent, request, answer, attempts>>

\* --revocation-timeout runs out.
RequestTimesOut ==
    /\ request = "live"
    /\ request' = "done"
    /\ UNCHANGED <<input, pc, clock, now, parent, answer, attempts, overall>>

\* --timeout runs out or the user presses Ctrl-C.
ParentDone ==
    /\ parent = "live" /\ pc # "done"
    /\ parent' = "done"
    /\ request' = IF request = "live" THEN "done" ELSE request
    /\ UNCHANGED <<input, pc, clock, now, answer, attempts, overall>>

Tick ==
    /\ pc = "await" /\ clock < MaxTime
    /\ clock' = clock + 1
    /\ UNCHANGED <<input, pc, now, parent, request, answer, attempts, overall>>

Returned == pc = "done" /\ UNCHANGED vars

Next ==
    \/ Start \/ SendRequest \/ AnswerArrives \/ RequestFails \/ Decide \/ Conclude
    \/ RequestTimesOut \/ ParentDone \/ Tick \/ Returned

Spec == Init /\ [][Next]_vars

\* CheckCert's own steps are taken, timers fire, and a request whose context is
\* done returns; responders owe nothing.
FairSpec ==
    /\ Spec
    /\ WF_vars(Start \/ SendRequest \/ Decide \/ Conclude)
    /\ WF_vars(RequestTimesOut)
    /\ WF_vars(request = "done" /\ (AnswerArrives \/ RequestFails))

-----------------------------------------------------------------------------
TypeOK ==
    /\ input \in Inputs
    /\ pc \in PC
    /\ clock \in 1..MaxTime
    /\ now \in 0..MaxTime
    /\ parent \in {"live", "done"}
    /\ request \in {"none", "live", "done"}
    /\ answer \in Answers \cup {NoAnswer}
    /\ attempts \in Seq(Attempt)
    /\ Len(attempts) <= IF NResponders = 0 THEN 1 ELSE NResponders
    /\ overall \in Status \cup {""}

\* README, Revocation policy: a leaf is only called good or revoked on a sound
\* answer that was usable at CheckedAt - present, at most FutureSkew ahead, not
\* past its NextUpdate or its MaxAge - and that says so.
Usable(a, t) ==
    /\ a.sound
    /\ a.thisUpdate \in 1..(t + FutureSkew)
    /\ \/ a.nextUpdate = 0 /\ t - a.thisUpdate <= MaxAge
       \/ a.nextUpdate > a.thisUpdate /\ a.nextUpdate > t

SaysGood(a) ==
    IF input.method = "crl" THEN \A k \in DOMAIN a.entries : a.entries[k] = "other"
                            ELSE a.status = "good"

SaysRevoked(a) ==
    IF input.method = "crl"
    THEN \E k \in DOMAIN a.entries :
            a.entries[k] = "leaf" /\ \A j \in 1..(k - 1) : a.entries[j] = "other"
    ELSE a.status = "revoked"

VerdictHasEvidence ==
    /\ overall = "good"    => Usable(answer, now) /\ SaysGood(answer)
    /\ overall = "revoked" => Usable(answer, now) /\ SaysRevoked(answer)

\* README's table: without a usable result the check is an error under
\* hard-fail and never one under soft-fail; a usable result is never softened.
PolicyTable ==
    pc = "done" =>
        IF \E k \in 1..Len(attempts) : Decisive(attempts[k].status)
        THEN overall = attempts[Len(attempts)].status
        ELSE /\ input.softFail <=> overall # "error"
             /\ ~Decisive(overall)

\* "Responders are tried in certificate order until a usable good or revoked
\* result is found; failed attempts remain": an attempt after a usable one never
\* happens, and the check only gives up early when its context is done.
RespondersInOrder ==
    /\ \A k \in 1..Len(attempts) : Decisive(attempts[k].status) => k = Len(attempts)
    /\ Len(attempts) <= input.responders \/ Len(attempts) = 1
    /\ pc \in {"overall", "done"} /\ input.leaf /\ input.issuer =>
          \/ Len(attempts) >= input.responders
          \/ Decisive(attempts[Len(attempts)].status)
          \/ parent = "done"

\* Once the target's context is done at most one more attempt ends: a check of
\* many responders does not outlive the deadline by one timeout each.
NoAttemptAfterLate ==
    \A k \in 1..Len(attempts) : attempts[k].late => k = Len(attempts)

\* The check ends even when every responder hangs and the parent has no deadline
\* (the pem command).
CheckEnds == <>(pc = "done")

\* A responder is left out, or its request was ended by the target's context.
GaveUp ==
    /\ input.leaf /\ input.issuer /\ input.responders > 0
    /\ \/ Len(attempts) < input.responders
       \/ \E k \in 1..Len(attempts) : attempts[k].late
    /\ \A k \in 1..Len(attempts) : ~Decisive(attempts[k].status)

\* The worker's look at targetCtx (client.go:174) is enough: whatever soft-fail
\* makes of a check that was given up, the context is done when it returns; and
\* a context that ends also ends the check.
Call == INSTANCE ContextCall WITH
            MayTruncate <- TRUE, ctx <- parent,
            result <- IF pc # "done" THEN "pending"
                      ELSE IF GaveUp THEN "partial" ELSE "whole"
HonoursContext == Call!Spec
=============================================================================
