------------------------------ MODULE Freshness ------------------------------
(***************************************************************************)
(* checkFreshness and the judgement of one CRL or OCSP answer              *)
(* (internal/revocation/checker.go, crl.go, ocsp.go).                      *)
(*                                                                         *)
(* Times are naturals and 0 is the zero time.Time; FutureSkew stands for   *)
(* five minutes and MaxAge for 24 hours.                                   *)
(***************************************************************************)
EXTENDS Naturals, Sequences, FiniteSets

CONSTANTS FutureSkew,  \* how far in the future ThisUpdate may be
          MaxAge       \* how old it may be when NextUpdate is missing

ASSUME FreshnessAssumption == FutureSkew \in Nat /\ MaxAge \in Nat

\* Mutant: good up to and including NextUpdate.
FreshAtNextUpdate(thisUpdate, nextUpdate, now) ==
    /\ thisUpdate # 0
    /\ thisUpdate <= now + FutureSkew
    /\ nextUpdate # 0 => nextUpdate > thisUpdate /\ now <= nextUpdate
    /\ nextUpdate = 0 => now <= thisUpdate + MaxAge

\* checkFreshness(thisUpdate, nextUpdate, now) == nil
Fresh(thisUpdate, nextUpdate, now) ==
    /\ thisUpdate # 0
    /\ thisUpdate <= now + FutureSkew
    /\ nextUpdate # 0 => nextUpdate > thisUpdate /\ now < nextUpdate
    /\ nextUpdate = 0 => now <= thisUpdate + MaxAge

\* What a responder sends back, as far as the judgement looks.  `sound`: HTTP
\* 200, read within the limit, parsed, from the right issuer, no critical
\* extension, signature verified, an OCSP signer that may sign.  `entries`: a
\* CRL's entries in order, each about "other" certificates, about this "leaf",
\* or "critical" (it has a critical extension, whoever it is about).
CRLAnswer(Dates, Entries) ==
    [sound : BOOLEAN, thisUpdate : Dates, nextUpdate : Dates, entries : Entries]
OCSPAnswer(Dates) ==
    [sound : BOOLEAN, thisUpdate : Dates, nextUpdate : Dates,
     status : {"good", "revoked", "unknown"}]

\* fetchAndCheckCRL after the HTTP exchange.  The entries are read in order and
\* the first that is not simply about somebody else decides.
JudgeCRL(answer, now) ==
    LET decisive == {k \in DOMAIN answer.entries : answer.entries[k] # "other"}
        first    == CHOOSE k \in decisive : \A j \in decisive : k <= j
    IN  IF ~answer.sound THEN "error"
        ELSE IF ~Fresh(answer.thisUpdate, answer.nextUpdate, now) THEN "unknown"
        ELSE IF decisive = {} THEN "good"
        ELSE IF answer.entries[first] = "critical" THEN "error"
        ELSE "revoked"

\* fetchAndCheckOCSP after the HTTP exchange.
JudgeOCSP(answer, now) ==
    IF ~answer.sound THEN "error"
    ELSE IF ~Fresh(answer.thisUpdate, answer.nextUpdate, now) THEN "unknown"
    ELSE answer.status

\* computeOverallStatus over the statuses of the attempts.
OverallStatus(statuses) ==
    LET Seen == {statuses[k] : k \in 1..Len(statuses)}
    IN  IF Seen = {} THEN "not_checked"
        ELSE IF "revoked" \in Seen THEN "revoked"
        ELSE IF "good" \in Seen THEN "good"
        ELSE IF Seen = {"not_supported"} THEN "not_supported"
        ELSE IF "error" \in Seen THEN "error"
        ELSE "unknown"

\* Mutant: --revocation-soft-fail keeps the errors.
ApplySoftFailKeepsError(overall, softFail) ==
    IF overall \in {"good", "revoked"} \/ softFail THEN overall ELSE "error"

\* The last lines of CheckCert: what --revocation-soft-fail makes of it.
ApplySoftFail(overall, softFail) ==
    IF overall \in {"good", "revoked"} THEN overall
    ELSE IF ~softFail THEN "error"
    ELSE IF overall = "error" THEN "unknown"
    ELSE overall
=============================================================================
