------------------------------- MODULE Health -------------------------------
(***************************************************************************)
(* ChainInfo.Health (internal/tlsquery/health.go): the assessment of a     *)
(* chain that the exit code and every output format share.                 *)
(*                                                                         *)
(* Times are naturals; differences of them are durations.                  *)
(***************************************************************************)
EXTENDS Durations, ExitCodes

RevocationStatus ==
    {"good", "revoked", "unknown", "not_checked", "not_supported", "error"}

Verdict(status, reason) == [status |-> status, reason |-> reason]

\* Mutant: exactly the warning threshold still counts as secure.
HealthOfStrict(chain, now, warningDays) ==
    IF chain.revocation = "revoked" THEN Verdict("insecure", "certificate revoked")
    ELSE IF chain.revocation = "error"
        THEN Verdict("revocation_error", "revocation check failed")
    ELSE IF ~chain.verified \/ now < chain.notBefore \/ now > chain.notAfter
        THEN Verdict("insecure", "unverified")
    ELSE IF Sub(chain.notAfter, now) < DaysAsDuration(warningDays)
        THEN Verdict("expiring", "certificate expires soon")
    ELSE Verdict("secure", "")

\* chain.revocation is "" when no check was made; chain.verificationError is ""
\* when the verification succeeded.  The dates of a parsed certificate always
\* parse back.
HealthOf(chain, now, warningDays) ==
    LET days == IF warningDays <= 0 THEN 30 ELSE warningDays
    IN  IF chain.revocation = "revoked"
            THEN Verdict("insecure", "certificate revoked")
        ELSE IF chain.revocation = "error"
            THEN Verdict("revocation_error", "revocation check failed")
        ELSE IF ~chain.verified
            THEN Verdict("insecure",
                         IF chain.verificationError = "" THEN "unverified"
                                                         ELSE chain.verificationError)
        ELSE IF now < chain.notBefore
            THEN Verdict("insecure", "certificate not yet valid")
        ELSE IF now > chain.notAfter
            THEN Verdict("insecure", "certificate expired")
        ELSE IF Sub(chain.notAfter, now) <= DaysAsDuration(days)
            THEN Verdict("expiring", "certificate expires soon")
        ELSE Verdict("secure", "")
=============================================================================
