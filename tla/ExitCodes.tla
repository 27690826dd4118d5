------------------------------ MODULE ExitCodes ------------------------------
(***************************************************************************)
(* The exit codes of the tlsctl process, the escalation order of the       *)
(* ExitTracker and the mapping from a chain's health to a code             *)
(* (cmd/exitcode.go).                                                      *)
(***************************************************************************)
EXTENDS Naturals

ExitOK              == 0
ExitRuntimeError    == 1
ExitInsecure        == 2
ExitRevocationError == 3
ExitExpiring        == 4

ExitCode == {ExitOK, ExitRuntimeError, ExitInsecure, ExitRevocationError, ExitExpiring}

\* The statuses ChainInfo.Health can return.
HealthStatus == {"secure", "expiring", "insecure", "revocation_error"}

\* By code 0..4: OK, runtime error, insecure, revocation error, expiring.
exitPriority == [c \in ExitCode |-> <<0, 4, 2, 3, 1>>[c + 1]]

\* Mutant: the larger code wins instead of the more severe one.
TrackerSetNumeric(current, code) == IF code > current THEN code ELSE current

\* ExitTracker.Set: the tracker's code after Set(code), from the code before.
TrackerSet(current, code) ==
    IF exitPriority[code] > exitPriority[current] THEN code ELSE current

\* updateExitCodeForChain: the code a health status asks for.  A "secure" chain
\* makes no call of Set, and Set(ExitOK) never replaces a code.
HealthCode(status) ==
    IF status = "insecure" THEN ExitInsecure
    ELSE IF status = "revocation_error" THEN ExitRevocationError
    ELSE IF status = "expiring" THEN ExitExpiring
    ELSE ExitOK
=============================================================================
