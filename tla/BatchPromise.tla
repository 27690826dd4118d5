---------------------------- MODULE BatchPromise ----------------------------
(***************************************************************************)
(* What `tlsctl client` promises of a batch, whatever the concurrency, the *)
(* peers and the user do: every input is settled once, as a success with a *)
(* health or as a failure; the process exits when all are settled; and its *)
(* status is the documented worst of them, or 1 when the output could not  *)
(* be written (README of tlsctl, "Exit codes" and "Multiple Endpoints").   *)
(***************************************************************************)
EXTENDS Naturals, ExitCodes

CONSTANT NTargets

VARIABLES outcome,  \* per input: "pending", a health status or "error"
          exited,   \* the process has ended
          status    \* its exit status once it has

vars == <<outcome, exited, status>>

Inputs == 1..NTargets
Settled == HealthStatus \cup {"error"}

\* "1 > 3 > 2 > 4 > 0"
Precedence == <<"error", "revocation_error", "insecure", "expiring">>
CodeAt     == <<1, 3, 2, 4>>
Seen(k)    == \E i \in Inputs : outcome[i] = Precedence[k]
Worst      ==
    IF \A k \in 1..4 : ~Seen(k) THEN 0
    ELSE CodeAt[CHOOSE k \in 1..4 : Seen(k) /\ \A j \in 1..4 : j < k => ~Seen(j)]

Init ==
    /\ outcome = [i \in Inputs |-> "pending"]
    /\ exited = FALSE
    /\ status = 0

Settle(i) ==
    /\ outcome[i] = "pending"
    /\ \E o \in Settled : outcome' = [outcome EXCEPT ![i] = o]
    /\ UNCHANGED <<exited, status>>

Exit ==
    /\ ~exited
    /\ \A i \in Inputs : outcome[i] # "pending"
    /\ exited' = TRUE
    /\ status' \in {Worst, 1}
    /\ UNCHANGED outcome

Next == (\E i \in Inputs : Settle(i)) \/ Exit

Spec == Init /\ [][Next]_vars /\ WF_vars(Next)
SafetySpec == Init /\ [][Next]_vars
=============================================================================
