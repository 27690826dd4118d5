----------------------------- MODULE ContextCall -----------------------------
(***************************************************************************)
(* What the code expects of a call it hands a context to.  The worker of   *)
(* queryTargets (cmd/client.go:169-176) makes two, QueryContext and the    *)
(* revocation check, with the same context.  It relies on this much: a     *)
(* call returns once its context is done, and an answer with parts left    *)
(* out is only given under a context that is done by then - so that one    *)
(* look at the context after the calls finds every such answer.            *)
(***************************************************************************)
CONSTANT MayTruncate  \* TRUE: the call may answer with what it has, rather than fail

VARIABLES
    ctx,    \* "live" or "done"
    result  \* "pending", then "whole", "partial" or "error"

vars == <<ctx, result>>

Init == ctx \in {"live", "done"} /\ result = "pending"

\* The deadline passes, or Ctrl-C.
End == ctx = "live" /\ ctx' = "done" /\ UNCHANGED result

Return ==
    /\ result = "pending"
    /\ result' \in {"whole", "error"} \cup
                   (IF MayTruncate /\ ctx = "done" THEN {"partial"} ELSE {})
    /\ UNCHANGED ctx

Next == End \/ Return

\* Whoever serves the call owes nothing while its context is live.
Spec == Init /\ [][Next]_vars /\ WF_vars(ctx = "done" /\ Return)
=============================================================================
