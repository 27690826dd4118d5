------------------------------ MODULE Invocation ------------------------------
(***************************************************************************)
(* From the shell to the first connection: the configuration is applied to *)
(* the flags before RunE (PersistentPreRunE of cmd/root.go), RunE checks   *)
(* them, and the client command goes on to its proxy and its targets       *)
(* (cmd/client.go).  Config and Destinations one after the other; the pem  *)
(* command has neither proxy nor targets.                                  *)
(***************************************************************************)
EXTENDS Destinations, Config

invocationVars == <<configVars, destVars>>

InvocationInit == ConfigInit /\ DestInit

Configure ==
    /\ Load \/ (\E k \in Keys : Apply(k)) \/ Applied \/ ValidateFlags
    /\ UNCHANGED destVars

\* RunE of the client command, with flags that are in order.
Visit ==
    /\ result = "running" /\ command = "client"
    /\ CheckProxy \/ CollectTargets \/ Connect
    /\ UNCHANGED configVars

\* The command is refused, is not the client, or has dialled or given up.
InvocationEnded ==
    /\ \/ result = "error" \/ (result = "running" /\ command = "pem")
       \/ step = "end" \/ outcome = "error"
    /\ UNCHANGED invocationVars

InvocationNext == Configure \/ Visit \/ InvocationEnded

InvocationSpec == InvocationInit /\ [][InvocationNext]_invocationVars
=============================================================================
