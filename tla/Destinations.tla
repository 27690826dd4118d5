----------------------------- MODULE Destinations -----------------------------
(***************************************************************************)
(* From the command line to the address of the first connection: the      *)
(* command (RunE of cmd/client.go) checks --proxy, collects the targets    *)
(* and hands each endpoint to QueryContext (internal/tlsquery/query.go),   *)
(* which chooses the way to it.  Targets and Proxy in the command's order, *)
(* followed to the connection of one of the endpoints: the way to another  *)
(* differs in `excluded` alone.                                            *)
(***************************************************************************)
EXTENDS Targets

CONSTANTS
    Flags,     \* the values of --proxy considered: URLs and None
    Settings   \* what net/http makes of HTTPS_PROXY: URLs and None

ASSUME DestinationsAssumption == None \in Files /\ None \in Flags /\ None \in Settings

VARIABLES flag, setting, excluded, step, route, proxy, addr

P == INSTANCE Proxy

proxyVars == <<flag, setting, excluded, step, route, proxy, addr>>
destVars == <<vars, proxyVars>>

DestInit == Init /\ P!Init

\* Before any target is looked at.
CheckProxy ==
    /\ P!Validate
    /\ UNCHANGED vars

\* A file is read, stdin included, only by a command whose flags are in order.
CollectTargets ==
    /\ step = "resolve"
    /\ Next
    /\ UNCHANGED proxyVars

\* Only a complete list is queried.
Connect ==
    /\ outcome = "ok"
    /\ P!Resolve \/ P!Dial
    /\ UNCHANGED vars

Done == (step = "end" \/ outcome = "error") /\ UNCHANGED destVars

DestNext == CheckProxy \/ CollectTargets \/ Connect \/ Done

DestSpec == DestInit /\ [][DestNext]_destVars

-----------------------------------------------------------------------------
\* README, Connection and certificate checks: "Explicit proxies override
\* environment exclusions", and without one "HTTPS_PROXY and NO_PROXY" decide: a
\* direct connection is made only where nothing that can be read asks for a proxy,
\* a proxy that is read and not accepted is an error, and the port that is dialled
\* is the one written or the scheme's.  Nothing is dialled for a list that is
\* refused.
RouteAsConfigured ==
    /\ P!ChoiceFollows /\ P!PortFollows
    /\ route \in {"direct", "proxy"} =>
           \A k \in Written : Odd \/ WellFormed(Inputs[k])

\* README, Connection and certificate checks: "Without --proxy, target connections
\* use HTTPS_PROXY and NO_PROXY".  No target is reached directly while HTTPS_PROXY
\* is set and NO_PROXY does not name it.
EnvironmentProxyUsed ==
    flag = None /\ setting # None /\ ~excluded => route # "direct"
=============================================================================
