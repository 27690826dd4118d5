-------------------------------- MODULE Proxy -------------------------------
(***************************************************************************)
(* The choice of a proxy (internal/tlsquery/proxy.go): ValidateProxy looks *)
(* at --proxy before any target, resolveProxy chooses for each target      *)
(* between the flag, the environment and a direct connection, and          *)
(* dialViaProxyContext makes the address to dial.  A URL is given by the   *)
(* parts the code looks at, as url.Parse returns them.                     *)
(***************************************************************************)
EXTENDS Integers

CONSTANTS
    None,      \* no --proxy; no HTTPS_PROXY
    Flags,     \* the values of --proxy considered: URLs and None
    Settings   \* what net/http makes of HTTPS_PROXY: URLs and None

(* URL: [parses : BOOLEAN, scheme : "" or a name, host : "" or a name,
         port : a number, NoPort or EmptyPort (a colon and nothing after it),
         rest : "", "/" or what else follows the port]                     *)
NoPort == -2
EmptyPort == -1
Ports == 1..65535

VARIABLES
    flag,       \* --proxy
    setting,    \* HTTPS_PROXY
    excluded,   \* NO_PROXY names the target, or it is this host
    step,       \* "validate", "resolve", "dial" or "end"
    route,      \* "", "refused", "error", "direct" or "proxy"
    proxy,      \* the URL of the proxy, or None
    addr        \* the address that is dialled, [host, port], or None

vars == <<flag, setting, excluded, step, route, proxy, addr>>

-----------------------------------------------------------------------------
Init ==
    /\ flag \in Flags /\ setting \in Settings /\ excluded \in BOOLEAN
    /\ step = "validate" /\ route = "" /\ proxy = None /\ addr = None

WithScheme(u) == IF u.scheme = "" THEN [u EXCEPT !.scheme = "http"] ELSE u

\* parseProxy, of a URL with a scheme, returns no error.
Accepts(u) ==
    /\ u.parses /\ u.scheme \in {"http", "https"}
    /\ u.host # "" /\ u.rest \in {"", "/"}
    /\ u.port \in {NoPort, EmptyPort} \cup Ports

\* RunE: a flag that is not understood ends the command.
Validate ==
    /\ step = "validate"
    /\ IF flag = None \/ Accepts(WithScheme(flag))
       THEN step' = "resolve" /\ UNCHANGED route
       ELSE step' = "end" /\ route' = "refused"
    /\ UNCHANGED <<flag, setting, excluded, proxy, addr>>

\* http.ProxyFromEnvironment, for the https URL of the target.  net/http reads
\* HTTPS_PROXY once; a value that does not parse is read again behind "http://",
\* and one that does not parse either way is dropped without an error: it counts
\* as none.
Environment ==
    IF setting = None \/ excluded \/ ~setting.parses
    THEN [route |-> "direct", proxy |-> None]
    ELSE [route |-> "proxy", proxy |-> WithScheme(setting)]

\* Mutant: NO_PROXY is asked first.
ChosenByExclusion ==
    IF flag # None /\ ~excluded THEN [route |-> "proxy", proxy |-> WithScheme(flag)]
    ELSE Environment

Chosen ==
    IF flag # None THEN [route |-> "proxy", proxy |-> WithScheme(flag)] ELSE Environment

\* resolveProxy: what was chosen is parsed in either case.
Resolve ==
    /\ step = "resolve"
    /\ IF Chosen.route = "proxy" /\ Accepts(Chosen.proxy)
       THEN step' = "dial" /\ route' = "proxy" /\ proxy' = Chosen.proxy
       ELSE /\ step' = "end" /\ UNCHANGED proxy
            /\ route' = IF Chosen.route = "direct" THEN "direct" ELSE "error"
    /\ UNCHANGED <<flag, setting, excluded, addr>>

\* proxyURL.Host if it splits, and it does with an empty port; or the default.
PortToDial(u) ==
    IF u.port = NoPort THEN IF u.scheme = "https" THEN 443 ELSE 80 ELSE u.port

\* dialViaProxyContext
Dial ==
    /\ step = "dial" /\ step' = "end"
    /\ addr' = [host |-> proxy.host, port |-> PortToDial(proxy)]
    /\ UNCHANGED <<flag, setting, excluded, route, proxy>>

Next == Validate \/ Resolve \/ Dial

Spec == Init /\ [][Next]_vars

-----------------------------------------------------------------------------
\* A target is reached directly only without --proxy, and without a setting of the
\* environment that can be read and is for it.  Whatever parses but is no proxy the
\* code accepts is an error, not a direct connection; the flag overrides
\* exclusions, and one that passed the validation is an error at no target.
ChoiceFollows ==
    /\ route = "direct" => flag = None /\ (setting = None \/ excluded \/ ~setting.parses)
    /\ route = "proxy" =>
           /\ Accepts(proxy)
           /\ IF flag # None THEN proxy = WithScheme(flag)
              ELSE ~excluded /\ proxy = WithScheme(setting)
    /\ route = "error" =>
           flag = None /\ ~excluded /\ setting.parses /\ ~Accepts(WithScheme(setting))

\* The port that is dialled is a port, and the one that was written or the
\* scheme's.  (With an empty port the code dials an empty port, not the default.)
PortFollows ==
    addr # None /\ proxy.port # EmptyPort =>
        IF proxy.port = NoPort THEN addr.port = (IF proxy.scheme = "http" THEN 80 ELSE 443)
        ELSE addr.port = proxy.port /\ addr.port \in Ports
=============================================================================
