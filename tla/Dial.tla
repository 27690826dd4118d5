-------------------------------- MODULE Dial --------------------------------
(***************************************************************************)
(* One connection: dialTLS and dialViaProxyContext                         *)
(* (internal/tlsquery/dial.go, proxy.go), from the dial to the closed      *)
(* socket, with the timers and the context.AfterFunc callbacks that close  *)
(* the socket under a blocked read.                                        *)
(*                                                                         *)
(* Time: the clock only advances while the goroutine is blocked in I/O     *)
(* that nothing is about to end, so that `clock` measures how long the     *)
(* peers were able to hold the connection up.                              *)
(***************************************************************************)
EXTENDS Naturals

CONSTANTS ConnectTimeout,    \* --connect-timeout
          HandshakeTimeout,  \* --handshake-timeout
          MaxOverall         \* the largest --timeout considered (a bound of the model)

ASSUME DialAssumption ==
    /\ ConnectTimeout \in Nat \ {0}
    /\ HandshakeTimeout \in Nat \ {0}
    /\ MaxOverall \in Nat \ {0}

VARIABLES
    flags,        \* proxy: "none", "http" or "https"; startTLS: --starttls
    ctxDeadline,  \* ctx.Deadline()
    pc,           \* where the goroutine is
    clock,        \* time since the call
    ctx,          \* "live" or "done"
    doneAt,       \* when ctx became done
    sock,         \* "none", "open" or "closed"
    ioDeadline,   \* the deadline set on the socket, NoDeadline if none
    watch         \* the AfterFunc callbacks of dialViaProxyContext and dialTLS

vars == <<flags, ctxDeadline, pc, clock, ctx, doneAt, sock, ioDeadline, watch>>

Callback == {"proxy", "tls"}
WatchState == {"off", "armed", "running"}
NoDeadline == 0

IO    == {"dial", "proxy_tls", "proxy_connect", "starttls", "handshake"}
Local == {"proxy_setup", "proxy_clear", "tls_setup", "tls_clear", "use"}
Ended == {"failed", "closed"}

Init ==
    /\ flags \in [proxy : {"none", "http", "https"}, startTLS : BOOLEAN]
    /\ ctxDeadline \in 1..MaxOverall
    /\ pc = "dial"
    /\ clock = 0
    /\ ctx = "live"
    /\ doneAt = 0
    /\ sock = "none"
    /\ ioDeadline = NoDeadline
    /\ watch = [c \in Callback |-> "off"]

\* phaseDeadline(ctx, handshakeTimeout)
PhaseDeadline ==
    IF ctxDeadline < clock + HandshakeTimeout THEN ctxDeadline
                                              ELSE clock + HandshakeTimeout

\* Mutant: no context.AfterFunc.
ArmedNever(w, c) == w

\* context.AfterFunc: on a context that is done already the callback starts at
\* once.  stop() only takes back a callback that has not started.
Armed(w, c)   == [w EXCEPT ![c] = IF ctx = "done" THEN "running" ELSE "armed"]
Stopped(w, c) == [w EXCEPT ![c] = IF w[c] = "armed" THEN "off" ELSE w[c]]
StopAll(w)    == Stopped(Stopped(w, "proxy"), "tls")

\* Mutant: an error return that forgets the socket.
FailLeaks ==
    /\ pc' = "failed"
    /\ watch' = StopAll(watch)
    /\ UNCHANGED <<flags, ctxDeadline, clock, ctx, doneAt, sock, ioDeadline>>

\* Every error return closes the socket and runs the deferred stop.
Fail ==
    /\ pc' = "failed"
    /\ sock' = IF sock = "none" THEN "none" ELSE "closed"
    /\ watch' = StopAll(watch)
    /\ UNCHANGED <<flags, ctxDeadline, clock, ctx, doneAt, ioDeadline>>

-----------------------------------------------------------------------------
(* The steps of the goroutine.                                             *)

\* net.Dialer.DialContext returns a connection to the target or the proxy.
DialSucceeds ==
    /\ pc = "dial" /\ ctx = "live" /\ clock <= ConnectTimeout
    /\ sock' = "open"
    /\ pc' = IF flags.proxy = "none" THEN "tls_setup" ELSE "proxy_setup"
    /\ UNCHANGED <<flags, ctxDeadline, clock, ctx, doneAt, ioDeadline, watch>>

\* It gives up: refused, --connect-timeout, or the context.
DialFails == pc = "dial" /\ Fail

\* Mutant: neither AfterFunc nor SetDeadline.
SetupBare(from, callback, to) ==
    /\ pc = from /\ sock = "open"
    /\ pc' = to
    /\ UNCHANGED <<flags, ctxDeadline, clock, ctx, doneAt, sock, ioDeadline, watch>>

\* AfterFunc, then SetDeadline, which fails on a closed socket.
Setup(from, callback, to) ==
    /\ pc = from
    /\ sock = "open"
    /\ watch' = Armed(watch, callback)
    /\ ioDeadline' = PhaseDeadline
    /\ pc' = to
    /\ UNCHANGED <<flags, ctxDeadline, clock, ctx, doneAt, sock>>

ProxySetup ==
    Setup("proxy_setup", "proxy",
          IF flags.proxy = "https" THEN "proxy_tls" ELSE "proxy_connect")

TLSSetup ==
    Setup("tls_setup", "tls", IF flags.startTLS THEN "starttls" ELSE "handshake")

SetupFails ==
    /\ pc \in {"proxy_setup", "tls_setup"}
    /\ sock = "closed"
    /\ Fail

\* The peer plays its part in time: the proxy's TLS handshake, its answer 200
\* to CONNECT, the STARTTLS dialogue, the TLS handshake.
PeerAnswers ==
    /\ pc \in IO \ {"dial"}
    /\ sock = "open"
    /\ clock <= ioDeadline \/ ioDeadline = NoDeadline
    /\ \/ pc = "proxy_tls"     /\ pc' = "proxy_connect"
       \/ pc = "proxy_connect" /\ pc' = "proxy_clear"
       \/ pc = "starttls"      /\ pc' = "handshake"
       \/ pc = "handshake"     /\ pc' = "tls_clear"
    /\ UNCHANGED <<flags, ctxDeadline, clock, ctx, doneAt, sock, ioDeadline, watch>>

\* It does not: an error, a bad answer, a closed socket or the deadline.
IOFails == pc \in IO \ {"dial"} /\ Fail

\* SetDeadline(time.Time{}) and the return of dialViaProxyContext, whose
\* deferred stop leaves the socket unwatched until dialTLS arms its own.
ProxyClear ==
    /\ pc = "proxy_clear"
    /\ sock = "open"
    /\ ioDeadline' = NoDeadline
    /\ watch' = Stopped(watch, "proxy")
    /\ pc' = "tls_setup"
    /\ UNCHANGED <<flags, ctxDeadline, clock, ctx, doneAt, sock>>

\* The same at the end of dialTLS.
TLSClear ==
    /\ pc = "tls_clear"
    /\ sock = "open"
    /\ ioDeadline' = NoDeadline
    /\ watch' = Stopped(watch, "tls")
    /\ pc' = "use"
    /\ UNCHANGED <<flags, ctxDeadline, clock, ctx, doneAt, sock>>

ClearFails ==
    /\ pc \in {"proxy_clear", "tls_clear"}
    /\ sock = "closed"
    /\ Fail

\* The callers read the connection state and close: dialAndHandshake and the
\* probes.
UseAndClose ==
    /\ pc = "use"
    /\ sock' = "closed"
    /\ pc' = "closed"
    /\ UNCHANGED <<flags, ctxDeadline, clock, ctx, doneAt, ioDeadline, watch>>

-----------------------------------------------------------------------------
(* The context, its callbacks and the clock.                               *)

\* --timeout runs out or Ctrl-C: armed callbacks start.
ContextDone ==
    /\ ctx = "live" /\ pc \notin Ended
    /\ ctx' = "done"
    /\ doneAt' = clock
    /\ watch' = [c \in Callback |-> IF watch[c] = "armed" THEN "running" ELSE watch[c]]
    /\ UNCHANGED <<flags, ctxDeadline, pc, clock, sock, ioDeadline>>

\* func() { _ = rawConn.Close() }
CallbackCloses(c) ==
    /\ watch[c] = "running"
    /\ sock' = "closed"
    /\ watch' = [watch EXCEPT ![c] = "off"]
    /\ UNCHANGED <<flags, ctxDeadline, pc, clock, ctx, doneAt, ioDeadline>>

\* tls.Conn.HandshakeContext watches the context itself.
HandshakeWatches == pc \in {"proxy_tls", "handshake"} /\ ctx = "done"

\* A blocked goroutine and nothing due: not its timer, not the context's, no
\* callback on its way.
Blocked ==
    /\ pc \in IO
    /\ ctx = "done" \/ clock < ctxDeadline
    /\ \A c \in Callback : watch[c] # "running"
    /\ IF pc = "dial" THEN ctx = "live" /\ clock < ConnectTimeout
       ELSE /\ sock = "open"
            /\ ~HandshakeWatches
            /\ ioDeadline = NoDeadline \/ clock < ioDeadline

Tick ==
    /\ Blocked
    /\ clock' = clock + 1
    /\ UNCHANGED <<flags, ctxDeadline, pc, ctx, doneAt, sock, ioDeadline, watch>>

Over == pc \in Ended /\ UNCHANGED vars

Next ==
    \/ DialSucceeds \/ DialFails \/ ProxySetup \/ TLSSetup \/ SetupFails
    \/ PeerAnswers \/ IOFails \/ ProxyClear \/ TLSClear \/ ClearFails \/ UseAndClose
    \/ ContextDone \/ Tick \/ Over
    \/ \E c \in Callback : CallbackCloses(c)

Spec == Init /\ [][Next]_vars

\* I/O that cannot go on: nothing is left to wait for.
Stuck == pc \in IO /\ ~Blocked

-----------------------------------------------------------------------------
TypeOK ==
    /\ flags \in [proxy : {"none", "http", "https"}, startTLS : BOOLEAN]
    /\ ctxDeadline \in 1..MaxOverall
    /\ pc \in IO \cup Local \cup Ended
    /\ clock \in Nat /\ doneAt \in Nat
    /\ ioDeadline \in 0..ctxDeadline
    /\ ctx \in {"live", "done"}
    /\ sock \in {"none", "open", "closed"}
    /\ watch \in [Callback -> WatchState]

\* No path, with or without a callback at work, returns with the socket open.
NoLeak == pc \in Ended => sock # "open"

\* Peers that hang in every phase hold a connection for no longer than the sum
\* of its phases' timeouts ...
PhasesBounded ==
    clock <= ConnectTimeout + HandshakeTimeout
               + (IF flags.proxy = "none" THEN 0 ELSE HandshakeTimeout)

\* ... and for no longer than the overall deadline.
OverallBounded == clock <= ctxDeadline

\* README, Connection and certificate checks: --connect-timeout per connection,
\* --handshake-timeout per proxy negotiation and per STARTTLS/TLS phase, within
\* --timeout, however the peers hang.
Bounded == PhasesBounded /\ OverallBounded

\* "Ctrl-C cancels ongoing network work": once the context is done no peer can
\* hold the connection up any further, in whichever phase it is and also if the
\* context ended between the two callbacks' watches.
PromptCancel == ctx = "done" /\ pc \notin Ended => clock = doneAt

\* A connection attempt ends whatever the peers do.
DialEnds == <>(pc \in Ended)
=============================================================================
