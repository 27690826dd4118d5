-------------------------- MODULE ConnectionProofs --------------------------
(***************************************************************************)
(* Proofs about connections, for all timeouts and deadlines and replies of *)
(* any number of lines.  In three parts:                                   *)
(*   - Dial, with a peer that does what it likes: the socket is closed on  *)
(*     every path, and no peer holds a connection longer than the user     *)
(*     asked for;                                                          *)
(*   - Connection implements Dial, whose "starttls" phase it refines, and  *)
(*     StartTLS, whose timeout it explains;                                *)
(*   - the dialogue inside: it goes on while the server goes along, and    *)
(*     the handshake begins in step with the server.                       *)
(***************************************************************************)
EXTENDS Connection, SequenceTheorems, TLAPS

ProxyIO == {"proxy_tls", "proxy_connect"}
TLSIO   == {"starttls", "handshake"}
OnProxy == {"proxy_setup", "proxy_tls", "proxy_connect", "proxy_clear"}

ProxyPart == IF flags.proxy = "none" THEN 0 ELSE HandshakeTimeout

-----------------------------------------------------------------------------
(* The inductive invariant, in named parts.                                *)

Types ==
    /\ flags \in [proxy : {"none", "http", "https"}, startTLS : BOOLEAN]
    /\ pc \in IO \cup Local \cup Ended
    /\ ctx \in {"live", "done"} /\ sock \in {"none", "open", "closed"}
    /\ watch \in [Callback -> WatchState]

Times ==
    /\ ctxDeadline \in 1..MaxOverall /\ clock \in Nat /\ doneAt \in Nat
    /\ ioDeadline \in 0..ctxDeadline

\* Only a path through a proxy reaches its phases.
Path == pc \in OnProxy => flags.proxy # "none"

\* A phase that waits for the peer has a deadline, and the clock has not passed it.
Deadline == pc \in ProxyIO \cup TLSIO => ioDeadline # NoDeadline /\ clock <= ioDeadline

\* The time that may have passed where the goroutine is, and the time at which
\* the phase it is in will end.
Spent ==
    /\ pc \in {"dial", "proxy_setup"} => clock <= ConnectTimeout
    /\ pc \in OnProxy => clock <= ConnectTimeout + HandshakeTimeout
    /\ pc \in ProxyIO => ioDeadline <= ConnectTimeout + HandshakeTimeout
    /\ pc = "tls_setup" => clock <= ConnectTimeout + ProxyPart
    /\ pc \in TLSIO => ioDeadline <= ConnectTimeout + HandshakeTimeout + ProxyPart
    /\ clock <= ConnectTimeout + HandshakeTimeout + ProxyPart

\* While a peer is waited for a callback watches the context, and once the
\* context is done it is on its way, or the socket is closed.
Watched ==
    /\ pc \in ProxyIO /\ ctx = "live" => watch["proxy"] = "armed"
    /\ pc \in TLSIO /\ ctx = "live" => watch["tls"] = "armed"
    /\ pc \in ProxyIO /\ ctx = "done" => watch["proxy"] = "running" \/ sock = "closed"
    /\ pc \in TLSIO /\ ctx = "done" => watch["tls"] = "running" \/ sock = "closed"

Inv ==
    /\ Types /\ Times /\ Path /\ Deadline /\ Spent /\ Watched
    /\ NoLeak /\ OverallBounded /\ PromptCancel

USE DEF IO, Local, Ended, Callback, WatchState, ProxyIO, TLSIO, OnProxy

-----------------------------------------------------------------------------
\* The deadline of a phase is in the future, and no later than the context's.
LEMMA PhaseFits ==
    ASSUME Times, OverallBounded
    PROVE  /\ PhaseDeadline \in Nat /\ PhaseDeadline # 0
           /\ PhaseDeadline \in 0..ctxDeadline
           /\ clock <= PhaseDeadline /\ PhaseDeadline <= clock + HandshakeTimeout
  BY DialAssumption DEF Times, OverallBounded, PhaseDeadline

\* The callbacks stay of their type, and stop() does not take back one that runs.
LEMMA WatchFacts ==
    ASSUME Types, NEW c \in Callback
    PROVE  /\ Armed(watch, c) \in [Callback -> WatchState]
           /\ Armed(watch, c)[c] = (IF ctx = "done" THEN "running" ELSE "armed")
           /\ Stopped(watch, c) \in [Callback -> WatchState]
           /\ StopAll(watch) \in [Callback -> WatchState]
  BY DEF Types, Armed, Stopped, StopAll

\* The two timeouts are numbers, and so is what a proxy may cost.
LEMMA Timeouts ==
    /\ ConnectTimeout \in Nat /\ HandshakeTimeout \in Nat /\ ProxyPart \in Nat
    /\ flags.proxy # "none" => ProxyPart = HandshakeTimeout
  BY DialAssumption DEF ProxyPart

\* A connection begins with a dial, and nothing has passed.
LEMMA InvInit == Init => Inv
<1> SUFFICES ASSUME Init PROVE Inv
  OBVIOUS
<1>1. Types
  BY DEF Init, Types
<1>2. Times
  BY DialAssumption DEF Init, Times, NoDeadline
<1>3. pc = "dial" /\ sock = "none" /\ ctx = "live"
  BY DEF Init
<1>4. clock = 0 /\ ctxDeadline \in Nat
  BY DialAssumption DEF Init
<1>5. Path /\ Deadline /\ Watched /\ NoLeak /\ PromptCancel
  BY <1>3 DEF Path, Deadline, Watched, NoLeak, PromptCancel
<1>6. Spent
  BY <1>3, <1>4, Timeouts DEF Spent
<1>7. OverallBounded
  BY <1>4 DEF OverallBounded
<1> QED
  BY <1>1, <1>2, <1>5, <1>6, <1>7 DEF Inv

\* Every error return.
LEMMA FailKeeps == Inv /\ Fail => Inv'
<1> SUFFICES ASSUME Inv, Fail PROVE Inv'
  OBVIOUS
<1> USE DEF Fail
<1>1. Types'
  BY WatchFacts DEF Inv, Types
<1>2. Times'
  BY DEF Inv, Times
<1>3. pc' = "failed" /\ sock' # "open"
  BY DEF Inv, Types
<1>4. Path' /\ Deadline' /\ Watched' /\ NoLeak' /\ PromptCancel'
  BY <1>3 DEF Path, Deadline, Watched, NoLeak, PromptCancel
<1>5. Spent'
  BY <1>3 DEF Inv, Spent, ProxyPart
<1>6. OverallBounded'
  BY DEF Inv, OverallBounded
<1> QED
  BY <1>1, <1>2, <1>4, <1>5, <1>6 DEF Inv

\* The clock advances only while the context is live.
LEMMA TickIsLive ==
    ASSUME Inv, Tick
    PROVE  ctx = "live" /\ clock < ctxDeadline
<1>1. ctx = "live"
  <2> SUFFICES ASSUME ctx = "done" PROVE FALSE
    BY DEF Inv, Types
  <2>1. pc \in ProxyIO \cup TLSIO /\ sock = "open" /\ \A c \in Callback : watch[c] # "running"
    BY DEF Tick, Blocked
  <2> QED
    BY <2>1 DEF Inv, Watched
<1> QED
  BY <1>1 DEF Tick, Blocked

\* Every step of the goroutine, its timers and callbacks preserves the invariant.
LEMMA InvNext == Inv /\ [Next]_vars => Inv'
<1> SUFFICES ASSUME Inv, [Next]_vars PROVE Inv'
  OBVIOUS
<1>1. CASE DialSucceeds
  <2>0. /\ pc = "dial" /\ ctx = "live" /\ sock' = "open"
        /\ pc' = (IF flags.proxy = "none" THEN "tls_setup" ELSE "proxy_setup")
        /\ UNCHANGED <<flags, ctxDeadline, clock, ctx, doneAt, ioDeadline, watch>>
    BY <1>1 DEF DialSucceeds
  <2>1. Types'
    BY <2>0 DEF Inv, Types
  <2>2. Times' /\ OverallBounded'
    BY <2>0 DEF Inv, Times, OverallBounded
  <2>3. Path' /\ Deadline' /\ Watched' /\ NoLeak' /\ PromptCancel'
    BY <2>0 DEF Path, Deadline, Watched, NoLeak, PromptCancel
  <2>4. Spent'
    <3>1. clock \in Nat /\ clock <= ConnectTimeout
      BY <2>0 DEF Inv, Times, Spent
    <3>2. /\ clock <= ConnectTimeout + HandshakeTimeout /\ clock <= ConnectTimeout + ProxyPart
          /\ clock <= ConnectTimeout + HandshakeTimeout + ProxyPart
      BY <3>1, Timeouts
    <3> QED
      BY <2>0, <3>1, <3>2 DEF Spent, ProxyPart
  <2> QED
    BY <2>1, <2>2, <2>3, <2>4 DEF Inv
<1>2. CASE ProxySetup
  <2>0. /\ pc = "proxy_setup" /\ pc' \in ProxyIO
        /\ watch' = Armed(watch, "proxy") /\ ioDeadline' = PhaseDeadline
        /\ UNCHANGED <<flags, ctxDeadline, clock, ctx, doneAt, sock>>
    BY <1>2 DEF ProxySetup, Setup
  <2>1. Types'
    BY <2>0, WatchFacts DEF Inv, Types
  <2>2. Times' /\ OverallBounded'
    BY <2>0, PhaseFits DEF Inv, Times, OverallBounded
  <2>3. Path'
    BY <2>0 DEF Inv, Path
  <2>4. Deadline'
    BY <2>0, PhaseFits DEF Inv, Deadline, NoDeadline
  <2>5. Watched'
    BY <2>0, WatchFacts DEF Inv, Types, Watched
  <2>6. NoLeak' /\ PromptCancel'
    BY <2>0 DEF Inv, NoLeak, PromptCancel
  <2>7. Spent'
    <3>1. /\ clock \in Nat /\ clock <= ConnectTimeout
          /\ clock <= ConnectTimeout + HandshakeTimeout + ProxyPart
      BY <2>0 DEF Inv, Times, Spent
    <3>2. PhaseDeadline <= ConnectTimeout + HandshakeTimeout
          /\ clock <= ConnectTimeout + HandshakeTimeout
      BY <3>1, PhaseFits, Timeouts DEF Inv
    <3>3. pc' \in ProxyIO /\ pc' \notin TLSIO /\ pc' \notin {"dial", "proxy_setup", "tls_setup"}
      BY <2>0
    <3> QED
      BY <2>0, <3>1, <3>2, <3>3, Zenon DEF Spent, ProxyPart
  <2> QED
    BY <2>1, <2>2, <2>3, <2>4, <2>5, <2>6, <2>7 DEF Inv
<1>3. CASE TLSSetup
  <2>0. /\ pc = "tls_setup" /\ pc' \in TLSIO
        /\ watch' = Armed(watch, "tls") /\ ioDeadline' = PhaseDeadline
        /\ UNCHANGED <<flags, ctxDeadline, clock, ctx, doneAt, sock>>
    BY <1>3 DEF TLSSetup, Setup
  <2>1. Types'
    BY <2>0, WatchFacts DEF Inv, Types
  <2>2. Times' /\ OverallBounded'
    BY <2>0, PhaseFits DEF Inv, Times, OverallBounded
  <2>3. Path'
    BY <2>0 DEF Path
  <2>4. Deadline'
    BY <2>0, PhaseFits DEF Inv, Deadline, NoDeadline
  <2>5. Watched'
    BY <2>0, WatchFacts DEF Inv, Types, Watched
  <2>6. NoLeak' /\ PromptCancel'
    BY <2>0 DEF Inv, NoLeak, PromptCancel
  <2>7. Spent'
    <3>1. /\ clock \in Nat /\ clock <= ConnectTimeout + ProxyPart
          /\ clock <= ConnectTimeout + HandshakeTimeout + ProxyPart
      BY <2>0 DEF Inv, Times, Spent
    <3>2. PhaseDeadline <= ConnectTimeout + HandshakeTimeout + ProxyPart
      BY <3>1, PhaseFits, Timeouts DEF Inv
    <3>3. pc' \in TLSIO /\ pc' \notin OnProxy /\ pc' \notin {"dial", "tls_setup"}
      BY <2>0
    <3> QED
      BY <2>0, <3>1, <3>2, <3>3 DEF Spent, ProxyPart
  <2> QED
    BY <2>1, <2>2, <2>3, <2>4, <2>5, <2>6, <2>7 DEF Inv
<1>4. CASE PeerAnswers
  <2>0. /\ \/ pc = "proxy_tls" /\ pc' = "proxy_connect"
           \/ pc = "proxy_connect" /\ pc' = "proxy_clear"
           \/ pc = "starttls" /\ pc' = "handshake"
           \/ pc = "handshake" /\ pc' = "tls_clear"
        /\ UNCHANGED <<flags, ctxDeadline, clock, ctx, doneAt, sock, ioDeadline, watch>>
    BY <1>4 DEF PeerAnswers
  <2>1. Types'
    BY <2>0 DEF Inv, Types
  <2>2. Times' /\ OverallBounded'
    BY <2>0 DEF Inv, Times, OverallBounded
  <2>3. Path' /\ Watched' /\ NoLeak'
    BY <2>0 DEF Inv, Path, Watched, NoLeak
  <2>4. Deadline'
    BY <2>0 DEF Inv, Deadline
  <2>5. PromptCancel'
    BY <2>0 DEF Inv, PromptCancel
  <2>6. Spent'
    BY <2>0 DEF Inv, Spent, ProxyPart
  <2> QED
    BY <2>1, <2>2, <2>3, <2>4, <2>5, <2>6 DEF Inv
<1>5. CASE ProxyClear
  <2>0. /\ pc = "proxy_clear" /\ pc' = "tls_setup" /\ ioDeadline' = NoDeadline
        /\ watch' = Stopped(watch, "proxy")
        /\ UNCHANGED <<flags, ctxDeadline, clock, ctx, doneAt, sock>>
    BY <1>5 DEF ProxyClear
  <2>1. Types'
    BY <2>0, WatchFacts DEF Inv, Types
  <2>2. Times' /\ OverallBounded'
    BY <2>0 DEF Inv, Times, OverallBounded, NoDeadline
  <2>3. Path' /\ Watched' /\ NoLeak' /\ Deadline'
    BY <2>0 DEF Path, Watched, NoLeak, Deadline
  <2>4. PromptCancel'
    BY <2>0 DEF Inv, PromptCancel
  <2>5. Spent'
    <3>1. /\ clock <= ConnectTimeout + ProxyPart
          /\ clock <= ConnectTimeout + HandshakeTimeout + ProxyPart
      BY <2>0, Timeouts DEF Inv, Spent, Path
    <3> QED
      BY <2>0, <3>1 DEF Spent, ProxyPart
  <2> QED
    BY <2>1, <2>2, <2>3, <2>4, <2>5 DEF Inv
<1>6. CASE TLSClear
  <2>0. /\ pc = "tls_clear" /\ pc' = "use" /\ ioDeadline' = NoDeadline
        /\ watch' = Stopped(watch, "tls")
        /\ UNCHANGED <<flags, ctxDeadline, clock, ctx, doneAt, sock>>
    BY <1>6 DEF TLSClear
  <2>1. Types'
    BY <2>0, WatchFacts DEF Inv, Types
  <2>2. Times' /\ OverallBounded'
    BY <2>0 DEF Inv, Times, OverallBounded, NoDeadline
  <2>3. Path' /\ Watched' /\ NoLeak' /\ Deadline'
    BY <2>0 DEF Path, Watched, NoLeak, Deadline
  <2>4. PromptCancel'
    BY <2>0 DEF Inv, PromptCancel
  <2>5. Spent'
    BY <2>0 DEF Inv, Spent, ProxyPart
  <2> QED
    BY <2>1, <2>2, <2>3, <2>4, <2>5 DEF Inv
<1>7. CASE UseAndClose
  <2>0. /\ pc = "use" /\ pc' = "closed" /\ sock' = "closed"
        /\ UNCHANGED <<flags, ctxDeadline, clock, ctx, doneAt, ioDeadline, watch>>
    BY <1>7 DEF UseAndClose
  <2>1. Types'
    BY <2>0 DEF Inv, Types
  <2>2. Times' /\ OverallBounded'
    BY <2>0 DEF Inv, Times, OverallBounded
  <2>3. Path' /\ Watched' /\ NoLeak' /\ Deadline' /\ PromptCancel'
    BY <2>0 DEF Path, Watched, NoLeak, Deadline, PromptCancel
  <2>4. Spent'
    BY <2>0 DEF Inv, Spent, ProxyPart
  <2> QED
    BY <2>1, <2>2, <2>3, <2>4 DEF Inv
<1>8. CASE ContextDone
  <2>0. /\ ctx = "live" /\ ctx' = "done" /\ doneAt' = clock
        /\ watch' = [c \in Callback |-> IF watch[c] = "armed" THEN "running" ELSE watch[c]]
        /\ UNCHANGED <<flags, ctxDeadline, pc, clock, sock, ioDeadline>>
    BY <1>8 DEF ContextDone
  <2>1. Types'
    BY <2>0 DEF Inv, Types
  <2>2. Times' /\ OverallBounded'
    BY <2>0 DEF Inv, Times, OverallBounded
  <2>3. Path' /\ NoLeak' /\ Deadline'
    BY <2>0 DEF Inv, Path, NoLeak, Deadline
  <2>4. Watched'
    BY <2>0 DEF Inv, Watched
  <2>5. PromptCancel'
    BY <2>0 DEF PromptCancel
  <2>6. Spent'
    BY <2>0 DEF Inv, Spent, ProxyPart
  <2> QED
    BY <2>1, <2>2, <2>3, <2>4, <2>5, <2>6 DEF Inv
<1>9. ASSUME NEW c \in Callback, CallbackCloses(c) PROVE Inv'
  <2>0. /\ sock' = "closed" /\ watch' = [watch EXCEPT ![c] = "off"] /\ watch[c] = "running"
        /\ UNCHANGED <<flags, ctxDeadline, pc, clock, ctx, doneAt, ioDeadline>>
    BY <1>9 DEF CallbackCloses
  <2>1. Types'
    BY <2>0 DEF Inv, Types
  <2>2. Times' /\ OverallBounded'
    BY <2>0 DEF Inv, Times, OverallBounded
  <2>3. Path' /\ NoLeak' /\ Deadline'
    BY <2>0 DEF Inv, Path, NoLeak, Deadline
  <2>4. Watched'
    BY <2>0 DEF Inv, Types, Watched
  <2>5. PromptCancel'
    BY <2>0 DEF Inv, PromptCancel
  <2>6. Spent'
    BY <2>0 DEF Inv, Spent, ProxyPart
  <2> QED
    BY <2>1, <2>2, <2>3, <2>4, <2>5, <2>6 DEF Inv
<1>10. CASE Tick
  <2>0. /\ ctx = "live" /\ clock < ctxDeadline /\ clock' = clock + 1 /\ pc \in IO
        /\ UNCHANGED <<flags, ctxDeadline, pc, ctx, doneAt, sock, ioDeadline, watch>>
    BY <1>10, TickIsLive DEF Tick, Blocked
  <2>1. Types'
    BY <2>0 DEF Inv, Types
  <2>2. Times' /\ OverallBounded'
    BY <2>0 DEF Inv, Times, OverallBounded
  <2>3. Path' /\ NoLeak' /\ Watched' /\ PromptCancel'
    BY <2>0 DEF Inv, Path, NoLeak, Watched, PromptCancel
  <2>4. clock \in Nat /\ ioDeadline \in Nat
    BY DEF Inv, Times
  <2>5. CASE pc = "dial"
    <3>1. clock + 1 <= ConnectTimeout
      BY <1>10, <2>4, <2>5, Timeouts DEF Tick, Blocked
    <3>2. Deadline'
      BY <2>0, <2>5 DEF Deadline
    <3>3. Spent'
      <4>1. clock + 1 <= ConnectTimeout + HandshakeTimeout + ProxyPart
        BY <2>4, <3>1, Timeouts
      <4> QED
        BY <2>0, <2>5, <3>1, <4>1 DEF Spent, ProxyPart
    <3> QED
      BY <2>1, <2>2, <2>3, <3>2, <3>3 DEF Inv
  <2>6. CASE pc \in ProxyIO \cup TLSIO
    <3>1. ioDeadline # NoDeadline /\ clock < ioDeadline
      BY <1>10, <2>6 DEF Tick, Blocked, Inv, Deadline
    <3>2. clock + 1 <= ioDeadline
      BY <2>4, <3>1
    <3>3. Deadline'
      BY <2>0, <3>1, <3>2 DEF Deadline
    <3>4. Spent'
      <4>1. CASE pc \in ProxyIO
        <5>1. ioDeadline <= ConnectTimeout + HandshakeTimeout
          BY <4>1 DEF Inv, Spent
        <5>2. /\ clock + 1 <= ConnectTimeout + HandshakeTimeout
              /\ clock + 1 <= ConnectTimeout + HandshakeTimeout + ProxyPart
          BY <2>4, <3>2, <5>1, Timeouts
        <5>3. pc \notin TLSIO /\ pc \notin {"dial", "proxy_setup", "tls_setup"}
          BY <4>1
        <5> QED
          BY <2>0, <5>1, <5>2, <5>3 DEF Spent, ProxyPart
      <4>2. CASE pc \in TLSIO
        <5>1. ioDeadline <= ConnectTimeout + HandshakeTimeout + ProxyPart
          BY <4>2 DEF Inv, Spent
        <5>2. clock + 1 <= ConnectTimeout + HandshakeTimeout + ProxyPart
          BY <2>4, <3>2, <5>1, Timeouts
        <5>3. pc \notin OnProxy /\ pc \notin {"dial", "tls_setup"}
          BY <4>2
        <5> QED
          BY <2>0, <5>1, <5>2, <5>3 DEF Spent, ProxyPart
      <4> QED
        BY <2>6, <4>1, <4>2
    <3> QED
      BY <2>1, <2>2, <2>3, <3>3, <3>4 DEF Inv
  <2> QED
    BY <2>0, <2>5, <2>6
<1>11. CASE DialFails \/ SetupFails \/ IOFails \/ ClearFails
  BY <1>11, FailKeeps DEF DialFails, SetupFails, IOFails, ClearFails
<1>12. CASE UNCHANGED vars
  <2>1. Types' /\ Path' /\ Watched' /\ NoLeak'
    BY <1>12 DEF vars, Inv, Types, Path, Watched, NoLeak
  <2>2. Times' /\ Deadline' /\ OverallBounded' /\ PromptCancel'
    BY <1>12 DEF vars, Inv, Times, Deadline, OverallBounded, PromptCancel
  <2>3. Spent'
    BY <1>12 DEF vars, Inv, Spent, ProxyPart
  <2> QED
    BY <2>1, <2>2, <2>3 DEF Inv
<1> QED
  BY <1>1, <1>2, <1>3, <1>4, <1>5, <1>6, <1>7, <1>8, <1>9, <1>10, <1>11, <1>12 DEF Next, Over

\* The invariant holds of every connection.
THEOREM Invariance == Spec => []Inv
<1>1. Init => Inv
  BY InvInit
<1>2. Inv /\ [Next]_vars => Inv'
  BY InvNext
<1> QED
  BY <1>1, <1>2, PTL DEF Spec

\* The state of a connection is type correct; its deadline never lies behind the
\* context's.
THEOREM TypeCorrect == Spec => []TypeOK
<1>1. Inv => TypeOK
  BY DEF Inv, Types, Times, TypeOK
<1> QED
  BY <1>1, Invariance, PTL

\* No path of dialTLS and dialViaProxyContext (dial.go:150-215, proxy.go:44-115)
\* ends with the socket open, whichever callbacks run.
THEOREM NothingLeaks == Spec => []NoLeak
  BY Invariance, PTL DEF Inv

\* Peers that hang in every phase (dial.go:204) hold a connection for the sum of
\* the phases' timeouts at most, and for no longer than the target's deadline.
THEOREM IsBounded == Spec => []Bounded
<1>1. Inv => Bounded
  BY DEF Inv, Spent, ProxyPart, PhasesBounded, Bounded
<1> QED
  BY <1>1, Invariance, PTL

\* Once the context is done no peer holds the connection up any further
\* (dial.go:171, proxy.go:64).
THEOREM CancelIsPrompt == Spec => []PromptCancel
  BY Invariance, PTL DEF Inv

-----------------------------------------------------------------------------
(* Connection implements both its parts.                                   *)

\* Every step of a connection with its dialogue is one of dialTLS
\* (dial.go:165-195) or none.
THEOREM ImplementsDial == ConnSpec => Spec
<1>1. ConnInit => Init
  BY DEF ConnInit
<1>2. [ConnNext]_connVars => [Next]_vars
  <2>1. ClientTalks \/ ServerTalks \/ DialogueCut => UNCHANGED vars
    BY DEF ClientTalks, ServerTalks, DialogueCut
  <2>2. DialogueReady \/ DialogueFailed \/ Elsewhere \/ Around => Next
    BY DEF DialogueReady, DialogueFailed, Elsewhere, Around, Next
  <2>3. UNCHANGED connVars => UNCHANGED vars
    BY DEF connVars
  <2> QED
    BY <2>1, <2>2, <2>3 DEF ConnNext
<1> QED
  BY <1>1, <1>2, PTL DEF ConnSpec, Spec

\* The dialogue inside is one of negotiateStartTLS (starttls.go:44-60): what
\* Connection adds only says when it is cut.
THEOREM ImplementsStartTLS == ConnSpec => S!Spec
<1>1. ConnInit => S!Init
  BY DEF ConnInit
<1>2. [ConnNext]_connVars => [S!Next]_(S!vars)
  <2>1. ClientTalks \/ ServerTalks \/ DialogueCut => S!Next
    BY DEF ClientTalks, ServerTalks, DialogueCut, S!Next, S!Client
  <2>2. DialogueReady \/ DialogueFailed \/ Elsewhere \/ Around => UNCHANGED S!vars
    BY DEF DialogueReady, DialogueFailed, Elsewhere, Around, dialogueVars, S!vars
  <2>3. UNCHANGED connVars => UNCHANGED S!vars
    BY DEF connVars, dialogueVars, S!vars
  <2> QED
    BY <2>1, <2>2, <2>3 DEF ConnNext
<1> QED
  BY <1>1, <1>2, PTL DEF ConnSpec, S!Spec

\* No path of a connection ends with the socket open, also when a dialogue is cut.
THEOREM ConnectionNeverLeaks == ConnSpec => []NoLeak
  BY ImplementsDial, NothingLeaks, PTL

\* A server that hangs in its dialogue, like any peer, is bounded.
THEOREM ConnectionIsBounded == ConnSpec => []Bounded
  BY ImplementsDial, IsBounded, PTL

\* Nor does it delay the end of a connection whose context is done.
THEOREM ConnectionCancelIsPrompt == ConnSpec => []PromptCancel
  BY ImplementsDial, CancelIsPrompt, PTL

-----------------------------------------------------------------------------
(***************************************************************************)
(* Replies as sequences of lines: some that leave more to come, and one    *)
(* that ends it.                                                           *)
(***************************************************************************)
Codes == {"220", "250", "454", "* OK", "* BYE", "a001 OK", "a001 NO", "+OK", "-ERR", "0", "52",
          "malformed"}
Lines == {S!Line(code, end) : code \in Codes, end \in BOOLEAN}

Only(s, M)       == \A k \in 1..Len(s) : s[k] \in M
EndsIn(s, M, F)  == /\ s # << >> /\ s[Len(s)] \in F
                    /\ \A k \in 1..(Len(s) - 1) : s[k] \in M

\* A line that is sent.
LEMMA AppendLine ==
    ASSUME NEW M, NEW F, NEW s \in Seq(Lines), NEW e \in Lines, Only(s, M)
    PROVE  /\ Append(s, e) \in Seq(Lines)
           /\ e \in M => Only(Append(s, e), M)
           /\ e \in F => EndsIn(Append(s, e), M, F)
<1> DEFINE t == Append(s, e)
<1>1. /\ t \in Seq(Lines) /\ t # << >> /\ Len(t) = Len(s) + 1
      /\ \A k \in 1..Len(s) : t[k] = s[k]
      /\ t[Len(s) + 1] = e
  BY AppendProperties
<1>2. Len(s) \in Nat
  BY LenProperties
<1> HIDE DEF t
<1>3. e \in M => Only(t, M)
  BY <1>1, <1>2 DEF Only
<1>4. e \in F => EndsIn(t, M, F)
  BY <1>1, <1>2 DEF Only, EndsIn
<1> QED
  BY <1>1, <1>3, <1>4 DEF t

\* A line that is read.
LEMMA ReadOnly ==
    ASSUME NEW M, NEW s \in Seq(Lines), s # << >>, Only(s, M)
    PROVE  Head(s) \in M /\ Only(Tail(s), M)
<1>1. Len(s) \in Nat \ {0} /\ Head(s) = s[1]
  BY EmptySeq
<1>2. /\ Len(Tail(s)) = Len(s) - 1
      /\ \A k \in 1..Len(Tail(s)) : Tail(s)[k] = s[k + 1]
  BY HeadTailProperties
<1> QED
  BY <1>1, <1>2 DEF Only

LEMMA ReadEnd ==
    ASSUME NEW M, NEW F, NEW s \in Seq(Lines), EndsIn(s, M, F)
    PROVE  \/ Head(s) \in F /\ Tail(s) = << >>
           \/ Head(s) \in M /\ EndsIn(Tail(s), M, F)
<1> DEFINE t == Tail(s)
<1>1. Len(s) \in Nat \ {0} /\ Head(s) = s[1]
  BY EmptySeq DEF EndsIn
<1>2. /\ t \in Seq(Lines) /\ Len(t) = Len(s) - 1
      /\ \A k \in 1..Len(t) : t[k] = s[k + 1]
  BY HeadTailProperties DEF EndsIn
<1> HIDE DEF t
<1>3. CASE Len(s) = 1
  <2>1. Head(s) \in F
    BY <1>1, <1>3 DEF EndsIn
  <2>2. t = << >>
    BY <1>2, <1>3, EmptySeq
  <2> QED
    BY <2>1, <2>2 DEF t
<1>4. CASE Len(s) > 1
  <2>1. Head(s) \in M
    BY <1>1, <1>4 DEF EndsIn
  <2>2. t # << >> /\ t[Len(t)] \in F
    BY <1>1, <1>2, <1>4 DEF EndsIn
  <2>3. \A k \in 1..(Len(t) - 1) : t[k] \in M
    BY <1>1, <1>2, <1>4 DEF EndsIn
  <2> QED
    BY <2>1, <2>2, <2>3 DEF EndsIn, t
<1>5. Len(s) = 1 \/ Len(s) > 1
  <2> DEFINE l == Len(s)
  <2>1. l \in Nat /\ l # 0
    BY EmptySeq DEF EndsIn
  <2> HIDE DEF l
  <2>2. l = 1 \/ l > 1
    BY <2>1
  <2> QED
    BY <2>2 DEF l
<1> QED
  BY <1>3, <1>4, <1>5

\* What arrives, whatever the breaks between lines.
LEMMA Arrival ==
    ASSUME NEW M, NEW F, NEW s \in Seq(Lines), NEW n \in 1..Len(s)
    PROVE  /\ SubSeq(s, 1, n) \in Seq(Lines) /\ SubSeq(s, n + 1, Len(s)) \in Seq(Lines)
           /\ Only(s, M) => Only(SubSeq(s, 1, n), M) /\ Only(SubSeq(s, n + 1, Len(s)), M)
           /\ EndsIn(s, M, F) =>
                 \/ Only(SubSeq(s, 1, n), M) /\ EndsIn(SubSeq(s, n + 1, Len(s)), M, F)
                 \/ EndsIn(SubSeq(s, 1, n), M, F) /\ SubSeq(s, n + 1, Len(s)) = << >>
<1> DEFINE l == Len(s)
           t == SubSeq(s, 1, n)
           u == SubSeq(s, n + 1, l)
<1>1. l \in Nat /\ n \in Nat /\ 1 <= n /\ n <= l /\ \A k \in 1..l : s[k] \in Lines
  BY LenProperties
<1>2. t \in Seq(Lines) /\ Len(t) = n /\ \A k \in 1..n : t[k] = s[k]
  <2>1. \A k \in 1..n : s[k] \in Lines
    BY <1>1
  <2>2. /\ t \in Seq(Lines) /\ Len(t) = IF 1 <= n THEN n - 1 + 1 ELSE 0
        /\ \A k \in 1..(n - 1 + 1) : t[k] = s[1 + k - 1]
    BY <1>1, <2>1, SubSeqProperties
  <2> HIDE DEF t
  <2> QED
    BY <1>1, <2>2
<1>3. u \in Seq(Lines) /\ Len(u) = l - n /\ \A k \in 1..(l - n) : u[k] = s[n + k]
  <2>1. \A k \in (n + 1)..l : s[k] \in Lines
    BY <1>1
  <2>2. n + 1 \in Int /\ l \in Int
    BY <1>1
  <2>3. /\ u \in Seq(Lines) /\ Len(u) = IF n + 1 <= l THEN l - (n + 1) + 1 ELSE 0
        /\ \A k \in 1..(l - (n + 1) + 1) : u[k] = s[(n + 1) + k - 1]
    BY <2>1, <2>2, SubSeqProperties
  <2> HIDE DEF u, l
  <2> QED
    BY <1>1, <2>3
<1>4. ASSUME Only(s, M)
      PROVE  Only(t, M) /\ Only(u, M)
  <2> HIDE DEF t, u
  <2>1. \A k \in 1..l : s[k] \in M
    BY <1>4 DEF Only
  <2> HIDE DEF l
  <2>2. Only(t, M)
    BY <1>1, <1>2, <2>1 DEF Only
  <2>3. Only(u, M)
    BY <1>1, <1>3, <2>1 DEF Only
  <2> QED
    BY <2>2, <2>3
<1>5. ASSUME EndsIn(s, M, F), n < l
      PROVE  Only(t, M) /\ EndsIn(u, M, F)
  <2> HIDE DEF t, u
  <2>1. Only(t, M)
    BY <1>1, <1>2, <1>5 DEF Only, EndsIn
  <2>2. u # << >> /\ u[Len(u)] \in F
    BY <1>1, <1>3, <1>5 DEF EndsIn
  <2>3. \A k \in 1..(Len(u) - 1) : u[k] \in M
    BY <1>1, <1>3, <1>5 DEF EndsIn
  <2> QED
    BY <2>1, <2>2, <2>3 DEF EndsIn
<1>6. ASSUME EndsIn(s, M, F), n = l
      PROVE  EndsIn(t, M, F) /\ u = << >>
  <2> HIDE DEF t, u
  <2>1. u = << >>
    BY <1>1, <1>3, <1>6, EmptySeq
  <2>2. t # << >> /\ t[Len(t)] \in F /\ \A k \in 1..(Len(t) - 1) : t[k] \in M
    BY <1>1, <1>2, <1>6 DEF EndsIn
  <2> QED
    BY <2>1, <2>2 DEF EndsIn
<1> QED
  BY <1>1, <1>2, <1>3, <1>4, <1>5, <1>6

-----------------------------------------------------------------------------
(***************************************************************************)
(* The dialogue.                                                           *)
(***************************************************************************)
Last == Len(S!Dialogue(protocol))

\* The client opens exchange i.
Opens(i) == i # 1 \/ protocol = "ldap"

\* The lines of which the client makes v in exchange i.
Judged(i, v) == {line \in Lines : S!Verdict(i, line) = v}
More    == Judged(phase, "more")
Accepts == Judged(phase, "accept")
Rejects == Judged(phase, "reject")

\* What the client has not read of the reply it waits for: a part of it ...
Unanswered == Only(buffer, More) /\ Only(wire, More)

\* ... or all up to its end, which is one of F.
Answered(F) ==
    \/ Only(buffer, More) /\ EndsIn(wire, More, F)
    \/ EndsIn(buffer, More, F) /\ wire = << >>

\* The server is in the exchange of the client, or one ahead, as what it has said
\* tells.
InTurn ==
    \/ /\ Unanswered /\ exchange = phase /\ spc \in {"wait", "reply", "closed"}
       /\ spc = "wait" => buffer = << >> /\ wire = << >>
    \/ /\ Answered(Accepts)
       /\ \/ exchange = phase + 1 /\ spc \in {"wait", "closed"}
          \/ phase = Last /\ spc = "tls"
    \/ Answered(Rejects) /\ spc = "refused"

\* A client that has a command to send has read everything.
ReadBeforeSend ==
    dialogue = "send" /\ Opens(phase) =>
        buffer = << >> /\ wire = << >> /\ exchange = phase /\ spc \in {"wait", "closed"}

\* A command is on its way exactly if the server waits for it.
CommandInTurn ==
    spc # "closed" =>
        IF dialogue = "read" /\ spc = "wait" /\ exchange = phase
        THEN \E c : commands = <<c>> ELSE commands = << >>

DialogueType ==
    /\ protocol \in S!Protocol
    /\ dialogue \in {"send", "read", "ready", "failed"}
    /\ spc \in {"wait", "reply", "refused", "closed", "tls"}
    /\ phase \in 1..Last /\ exchange \in 1..Last
    /\ buffer \in Seq(Lines) /\ wire \in Seq(Lines)

DialogueInv ==
    /\ DialogueType
    /\ spc = "wait" => Opens(exchange)
    /\ dialogue = "ready" => S!InStep
    /\ dialogue \in {"send", "read"} => InTurn /\ ReadBeforeSend /\ CommandInTurn

\* The client opens every exchange but the first, which only LDAP's opens.
LEMMA Exchanges ==
    ASSUME protocol \in S!Protocol
    PROVE  /\ Last \in Nat \ {0}
           /\ \A i \in 1..Last : S!Dialogue(protocol)[i] # "" <=> Opens(i)
<1> DEFINE d == S!Dialogue(protocol)
           Sent(i) == d[i] # ""
<1>1. ASSUME protocol = "smtp"
      PROVE  Last = 3 /\ ~Sent(1) /\ Sent(2) /\ Sent(3)
  <2>1. d = <<"", "EHLO tlsctl", "STARTTLS">>
    BY <1>1 DEF S!Dialogue
  <2> HIDE DEF d
  <2>2. Len(d) = 3 /\ d[1] = "" /\ d[2] # "" /\ d[3] # ""
    BY <2>1
  <2> QED
    BY <2>2 DEF d, Last
<1>2. ASSUME protocol \in {"imap", "pop3"}
      PROVE  Last = 2 /\ ~Sent(1) /\ Sent(2)
  <2>1. d = <<"", IF protocol = "imap" THEN "a001 STARTTLS" ELSE "STLS">>
    BY <1>2 DEF S!Dialogue
  <2> HIDE DEF d
  <2>2. Len(d) = 2 /\ d[1] = "" /\ d[2] # ""
    BY <2>1
  <2> QED
    BY <2>2 DEF d, Last
<1>3. ASSUME protocol = "ldap"
      PROVE  Last = 1 /\ Sent(1)
  <2>1. d = <<"ExtendedRequest">>
    BY <1>3 DEF S!Dialogue
  <2> HIDE DEF d
  <2>2. Len(d) = 1 /\ d[1] # ""
    BY <2>1
  <2> QED
    BY <2>2 DEF d, Last
<1>4. protocol \in {"smtp", "imap", "pop3", "ldap"}
  BY DEF S!Protocol
<1>5. Last \in Nat \ {0} /\ \A i \in 1..Last : Sent(i) <=> Opens(i)
  <2> HIDE DEF Sent
  <2>1. CASE protocol = "smtp"
    BY <1>1, <2>1 DEF Opens
  <2>2. CASE protocol \in {"imap", "pop3"}
    BY <1>2, <2>2 DEF Opens
  <2>3. CASE protocol = "ldap"
    BY <1>3, <2>3 DEF Opens
  <2> QED
    BY <1>4, <2>1, <2>2, <2>3
<1> QED
  BY <1>5

LEMMA ALine ==
    \A code \in Codes : S!Line(code, TRUE) \in Lines /\ S!Line(code, FALSE) \in Lines
<1>1. ASSUME NEW code \in Codes, NEW end \in BOOLEAN
      PROVE  S!Line(code, end) \in Lines
  <2> SUFFICES \E c \in Codes, b \in BOOLEAN : S!Line(code, end) = S!Line(c, b)
    BY DEF Lines
  <2> QED
    OBVIOUS
<1> QED
  BY <1>1, Zenon

LEMMA LineFields ==
    \A code, end : S!Line(code, end).code = code /\ S!Line(code, end).last = end
  BY Zenon DEF S!Line

\* In the exchange of the server the client takes its lines for what they are.
LEMMA LinesAreTaken ==
    ASSUME protocol \in S!Protocol
    PROVE  /\ S!LastLine \in Judged(exchange, "accept")
           /\ S!Refusal \in Judged(exchange, "reject")
           /\ S!Malformed \in Judged(exchange, "reject")
           /\ protocol = "smtp" \/ (protocol = "imap" /\ exchange = 2) =>
                 S!MoreLine \in Judged(exchange, "more")
<1> DEFINE end == S!LastLine  no == S!Refusal  odd == S!Malformed  go == S!MoreLine
<1>2. S!SMTPCode(exchange) \in {"250", "220"}
  BY DEF S!SMTPCode
<1>3. end \in Lines /\ no \in Lines /\ odd \in Lines /\ go \in Lines
  <2> DEFINE endCode == IF protocol = "smtp" THEN S!SMTPCode(exchange)
                        ELSE IF protocol = "imap" THEN IF exchange = 1 THEN "* OK" ELSE "a001 OK"
                        ELSE IF protocol = "pop3" THEN "+OK" ELSE "0"
             noCode == IF protocol = "smtp" THEN "454"
                       ELSE IF protocol = "imap" THEN IF exchange = 1 THEN "* BYE" ELSE "a001 NO"
                       ELSE IF protocol = "pop3" THEN "-ERR" ELSE "52"
  <2>1. /\ endCode \in Codes /\ noCode \in Codes /\ S!SMTPCode(exchange) \in Codes
        /\ "* OK" \in Codes /\ "malformed" \in Codes
    BY <1>2 DEF Codes
  <2>2. end = S!Line(endCode, TRUE) /\ no = S!Line(noCode, TRUE)
    BY Zenon DEF S!LastLine, S!Refusal
  <2>3. go = S!Line(S!SMTPCode(exchange), FALSE) \/ go = S!Line("* OK", TRUE)
    BY Zenon DEF S!MoreLine
  <2>4. odd = S!Line("malformed", TRUE)
    BY DEF S!Malformed
  <2> HIDE DEF end, no, odd, go, endCode, noCode
  <2> QED
    BY <2>1, <2>2, <2>3, <2>4, ALine, Zenon
<1>1. /\ end.code = IF protocol = "smtp" THEN S!SMTPCode(exchange)
                         ELSE IF protocol = "imap" THEN IF exchange = 1 THEN "* OK" ELSE "a001 OK"
                         ELSE IF protocol = "pop3" THEN "+OK" ELSE "0"
      /\ no.code = IF protocol = "smtp" THEN "454"
                        ELSE IF protocol = "imap" THEN IF exchange = 1 THEN "* BYE" ELSE "a001 NO"
                        ELSE IF protocol = "pop3" THEN "-ERR" ELSE "52"
      /\ odd.code = "malformed"
      /\ go.code = IF protocol = "smtp" THEN S!SMTPCode(exchange) ELSE "* OK"
  BY Zenon, LineFields DEF S!LastLine, S!Refusal, S!Malformed, S!MoreLine
<1>8. end.last = TRUE /\ (protocol = "smtp" => go.last = FALSE)
  BY Zenon, LineFields DEF S!LastLine, S!MoreLine
<1> HIDE DEF end, no, odd, go
<1>4. S!Verdict(exchange, end) = "accept"
  BY <1>1, <1>8
     DEF S!Protocol, S!Verdict, S!SMTPVerdict, S!IMAPVerdict, S!POP3Verdict, S!LDAPVerdict
<1>5. S!Verdict(exchange, no) = "reject"
  BY <1>1, <1>2
     DEF S!Protocol, S!Verdict, S!SMTPVerdict, S!IMAPVerdict, S!POP3Verdict, S!LDAPVerdict
<1>6. S!Verdict(exchange, odd) = "reject"
  BY <1>1, <1>2
     DEF S!Protocol, S!Verdict, S!SMTPVerdict, S!IMAPVerdict, S!POP3Verdict, S!LDAPVerdict
<1>7. ASSUME protocol = "smtp" \/ (protocol = "imap" /\ exchange = 2)
      PROVE  S!Verdict(exchange, go) = "more"
  <2>1. ASSUME protocol = "smtp"
        PROVE  S!Verdict(exchange, go) = "more"
    <3>1. go.code = S!SMTPCode(exchange) /\ ~go.last
      BY <1>1, <1>8, <2>1, Zenon
    <3>2. S!SMTPVerdict(exchange, go) = "more"
      BY <3>1, Zenon DEF S!SMTPVerdict
    <3> QED
      BY <2>1, <3>2, Zenon DEF S!Verdict
  <2>2. ASSUME protocol = "imap" /\ exchange = 2
        PROVE  S!Verdict(exchange, go) = "more"
    <3>1. exchange # 1 /\ protocol # "smtp"
      BY <2>2
    <3>3. go.code = "* OK"
      BY <1>1, <3>1, Zenon
    <3>2. S!IMAPVerdict(exchange, go) = "more"
      BY <3>1, <3>3 DEF S!IMAPVerdict
    <3> QED
      BY <2>2, <3>1, <3>2, Zenon DEF S!Verdict
  <2> QED
    BY <1>7, <2>1, <2>2
<1> QED
  BY <1>3, <1>4, <1>5, <1>6, <1>7 DEF Judged, end, no, odd, go

\* What the client makes of a line stays the same within an exchange.
LEMMA SteadyJudgement ==
    ASSUME protocol' = protocol
    PROVE  /\ Last' = Last
           /\ phase' = phase => More' = More /\ Accepts' = Accepts /\ Rejects' = Rejects
<1>1. Last' = Last
  BY DEF Last, S!Dialogue
<1>2. ASSUME phase' = phase
      PROVE  More' = More /\ Accepts' = Accepts /\ Rejects' = Rejects
  BY <1>2 DEF More, Accepts, Rejects, Judged, S!Verdict, S!SMTPVerdict, S!IMAPVerdict,
              S!POP3Verdict, S!LDAPVerdict, S!SMTPCode
<1> QED
  BY <1>1, <1>2

LEMMA DialogueBegins == S!Init => DialogueInv
<1> SUFFICES ASSUME S!Init
             PROVE  DialogueInv
  OBVIOUS
<1>1. Last \in Nat \ {0}
  BY Exchanges DEF S!Init
<1>2. << >> \in Seq(Lines) /\ \A M : Only(<< >>, M)
  BY EmptySeq DEF Only
<1>3. DialogueType
  BY <1>1, <1>2 DEF S!Init, DialogueType
<1>4. InTurn
  BY <1>2 DEF S!Init, InTurn, Unanswered
<1> QED
  BY <1>3, <1>4 DEF S!Init, DialogueInv, ReadBeforeSend, CommandInTurn, Opens, S!Protocol

\* The steps of the client.
LEMMA GivingUp == DialogueInv /\ S!GiveUp => DialogueInv'
<1> SUFFICES ASSUME DialogueInv, S!GiveUp
             PROVE  DialogueInv'
  OBVIOUS
<1>1. /\ dialogue' = "failed" /\ buffer' = << >>
      /\ UNCHANGED <<protocol, phase, commands, wire, spc, exchange, more>>
  BY DEF S!GiveUp, S!serverVars
<1>2. Last' = Last /\ << >> \in Seq(Lines)
  BY <1>1, SteadyJudgement, EmptySeq
<1> QED
  BY <1>1, <1>2 DEF DialogueInv, DialogueType, Opens

LEMMA Sending == DialogueInv /\ S!Send => DialogueInv'
<1> SUFFICES ASSUME DialogueInv, S!Send
             PROVE  DialogueInv'
  OBVIOUS
<1>1. /\ dialogue = "send" /\ dialogue' = "read"
      /\ UNCHANGED <<protocol, phase, buffer, wire, spc, exchange, more>>
      /\ commands' = IF Opens(phase) THEN Append(commands, S!Dialogue(protocol)[phase])
                     ELSE commands
  BY Exchanges DEF S!Send, S!serverVars, DialogueInv, DialogueType
<1>2. Last' = Last /\ More' = More /\ Accepts' = Accepts /\ Rejects' = Rejects
  BY <1>1, SteadyJudgement
<1>3. DialogueType'
  BY <1>1, <1>2 DEF DialogueInv, DialogueType
<1>4. InTurn'
  BY <1>1, <1>2 DEF DialogueInv, InTurn, Unanswered, Answered
<1>5. CommandInTurn'
  <2>1. spc # "closed" => commands = << >>
    BY <1>1 DEF DialogueInv, CommandInTurn
  <2>2. CASE Opens(phase)
    <3>1. exchange = phase /\ spc \in {"wait", "closed"}
      BY <1>1, <2>2 DEF DialogueInv, ReadBeforeSend
    <3>2. \A c : Append(<< >>, c) = <<c>>
      OBVIOUS
    <3> QED
      BY <1>1, <2>1, <2>2, <3>1, <3>2 DEF CommandInTurn
  <2>3. CASE ~Opens(phase)
    <3>1. ~(spc = "wait" /\ exchange = phase)
      BY <2>3 DEF DialogueInv
    <3> QED
      BY <1>1, <2>1, <2>3, <3>1 DEF CommandInTurn
  <2> QED
    BY <2>2, <2>3
<1> QED
  BY <1>1, <1>3, <1>4, <1>5 DEF DialogueInv, ReadBeforeSend, Opens

LEMMA Filling == DialogueInv /\ S!Fill => DialogueInv'
<1> SUFFICES ASSUME DialogueInv, S!Fill
             PROVE  DialogueInv'
  OBVIOUS
<1>1. PICK n \in 1..Len(wire) :
         buffer' = SubSeq(wire, 1, n) /\ wire' = SubSeq(wire, n + 1, Len(wire))
  BY DEF S!Fill
<1>2. /\ dialogue = "read" /\ buffer = << >> /\ wire # << >>
      /\ UNCHANGED <<protocol, dialogue, phase, commands, spc, exchange, more>>
  BY DEF S!Fill, S!serverVars
<1>3. Last' = Last /\ More' = More /\ Accepts' = Accepts /\ Rejects' = Rejects
  BY <1>2, SteadyJudgement
<1>4. wire \in Seq(Lines) /\ InTurn /\ CommandInTurn /\ (spc = "wait" => Opens(exchange))
  BY <1>2 DEF DialogueInv, DialogueType
<1>5. DialogueType'
  BY <1>1, <1>2, <1>3, <1>4, Arrival DEF DialogueInv, DialogueType
<1>6. InTurn'
  <2>1. ASSUME Unanswered
        PROVE  Unanswered'
    BY <1>1, <1>3, <1>4, <2>1, Arrival DEF Unanswered
  <2>2. ASSUME NEW F, Answered(F)
        PROVE  \/ Only(buffer', More) /\ EndsIn(wire', More, F)
               \/ EndsIn(buffer', More, F) /\ wire' = << >>
    <3>1. ~EndsIn(buffer, More, F)
      BY <1>2 DEF EndsIn
    <3>2. EndsIn(wire, More, F)
      BY <2>2, <3>1 DEF Answered
    <3> QED
      BY <1>1, <1>4, <3>2, Arrival
  <2>3. Answered(Accepts) => Answered(Accepts)'
    BY <1>3, <2>2 DEF Answered
  <2>4. Answered(Rejects) => Answered(Rejects)'
    BY <1>3, <2>2 DEF Answered
  <2> QED
    BY <1>2, <1>3, <1>4, <2>1, <2>3, <2>4 DEF InTurn
<1> QED
  BY <1>2, <1>4, <1>5, <1>6 DEF DialogueInv, ReadBeforeSend, CommandInTurn, Opens

\* The line that is read is one the client goes on after, or one it takes for the end.
LEMMA ReadingOn ==
    DialogueInv /\ S!ReadLine /\ S!Verdict(phase, Head(buffer)) = "more" => DialogueInv'
<1> SUFFICES ASSUME DialogueInv, S!ReadLine, S!Verdict(phase, Head(buffer)) = "more"
             PROVE  DialogueInv'
  OBVIOUS
<1>1. /\ dialogue = "read" /\ buffer # << >> /\ buffer' = Tail(buffer)
      /\ UNCHANGED <<protocol, dialogue, phase, commands, wire, spc, exchange, more>>
  BY DEF S!ReadLine, S!serverVars
<1>2. Last' = Last /\ More' = More /\ Accepts' = Accepts /\ Rejects' = Rejects
  BY <1>1, SteadyJudgement
<1>3. /\ buffer \in Seq(Lines) /\ Head(buffer) \in Lines /\ Tail(buffer) \in Seq(Lines)
      /\ InTurn /\ CommandInTurn /\ (spc = "wait" => Opens(exchange))
  BY <1>1, HeadTailProperties DEF DialogueInv, DialogueType
<1>4. Head(buffer) \notin Accepts /\ Head(buffer) \notin Rejects
  BY DEF Accepts, Rejects, Judged
<1>5. DialogueType'
  BY <1>1, <1>2, <1>3 DEF DialogueInv, DialogueType
<1>6. Only(buffer, More) => Only(buffer', More)
  BY <1>1, <1>3, ReadOnly
<1>7. ASSUME NEW F, Head(buffer) \notin F, EndsIn(buffer, More, F)
      PROVE  EndsIn(buffer', More, F)
  BY <1>1, <1>3, <1>7, ReadEnd
<1>8. InTurn'
  BY <1>1, <1>2, <1>3, <1>4, <1>6, <1>7 DEF InTurn, Unanswered, Answered
<1> QED
  BY <1>1, <1>3, <1>5, <1>8 DEF DialogueInv, ReadBeforeSend, CommandInTurn, Opens

LEMMA ReadingEnd ==
    DialogueInv /\ S!ReadLine /\ S!Verdict(phase, Head(buffer)) = "accept" => DialogueInv'
<1> SUFFICES ASSUME DialogueInv, S!ReadLine, S!Verdict(phase, Head(buffer)) = "accept"
             PROVE  DialogueInv'
  OBVIOUS
<1>1. /\ dialogue = "read" /\ buffer # << >> /\ buffer' = Tail(buffer)
      /\ UNCHANGED <<protocol, commands, wire, spc, exchange, more>>
      /\ IF phase = Last THEN dialogue' = "ready" /\ UNCHANGED phase
                         ELSE dialogue' = "send" /\ phase' = phase + 1
  BY DEF S!ReadLine, S!serverVars, Last
<1>2. Last' = Last /\ Last \in Nat \ {0} /\ phase \in 1..Last /\ exchange \in 1..Last
  BY <1>1, SteadyJudgement, Exchanges DEF DialogueInv, DialogueType
<1>3. /\ buffer \in Seq(Lines) /\ Head(buffer) \in Lines /\ Tail(buffer) \in Seq(Lines)
      /\ InTurn /\ CommandInTurn /\ (spc = "wait" => Opens(exchange))
  BY <1>1, HeadTailProperties DEF DialogueInv, DialogueType
<1>4. Head(buffer) \notin More /\ Head(buffer) \notin Rejects
  BY DEF More, Rejects, Judged
<1>5. ~Only(buffer, More)
  BY <1>1, <1>3, <1>4, ReadOnly
<1>6. EndsIn(buffer, More, Accepts) /\ wire = << >> /\ ~Answered(Rejects)
  BY <1>3, <1>4, <1>5, ReadEnd DEF InTurn, Unanswered, Answered
<1>7. buffer' = << >> /\ wire' = << >>
  BY <1>1, <1>3, <1>4, <1>6, ReadEnd
<1>8. \/ exchange = phase + 1 /\ spc \in {"wait", "closed"}
      \/ phase = Last /\ spc = "tls"
  BY <1>3, <1>5, <1>6 DEF InTurn, Unanswered
<1>9. DialogueType'
  BY <1>1, <1>2, <1>3 DEF DialogueInv, DialogueType
<1>10. CASE phase = Last
  <2>1. spc = "tls" /\ commands = << >>
    BY <1>2, <1>3, <1>8, <1>10 DEF CommandInTurn
  <2>2. dialogue' = "ready" /\ S!InStep'
    BY <1>1, <1>7, <1>10, <2>1 DEF S!InStep
  <2> QED
    BY <1>1, <1>9, <2>1, <2>2 DEF DialogueInv
<1>11. CASE phase # Last
  <2>1. /\ dialogue' = "send" /\ exchange' = phase' /\ spc' \in {"wait", "closed"}
        /\ spc # "closed" => commands' = << >>
    BY <1>1, <1>2, <1>3, <1>8, <1>11 DEF CommandInTurn
  <2>2. Unanswered'
    BY <1>7 DEF Unanswered, Only
  <2>3. InTurn' /\ ReadBeforeSend' /\ CommandInTurn'
    BY <1>1, <1>7, <2>1, <2>2 DEF InTurn, ReadBeforeSend, CommandInTurn
  <2> QED
    BY <1>1, <1>3, <1>9, <2>1, <2>3 DEF DialogueInv, Opens
<1> QED
  BY <1>10, <1>11

\* The steps of the server, which leave the client's state alone.
LEMMA Receiving == DialogueInv /\ S!ServerReceives => DialogueInv'
<1> SUFFICES ASSUME DialogueInv, S!ServerReceives
             PROVE  DialogueInv'
  OBVIOUS
<1>1. /\ spc = "wait" /\ spc' = "reply" /\ commands # << >> /\ commands' = Tail(commands)
      /\ UNCHANGED <<protocol, dialogue, phase, buffer, wire, exchange>>
  BY DEF S!ServerReceives, S!clientVars
<1>2. Last' = Last /\ More' = More /\ Accepts' = Accepts /\ Rejects' = Rejects
  BY <1>1, SteadyJudgement
<1>3. dialogue # "ready"
  BY <1>1 DEF DialogueInv, S!InStep
<1>4. ASSUME dialogue \in {"send", "read"}
      PROVE  dialogue = "read" /\ exchange = phase /\ commands' = << >> /\ InTurn
  <2>1. dialogue = "read" /\ exchange = phase /\ \E c : commands = <<c>>
    BY <1>1, <1>4 DEF DialogueInv, CommandInTurn
  <2>2. \A c : Tail(<<c>>) = << >>
    OBVIOUS
  <2> QED
    BY <1>1, <1>4, <2>1, <2>2 DEF DialogueInv
<1>5. dialogue \in {"send", "read"} => InTurn'
  <2>1. phase # phase + 1
    BY DEF DialogueInv, DialogueType
  <2> QED
    BY <1>1, <1>2, <1>4, <2>1 DEF InTurn, Unanswered, Answered
<1> QED
  BY <1>1, <1>2, <1>3, <1>4, <1>5
     DEF DialogueInv, DialogueType, ReadBeforeSend, CommandInTurn

\* A server that replies has read the client's command, and the client reads.
LEMMA Replying ==
    ASSUME DialogueInv, spc = "reply", dialogue \in {"send", "read"}
    PROVE  /\ Unanswered /\ exchange = phase /\ commands = << >>
           /\ dialogue = "send" => ~Opens(phase)
  BY DEF DialogueInv, InTurn, CommandInTurn, ReadBeforeSend

LEMMA Continuing == DialogueInv /\ S!ServerContinues => DialogueInv'
<1> SUFFICES ASSUME DialogueInv, S!ServerContinues
             PROVE  DialogueInv'
  OBVIOUS
<1>1. /\ spc = "reply" /\ wire' = Append(wire, S!MoreLine)
      /\ protocol = "smtp" \/ (protocol = "imap" /\ exchange = 2)
      /\ UNCHANGED <<protocol, dialogue, phase, buffer, commands, spc, exchange>>
  BY DEF S!ServerContinues, S!Says, S!clientVars
<1>2. Last' = Last /\ More' = More /\ Accepts' = Accepts /\ Rejects' = Rejects
  BY <1>1, SteadyJudgement
<1>3. wire \in Seq(Lines) /\ S!MoreLine \in Judged(exchange, "more")
  BY <1>1, LinesAreTaken DEF DialogueInv, DialogueType
<1>4. S!MoreLine \in Lines
  BY <1>3 DEF Judged
<1>5. DialogueType'
  BY <1>1, <1>2, <1>3, <1>4, AppendLine DEF DialogueInv, DialogueType, Only
<1>6. dialogue \in {"send", "read"} => InTurn'
  <2> SUFFICES ASSUME dialogue \in {"send", "read"}
               PROVE  InTurn'
    OBVIOUS
  <2>1. Unanswered /\ exchange = phase
    BY <1>1, Replying
  <2>2. Only(wire', More)
    BY <1>1, <1>3, <1>4, <2>1, AppendLine DEF Unanswered, More
  <2> QED
    BY <1>1, <1>2, <2>1, <2>2 DEF InTurn, Unanswered
<1> QED
  BY <1>1, <1>5, <1>6, Replying
     DEF DialogueInv, ReadBeforeSend, CommandInTurn, Opens, S!InStep

LEMMA EndingReply == DialogueInv /\ S!ServerReplies => DialogueInv'
<1> SUFFICES ASSUME DialogueInv, S!ServerReplies
             PROVE  DialogueInv'
  OBVIOUS
<1>1. /\ spc = "reply" /\ wire' = Append(wire, S!LastLine)
      /\ IF exchange = Last THEN spc' = "tls" /\ UNCHANGED exchange
                            ELSE spc' = "wait" /\ exchange' = exchange + 1
      /\ UNCHANGED <<protocol, dialogue, phase, buffer, commands>>
  BY DEF S!ServerReplies, S!Says, S!clientVars, Last
<1>2. Last' = Last /\ More' = More /\ Accepts' = Accepts /\ Rejects' = Rejects
  BY <1>1, SteadyJudgement
<1>3. /\ wire \in Seq(Lines) /\ S!LastLine \in Judged(exchange, "accept")
      /\ Last \in Nat \ {0} /\ exchange \in 1..Last
  BY <1>1, LinesAreTaken, Exchanges DEF DialogueInv, DialogueType
<1>4. S!LastLine \in Lines
  BY <1>3 DEF Judged
<1>5. wire' \in Seq(Lines)
  BY <1>1, <1>3, <1>4, AppendLine DEF Only
<1>6. DialogueType'
  BY <1>1, <1>2, <1>3, <1>5 DEF DialogueInv, DialogueType
<1>7. ASSUME dialogue \in {"send", "read"}
      PROVE  InTurn' /\ ReadBeforeSend' /\ CommandInTurn'
  <2>1. /\ Unanswered /\ exchange = phase /\ commands = << >>
        /\ dialogue = "send" => ~Opens(phase)
    BY <1>1, <1>7, Replying
  <2>2. EndsIn(wire', More, Accepts)
    BY <1>1, <1>3, <1>4, <2>1, AppendLine DEF Unanswered, Accepts
  <2>3. Answered(Accepts)'
    BY <1>1, <1>2, <2>1, <2>2 DEF Unanswered, Answered
  <2>4. InTurn'
    BY <1>1, <1>2, <2>1, <2>3 DEF InTurn
  <2>5. exchange' # phase' \/ spc' # "wait"
    BY <1>1, <1>3, <2>1
  <2> QED
    BY <1>1, <2>1, <2>4, <2>5 DEF ReadBeforeSend, CommandInTurn, Opens
<1>8. spc' = "wait" => Opens(exchange)'
  BY <1>1, <1>3 DEF Opens
<1> QED
  BY <1>1, <1>6, <1>7, <1>8 DEF DialogueInv, S!InStep

LEMMA Refusing == DialogueInv /\ S!ServerRefuses => DialogueInv'
<1> SUFFICES ASSUME DialogueInv, S!ServerRefuses
             PROVE  DialogueInv'
  OBVIOUS
<1>1. PICK line \in {S!Refusal, S!Malformed} : wire' = Append(wire, line)
  BY DEF S!ServerRefuses, S!Says
<1>2. /\ spc = "reply" /\ spc' = "refused"
      /\ UNCHANGED <<protocol, dialogue, phase, buffer, commands, exchange>>
  BY DEF S!ServerRefuses, S!clientVars
<1>3. Last' = Last /\ More' = More /\ Accepts' = Accepts /\ Rejects' = Rejects
  BY <1>2, SteadyJudgement
<1>4. wire \in Seq(Lines) /\ line \in Judged(exchange, "reject")
  BY LinesAreTaken DEF DialogueInv, DialogueType
<1>5. line \in Lines
  BY <1>4 DEF Judged
<1>6. wire' \in Seq(Lines)
  BY <1>1, <1>4, <1>5, AppendLine DEF Only
<1>7. DialogueType'
  BY <1>2, <1>3, <1>6 DEF DialogueInv, DialogueType
<1>8. ASSUME dialogue \in {"send", "read"}
      PROVE  InTurn' /\ ReadBeforeSend' /\ CommandInTurn'
  <2>1. /\ Unanswered /\ exchange = phase /\ commands = << >>
        /\ dialogue = "send" => ~Opens(phase)
    BY <1>2, <1>8, Replying
  <2>2. EndsIn(wire', More, Rejects)
    BY <1>1, <1>4, <1>5, <2>1, AppendLine DEF Unanswered, Rejects
  <2>3. Answered(Rejects)'
    BY <1>2, <1>3, <2>1, <2>2 DEF Unanswered, Answered
  <2> QED
    BY <1>2, <2>1, <2>3 DEF InTurn, ReadBeforeSend, CommandInTurn, Opens
<1> QED
  BY <1>2, <1>7, <1>8 DEF DialogueInv, S!InStep

LEMMA HangingUp == DialogueInv /\ S!ServerHangsUp => DialogueInv'
<1> SUFFICES ASSUME DialogueInv, S!ServerHangsUp
             PROVE  DialogueInv'
  OBVIOUS
<1>1. /\ spc \in {"wait", "reply"} /\ spc' = "closed"
      /\ UNCHANGED <<protocol, dialogue, phase, buffer, commands, wire, exchange>>
  BY DEF S!ServerHangsUp, S!clientVars
<1>2. Last' = Last /\ More' = More /\ Accepts' = Accepts /\ Rejects' = Rejects
  BY <1>1, SteadyJudgement
<1>3. InTurn => InTurn'
  BY <1>1, <1>2 DEF InTurn, Unanswered, Answered
<1> QED
  BY <1>1, <1>2, <1>3
     DEF DialogueInv, DialogueType, ReadBeforeSend, CommandInTurn, Opens, S!InStep

\* A dialogue keeps its shape.
LEMMA DialogueStep == DialogueInv /\ [S!Next]_(S!vars) => DialogueInv'
<1> SUFFICES ASSUME DialogueInv, [S!Next]_(S!vars)
             PROVE  DialogueInv'
  OBVIOUS
<1>1. CASE UNCHANGED S!vars
  <2>1. UNCHANGED <<protocol, dialogue, phase, commands, buffer, wire, spc, exchange, more>>
    BY <1>1 DEF S!vars
  <2>2. Last' = Last /\ More' = More /\ Accepts' = Accepts /\ Rejects' = Rejects
    BY <2>1, SteadyJudgement
  <2> QED
    BY <2>1, <2>2 DEF DialogueInv, DialogueType, InTurn, Unanswered, Answered,
                      ReadBeforeSend, CommandInTurn, Opens, S!InStep
<1>2. CASE S!ReadLine
  <2>1. CASE S!Verdict(phase, Head(buffer)) = "more"
    BY <1>2, <2>1, ReadingOn
  <2>2. CASE S!Verdict(phase, Head(buffer)) = "accept"
    BY <1>2, <2>2, ReadingEnd
  <2>3. S!Verdict(phase, Head(buffer)) \in {"more", "accept"} \/ S!GiveUp
    BY <1>2 DEF S!ReadLine
  <2> QED
    BY <2>1, <2>2, <2>3, GivingUp
<1>3. S!SendFails \/ S!ReadFails \/ S!TimesOut => S!GiveUp
  BY DEF S!SendFails, S!ReadFails, S!TimesOut
<1> QED
  BY <1>1, <1>2, <1>3, GivingUp, Sending, Filling, Receiving, Continuing, EndingReply,
     Refusing, HangingUp DEF S!Next, S!Client, S!Server

-----------------------------------------------------------------------------
\* A handshake begins after the dialogue that was asked for.
ReadyBeforeTLS ==
    flags.startTLS /\ pc \in {"handshake", "tls_clear", "use"} => dialogue = "ready"

ConnInv == DialogueInv /\ ReadyBeforeTLS

LEMMA ReadyBeforeTLSBegins == ConnInit => ReadyBeforeTLS
  BY DEF ConnInit, Init, ReadyBeforeTLS

LEMMA ReadyBeforeTLSStep == ReadyBeforeTLS /\ [ConnNext]_connVars => ReadyBeforeTLS'
<1> SUFFICES ASSUME ReadyBeforeTLS, [ConnNext]_connVars
             PROVE  ReadyBeforeTLS'
  OBVIOUS
<1>1. CASE ClientTalks \/ DialogueCut
  BY <1>1 DEF ClientTalks, DialogueCut, ReadyBeforeTLS, vars
<1>2. CASE ServerTalks
  <2>1. dialogue' = dialogue
    BY <1>2 DEF ServerTalks, S!Server, S!ServerReceives, S!ServerContinues, S!ServerReplies,
                S!ServerRefuses, S!ServerHangsUp, S!clientVars
  <2> QED
    BY <1>2, <2>1 DEF ServerTalks, ReadyBeforeTLS, vars
<1>3. CASE DialogueReady
  BY <1>3 DEF DialogueReady, dialogueVars, ReadyBeforeTLS
<1>4. CASE DialogueFailed
  BY <1>4 DEF DialogueFailed, IOFails, Fail, ReadyBeforeTLS
<1>5. CASE Elsewhere
  BY <1>5 DEF Elsewhere, dialogueVars, ReadyBeforeTLS, DialSucceeds, DialFails, ProxySetup,
              TLSSetup, Setup, SetupFails, PeerAnswers, IOFails, Fail, ProxyClear, TLSClear,
              ClearFails, UseAndClose
<1>6. CASE Around
  BY <1>6 DEF Around, dialogueVars, ReadyBeforeTLS, ContextDone, Tick, Over, vars,
              CallbackCloses
<1>7. CASE UNCHANGED connVars
  BY <1>7 DEF connVars, vars, dialogueVars, ReadyBeforeTLS
<1> QED
  BY <1>1, <1>2, <1>3, <1>4, <1>5, <1>6, <1>7 DEF ConnNext

LEMMA ConnInvariance == ConnSpec => []ConnInv
<1>1. ConnSpec => []DialogueInv
  <2>1. S!Spec => []DialogueInv
    BY DialogueBegins, DialogueStep, PTL DEF S!Spec
  <2> QED
    BY <2>1, ImplementsStartTLS, PTL
<1>2. ConnSpec => []ReadyBeforeTLS
  BY ReadyBeforeTLSBegins, ReadyBeforeTLSStep, PTL DEF ConnSpec
<1>3. DialogueInv /\ ReadyBeforeTLS => ConnInv
  BY DEF ConnInv
<1> QED
  BY <1>1, <1>2, <1>3, PTL

\* "After a successful return the connection is ready for a TLS handshake"
\* (starttls.go:45), for replies of any number of lines: the server expects TLS, and
\* nothing in plaintext is left on the way or was read ahead.
THEOREM HandshakesAreInStep == ConnSpec => []HandshakeInStep
<1>1. ConnInv => HandshakeInStep
  BY DEF ConnInv, ReadyBeforeTLS, DialogueInv, HandshakeInStep
<1> QED
  BY <1>1, ConnInvariance, PTL

\* negotiateStartTLS neither waits for a server that waits for it, nor refuses a
\* line of a server that goes along (starttls.go:62-190), however many lines a reply
\* has and however they arrive.
THEOREM DialoguesGoOn == ConnSpec => []DialogueGoesOn
<1>1. ASSUME DialogueInv
      PROVE  DialogueGoesOn
  <2>1. ~S!BothWait
    <3> SUFFICES ASSUME S!BothWait
                 PROVE  FALSE
      OBVIOUS
    <3>1. /\ dialogue = "read" /\ buffer = << >> /\ wire = << >>
          /\ spc \in {"wait", "tls"} /\ commands = << >>
      BY DEF S!BothWait
    <3>2. ~Answered(Accepts)
      BY <3>1 DEF Answered, EndsIn
    <3>3. InTurn /\ CommandInTurn
      BY <1>1, <3>1 DEF DialogueInv
    <3>4. spc = "wait" /\ exchange = phase
      BY <3>1, <3>2, <3>3 DEF InTurn
    <3>5. PICK c : commands = <<c>>
      BY <3>1, <3>3, <3>4 DEF CommandInTurn
    <3> QED
      BY <3>1, <3>5
  <2>2. ~S!Misjudges
    <3> SUFFICES ASSUME S!Misjudges
                 PROVE  FALSE
      OBVIOUS
    <3>1. /\ dialogue = "read" /\ buffer # << >> /\ spc # "refused"
          /\ S!Verdict(phase, Head(buffer)) = "reject"
      BY DEF S!Misjudges
    <3>2. Head(buffer) \notin More /\ Head(buffer) \notin Accepts
      BY <3>1 DEF More, Accepts, Judged
    <3>3. InTurn /\ buffer \in Seq(Lines)
      BY <1>1, <3>1 DEF DialogueInv, DialogueType
    <3>4. ~Only(buffer, More) /\ ~EndsIn(buffer, More, Accepts)
      BY <3>1, <3>2, <3>3, ReadOnly, ReadEnd
    <3> QED
      BY <3>1, <3>3, <3>4 DEF InTurn, Unanswered, Answered
  <2> QED
    BY <2>1, <2>2 DEF DialogueGoesOn
<1>2. ConnInv => DialogueGoesOn
  BY <1>1 DEF ConnInv
<1> QED
  BY <1>2, ConnInvariance, PTL
=============================================================================
