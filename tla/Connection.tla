------------------------------ MODULE Connection ------------------------------
(***************************************************************************)
(* A connection with the plaintext dialogue inside it: dialTLS             *)
(* (internal/tlsquery/dial.go) calls negotiateStartTLS (starttls.go)       *)
(* between setting the deadline of the phase and the TLS handshake.  What  *)
(* Dial leaves to the peer in its "starttls" phase is here the dialogue of *)
(* StartTLS, step by step, under Dial's clock, deadline and callbacks.     *)
(***************************************************************************)
EXTENDS Dial, Sequences

CONSTANT MaxMore  \* continuation or untagged lines per reply (a bound of the model)

ASSUME ConnectionAssumption == MaxMore \in Nat

VARIABLES protocol, dialogue, phase, commands, buffer, wire, spc, exchange, more

S == INSTANCE StartTLS WITH pc <- dialogue

dialogueVars == <<protocol, dialogue, phase, commands, buffer, wire, spc, exchange, more>>
connVars == <<vars, dialogueVars>>

ConnInit ==
    /\ Init
    /\ S!Init
    /\ ~flags.startTLS => protocol = "ldap"  \* of no consequence

\* Where the target's server is connected and the handshake has not begun.
Plaintext == flags.startTLS /\ pc \in {"tls_setup", "starttls"}

\* negotiateStartTLS at work; what it reads and writes goes through the socket.
ClientTalks ==
    /\ pc = "starttls"
    /\ (sock = "open" /\ S!Client) \/ S!ReadLine
    /\ UNCHANGED vars

\* The server may greet before the client listens.
ServerTalks ==
    /\ Plaintext
    /\ S!Server
    /\ UNCHANGED vars

\* Mutant: only a callback ends a read or a write.
DialogueCutByCallback ==
    /\ pc = "starttls"
    /\ sock = "closed"
    /\ S!TimesOut
    /\ UNCHANGED vars

\* A read or a write fails: the deadline of the phase has come, or a callback has
\* closed the socket.
DialogueCut ==
    /\ pc = "starttls"
    /\ sock = "closed" \/ (ioDeadline # NoDeadline /\ clock >= ioDeadline)
    /\ S!TimesOut
    /\ UNCHANGED vars

\* negotiateStartTLS returns nil, and the handshake begins.
DialogueReady ==
    /\ pc = "starttls" /\ dialogue = "ready"
    /\ PeerAnswers
    /\ UNCHANGED dialogueVars

\* It returns an error, or the socket it would hand to the handshake is closed.
DialogueFailed ==
    /\ pc = "starttls"
    /\ dialogue = "failed" \/ (dialogue = "ready" /\ sock = "closed")
    /\ IOFails
    /\ UNCHANGED dialogueVars

\* The other phases, which the dialogue has no part in.
Elsewhere ==
    /\ \/ DialSucceeds \/ DialFails \/ ProxySetup \/ TLSSetup \/ SetupFails
       \/ (pc # "starttls" /\ (PeerAnswers \/ IOFails))
       \/ ProxyClear \/ TLSClear \/ ClearFails \/ UseAndClose
    /\ UNCHANGED dialogueVars

Around ==
    /\ ContextDone \/ Tick \/ Over \/ \E c \in Callback : CallbackCloses(c)
    /\ UNCHANGED dialogueVars

ConnNext ==
    \/ ClientTalks \/ ServerTalks \/ DialogueCut \/ DialogueReady \/ DialogueFailed
    \/ Elsewhere \/ Around

ConnSpec == ConnInit /\ [][ConnNext]_connVars

\* The peers owe nothing, and the server need not say a word.  The goroutine
\* runs, its timers and the callbacks come, and of the I/O what fails on its own
\* is only what cannot go on.
ConnFairSpec ==
    /\ ConnSpec
    /\ WF_connVars(Tick /\ UNCHANGED dialogueVars)
    /\ WF_connVars((ProxySetup \/ TLSSetup \/ SetupFails) /\ UNCHANGED dialogueVars)
    /\ WF_connVars((ProxyClear \/ TLSClear \/ ClearFails \/ UseAndClose) /\ UNCHANGED dialogueVars)
    /\ WF_connVars(pc # "starttls" /\ Stuck /\ (DialFails \/ IOFails) /\ UNCHANGED dialogueVars)
    /\ \A c \in Callback : WF_connVars(CallbackCloses(c) /\ UNCHANGED dialogueVars)
    /\ WF_connVars(ClientTalks)
    /\ WF_connVars(DialogueCut)
    /\ WF_connVars(DialogueReady \/ DialogueFailed)

-----------------------------------------------------------------------------
\* "After a successful return the connection is ready for a TLS handshake"
\* (starttls.go:45): from the handshake on, the server has agreed and expects TLS
\* next, and no line of the plaintext dialogue is left on the connection or lost
\* with the reader.
HandshakeInStep ==
    flags.startTLS /\ pc \in {"handshake", "tls_clear", "use"} => S!InStep

\* The dialogue goes on as long as the server goes along, in however many lines
\* and however they arrive: the client never waits for a reply while the server
\* waits for a command, and never takes a line of such a server for a refusal.
DialogueGoesOn == ~S!BothWait /\ ~S!Misjudges
=============================================================================
