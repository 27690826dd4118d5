------------------------------ MODULE StartTLS ------------------------------
(***************************************************************************)
(* The plaintext dialogue before the TLS handshake: negotiateStartTLS      *)
(* (internal/tlsquery/starttls.go) with SMTP, IMAP, POP3 and LDAP, and the *)
(* server at the other end of the connection.                              *)
(*                                                                         *)
(* The client reads through a bufio.Reader of its own, which takes as much *)
(* from the connection as has arrived and is thrown away on return.  The   *)
(* server follows its protocol, but it may answer in several lines, refuse,*)
(* send something malformed, hang up or fall silent.                       *)
(***************************************************************************)
EXTENDS Naturals, Sequences

CONSTANT MaxMore  \* continuation or untagged lines per reply (a bound of the model)

VARIABLES
    protocol,  \* --starttls
    pc,        \* where the client is
    phase,     \* the exchange the client is in
    commands,  \* sent by the client and not yet read by the server
    buffer,    \* the lines in the client's bufio.Reader
    wire,      \* sent by the server and not yet in the buffer
    spc,       \* where the server is
    exchange,  \* the exchange the server is in
    more       \* the lines of its reply so far

clientVars == <<protocol, pc, phase, buffer>>
serverVars == <<spc, exchange, more>>
vars == <<protocol, pc, phase, commands, buffer, wire, spc, exchange, more>>

-----------------------------------------------------------------------------
Protocol == {"smtp", "imap", "pop3", "ldap"}

\* Mutant: a greeting is expected of an LDAP server too.
DialogueGreets(p) ==
    IF p = "smtp" THEN <<"", "EHLO tlsctl", "STARTTLS">>
    ELSE IF p = "imap" THEN <<"", "a001 STARTTLS">>
    ELSE IF p = "pop3" THEN <<"", "STLS">>
    ELSE <<"", "ExtendedRequest">>

\* The command that opens each exchange; "" where the server speaks first.
Dialogue(p) ==
    IF p = "smtp" THEN <<"", "EHLO tlsctl", "STARTTLS">>
    ELSE IF p = "imap" THEN <<"", "a001 STARTTLS">>
    ELSE IF p = "pop3" THEN <<"", "STLS">>
    ELSE <<"ExtendedRequest">>

\* A reply line: the code of an SMTP reply and whether it is the last one, the
\* tag and the status of an IMAP response, the POP3 indicator, the LDAP result.
Line(code, last) == [code |-> code, last |-> last]

SMTPCode(i) == IF i = 2 THEN "250" ELSE "220"

\* Mutant: the first line of a reply ends it.
SMTPVerdictFirstLine(i, line) ==
    IF line.code # SMTPCode(i) THEN "reject" ELSE "accept"

\* What the client makes of a line in exchange i: "accept" ends the exchange,
\* "more" reads the next line, "reject" ends the dialogue.  Lines that are too
\* long or malformed are rejected.
SMTPVerdict(i, line) ==
    IF line.code # SMTPCode(i) THEN "reject"
    ELSE IF line.last THEN "accept" ELSE "more"

IMAPVerdict(i, line) ==
    IF i = 1 THEN IF line.code = "* OK" THEN "accept" ELSE "reject"
    ELSE IF line.code \in {"* OK", "* BYE"} THEN "more"
    ELSE IF line.code = "a001 OK" THEN "accept" ELSE "reject"

POP3Verdict(line) == IF line.code = "+OK" THEN "accept" ELSE "reject"
LDAPVerdict(line) == IF line.code = "0" THEN "accept" ELSE "reject"

Verdict(i, line) ==
    IF protocol = "smtp" THEN SMTPVerdict(i, line)
    ELSE IF protocol = "imap" THEN IMAPVerdict(i, line)
    ELSE IF protocol = "pop3" THEN POP3Verdict(line)
    ELSE LDAPVerdict(line)

Init ==
    /\ protocol \in Protocol
    /\ pc = "send"
    /\ phase = 1
    /\ commands = << >>
    /\ buffer = << >>
    /\ wire = << >>
    /\ spc = IF protocol = "ldap" THEN "wait" ELSE "reply"
    /\ exchange = 1
    /\ more = 0

-----------------------------------------------------------------------------
(* The client.                                                             *)

Send ==
    /\ pc = "send"
    /\ commands' = IF Dialogue(protocol)[phase] = "" THEN commands
                   ELSE Append(commands, Dialogue(protocol)[phase])
    /\ pc' = "read"
    /\ UNCHANGED <<protocol, phase, buffer, wire, serverVars>>

GiveUp ==
    /\ pc' = "failed"
    /\ buffer' = << >>
    /\ UNCHANGED <<protocol, phase, commands, wire, serverVars>>

\* A write to a connection the server has closed.
SendFails == pc = "send" /\ spc = "closed" /\ GiveUp

\* The reader's buffer is empty and it takes what has arrived: all or a part of
\* what the server has sent, whatever the line breaks.  (LDAP has no buffer; its
\* server sends a single reply, so that there is nothing to read ahead.)
Fill ==
    /\ pc = "read" /\ buffer = << >> /\ wire # << >>
    /\ \E n \in 1..Len(wire) :
          /\ buffer' = SubSeq(wire, 1, n)
          /\ wire' = SubSeq(wire, n + 1, Len(wire))
    /\ UNCHANGED <<protocol, pc, phase, commands, serverVars>>

\* The next line is judged.  The last exchange ends the dialogue, and with it
\* the reader and what is left in it.
ReadLine ==
    /\ pc = "read" /\ buffer # << >>
    /\ LET verdict == Verdict(phase, Head(buffer))
       IN  \/ /\ verdict = "more"
              /\ buffer' = Tail(buffer)
              /\ UNCHANGED <<protocol, pc, phase, commands, wire, serverVars>>
           \/ /\ verdict = "accept"
              /\ buffer' = Tail(buffer)
              /\ IF phase = Len(Dialogue(protocol))
                 THEN pc' = "ready" /\ UNCHANGED phase
                 ELSE pc' = "send" /\ phase' = phase + 1
              /\ UNCHANGED <<protocol, commands, wire, serverVars>>
           \/ verdict = "reject" /\ GiveUp

ReadFails ==
    /\ pc = "read" /\ buffer = << >> /\ wire = << >> /\ spc = "closed"
    /\ GiveUp

\* The deadline set by dialTLS, or the context.
TimesOut == pc \in {"send", "read"} /\ GiveUp

-----------------------------------------------------------------------------
(* The server (external).                                                  *)

\* The lines of a positive reply in the server's exchange: one that leaves more
\* to come, and the last.
MoreLine ==
    IF protocol = "smtp" THEN Line(SMTPCode(exchange), FALSE) ELSE Line("* OK", TRUE)
LastLine ==
    Line(IF protocol = "smtp" THEN SMTPCode(exchange)
         ELSE IF protocol = "imap" THEN IF exchange = 1 THEN "* OK" ELSE "a001 OK"
         ELSE IF protocol = "pop3" THEN "+OK" ELSE "0", TRUE)
Refusal ==
    Line(IF protocol = "smtp" THEN "454"
         ELSE IF protocol = "imap" THEN IF exchange = 1 THEN "* BYE" ELSE "a001 NO"
         ELSE IF protocol = "pop3" THEN "-ERR" ELSE "52", TRUE)
Malformed == Line("malformed", TRUE)

Says(line) == wire' = Append(wire, line)

ServerReceives ==
    /\ spc = "wait" /\ commands # << >>
    /\ commands' = Tail(commands)
    /\ spc' = "reply"
    /\ UNCHANGED <<clientVars, wire, exchange, more>>

\* SMTP replies have continuation lines, IMAP responses untagged ones before.
ServerContinues ==
    /\ spc = "reply" /\ more < MaxMore
    /\ protocol = "smtp" \/ (protocol = "imap" /\ exchange = 2)
    /\ Says(MoreLine)
    /\ more' = more + 1
    /\ UNCHANGED <<clientVars, commands, spc, exchange>>

\* The end of a reply; after the go-ahead the server says nothing in plaintext.
ServerReplies ==
    /\ spc = "reply"
    /\ Says(LastLine)
    /\ more' = 0
    /\ IF exchange = Len(Dialogue(protocol))
       THEN spc' = "tls" /\ UNCHANGED exchange
       ELSE spc' = "wait" /\ exchange' = exchange + 1
    /\ UNCHANGED <<clientVars, commands>>

ServerRefuses ==
    /\ spc = "reply"
    /\ Says(Refusal) \/ Says(Malformed)
    /\ spc' = "refused"
    /\ UNCHANGED <<clientVars, commands, exchange, more>>

ServerHangsUp ==
    /\ spc \in {"wait", "reply"}
    /\ spc' = "closed"
    /\ UNCHANGED <<clientVars, commands, wire, exchange, more>>

Client == Send \/ SendFails \/ Fill \/ ReadLine \/ ReadFails
Server == ServerReceives \/ ServerContinues \/ ServerReplies \/ ServerRefuses \/ ServerHangsUp

Next == Client \/ TimesOut \/ Server

Spec == Init /\ [][Next]_vars

-----------------------------------------------------------------------------
\* Client and server agree on where they are: the server expects TLS next, and no
\* line of the plaintext dialogue is left on the connection or lost with the reader.
InStep == spc = "tls" /\ commands = << >> /\ wire = << >> /\ buffer = << >>

\* Each waits for the other: the client for a reply that the server, which waits
\* for a command or for TLS, will not send.
BothWait ==
    /\ pc = "read" /\ buffer = << >> /\ wire = << >>
    /\ spc \in {"wait", "tls"} /\ commands = << >>

\* The client is about to give up on a server that goes along.
Misjudges ==
    /\ pc = "read" /\ buffer # << >> /\ spc # "refused"
    /\ Verdict(phase, Head(buffer)) = "reject"
=============================================================================
