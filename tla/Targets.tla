------------------------------- MODULE Targets ------------------------------
(***************************************************************************)
(* The list of targets: collectTargets and readTargetsFromFile             *)
(* (cmd/client.go) and NormalizeEndpoint (internal/cli/endpoint.go), which *)
(* turns what a user writes into the host:port that every later step       *)
(* splits again.  A text is a sequence of characters, taken from as few as *)
(* the code tells apart; the functions of net and netip are external.      *)
(***************************************************************************)
EXTENDS Integers, Sequences, SequencesExt

CONSTANTS
    Chars,   \* the characters considered
    Files,   \* what --file may be: sequences of lines, None or Broken
    None,    \* no --file
    Broken,  \* a file that cannot be opened or read to its end
    Args,    \* the lists of arguments considered
    Protos   \* the values of --starttls considered

Text == Seq(Chars)
Blank == " "   \* stands for all white space

VARIABLES
    file, args, proto,
    line,         \* how many lines of the file have been read
    targets,      \* the inputs of the file, then the arguments
    at,           \* how many of them have been looked at
    normalized,   \* what collectTargets returns
    outcome       \* "reading", "normalizing", then "ok" or "error"

vars == <<file, args, proto, line, targets, at, normalized, outcome>>

-----------------------------------------------------------------------------
(* Texts.                                                                  *)
Digit == [d \in {"0", "1", "2", "3", "4", "5", "6", "7", "8", "9"} |->
            CASE d = "0" -> 0 [] d = "1" -> 1 [] d = "2" -> 2 [] d = "3" -> 3 [] d = "4" -> 4
              [] d = "5" -> 5 [] d = "6" -> 6 [] d = "7" -> 7 [] d = "8" -> 8 [] d = "9" -> 9]
ASSUME TargetsAssumption ==
    /\ {":", "[", "]", "+", "-"} \cup DOMAIN Digit \subseteq Chars
    /\ \A f \in Files : f \in {None, Broken} \/ f \in Seq(Text)
    /\ Args \subseteq Seq(Text)

IsDigit(c) == c \in DOMAIN Digit
IsHexDigit(c) == IsDigit(c) \/ c \in {"a", "b", "c", "d", "e", "f", "A", "B", "C", "D", "E", "F"}
AllDigits(s) == s # <<>> /\ \A k \in 1..Len(s) : IsDigit(s[k])
HasAny(s, chars) == \E k \in 1..Len(s) : s[k] \in chars
First(s, c) == SelectInSeq(s, LAMBDA d : d = c)
LastOf(s, c) == SelectLastInSeq(s, LAMBDA d : d = c)
Upto(s, n) == SubSeq(s, 1, n)
After(s, n) == SubSeq(s, n + 1, Len(s))

TrimSpace(s) ==
    LET ink == {k \in 1..Len(s) : s[k] # Blank}
    IN IF ink = {} THEN <<>> ELSE SubSeq(s, Min(ink), Max(ink))

\* net.SplitHostPort
SplitHostPort(e) ==
    LET last == LastOf(e, ":")
        end == First(e, "]")
        bracketed == e # <<>> /\ e[1] = "["
        host == IF bracketed THEN SubSeq(e, 2, end - 1) ELSE Upto(e, last - 1)
    IN [ok |-> /\ last # 0
               /\ IF bracketed THEN end # 0 /\ last = end + 1 ELSE ~HasAny(host, {":"})
               /\ ~HasAny(IF bracketed THEN Tail(e) ELSE e, {"["})
               /\ ~HasAny(IF bracketed THEN After(e, end) ELSE e, {"]"}),
        host |-> host, port |-> After(e, last)]

\* net.JoinHostPort
JoinHostPort(host, port) ==
    IF HasAny(host, {":"}) THEN <<"[">> \o host \o <<"]", ":">> \o port
    ELSE host \o <<":">> \o port

Value(digits) ==
    LET value[n \in 0..Len(digits)] == IF n = 0 THEN 0 ELSE value[n - 1] * 10 + Digit[digits[n]]
    IN value[Len(digits)]

\* netip.ParseAddr of a text with a colon or a percent sign, which no IPv4 address
\* has: eight groups of one to four digits, or fewer and one "::"; an IPv4 address
\* may stand for the last two, and a zone may follow.
IsOctet(s) == AllDigits(s) /\ Value(s) <= 255 /\ (Len(s) > 1 => s[1] # "0")
IsIPv4(s) ==
    LET dots == {k \in 1..Len(s) : s[k] = "."}
    IN \E i, j, k \in dots :
          /\ i < j /\ j < k /\ dots = {i, j, k}
          /\ IsOctet(Upto(s, i - 1)) /\ IsOctet(SubSeq(s, i + 1, j - 1))
          /\ IsOctet(SubSeq(s, j + 1, k - 1)) /\ IsOctet(After(s, k))

IsIPv6(s) ==
    LET percent == First(s, "%")
        body == IF percent = 0 THEN s ELSE Upto(s, percent - 1)
        dotted == HasAny(body, {"."})
        last == LastOf(body, ":")
        hex == IF dotted THEN Upto(body, last) ELSE body
        limit == IF dotted THEN 6 ELSE 8
        doubled == {k \in 1..(Len(hex) - 1) : hex[k] = ":" /\ hex[k + 1] = ":"}
        groups == {k \in 1..Len(hex) : hex[k] # ":" /\ (k > 1 => hex[k - 1] = ":")}
    IN /\ percent # Len(s) /\ hex # <<>>
       /\ \A k \in 1..Len(hex) : hex[k] = ":" \/ IsHexDigit(hex[k])
       /\ \/ doubled = {} /\ Cardinality(groups) = limit
          \/ \E k \in doubled : doubled = {k} /\ Cardinality(groups) < limit
       /\ hex[1] = ":" => 1 \in doubled
       /\ IF dotted THEN IsIPv4(After(body, last))
          ELSE hex[Len(hex)] = ":" => Len(hex) - 1 \in doubled
       /\ \A k \in 1..(Len(hex) - 4) : HasAny(SubSeq(hex, k, k + 4), {":"})

-----------------------------------------------------------------------------
(* NormalizeEndpoint.                                                      *)
LooksLikeURL(e) == HasAny(e, {"/", "#", "?", "@"})

\* defaultPort
DefaultPort(p) ==
    CASE p = "smtp" -> <<"5", "8", "7">> [] p = "imap" -> <<"1", "4", "3">>
      [] p = "pop3" -> <<"1", "1", "0">> [] p = "ldap" -> <<"3", "8", "9">>
      [] OTHER -> <<"4", "4", "3">>

\* Mutant: the bound is that of a signed number of 16 bits.
ValidPortShort(port) == AllDigits(port) /\ Value(port) <= 32767

\* strconv.Atoi, which takes a sign, and the range.
ValidPort(port) ==
    \/ AllDigits(port) /\ Value(port) <= 65535
    \/ port # <<>> /\ port[1] = "+" /\ AllDigits(Tail(port)) /\ Value(Tail(port)) <= 65535
    \/ port # <<>> /\ port[1] = "-" /\ AllDigits(Tail(port)) /\ Value(Tail(port)) = 0

Bracketed(e) == Len(e) >= 2 /\ e[1] = "[" /\ e[Len(e)] = "]"

\* Mutant: the colon of an address that is not in brackets begins a port.
HostAndPortLast(e) ==
    LET last == LastOf(e, ":")
    IN IF last = 0 THEN [host |-> e, port |-> <<>>]
       ELSE [host |-> Upto(e, last - 1), port |-> After(e, last)]

\* A text that does not split is a host alone, perhaps in brackets.
HostAndPort(e) ==
    LET split == SplitHostPort(e)
    IN IF split.ok THEN [host |-> split.host, port |-> split.port]
       ELSE [host |-> IF Bracketed(e) THEN SubSeq(e, 2, Len(e) - 1) ELSE e, port |-> <<>>]

\* <<>> stands for the error.
NormalizeEndpoint(e, p) ==
    LET host == HostAndPort(e).host
        port == HostAndPort(e).port
        refused ==
            \/ LooksLikeURL(e)
            \/ e[1] = "[" /\ (SplitHostPort(e).ok \/ Bracketed(e)) /\ ~IsIPv6(host)
            \/ HasAny(host, {":", "[", "]", "%"}) /\ ~IsIPv6(host)
            \/ HasAny(host, {Blank})
            \/ host = <<>>
            \/ port # <<>> /\ ~ValidPort(port)
    IN IF refused THEN <<>>
       ELSE JoinHostPort(host, IF port = <<>> THEN DefaultPort(p) ELSE port)

-----------------------------------------------------------------------------
(* collectTargets.                                                         *)
Lines == IF file \in {None, Broken} THEN <<>> ELSE file

Init ==
    /\ file \in Files /\ args \in Args /\ proto \in Protos
    /\ line = 0 /\ targets = <<>> /\ at = 0 /\ normalized = <<>> /\ outcome = "reading"

\* What a line says before its comment.
InputOf(text) ==
    LET hash == First(text, "#")
    IN TrimSpace(IF hash = 0 THEN text ELSE Upto(text, hash - 1))

\* readTargetsFromFile: a line that says nothing is passed over.
ReadLine ==
    /\ outcome = "reading" /\ line < Len(Lines)
    /\ line' = line + 1
    /\ LET input == InputOf(Lines[line + 1])
       IN targets' = IF input = <<>> THEN targets ELSE Append(targets, input)
    /\ UNCHANGED <<file, args, proto, at, normalized, outcome>>

ReadFails ==
    /\ outcome = "reading" /\ file = Broken
    /\ outcome' = "error"
    /\ UNCHANGED <<file, args, proto, line, targets, at, normalized>>

\* After the inputs of the file, the arguments.
Collect ==
    /\ outcome = "reading" /\ file # Broken /\ line = Len(Lines)
    /\ targets' = targets \o args
    /\ outcome' = IF targets' = <<>> THEN "error" ELSE "normalizing"
    /\ UNCHANGED <<file, args, proto, line, at, normalized>>

\* An empty argument is passed over; the first bad input ends the list.
Normalize ==
    /\ outcome = "normalizing" /\ at < Len(targets)
    /\ at' = at + 1
    /\ LET value == TrimSpace(targets[at + 1])
           endpoint == NormalizeEndpoint(value, proto)
       IN \/ value = <<>> /\ UNCHANGED <<normalized, outcome>>
          \/ /\ value # <<>> /\ endpoint = <<>>
             /\ outcome' = "error" /\ UNCHANGED normalized
          \/ /\ value # <<>> /\ endpoint # <<>>
             /\ normalized' = Append(normalized, endpoint) /\ UNCHANGED outcome
    /\ UNCHANGED <<file, args, proto, line, targets>>

Finish ==
    /\ outcome = "normalizing" /\ at = Len(targets)
    /\ outcome' = IF normalized = <<>> THEN "error" ELSE "ok"
    /\ UNCHANGED <<file, args, proto, line, targets, at, normalized>>

Next == ReadLine \/ ReadFails \/ Collect \/ Normalize \/ Finish

Spec == Init /\ [][Next]_vars

-----------------------------------------------------------------------------
(* The grammar of README, Endpoints: "hosts or IP addresses with optional  *)
(* ports", as the set of the spellings of a host and a port.               *)
IsHost(h) ==
    /\ h # <<>> /\ ~HasAny(h, {"[", "]", Blank})
    /\ IsIPv6(h) \/ ~HasAny(h, {":", "%"})
IsPort(port) ==
    LET sign == port # <<>> /\ port[1] \in {"+", "-"}
        digits == IF sign THEN Tail(port) ELSE port
    IN /\ AllDigits(digits)
       /\ IF sign /\ port[1] = "-" THEN Value(digits) = 0 ELSE Value(digits) <= 65535
Spellings(h, port, p) ==
    LET hosts == IF IsIPv6(h) THEN {<<"[">> \o h \o <<"]">>} ELSE {h}
    IN {w \o <<":">> \o port : w \in hosts}
       \cup IF port = DefaultPort(p) THEN {h} \cup hosts \cup {w \o <<":">> : w \in hosts} ELSE {}

\* Every input, of the file and then of the arguments, and the places of those that
\* are not empty.
Told(text) ==
    LET hash == {k \in 1..Len(text) : text[k] = "#"}
    IN IF hash = {} THEN text
       ELSE Upto(text, (CHOOSE i \in hash : \A j \in hash : i <= j) - 1)
Inputs ==
    [k \in 1..(Len(Lines) + Len(args)) |->
        TrimSpace(IF k <= Len(Lines) THEN Told(Lines[k]) ELSE args[k - Len(Lines)])]
Written == {k \in 1..Len(Inputs) : Inputs[k] # <<>>}

\* A bracket in the zone of an address: accepted by netip.ParseAddr, but the
\* address cannot be split from its port again.
ZoneHasBracket(w) ==
    LET host == HostAndPort(w).host
    IN IsIPv6(host) /\ HasAny(host, {"[", "]"})
Odd == \E k \in Written : ZoneHasBracket(Inputs[k])

WellFormed(w) ==
    /\ ~LooksLikeURL(w)
    /\ \E i, j \in 1..Len(w) :
          /\ i <= j /\ IsHost(SubSeq(w, i, j))
          /\ \E port \in {DefaultPort(proto)} \cup {After(w, k) : k \in j..Len(w)} :
                /\ port = DefaultPort(proto) \/ IsPort(port)
                /\ w \in Spellings(SubSeq(w, i, j), port, proto)

\* README, Endpoints: the endpoints are those of the inputs in their order, with
\* nothing lost, doubled or moved; QueryContext, which splits an endpoint again, finds
\* the host that was written and the port that was written or, if none was, the
\* protocol's.
EndpointsMeanInputs ==
    outcome = "ok" =>
        \E place \in [1..Len(normalized) -> Written] :
            /\ \A k \in 2..Len(normalized) : place[k - 1] < place[k]
            /\ \A i \in Written : \E k \in 1..Len(normalized) : place[k] = i
            /\ \A k \in 1..Len(normalized) :
                  LET split == SplitHostPort(normalized[k])
                      input == Inputs[place[k]]
                  IN \/ split.ok /\ input \in Spellings(split.host, split.port, proto)
                     \/ ZoneHasBracket(input)

\* The command is refused exactly if an input does not follow the grammar, or
\* there is none: no endpoint goes on to the workers that they could not dial, and
\* none is refused that they could.
RefusedExactlyMalformed ==
    outcome \in {"ok", "error"} /\ file # Broken /\ ~Odd =>
        (outcome = "error") <=> (Written = {} \/ \E k \in Written : ~WellFormed(Inputs[k]))
=============================================================================
