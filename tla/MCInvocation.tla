----------------------------- MODULE MCInvocation -----------------------------
(* Every configuration and command line; and, without either, every host       *)
(* below, bare or in brackets, with every port below, alone, and files and     *)
(* lists of arguments with comments, empty inputs and duplicates.              *)
EXTENDS Invocation

MCChars ==
    {"x", "a", "0", "1", "2", "3", "4", "5", "6", "7", "8", "9", ":", "[", "]", ".", "%", "+", "-",
     " ", "/", "@", "#"}
x == <<"x">>
Loop == <<":", ":", "1">>
Hosts ==
    {<<>>, x, <<"x", " ", "x">>, <<"x", "/", "x">>, <<"x", ".", "x">>, <<"x", "%", "x">>,
     <<"1", ".", "1", ".", "1", ".", "1">>, <<"1", ".", "1", ".", "1">>,
     Loop, <<":", ":">>, <<"1", ":", ":">>, <<":", ":", ":">>, <<"1", ":", "1">>,
     <<"1", ":", "1", ":", "1", ":", "1", ":", "1", ":", "1", ":", "1", ":", "1">>,
     <<"1", ":", "1", ":", "1", ":", "1", ":", "1", ":", "1", ":", "1", ":", ":">>,
     <<":", ":", "a", ":", "1", ".", "1", ".", "1", ".", "1">>,
     Loop \o <<"%">>, Loop \o <<"%", "x">>, Loop \o <<"%", ":">>, Loop \o <<"%", "]">>,
     Loop \o <<"%", "[">>}
Wrapped ==
    Hosts \cup {<<"[">> \o h \o <<"]">> : h \in Hosts}
    \cup {<<"[">> \o h : h \in Hosts} \cup {h \o <<"]">> : h \in Hosts}
    \cup {<<"[", "[">> \o h \o <<"]", "]">> : h \in Hosts}
Ports ==
    {<<>>, <<":">>, <<":", "0">>, <<":", "1">>, <<":", "6", "5", "5", "3", "5">>,
     <<":", "6", "5", "5", "3", "6">>, <<":", "+", "1">>, <<":", "-", "1">>, <<":", "-", "0">>,
     <<":", "x">>, <<":", "1", ":", "1">>, <<":", "1", " ">>, <<":", "[">>, <<":", "1", "]">>}
Single == {<<h \o p>> : h \in Wrapped, p \in Ports}

Few == {x, <<" ">>, Loop, <<"x", "@", "x">>}
Lists == {<<>>} \cup {<<a>> : a \in Few} \cup {<<a, b>> : a, b \in Few}
Comment == <<"#", "x">>
MCArgs == Single \cup Lists
MCFiles ==
    {None, Broken, <<>>, <<Comment>>, <<x, <<>>, Comment \o x, x \o <<" ">> \o Comment>>,
     <<Loop \o Comment, <<" ">> \o Comment>>, <<<<"x", "/">>, x>>}
MCProtos == {"", "smtp", "imap", "pop3", "ldap"}

(* NoPort and EmptyPort of Proxy. *)
Missing == -2
Empty   == -1

URLs ==
    [parses : {TRUE}, scheme : {"", "http", "https", "socks5"}, host : {"", "proxy"},
     port : {Missing, Empty, 0, 1, 8080, 65535, 65536}, rest : {"", "/", "/path", "query"}]
Plain == [parses |-> TRUE, scheme |-> "https", host |-> "other", port |-> Missing, rest |-> ""]

MCFlags == {None, [Plain EXCEPT !.parses = FALSE]} \cup URLs
\* The last is "https://proxy:x", which does not parse, behind "http://".
MCSettings ==
    {None, Plain, [Plain EXCEPT !.parses = FALSE], [Plain EXCEPT !.scheme = "socks5"],
     [Plain EXCEPT !.scheme = "", !.port = 3128], [Plain EXCEPT !.port = 65536],
     [Plain EXCEPT !.port = Empty], [Plain EXCEPT !.rest = "/path"],
     [Plain EXCEPT !.scheme = "http", !.host = "https", !.port = Empty, !.rest = "/path"]}

Bare ==
    /\ command = "client" /\ explicit = FALSE /\ configDir = TRUE /\ configFile = "missing"
    /\ cli = [k \in Keys |-> "absent"]

(* The configuration varies with one target, the targets vary with a direct    *)
(* connection, and the proxies with one target.                                *)
OneTarget == file = None /\ args = <<x>> /\ proto = ""
NoProxy   == flag = None /\ setting = None /\ excluded = FALSE
MCInit ==
    \/ OneTarget /\ NoProxy /\ InvocationInit
    \/ NoProxy /\ Bare /\ InvocationInit
    \/ OneTarget /\ Bare /\ InvocationInit
MCSpec == MCInit /\ [][InvocationNext]_invocationVars
=============================================================================
