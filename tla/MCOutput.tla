------------------------------ MODULE MCOutput ------------------------------
(* Three shapes of chain: what "pem" reads, what a query without and with      *)
(* --tls-versions finds; and reports of up to three inputs with failed ones    *)
(* first, between and last.                                                    *)
EXTENDS Output

PEMChain ==
    [verified |-> FALSE, reason |-> TRUE, handshake |-> "none",
     versions |-> <<>>, certs |-> <<{}>>]
QueryChain ==
    [verified |-> TRUE, reason |-> FALSE, handshake |-> "plain",
     versions |-> <<>>, certs |-> <<{"SANs", "Revocation", "Checked", "Method", "Method Status"}, {}>>]
ProbedChain ==
    [verified |-> TRUE, reason |-> TRUE, handshake |-> "alpn",
     versions |-> <<<<2, 1, 3>>, <<>>, <<3>>>>, certs |-> <<{"SANs", "IPs", "Key Length"}>>]

MCChains == {PEMChain, QueryChain, ProbedChain}
MCResults ==
    {<<c>> : c \in MCChains \cup {Failed}}
    \cup {<<QueryChain, Failed, ProbedChain>>, <<Failed, PEMChain, Failed>>,
          <<Failed, Failed>>, <<PEMChain, QueryChain, Failed>>}
MCSecure == {1, 2}
=============================================================================
