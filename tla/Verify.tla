------------------------------- MODULE Verify -------------------------------
(***************************************************************************)
(* The verdict on the certificates of one input: explicit verification in  *)
(* QueryContext (internal/tlsquery/query.go) and verifyPEMChain (pem.go),  *)
(* the wording of a failure in abbreviateVerifyError, and the issuer that  *)
(* RevocationCertificates (chain.go) picks with ValidateIssuer             *)
(* (internal/revocation/checker.go).  The clock runs in between: x509      *)
(* reads it for the leaf and again for the chain (one reading stands for   *)
(* those of its candidates), and the wording of an "expired" reads it once *)
(* more.                                                                   *)
(*                                                                         *)
(* Certificates are records of names and keys; signatures are the key that *)
(* made them.                                                              *)
(***************************************************************************)
EXTENDS Naturals, Sequences, FiniteSets

CONSTANTS
    Certs,      \* the certificates there are
    RootPools,  \* the trust pools considered
    MaxCerts,   \* the longest input (a bound of the model)
    MaxTime     \* the clock stops here (a bound of the model)

ASSUME VerifyAssumption ==
    /\ \A c \in Certs :
          /\ DOMAIN c = {"subject", "issuer", "key", "signedBy", "ca", "notBefore", "notAfter"}
          /\ c.notBefore \in Nat /\ c.notAfter \in Nat /\ c.ca \in BOOLEAN
    /\ RootPools \subseteq SUBSET Certs
    /\ MaxCerts \in Nat \ {0}
    /\ MaxTime \in Nat

VARIABLES
    input,     \* the certificates and what they are verified against
    pc,        \* where the code is
    clock,     \* the wall clock
    datesTime, \* when x509 last looked at dates
    labelTime, \* when abbreviateVerifyError looked at them
    failure,   \* the error x509 returned, "" for none
    culprit,   \* the certificate a CertificateInvalidError about dates names, {} for none
    label,     \* ChainInfo.VerificationError
    verified,  \* ChainInfo.Verified
    trusted,   \* verified[0], the chain x509 put first, << >> for none
    issuer     \* what RevocationCertificates returns, {} for nil

vars == <<input, pc, clock, datesTime, labelTime, failure, culprit, label, verified, trusted,
          issuer>>

-----------------------------------------------------------------------------
\* client: hostname and key usage are looked at.  certs: the peer's, or the
\* blocks of the PEM input, in order.
Inputs ==
    [client : BOOLEAN, certs : UNION {[1..n -> Certs] : n \in 1..MaxCerts},
     roots : RootPools, hostMatches : BOOLEAN, usageFits : BOOLEAN]

Leaf == input.certs[1]
Sent == {input.certs[k] : k \in DOMAIN input.certs}
InDates(cert, t) == cert.notBefore <= t /\ t <= cert.notAfter

\* ValidateIssuer(cert, parent) == nil: names and signature, and a certificate
\* that may sign.
IssuedBy(cert, parent) ==
    /\ cert.issuer = parent.subject
    /\ cert.signedBy = parent.key /\ parent.ca

Others == {input.certs[k] : k \in 2..Len(input.certs)}

\* The candidates of x509 for what follows walk[n]: issuers of that name and key
\* in the pool, other than those the walk has come by (alreadyInChain).
Parents(walk, n, pool) ==
    {c \in pool :
        /\ IssuedBy(walk[n], c)
        /\ \A j \in 1..n : walk[j].subject = c.subject => walk[j].key # c.key}

\* The ways from the leaf over the other certificates of the input, and those on
\* which all issuers are in their dates at t.
Walks ==
    {walk \in UNION {[1..n -> {Leaf} \cup Others] : n \in 1..MaxCerts} :
        walk[1] = Leaf /\ \A k \in 2..Len(walk) : walk[k] \in Parents(walk, k - 1, Others)}
WalksAt(t) == {walk \in Walks : \A k \in 2..Len(walk) : InDates(walk[k], t)}

\* The chains to a root, all in their dates.  A leaf that is a root itself is its
\* own chain.
ChainsAt(t) ==
    IF Leaf \in input.roots THEN {<<Leaf>>}
    ELSE UNION {{Append(walk, root) :
                    root \in {r \in Parents(walk, Len(walk), input.roots) : InDates(r, t)}} :
                walk \in WalksAt(t)}

\* What the error is about when there is no chain: {c} for a candidate out of its
\* dates, {} for an unknown authority.  buildChains returns the error of the last
\* candidate it looked at, the intermediates after the roots, each kind in the
\* order of its pool and of the key identifiers: any order.  An intermediate in
\* its dates returns what it found above.
IssuerErrors(t) ==
    UNION {LET inter == Parents(walk, Len(walk), Others)
               roots == Parents(walk, Len(walk), input.roots)
           IN  IF inter # {} THEN {{c} : c \in {i \in inter : ~InDates(i, t)}}
               ELSE IF roots # {} THEN {{c} : c \in roots}
               ELSE {{}} :
           walk \in WalksAt(t)}

Init ==
    /\ input \in Inputs
    /\ ~input.client => input.hostMatches /\ input.usageFits
    /\ pc = "leaf"
    /\ clock \in 0..MaxTime
    /\ datesTime = 0 /\ labelTime = 0
    /\ failure = "" /\ culprit = {} /\ label = ""
    /\ verified = FALSE
    /\ trusted = << >>
    /\ issuer = {}

Fails(error) == failure' = error /\ pc' = "label"

\* x509 looks at the leaf's dates before its name, and at both before the chain.
VerifyLeaf ==
    /\ pc = "leaf"
    /\ datesTime' = clock
    /\ IF ~InDates(Leaf, clock) THEN Fails("dates") /\ culprit' = {Leaf}
       ELSE IF ~input.hostMatches THEN Fails("hostname") /\ UNCHANGED culprit
       ELSE pc' = "chain" /\ UNCHANGED <<failure, culprit>>
    /\ UNCHANGED <<input, clock, labelTime, label, verified, trusted, issuer>>

NoChain ==
    /\ ChainsAt(clock) = {}
    /\ culprit' \in IssuerErrors(clock)
    /\ Fails(IF culprit' = {} THEN "authority" ELSE "dates")
    /\ UNCHANGED <<verified, trusted>>

BadUsage ==
    /\ ChainsAt(clock) # {} /\ ~input.usageFits
    /\ Fails("usage")
    /\ UNCHANGED <<culprit, verified, trusted>>

Trust ==
    /\ input.usageFits
    /\ verified' = TRUE
    /\ trusted' \in ChainsAt(clock)
    /\ pc' = "issuer"
    /\ UNCHANGED <<failure, culprit>>

VerifyChain ==
    /\ pc = "chain"
    /\ datesTime' = clock
    /\ NoChain \/ BadUsage \/ Trust
    /\ UNCHANGED <<input, clock, labelTime, label, issuer>>

NotYet == \E c \in culprit : clock < c.notBefore

\* Mutant: not before is told from not after the wrong way round.
LabelSwapped ==
    /\ pc = "label"
    /\ labelTime' = clock
    /\ label' = IF failure # "dates" THEN failure
                ELSE IF ~NotYet THEN "certificate not yet valid"
                ELSE "certificate expired"
    /\ pc' = "issuer"
    /\ UNCHANGED <<input, clock, datesTime, failure, culprit, verified, trusted, issuer>>

\* abbreviateVerifyError: x509 has one reason for both kinds of dates, so that
\* the clock is asked again which it was, of the certificate the error names.
Label ==
    /\ pc = "label"
    /\ labelTime' = clock
    /\ label' = IF failure = "hostname" THEN "hostname mismatch"
                ELSE IF failure = "authority" THEN "unknown authority"
                ELSE IF failure = "usage" THEN "invalid certificate"
                ELSE IF NotYet THEN "certificate not yet valid"
                ELSE "certificate expired"
    /\ pc' = "issuer"
    /\ UNCHANGED <<input, clock, datesTime, failure, culprit, verified, trusted, issuer>>

Select(chosen) ==
    /\ pc = "issuer"
    /\ issuer' = chosen
    /\ pc' = "done"
    /\ UNCHANGED <<input, clock, datesTime, labelTime, failure, culprit, label, verified, trusted>>

\* Mutants: whatever comes second is the issuer; the input comes before the
\* verified chain.
SelectSecond == Select(IF Len(input.certs) > 1 THEN {input.certs[2]} ELSE {})
SelectSentFirst ==
    LET candidates == {k \in DOMAIN input.certs : IssuedBy(Leaf, input.certs[k])}
    IN  Select(IF candidates # {}
               THEN {input.certs[CHOOSE k \in candidates : \A j \in candidates : k <= j]}
               ELSE IF Len(trusted) > 1 THEN {trusted[2]} ELSE {})

\* RevocationCertificates: the issuer in the verified chain if it passes, else
\* the first certificate of the input that does, the leaf included.
SelectIssuer ==
    LET candidates == {k \in DOMAIN input.certs : IssuedBy(Leaf, input.certs[k])}
        first      == CHOOSE k \in candidates : \A j \in candidates : k <= j
    IN  Select(IF Len(trusted) > 1 /\ IssuedBy(Leaf, trusted[2]) THEN {trusted[2]}
               ELSE IF candidates # {} THEN {input.certs[first]}
               ELSE {})

Tick ==
    /\ clock < MaxTime /\ pc \in {"leaf", "chain", "label"}
    /\ clock' = clock + 1
    /\ UNCHANGED <<input, pc, datesTime, labelTime, failure, culprit, label, verified, trusted,
                   issuer>>

Done == pc = "done" /\ UNCHANGED vars

Next == VerifyLeaf \/ VerifyChain \/ Label \/ SelectIssuer \/ Tick \/ Done

Spec == Init /\ [][Next]_vars

-----------------------------------------------------------------------------
Labels == {"", "hostname mismatch", "unknown authority", "invalid certificate",
           "certificate not yet valid", "certificate expired"}

TypeOK ==
    /\ pc \in {"leaf", "chain", "label", "issuer", "done"}
    /\ {clock, datesTime, labelTime} \subseteq 0..MaxTime
    /\ failure \in {"", "dates", "hostname", "authority", "usage"}
    /\ culprit \subseteq Sent \cup input.roots /\ (failure = "dates" <=> culprit # {})
    /\ label \in Labels
    /\ verified \in BOOLEAN
    /\ Len(trusted) <= MaxCerts + 1
    /\ issuer \subseteq Sent \cup input.roots /\ Cardinality(issuer) <= 1

\* The certificates a verdict can be about: the leaf and what signs towards it.
OnTheWay == {Leaf} \cup UNION {Parents(w, Len(w), Others \cup input.roots) : w \in Walks}

\* Somewhere above the leaf there is an issuer that nobody knows.
DeadEnd == \E w \in Walks : Parents(w, Len(w), Others \cup input.roots) = {}

\* A label is true of a certificate on the way from the leaf to a root, the leaf or
\* an issuer: the label does not say whose dates are wrong (query.go:150-157).  The
\* exception the two readings of the clock leave (query.go:154) is a certificate
\* that becomes valid between them: it is called expired and never was.
LabelFits ==
    /\ label = "certificate not yet valid" =>
          \E c \in OnTheWay : datesTime < c.notBefore /\ labelTime < c.notBefore
    /\ label = "certificate expired" =>
          \E c \in OnTheWay :
              \/ datesTime > c.notAfter
              \/ datesTime < c.notBefore /\ c.notBefore <= labelTime
    /\ label = "unknown authority" => DeadEnd

\* README, Revocation policy: "Issuers are selected by certificate relationships,
\* not their position in the input."  The issuer handed to the check did sign
\* the leaf, also among certificates that share its name, and one is found
\* whenever the input or the verified chain holds it, wherever it stands.
IssuerByRelationship ==
    LET Signers == {c \in Sent \cup {trusted[k] : k \in DOMAIN trusted} :
                       c.subject = Leaf.issuer /\ c.key = Leaf.signedBy /\ c.ca}
    IN  pc = "done" => issuer \subseteq Signers /\ (issuer = {} => Signers = {})

\* chain.go:43, "Verified-chain issuers can include a root not sent by the
\* peer": revocation is asked of the very issuer through which the leaf was
\* verified, although another certificate of that key may stand in the input.
TrustedIssuerUsed ==
    pc = "done" /\ Len(trusted) > 1 => issuer = {trusted[2]}
=============================================================================
