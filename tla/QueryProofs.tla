----------------------------- MODULE QueryProofs -----------------------------
(***************************************************************************)
(* The query, in two parts.  The verdict on the certificates (Verify), for *)
(* every set of certificates, every trust pool, every length of the input  *)
(* and every course of the clock: what a label about the dates says, and   *)
(* which issuer revocation is asked of.  The probes (Probe), for every set *)
(* of suites, every preference of the peer, whichever connections fail and *)
(* whenever the context ends: that what is reported was seen, and that     *)
(* what is returned as a result is whole.                                  *)
(***************************************************************************)
EXTENDS Verify, Probe, FiniteSetTheorems, SequenceTheorems, WellFoundedInduction, TLAPS

-----------------------------------------------------------------------------
(***************************************************************************)
(* The certificates: the inductive invariant.                              *)
(***************************************************************************)
\* The clock only goes forward, so that dates are looked at before the label is
\* chosen.
ReadingsInOrder == clock \in 0..MaxTime /\ datesTime \in 0..clock /\ labelTime \in 0..clock

\* A failure has its cause: a certificate on the way that is not in its dates, or
\* an issuer that nobody knows.
OutOfDates == \E c \in OnTheWay : culprit = {c} /\ ~InDates(c, datesTime)

FailureHasCause ==
    /\ failure \in {"", "dates", "hostname", "authority", "usage"}
    /\ IF failure = "dates" THEN OutOfDates ELSE culprit = {}
    /\ failure = "authority" => DeadEnd
    /\ pc \in {"leaf", "chain"} => failure = ""
    /\ pc = "label" => failure # ""

\* A label about the dates was chosen by a later reading of the clock.
LabelIsOfReading ==
    /\ label \in Labels
    /\ pc \in {"leaf", "chain", "label"} => label = ""
    /\ label \in {"certificate not yet valid", "certificate expired"} =>
          /\ failure = "dates" /\ datesTime <= labelTime
          /\ label = "certificate not yet valid" <=> \E c \in culprit : labelTime < c.notBefore
    /\ label = "unknown authority" => failure = "authority"

\* The chain x509 put first begins with the leaf and its issuer.
ChainFromLeaf(chain) ==
    \E n \in 1..(MaxCerts + 1) :
        /\ chain \in [1..n -> Sent \cup input.roots]
        /\ chain[1] = Leaf
        /\ n > 1 => IssuedBy(Leaf, chain[2])

Candidates == {k \in DOMAIN input.certs : IssuedBy(Leaf, input.certs[k])}

\* The issuer is that of the verified chain, or a candidate of the input when
\* there is none.
IssuerWasSelected ==
    \/ Len(trusted) > 1 /\ IssuedBy(Leaf, trusted[2]) /\ issuer = {trusted[2]}
    \/ /\ ~(Len(trusted) > 1 /\ IssuedBy(Leaf, trusted[2]))
       /\ \E k \in Candidates : issuer = {input.certs[k]}
    \/ /\ ~(Len(trusted) > 1 /\ IssuedBy(Leaf, trusted[2]))
       /\ Candidates = {} /\ issuer = {}

IInv ==
    /\ input \in Inputs
    /\ pc \in {"leaf", "chain", "label", "issuer", "done"}
    /\ verified \in BOOLEAN
    /\ ReadingsInOrder
    /\ FailureHasCause
    /\ LabelIsOfReading
    /\ trusted = << >> \/ ChainFromLeaf(trusted)
    /\ IF pc = "done" THEN IssuerWasSelected ELSE issuer = {}

-----------------------------------------------------------------------------
(***************************************************************************)
(* The data.                                                               *)
(***************************************************************************)
\* The input has a leaf, and its dates are times.
LEMMA InputHasLeaf ==
    ASSUME input \in Inputs
    PROVE  /\ 1 \in DOMAIN input.certs
           /\ Leaf \in Sent
           /\ Leaf \in Certs /\ Leaf.notBefore \in Nat /\ Leaf.notAfter \in Nat
           /\ DOMAIN input.certs \subseteq Nat
<1>1. PICK n \in 1..MaxCerts : input.certs \in [1..n -> Certs]
  BY DEF Inputs
<1>2. 1 \in 1..n
  BY VerifyAssumption
<1>3. DOMAIN input.certs = 1..n /\ Leaf \in Certs
  BY <1>1, <1>2 DEF Leaf
<1> QED
  BY <1>2, <1>3, VerifyAssumption DEF Leaf, Sent

\* A set of positions that is not empty has a first one.
LEMMA FirstPosition ==
    ASSUME NEW T, T \subseteq Nat, T # {}
    PROVE  \E k \in T : \A j \in T : k <= j
<1>1. PICK k \in T : \A j \in T : <<j, k>> \notin OpToRel(<, Nat)
  BY NatLessThanWellFounded, WFMin
<1>2. ASSUME NEW j \in T PROVE k <= j
  <2>1. ~(j < k)
    BY <1>1 DEF OpToRel
  <2> QED
    BY <2>1
<1> QED
  BY <1>2

\* The other certificates of the input are certificates of the input.
LEMMA OthersAreSent ==
    ASSUME input \in Inputs
    PROVE  Others \subseteq Sent
<1>1. PICK m \in 1..MaxCerts : input.certs \in [1..m -> Certs]
  BY DEF Inputs
<1>2. m \in Nat /\ DOMAIN input.certs = 1..m /\ Len(input.certs) = m
  BY <1>1, VerifyAssumption, LenProperties
<1>3. 2..m \subseteq 1..m
  BY <1>2
<1> QED
  BY <1>2, <1>3 DEF Sent, Others

\* A walk begins with the leaf, and its second certificate signed it.
LEMMA WalksBeginWithLeaf ==
    ASSUME input \in Inputs, NEW walk \in Walks
    PROVE  \E n \in 1..MaxCerts :
              /\ walk \in [1..n -> Sent] /\ Len(walk) = n
              /\ walk[1] = Leaf
              /\ n > 1 => IssuedBy(Leaf, walk[2])
<1>1. /\ walk \in UNION {[1..n -> {Leaf} \cup Others] : n \in 1..MaxCerts}
      /\ walk[1] = Leaf
      /\ \A k \in 2..Len(walk) : walk[k] \in Parents(walk, k - 1, Others)
  BY DEF Walks
<1>2. PICK n \in 1..MaxCerts : walk \in [1..n -> {Leaf} \cup Others]
  BY <1>1
<1>3. n \in Nat /\ Len(walk) = n
  BY <1>2, VerifyAssumption, LenProperties
<1>4. walk \in [1..n -> Sent]
  BY <1>2, OthersAreSent, InputHasLeaf
<1>5. ASSUME n > 1
      PROVE  IssuedBy(Leaf, walk[2])
  <2>1. 2 \in 2..Len(walk)
    BY <1>3, <1>5
  <2>2. walk[2] \in Parents(walk, 2 - 1, Others)
    BY <1>1, <2>1
  <2> QED
    BY <1>1, <2>2 DEF Parents
<1> QED
  BY <1>1, <1>3, <1>4, <1>5

\* A chain x509 finds begins with the leaf, and its second certificate signed it.
LEMMA ChainsBeginWithLeaf ==
    ASSUME input \in Inputs, NEW t, NEW chain \in ChainsAt(t)
    PROVE  ChainFromLeaf(chain)
<1>1. CASE Leaf \in input.roots
  <2>1. chain = <<Leaf>>
    BY <1>1 DEF ChainsAt
  <2>2. 1 \in 1..(MaxCerts + 1)
    BY VerifyAssumption
  <2>3. chain \in [1..1 -> Sent \cup input.roots] /\ chain[1] = Leaf
    BY <2>1, <1>1
  <2> QED
    BY <2>2, <2>3 DEF ChainFromLeaf
<1>2. CASE Leaf \notin input.roots
  <2> DEFINE ends(walk) == {r \in Parents(walk, Len(walk), input.roots) : InDates(r, t)}
  <2>1. PICK walk \in WalksAt(t) : chain \in {Append(walk, r) : r \in ends(walk)}
    BY <1>2 DEF ChainsAt
  <2>2. PICK root \in ends(walk) : chain = Append(walk, root)
    BY <2>1
  <2>3. /\ walk \in Walks /\ root \in input.roots
        /\ root \in Parents(walk, Len(walk), input.roots)
    BY DEF WalksAt, Parents
  <2> HIDE DEF ends
  <2>4. PICK n \in 1..MaxCerts :
          /\ walk \in [1..n -> Sent] /\ Len(walk) = n
          /\ walk[1] = Leaf
          /\ n > 1 => IssuedBy(Leaf, walk[2])
    BY <2>3, WalksBeginWithLeaf
  <2>5. n \in Nat /\ n >= 1 /\ n + 1 \in 1..(MaxCerts + 1)
    BY VerifyAssumption
  <2>6. /\ chain \in [1..(n + 1) -> Sent \cup input.roots]
        /\ \A k \in 1..n : chain[k] = walk[k]
        /\ chain[n + 1] = root
    <3>1. walk \in Seq(Sent \cup input.roots)
      BY <2>4, <2>5
    <3>2. root \in Sent \cup input.roots
      BY <2>3
    <3> DEFINE S == Sent \cup input.roots
    <3> HIDE DEF S
    <3>3. walk \in Seq(S) /\ root \in S /\ Len(walk) = n /\ n \in Nat
      BY <2>4, <2>5, <3>1, <3>2 DEF S
    <3>4. /\ Append(walk, root) \in [1..(n + 1) -> S]
          /\ \A k \in 1..n : Append(walk, root)[k] = walk[k]
          /\ Append(walk, root)[n + 1] = root
      <4>1. /\ Append(walk, root) \in Seq(S) /\ Len(Append(walk, root)) = n + 1
            /\ \A k \in 1..n : Append(walk, root)[k] = walk[k]
            /\ Append(walk, root)[n + 1] = root
        BY <3>3
      <4> DEFINE longer == Append(walk, root)
      <4> HIDE DEF longer
      <4>2. longer \in Seq(S)
        BY <4>1 DEF longer
      <4>3. longer \in [1..Len(longer) -> S]
        BY <4>2, LenProperties
      <4> QED
        BY <4>1, <4>3 DEF longer
    <3> QED
      BY <2>2, <3>4 DEF S
  <2>7. chain[1] = Leaf
    BY <2>4, <2>5, <2>6
  <2>8. IssuedBy(Leaf, chain[2])
    <3>1. CASE n = 1
      BY <2>4, <2>6, <2>3, <3>1 DEF Parents
    <3>2. CASE n > 1
      BY <2>4, <2>5, <2>6, <3>2
    <3> QED
      BY <2>5, <3>1, <3>2
  <2> QED
    BY <2>5, <2>6, <2>7, <2>8 DEF ChainFromLeaf
<1> QED
  BY <1>1, <1>2

\* The certificates on the way are certificates with dates.
LEMMA DatesOnTheWay ==
    ASSUME input \in Inputs, NEW c \in OnTheWay
    PROVE  c.notBefore \in Nat /\ c.notAfter \in Nat /\ c \in Sent \cup input.roots
<1>1. c \in Sent \cup input.roots
  BY InputHasLeaf, OthersAreSent DEF OnTheWay, Parents
<1>2. Sent \subseteq Certs
  BY DEF Inputs, Sent
<1>3. input.roots \subseteq Certs
  BY VerifyAssumption DEF Inputs
<1> QED
  BY <1>1, <1>2, <1>3, VerifyAssumption

\* The error x509 returns names a certificate on the way that is not in its dates,
\* or nobody knows an issuer.
LEMMA ErrorsHaveCause ==
    ASSUME NEW t, ChainsAt(t) = {}, NEW wrong \in IssuerErrors(t)
    PROVE  \/ \E c \in OnTheWay : wrong = {c} /\ ~InDates(c, t)
           \/ wrong = {} /\ DeadEnd
<1> DEFINE inter(walk) == Parents(walk, Len(walk), Others)
           roots(walk) == Parents(walk, Len(walk), input.roots)
           all(walk)   == Parents(walk, Len(walk), Others \cup input.roots)
<1>1. \A walk : all(walk) = inter(walk) \cup roots(walk)
  BY DEF Parents
<1>2. PICK walk \in WalksAt(t) :
        wrong \in IF inter(walk) # {} THEN {{c} : c \in {i \in inter(walk) : ~InDates(i, t)}}
                  ELSE IF roots(walk) # {} THEN {{c} : c \in roots(walk)} ELSE {{}}
  BY DEF IssuerErrors
<1>3. walk \in Walks
  BY DEF WalksAt
<1>4. \A c \in all(walk) : c \in OnTheWay
  BY <1>3 DEF OnTheWay
<1>5. ASSUME NEW r \in roots(walk), InDates(r, t)
      PROVE  FALSE
  <2>1. Leaf \notin input.roots
    BY DEF ChainsAt
  <2>2. r \in {q \in Parents(walk, Len(walk), input.roots) : InDates(q, t)}
    BY <1>5
  <2>3. Append(walk, r) \in ChainsAt(t)
    BY <2>1, <2>2 DEF ChainsAt
  <2> QED
    BY <2>3
<1> HIDE DEF inter, roots, all
<1>6. CASE inter(walk) # {}
  BY <1>1, <1>2, <1>4, <1>6
<1>7. CASE inter(walk) = {} /\ roots(walk) # {}
  BY <1>1, <1>2, <1>4, <1>5, <1>7
<1>8. CASE inter(walk) = {} /\ roots(walk) = {}
  <2>1. all(walk) = {} /\ wrong = {}
    BY <1>1, <1>2, <1>8
  <2> QED
    BY <1>3, <2>1 DEF DeadEnd, all
<1> QED
  BY <1>6, <1>7, <1>8

\* What only depends on the input stays.
LEMMA SameWay ==
    ASSUME input' = input
    PROVE  Leaf' = Leaf /\ Sent' = Sent /\ OnTheWay' = OnTheWay /\ DeadEnd' = DeadEnd
<1>1. Leaf' = Leaf /\ Sent' = Sent /\ Others' = Others
  BY DEF Leaf, Sent, Others
<1>2. Walks' = Walks
  BY <1>1 DEF Walks, Parents, IssuedBy
<1> QED
  BY <1>1, <1>2 DEF OnTheWay, DeadEnd, Parents, IssuedBy

\* The trusted chain's second certificate is its issuer, and it is there to select.
LEMMA TrustedIssuer ==
    ASSUME NEW chain, ChainFromLeaf(chain)
    PROVE  /\ Len(chain) \in 1..(MaxCerts + 1)
           /\ DOMAIN chain = 1..Len(chain)
           /\ chain[1] = Leaf
           /\ Len(chain) > 1 =>
                 IssuedBy(Leaf, chain[2]) /\ chain[2] \in Sent \cup input.roots
<1>1. PICK n \in 1..(MaxCerts + 1) :
        /\ chain \in [1..n -> Sent \cup input.roots]
        /\ chain[1] = Leaf
        /\ n > 1 => IssuedBy(Leaf, chain[2])
  BY DEF ChainFromLeaf
<1>2. n \in Nat /\ Len(chain) = n /\ DOMAIN chain = 1..n
  BY <1>1, VerifyAssumption, LenProperties
<1>3. n > 1 => 2 \in 1..n
  BY <1>2
<1> QED
  BY <1>1, <1>2, <1>3

-----------------------------------------------------------------------------
(***************************************************************************)
(* The invariant is inductive.                                             *)
(***************************************************************************)
LEMMA InitEstablishes == Init => IInv
<1> SUFFICES ASSUME Init PROVE IInv
  OBVIOUS
<1>1. ReadingsInOrder
  <2>1. clock \in 0..MaxTime /\ datesTime = 0 /\ labelTime = 0
    BY DEF Init
  <2>2. 0 \in 0..clock
    BY <2>1, VerifyAssumption
  <2> QED
    BY <2>1, <2>2 DEF ReadingsInOrder
<1>2. FailureHasCause /\ LabelIsOfReading
  BY DEF Init, FailureHasCause, LabelIsOfReading, Labels
<1> QED
  BY <1>1, <1>2 DEF Init, IInv

\* A step that reads no dates and leaves the error alone keeps its cause.
LEMMA CauseStays ==
    ASSUME FailureHasCause, UNCHANGED <<input, datesTime, failure, culprit>>,
           pc' \in {"leaf", "chain"} => failure = "",
           pc' = "label" => failure # ""
    PROVE  FailureHasCause'
<1>1. OnTheWay' = OnTheWay /\ DeadEnd' = DeadEnd
  BY SameWay
<1>2. OutOfDates => OutOfDates'
  BY <1>1 DEF OutOfDates, InDates
<1> QED
  BY <1>1, <1>2 DEF FailureHasCause

LEMMA VerifyLeafPreserves == IInv /\ VerifyLeaf => IInv'
<1> SUFFICES ASSUME IInv, VerifyLeaf PROVE IInv'
  OBVIOUS
<1>1. input' = input /\ Leaf' = Leaf /\ Sent' = Sent /\ OnTheWay' = OnTheWay
  BY SameWay DEF VerifyLeaf
<1>2. ReadingsInOrder'
  <2>1. clock \in Nat /\ clock \in 0..clock
    BY VerifyAssumption DEF IInv, ReadingsInOrder
  <2> QED
    BY <2>1 DEF IInv, VerifyLeaf, ReadingsInOrder
<1>3. FailureHasCause'
  <2>1. failure = "" /\ culprit = {} /\ datesTime' = clock
    BY DEF IInv, FailureHasCause, VerifyLeaf
  <2>2. CASE ~InDates(Leaf, clock)
    <3>1. failure' = "dates" /\ culprit' = {Leaf} /\ pc' = "label"
      BY <2>2 DEF VerifyLeaf, Fails
    <3>2. Leaf \in OnTheWay'
      BY <1>1 DEF OnTheWay
    <3>3. ~InDates(Leaf, datesTime)'
      BY <1>1, <2>1, <2>2 DEF InDates
    <3>4. OutOfDates'
      BY <1>1, <3>1, <3>2, <3>3 DEF OutOfDates
    <3> QED
      BY <3>1, <3>4 DEF FailureHasCause
  <2>3. CASE InDates(Leaf, clock)
    <3>1. /\ culprit' = {}
          /\ \/ failure' = "hostname" /\ pc' = "label"
             \/ failure' = "" /\ pc' = "chain"
      BY <2>1, <2>3 DEF VerifyLeaf, Fails
    <3> QED
      BY <3>1 DEF FailureHasCause
  <2> QED
    BY <2>2, <2>3
<1>4. LabelIsOfReading'
  BY <1>1 DEF IInv, VerifyLeaf, Fails, LabelIsOfReading
<1>5. trusted' = << >> \/ ChainFromLeaf(trusted)'
  BY <1>1 DEF IInv, VerifyLeaf, ChainFromLeaf, IssuedBy
<1> QED
  BY <1>2, <1>3, <1>4, <1>5 DEF IInv, VerifyLeaf, Fails

LEMMA VerifyChainPreserves == IInv /\ VerifyChain => IInv'
<1> SUFFICES ASSUME IInv, VerifyChain PROVE IInv'
  OBVIOUS
<1>1. /\ input' = input /\ Leaf' = Leaf /\ Sent' = Sent
      /\ OnTheWay' = OnTheWay /\ DeadEnd' = DeadEnd
  BY SameWay DEF VerifyChain
<1>2. ReadingsInOrder'
  <2>1. clock \in Nat /\ clock \in 0..clock
    BY VerifyAssumption DEF IInv, ReadingsInOrder
  <2> QED
    BY <2>1 DEF IInv, VerifyChain, ReadingsInOrder
<1>3. FailureHasCause' /\ pc' \in {"label", "issuer"} /\ verified' \in BOOLEAN
  <2>1. failure = "" /\ culprit = {} /\ verified \in BOOLEAN
    BY DEF IInv, FailureHasCause, VerifyChain
  <2>2. CASE NoChain
    <3>1. /\ ChainsAt(clock) = {} /\ culprit' \in IssuerErrors(clock)
          /\ pc' = "label" /\ verified' = verified
      BY <2>2 DEF NoChain, Fails
    <3>2. CASE culprit' = {}
      <4>1. failure' = "authority"
        BY <2>2, <3>2 DEF NoChain, Fails
      <4>2. DeadEnd'
        BY <1>1, <3>1, <3>2, ErrorsHaveCause
      <4> QED
        BY <2>1, <3>1, <3>2, <4>1, <4>2 DEF FailureHasCause
    <3>3. CASE culprit' # {}
      <4>1. failure' = "dates"
        BY <2>2, <3>3 DEF NoChain, Fails
      <4>2. PICK c \in OnTheWay : culprit' = {c} /\ ~InDates(c, clock)
        BY <3>1, <3>3, ErrorsHaveCause
      <4>3. datesTime' = clock
        BY DEF VerifyChain
      <4>4. OutOfDates'
        BY <1>1, <4>2, <4>3 DEF OutOfDates, InDates
      <4> QED
        BY <2>1, <3>1, <4>1, <4>4 DEF FailureHasCause
    <3> QED
      BY <3>2, <3>3
  <2>3. CASE BadUsage
    BY <2>1, <2>3 DEF BadUsage, Fails, FailureHasCause
  <2>4. CASE Trust
    BY <2>1, <2>4 DEF Trust, FailureHasCause
  <2> QED
    BY <2>2, <2>3, <2>4 DEF VerifyChain
<1>4. LabelIsOfReading'
  <2>1. label' = "" /\ label = ""
    BY DEF IInv, VerifyChain, LabelIsOfReading
  <2> QED
    BY <2>1 DEF LabelIsOfReading, Labels
<1>5. trusted' = << >> \/ ChainFromLeaf(trusted)'
  <2>1. trusted' = trusted \/ trusted' \in ChainsAt(clock)
    BY DEF VerifyChain, NoChain, BadUsage, Trust
  <2>2. trusted' = << >> \/ ChainFromLeaf(trusted')
    BY <2>1, ChainsBeginWithLeaf DEF IInv
  <2> QED
    BY <2>2, <1>1 DEF ChainFromLeaf, IssuedBy
<1> QED
  BY <1>1, <1>2, <1>3, <1>4, <1>5 DEF IInv, VerifyChain

LEMMA LabelPreserves == IInv /\ Label => IInv'
<1> SUFFICES ASSUME IInv, Label PROVE IInv'
  OBVIOUS
<1>1. input' = input /\ Leaf' = Leaf /\ Sent' = Sent /\ trusted' = trusted
  BY SameWay DEF Label
<1>2. ReadingsInOrder'
  <2>1. clock \in Nat /\ clock \in 0..clock
    BY VerifyAssumption DEF IInv, ReadingsInOrder
  <2> QED
    BY <2>1 DEF IInv, Label, ReadingsInOrder
<1>3. FailureHasCause'
  BY CauseStays DEF IInv, Label
<1>4. LabelIsOfReading'
  <2>1. datesTime' <= labelTime'
    <3>1. datesTime' = datesTime /\ labelTime' = clock
      BY DEF Label
    <3>2. datesTime \in 0..clock /\ clock \in Nat
      BY VerifyAssumption DEF IInv, ReadingsInOrder
    <3> QED
      BY <3>1, <3>2
  <2>2. /\ pc' = "issuer" /\ failure' = failure
        /\ failure \in {"dates", "hostname", "authority", "usage"}
        /\ label' = IF failure = "hostname" THEN "hostname mismatch"
                    ELSE IF failure = "authority" THEN "unknown authority"
                    ELSE IF failure = "usage" THEN "invalid certificate"
                    ELSE IF NotYet THEN "certificate not yet valid"
                    ELSE "certificate expired"
    BY DEF IInv, Label, FailureHasCause
  <2>3. NotYet <=> \E c \in culprit' : labelTime' < c.notBefore
    BY DEF Label, NotYet
  <2> HIDE DEF NotYet
  <2>4. label' \in {"certificate not yet valid", "certificate expired"} =>
           /\ failure' = "dates"
           /\ label' = "certificate not yet valid" <=> NotYet
    BY <2>2
  <2>5. label' \in Labels /\ (label' = "unknown authority" => failure' = "authority")
    BY <2>2 DEF Labels
  <2> QED
    BY <2>1, <2>2, <2>3, <2>4, <2>5 DEF LabelIsOfReading
<1>5. trusted' = << >> \/ ChainFromLeaf(trusted)'
  BY <1>1 DEF IInv, Label, ChainFromLeaf, IssuedBy
<1> QED
  BY <1>1, <1>2, <1>3, <1>4, <1>5 DEF IInv, Label

LEMMA SelectIssuerPreserves == IInv /\ SelectIssuer => IInv'
<1> SUFFICES ASSUME IInv, SelectIssuer PROVE IInv'
  OBVIOUS
<1> DEFINE chosen == Len(trusted) > 1 /\ IssuedBy(Leaf, trusted[2])
           first  == CHOOSE k \in Candidates : \A j \in Candidates : k <= j
<1>1. /\ pc' = "done"
      /\ issuer' = IF chosen THEN {trusted[2]}
                   ELSE IF Candidates # {} THEN {input.certs[first]} ELSE {}
      /\ UNCHANGED <<input, clock, datesTime, labelTime, failure, culprit, label, verified,
                     trusted>>
  BY DEF SelectIssuer, Select, Candidates
<1>2. Leaf' = Leaf /\ Sent' = Sent
  BY <1>1 DEF Leaf, Sent
<1>3. Candidates # {} => first \in Candidates
  <2>1. Candidates \subseteq Nat
    BY InputHasLeaf DEF Candidates, IInv
  <2> QED
    BY <2>1, FirstPosition
<1> HIDE DEF first
<1>4. IssuerWasSelected'
  <2>1. Candidates' = Candidates /\ (Len(trusted) > 1 /\ IssuedBy(Leaf, trusted[2]))' = chosen
    BY <1>1, <1>2 DEF Candidates, IssuedBy
  <2>2. \/ chosen /\ issuer' = {trusted[2]}
        \/ ~chosen /\ \E k \in Candidates : issuer' = {input.certs[k]}
        \/ ~chosen /\ Candidates = {} /\ issuer' = {}
    BY <1>1, <1>3
  <2> QED
    BY <1>1, <1>2, <2>1, <2>2 DEF IssuerWasSelected, IssuedBy
<1>5. ReadingsInOrder'
  BY <1>1 DEF IInv, ReadingsInOrder
<1>6. FailureHasCause' /\ LabelIsOfReading'
  <2>1. FailureHasCause'
    BY <1>1, CauseStays DEF IInv
  <2> QED
    BY <1>1, <2>1 DEF IInv, LabelIsOfReading
<1>7. trusted' = << >> \/ ChainFromLeaf(trusted)'
  BY <1>1, <1>2 DEF IInv, ChainFromLeaf, IssuedBy
<1> QED
  BY <1>1, <1>4, <1>5, <1>6, <1>7 DEF IInv

LEMMA TickPreserves == IInv /\ Tick => IInv'
<1> SUFFICES ASSUME IInv, Tick PROVE IInv'
  OBVIOUS
<1>1. Leaf' = Leaf /\ Sent' = Sent
  BY DEF Tick, Leaf, Sent
<1>2. ReadingsInOrder'
  BY VerifyAssumption DEF IInv, Tick, ReadingsInOrder
<1>3. FailureHasCause' /\ LabelIsOfReading'
  <2>1. FailureHasCause'
    BY CauseStays DEF IInv, Tick, FailureHasCause
  <2> QED
    BY <2>1 DEF IInv, Tick, LabelIsOfReading
<1>4. trusted' = << >> \/ ChainFromLeaf(trusted)'
  BY <1>1 DEF IInv, Tick, ChainFromLeaf, IssuedBy
<1> QED
  BY <1>2, <1>3, <1>4 DEF IInv, Tick

LEMMA StutterPreserves == IInv /\ UNCHANGED vars => IInv'
<1> SUFFICES ASSUME IInv, UNCHANGED vars PROVE IInv'
  OBVIOUS
<1>1. FailureHasCause'
  BY CauseStays DEF IInv, vars, FailureHasCause
<1> QED
  BY <1>1 DEF vars, IInv, ReadingsInOrder, LabelIsOfReading, ChainFromLeaf, IssuedBy, Leaf, Sent,
         IssuerWasSelected, Candidates

\* Each function and each tick of the clock keeps the invariant.
THEOREM InvariantHolds == Spec => []IInv
<1>1. IInv /\ [Next]_vars => IInv'
  BY VerifyLeafPreserves, VerifyChainPreserves, LabelPreserves, SelectIssuerPreserves,
     TickPreserves, StutterPreserves DEF Next, Done
<1> QED
  BY InitEstablishes, <1>1, PTL DEF Spec

-----------------------------------------------------------------------------
(***************************************************************************)
(* What follows from it.                                                   *)
(***************************************************************************)
\* Every variable has its type: at most one issuer is handed on, and it is a
\* certificate of the input or of the trust pool (chain.go:43-67).
THEOREM Types == Spec => []TypeOK
<1>1. IInv => TypeOK
  <2> SUFFICES ASSUME IInv PROVE TypeOK
    OBVIOUS
  <2>1. {clock, datesTime, labelTime} \subseteq 0..MaxTime
    BY VerifyAssumption DEF IInv, ReadingsInOrder
  <2>2. Len(trusted) <= MaxCerts + 1
    <3>1. CASE trusted = << >>
      BY <3>1, VerifyAssumption
    <3>2. CASE ChainFromLeaf(trusted)
      BY <3>2, TrustedIssuer, VerifyAssumption
    <3> QED
      BY <3>1, <3>2 DEF IInv
  <2>3. issuer = {} \/ \E c \in Sent \cup input.roots : issuer = {c}
    <3>1. CASE Len(trusted) > 1 /\ issuer = {trusted[2]}
      <4>1. ChainFromLeaf(trusted)
        BY <3>1 DEF IInv
      <4> QED
        BY <3>1, <4>1, TrustedIssuer
    <3>2. CASE \E k \in Candidates : issuer = {input.certs[k]}
      BY <3>2 DEF Candidates, Sent
    <3> QED
      BY <3>1, <3>2 DEF IInv, IssuerWasSelected
  <2>4. issuer \subseteq Sent \cup input.roots /\ Cardinality(issuer) <= 1
    <3>1. CASE issuer = {}
      <4>1. Cardinality(issuer) = 0
        BY <3>1, FS_EmptySet
      <4> QED
        BY <3>1, <4>1
    <3>2. ASSUME NEW c \in Sent \cup input.roots, issuer = {c}
          PROVE  issuer \subseteq Sent \cup input.roots /\ Cardinality(issuer) <= 1
      <4>1. Cardinality(issuer) = 1
        BY <3>2, FS_Singleton
      <4> QED
        BY <3>2, <4>1
    <3> QED
      BY <2>3, <3>1, <3>2
  <2>5. culprit \subseteq Sent \cup input.roots /\ (failure = "dates" <=> culprit # {})
    BY DatesOnTheWay DEF IInv, FailureHasCause, OutOfDates
  <2> QED
    BY <2>1, <2>2, <2>4, <2>5 DEF TypeOK, IInv, FailureHasCause, LabelIsOfReading
<1> QED
  BY <1>1, InvariantHolds, PTL

\* query.go:150-157: "not yet valid" is true, at both readings of the clock, of the
\* leaf or of an issuer above it; "expired" is, but for one that becomes valid
\* between the two; and "unknown authority" is said of a way that ends.
THEOREM LabelsFit == Spec => []LabelFits
<1>1. IInv => LabelFits
  <2> SUFFICES ASSUME IInv PROVE LabelFits
    OBVIOUS
  <2>1. clock \in Nat /\ datesTime \in Nat /\ labelTime \in Nat
    BY VerifyAssumption DEF IInv, ReadingsInOrder
  <2>2. ASSUME label \in {"certificate not yet valid", "certificate expired"}
        PROVE  \E c \in OnTheWay :
                  IF label = "certificate not yet valid"
                  THEN datesTime < c.notBefore /\ labelTime < c.notBefore
                  ELSE \/ datesTime > c.notAfter
                       \/ datesTime < c.notBefore /\ c.notBefore <= labelTime
    <3>1. /\ failure = "dates" /\ datesTime <= labelTime
          /\ label = "certificate not yet valid" <=> \E c \in culprit : labelTime < c.notBefore
      BY <2>2 DEF IInv, LabelIsOfReading
    <3>2. PICK c \in OnTheWay : culprit = {c} /\ ~InDates(c, datesTime)
      BY <3>1 DEF IInv, FailureHasCause, OutOfDates
    <3>3. c.notBefore \in Nat /\ c.notAfter \in Nat
      BY DatesOnTheWay DEF IInv
    <3>4. label = "certificate not yet valid" <=> labelTime < c.notBefore
      BY <3>1, <3>2
    <3>5. ~(c.notBefore <= datesTime /\ datesTime <= c.notAfter)
      BY <3>2 DEF InDates
    <3>6. CASE labelTime < c.notBefore
      <4>1. datesTime <= labelTime
        BY <3>1
      <4>2. datesTime < c.notBefore
        BY <2>1, <3>3, <3>6, <4>1
      <4> QED
        BY <3>4, <3>6, <4>2
    <3>7. CASE ~(labelTime < c.notBefore)
      <4>1. \/ datesTime > c.notAfter
            \/ datesTime < c.notBefore /\ c.notBefore <= labelTime
        BY <2>1, <3>3, <3>5, <3>7
      <4> QED
        BY <3>4, <3>7, <4>1
    <3> QED
      BY <3>6, <3>7
  <2>3. label = "unknown authority" => DeadEnd
    BY DEF IInv, LabelIsOfReading, FailureHasCause
  <2>4. /\ label = "certificate not yet valid" =>
              \E c \in OnTheWay : datesTime < c.notBefore /\ labelTime < c.notBefore
        /\ label = "certificate expired" =>
              \E c \in OnTheWay :
                 \/ datesTime > c.notAfter
                 \/ datesTime < c.notBefore /\ c.notBefore <= labelTime
    BY <2>2
  <2> QED
    BY <2>3, <2>4 DEF LabelFits
<1> QED
  BY <1>1, InvariantHolds, PTL

\* README, Revocation policy: issuers are selected by certificate relationships.
\* Whatever else the input holds and in whatever order, the issuer signed the
\* leaf, and none is missed.
THEOREM IssuersByRelationship == Spec => []IssuerByRelationship
<1>1. IInv => IssuerByRelationship
  <2> SUFFICES ASSUME IInv, pc = "done" PROVE IssuerByRelationship
    BY DEF IssuerByRelationship
  <2> DEFINE Known == Sent \cup {trusted[k] : k \in DOMAIN trusted}
             Signers == {c \in Known : c.subject = Leaf.issuer /\ c.key = Leaf.signedBy /\ c.ca}
  <2>1. \A c \in Known : c \in Signers <=> IssuedBy(Leaf, c)
    BY DEF IssuedBy
  <2> HIDE DEF Signers
  <2>2. Signers \subseteq Known
    BY DEF Signers
  <2>3. CASE Len(trusted) > 1 /\ IssuedBy(Leaf, trusted[2]) /\ issuer = {trusted[2]}
    <3>1. ChainFromLeaf(trusted)
      BY <2>3 DEF IInv
    <3>2. 2 \in DOMAIN trusted
      BY <3>1, <2>3, TrustedIssuer
    <3>3. trusted[2] \in Signers
      BY <3>2, <2>1, <2>3
    <3> QED
      BY <2>3, <3>3 DEF IssuerByRelationship, Signers
  <2>4. CASE \E k \in Candidates : issuer = {input.certs[k]}
    <3>1. PICK k \in Candidates : issuer = {input.certs[k]}
      BY <2>4
    <3>2. input.certs[k] \in Signers
      BY <3>1, <2>1 DEF Candidates, Sent
    <3> QED
      BY <3>1, <3>2 DEF IssuerByRelationship, Signers
  <2>5. CASE /\ ~(Len(trusted) > 1 /\ IssuedBy(Leaf, trusted[2]))
             /\ Candidates = {} /\ issuer = {}
    <3>1. \A c \in Sent : ~IssuedBy(Leaf, c)
      BY <2>5 DEF Sent, Candidates
    <3>2. \A k \in DOMAIN trusted : trusted[k] \in Sent
      <4>1. CASE trusted = << >>
        BY <4>1
      <4>2. CASE ChainFromLeaf(trusted)
        <5>1. Len(trusted) \in 1..(MaxCerts + 1) /\ ~(Len(trusted) > 1)
          BY <4>2, <2>5, TrustedIssuer
        <5>2. DOMAIN trusted = {1}
          <6>1. Len(trusted) = 1
            <7> DEFINE l == Len(trusted)
            <7>1. l \in 1..(MaxCerts + 1) /\ ~(l > 1) /\ MaxCerts \in Nat
              BY <5>1, VerifyAssumption
            <7> HIDE DEF l
            <7>2. l = 1
              BY <7>1
            <7> QED
              BY <7>2 DEF l
          <6>2. DOMAIN trusted = 1..1
            BY <6>1, <4>2, TrustedIssuer
          <6> QED
            BY <6>2
        <5> QED
          BY <5>2, <4>2, TrustedIssuer, InputHasLeaf DEF IInv
      <4> QED
        BY <4>1, <4>2 DEF IInv
    <3>3. Signers = {}
      BY <3>1, <3>2, <2>1, <2>2
    <3> QED
      BY <2>5, <3>3 DEF IssuerByRelationship, Signers
  <2> QED
    BY <2>3, <2>4, <2>5 DEF IInv, IssuerWasSelected
<1> QED
  BY <1>1, InvariantHolds, PTL

\* chain.go:43: revocation is asked of the issuer through which the leaf was
\* verified, whatever stands in the input.
THEOREM TrustedIssuerIsUsed == Spec => []TrustedIssuerUsed
<1>1. IInv => TrustedIssuerUsed
  <2> SUFFICES ASSUME IInv, pc = "done", Len(trusted) > 1 PROVE issuer = {trusted[2]}
    BY DEF TrustedIssuerUsed
  <2>1. ChainFromLeaf(trusted)
    BY DEF IInv
  <2>2. IssuedBy(Leaf, trusted[2])
    BY <2>1, TrustedIssuer
  <2> QED
    BY <2>2 DEF IInv, IssuerWasSelected
<1> QED
  BY <1>1, InvariantHolds, PTL

-----------------------------------------------------------------------------
(***************************************************************************)
(* The probes: the inductive invariant.                                    *)
(***************************************************************************)
\* The query waits for a connection.
Dialling == stage \in {"handshake", "dial_version", "dial_cipher"}

ProbeType ==
    /\ tlsVersions \in BOOLEAN /\ server \in Servers
    /\ stage \in {"handshake", "versions", "dial_version", "ciphers", "dial_cipher",
                  "late", "returned"}
    /\ ctx \in {"live", "done"} /\ version \in 1..5
    /\ outcome \in {"pending", "chain", "error"}
    /\ faulted \in BOOLEAN /\ lateDials \in 0..1
    /\ stage # "returned" => outcome = "pending"

\* What the search of a version has found are the first suites of the peer's
\* preference, and the others are still offered.
SearchInStep ==
    /\ version \in 1..3 /\ server[version] # << >>
    /\ ciphers \in Seq(Suites) /\ Len(ciphers) <= Len(server[version])
    /\ \A i \in 1..Len(ciphers) : ciphers[i] = server[version][i]
    /\ available \subseteq Suites
    /\ \A s \in Suites : s \in available <=> \A i \in 1..Len(ciphers) : ciphers[i] # s

\* One entry of the result: the first suites of a version that is done with.
Seen(entry, loop) ==
    /\ entry = Found(entry.version, entry.ciphers)
    /\ entry.version \in 1..4 /\ entry.version < loop
    /\ server[entry.version] # << >>
    /\ entry.ciphers \in Seq(Suites \cup {Suite13})
    /\ Len(entry.ciphers) <= Len(server[entry.version])
    /\ \A i \in 1..Len(entry.ciphers) : entry.ciphers[i] = server[entry.version][i]

SeenSoFar ==
    /\ supported \in Seq([version : 1..4, ciphers : Seq(Suites \cup {Suite13})])
    /\ \A k \in 1..Len(supported) : Seen(supported[k], version)
    /\ \A k \in 1..Len(supported) : \A j \in 1..(k - 1) :
          supported[j].version < supported[k].version

\* As long as nothing has gone wrong nothing has been left out.
WholeSoFar ==
    ctx = "live" /\ ~faulted /\ stage \notin {"handshake", "returned"} =>
        /\ \A k \in 1..Len(supported) : supported[k].ciphers = server[supported[k].version]
        /\ \A v \in 1..(version - 1) : server[v] # << >> =>
               \E k \in 1..Len(supported) : supported[k].version = v

\* Once the context is done the query begins no other connection.
ProbeInv ==
    /\ ProbeType
    /\ stage = "handshake" => version = 1 /\ supported = << >>
    /\ stage = "dial_version" => version \in 1..4
    /\ stage = "late" => version = 5 \/ ctx = "done"
    /\ stage \in {"ciphers", "dial_cipher"} => SearchInStep
    /\ SeenSoFar
    /\ WholeSoFar
    /\ ctx = "live" \/ Dialling \/ stage = "ciphers" => lateDials = 0

-----------------------------------------------------------------------------
\* A peer prefers each suite once, and TLS 1.3 is spoken with its own.
LEMMA Peers ==
    ASSUME ProbeAssumption, server \in Servers
    PROVE  /\ \A v \in 1..3 :
                 /\ server[v] \in Seq(Suites)
                 /\ \A i, j \in 1..Len(server[v]) : i # j => server[v][i] # server[v][j]
           /\ server[4] = << >> \/ server[4] = <<Suite13>>
<1>1. \A p \in Preference :
         /\ p \in Seq(Suites)
         /\ \A i, j \in 1..Len(p) : i # j => p[i] # p[j]
  <2> SUFFICES ASSUME NEW p \in Preference
               PROVE  /\ p \in Seq(Suites)
                      /\ \A i, j \in 1..Len(p) : i # j => p[i] # p[j]
    OBVIOUS
  <2>1. PICK s \in SUBSET Suites : p \in SetToSeqs(s)
    BY DEF Preference, SetToAllKPermutations
  <2>2. Cardinality(s) \in Nat
    BY FS_Subset, FS_CardinalityType DEF ProbeAssumption
  <2>3. /\ p \in [1..Cardinality(s) -> s]
        /\ \A i, j \in 1..Cardinality(s) : i # j => p[i] # p[j]
    BY <2>1 DEF SetToSeqs
  <2>4. p \in Seq(Suites) /\ Len(p) = Cardinality(s)
    BY <2>2, <2>3
  <2> QED
    BY <2>3, <2>4
<1>2. \A v \in 1..4 : /\ server[v] \in Preference \cup {<<Suite13>>}
                      /\ server[v] # << >> => (v = 4 <=> server[v] = <<Suite13>>)
  BY DEF Servers, Versions, TLS13
<1>3. \A v \in 1..3 : server[v] \in Preference \/ server[v] = << >>
  BY <1>2
<1>4. ASSUME NEW v \in 1..3
      PROVE  /\ server[v] \in Seq(Suites)
             /\ \A i, j \in 1..Len(server[v]) : i # j => server[v][i] # server[v][j]
  <2>1. CASE server[v] \in Preference
    BY <1>1, <2>1
  <2>2. CASE server[v] = << >>
    BY <2>2
  <2> QED
    BY <1>3, <2>1, <2>2
<1>5. server[4] = << >> \/ server[4] = <<Suite13>>
  BY <1>2
<1> QED
  BY <1>4, <1>5

\* The peer picks the first suite after those that have been found.
LEMMA NextOfPreference ==
    ASSUME ProbeAssumption, ProbeType, SearchInStep, Acceptable # {}
    PROVE  /\ Len(ciphers) + 1 <= Len(server[version])
           /\ Negotiated = server[version][Len(ciphers) + 1]
           /\ Negotiated \in Suites
<1> DEFINE next == Len(ciphers) + 1
<1>1. /\ server[version] \in Seq(Suites)
      /\ \A i, j \in 1..Len(server[version]) : i # j => server[version][i] # server[version][j]
  BY Peers DEF ProbeType, SearchInStep
<1>2. next \in Nat /\ Len(server[version]) \in Nat
  BY <1>1 DEF SearchInStep
<1>3. \A k \in Acceptable : k \in 1..Len(server[version]) /\ k >= next
  BY <1>1, <1>2 DEF Acceptable, SearchInStep
<1>4. next \in Acceptable
  <2>1. next \in 1..Len(server[version])
    BY <1>2, <1>3
  <2>2. server[version][next] \in Suites
    BY <1>1, <2>1
  <2>3. \A i \in 1..Len(ciphers) : ciphers[i] # server[version][next]
    BY <1>1, <1>2, <2>1 DEF SearchInStep
  <2> QED
    BY <2>1, <2>2, <2>3 DEF Acceptable, SearchInStep
<1>5. Min(Acceptable) = next
  BY <1>2, <1>3, <1>4 DEF Min
<1> QED
  BY <1>1, <1>2, <1>3, <1>4, <1>5 DEF Negotiated

\* When nothing is offered any more, or nothing that the peer takes, the peer's whole
\* preference has been found.
LEMMA NothingLeft ==
    ASSUME ProbeAssumption, ProbeType, SearchInStep, Acceptable = {}
    PROVE  ciphers = server[version]
<1>1. /\ server[version] \in Seq(Suites)
      /\ \A i, j \in 1..Len(server[version]) : i # j => server[version][i] # server[version][j]
  BY Peers DEF ProbeType, SearchInStep
<1>2. Len(ciphers) \in Nat /\ Len(server[version]) \in Nat
  BY <1>1 DEF SearchInStep
<1>3. Len(ciphers) = Len(server[version])
  <2> SUFFICES ASSUME Len(ciphers) < Len(server[version])
               PROVE  FALSE
    BY <1>2 DEF SearchInStep
  <2> DEFINE next == Len(ciphers) + 1
  <2>1. next \in 1..Len(server[version])
    BY <1>2
  <2>2. server[version][next] \in Suites
    BY <1>1, <2>1
  <2>3. \A i \in 1..Len(ciphers) : ciphers[i] # server[version][next]
    BY <1>1, <1>2, <2>1 DEF SearchInStep
  <2> QED
    BY <2>1, <2>2, <2>3 DEF Acceptable, SearchInStep
<1> QED
  BY <1>1, <1>3 DEF SearchInStep

\* A query starts at the first version with nothing seen.
LEMMA ProbeBegins == QueryInit => ProbeInv
<1> SUFFICES ASSUME QueryInit
             PROVE  ProbeInv
  OBVIOUS
<1>1. ProbeType
  <2>1. faulted \in BOOLEAN /\ tlsVersions \in BOOLEAN
    BY Zenon DEF QueryInit
  <2>2. server \in Servers /\ version \in 1..5 /\ lateDials \in 0..1
    BY DEF QueryInit
  <2> QED
    BY <2>1, <2>2 DEF QueryInit, ProbeType
<1>2. SeenSoFar
  BY DEF QueryInit, SeenSoFar
<1> QED
  BY <1>1, <1>2 DEF QueryInit, ProbeInv, WholeSoFar


\* Nothing is unsaid while the search goes on.
LEMMA SeenAgain ==
    ASSUME SeenSoFar, UNCHANGED <<supported, server>>,
           version \in Nat, version' \in Nat, version <= version'
    PROVE  SeenSoFar'
  BY DEF SeenSoFar, Seen, Found

\* An entry for the version the loop is at, of the first suites of its preference.
LEMMA OneMoreSeen ==
    ASSUME ProbeAssumption, ProbeType, SeenSoFar, NEW list \in Seq(Suites \cup {Suite13}),
           version \in 1..4, server[version] # << >>,
           Len(list) <= Len(server[version]),
           \A i \in 1..Len(list) : list[i] = server[version][i],
           supported' = Append(supported, Found(version, list)),
           version' = version + 1, UNCHANGED server
    PROVE  SeenSoFar'
<1> DEFINE entry == Found(version, list)
<1>1. /\ entry \in [version : 1..4, ciphers : Seq(Suites \cup {Suite13})]
      /\ entry.version = version /\ entry.ciphers = list
  BY DEF Found
<1>2. Seen(entry, version')
  BY <1>1 DEF Seen, Found, ProbeType
<1> HIDE DEF entry
<1>3. supported \in Seq([version : 1..4, ciphers : Seq(Suites \cup {Suite13})])
  BY DEF SeenSoFar
<1>4. /\ supported' = Append(supported, entry)
      /\ Len(supported') = Len(supported) + 1 /\ Len(supported) \in Nat
      /\ \A k \in 1..Len(supported) : supported'[k] = supported[k]
      /\ supported'[Len(supported) + 1] = entry
      /\ supported' \in Seq([version : 1..4, ciphers : Seq(Suites \cup {Suite13})])
  BY <1>1, <1>3 DEF entry
<1>5. \A k \in 1..Len(supported) :
         Seen(supported[k], version') /\ supported[k].version < version
  BY DEF SeenSoFar, Seen, ProbeType
<1>6. ASSUME NEW k \in 1..Len(supported')
      PROVE  Seen(supported'[k], version')
  <2>1. CASE k = Len(supported) + 1
    BY <1>2, <1>4, <2>1
  <2>2. CASE k # Len(supported) + 1
    <3>1. k \in 1..Len(supported) /\ supported'[k] = supported[k]
      BY <1>4, <2>2
    <3> QED
      BY <1>5, <3>1
  <2> QED
    BY <2>1, <2>2
<1>7. \A k \in 1..Len(supported') : \A j \in 1..(k - 1) :
         supported'[j].version < supported'[k].version
  <2> SUFFICES ASSUME NEW k \in 1..Len(supported'), NEW j \in 1..(k - 1)
               PROVE  supported'[j].version < supported'[k].version
    OBVIOUS
  <2>1. j \in 1..Len(supported) /\ supported'[j] = supported[j]
    BY <1>4
  <2>2. CASE k = Len(supported) + 1
    BY <1>1, <1>4, <1>5, <2>1, <2>2
  <2>3. CASE k # Len(supported) + 1
    <3>1. k \in 1..Len(supported) /\ supported'[k] = supported[k]
      BY <1>4, <2>3
    <3> QED
      BY <2>1, <3>1 DEF SeenSoFar
  <2> QED
    BY <2>2, <2>3
<1>8. \A k \in 1..Len(supported') : Seen(supported[k], version)'
  BY <1>6 DEF Seen
<1> QED
  BY <1>4, <1>7, <1>8 DEF SeenSoFar

\* The entry is whole if nothing has gone wrong, and so is what has been seen.
LEMMA OneMoreWhole ==
    ASSUME ProbeType, SeenSoFar, WholeSoFar, NEW list,
           stage \notin {"handshake", "returned"}, ctx = "live", ~faulted, version \in 1..4,
           list = server[version],
           supported' = Append(supported, Found(version, list)),
           version' = version + 1, UNCHANGED server
    PROVE  WholeSoFar'
<1> DEFINE entry == Found(version, list)
<1>1. entry.version = version /\ entry.ciphers = server[version]
  BY DEF Found
<1> HIDE DEF entry
<1>2. /\ supported' = Append(supported, entry) /\ Len(supported) \in Nat
      /\ Len(supported') = Len(supported) + 1
      /\ \A k \in 1..Len(supported) : supported'[k] = supported[k]
      /\ supported'[Len(supported) + 1] = entry
  BY DEF entry, SeenSoFar
<1> QED
  <2>1. /\ \A k \in 1..Len(supported) : supported[k].ciphers = server[supported[k].version]
        /\ \A v \in 1..(version - 1) : server[v] # << >> =>
               \E k \in 1..Len(supported) : supported[k].version = v
    BY DEF WholeSoFar
  <2>2. \A k \in 1..Len(supported') : supported'[k].ciphers = server[supported'[k].version]
    <3> SUFFICES ASSUME NEW k \in 1..Len(supported')
                 PROVE  supported'[k].ciphers = server[supported'[k].version]
      OBVIOUS
    <3>1. k = Len(supported) + 1 \/ k \in 1..Len(supported)
      BY <1>2
    <3> QED
      BY <1>1, <1>2, <2>1, <3>1
  <2>3. ASSUME NEW v \in 1..version, server[v] # << >>
        PROVE  \E k \in 1..Len(supported') : supported'[k].version = v
    <3>1. CASE v = version
      BY <1>1, <1>2, <3>1
    <3>2. CASE v # version
      <4>1. PICK k \in 1..Len(supported) : supported[k].version = v
        BY <2>1, <2>3, <3>2
      <4> QED
        BY <1>2, <4>1
    <3> QED
      BY <3>1, <3>2
  <2>4. server' = server /\ 1..(version' - 1) = 1..version
    OBVIOUS
  <2>5. \A v \in 1..(version' - 1) : server'[v] # << >> =>
           \E k \in 1..Len(supported') : supported'[k].version = v
    BY <2>3, <2>4
  <2> QED
    BY <2>2, <2>4, <2>5 DEF WholeSoFar

-----------------------------------------------------------------------------
(***************************************************************************)
(* The probes: one lemma per step.                                         *)
(***************************************************************************)
\* The first handshake decides whether there is anything to probe.
LEMMA Handshakes ==
    ProbeInv /\ (HandshakeSucceeds \/ HandshakeFails) => ProbeInv'
<1> SUFFICES ASSUME ProbeInv, HandshakeSucceeds \/ HandshakeFails
             PROVE  ProbeInv'
  OBVIOUS
<1>1. /\ UNCHANGED <<tlsVersions, server, ctx, version, supported>>
      /\ stage = "handshake" /\ version = 1 /\ supported = << >> /\ lateDials = 0
      /\ stage' \in {"versions", "returned"}
  BY DEF ProbeInv, Dialling, HandshakeSucceeds, HandshakeFails
<1>2. /\ outcome' \in {"pending", "chain", "error"}
      /\ stage' # "returned" => outcome' = "pending"
  BY DEF ProbeInv, ProbeType, HandshakeSucceeds, HandshakeFails
<1>3. lateDials' \in 0..1 /\ (ctx' = "live" => lateDials' = 0)
  BY <1>1 DEF HandshakeSucceeds, HandshakeFails, Ended, Undisturbed
<1>4. faulted' \in BOOLEAN
  BY Zenon DEF ProbeInv, ProbeType, HandshakeSucceeds, HandshakeFails, Ended,
               Undisturbed
<1>5. SeenSoFar'
  BY <1>1, SeenAgain DEF ProbeInv
<1>6. WholeSoFar'
  BY <1>1 DEF WholeSoFar
<1>7. ProbeType'
  BY <1>1, <1>2, <1>3, <1>4 DEF ProbeInv, ProbeType
<1> QED
  BY <1>1, <1>3, <1>5, <1>6, <1>7 DEF ProbeInv, Dialling

\* Another version is begun only while the context is live.
LEMMA NextVersions == ProbeInv /\ NextVersion => ProbeInv'
<1> SUFFICES ASSUME ProbeInv, NextVersion
             PROVE  ProbeInv'
  OBVIOUS
<1>1. /\ UNCHANGED <<tlsVersions, server, ctx, version, available, ciphers, supported, outcome>>
      /\ UNCHANGED <<faulted, lateDials>>
      /\ stage = "versions"
      /\ stage' = IF version \notin 1..4 \/ ctx = "done" THEN "late" ELSE "dial_version"
  BY DEF NextVersion, Undisturbed, Versions
<1>2. ProbeType' /\ (stage' = "late" => version' = 5 \/ ctx' = "done")
  BY <1>1 DEF ProbeInv, ProbeType
<1>3. SeenSoFar' /\ WholeSoFar'
  BY <1>1 DEF ProbeInv, SeenSoFar, Seen, WholeSoFar
<1> QED
  BY <1>1, <1>2, <1>3 DEF ProbeInv, ProbeType, Dialling

\* TLS 1.3 is reported at once, the search of an older version begins empty.
LEMMA VersionsSucceed == ProbeAssumption /\ ProbeInv /\ VersionSucceeds => ProbeInv'
<1> SUFFICES ASSUME ProbeAssumption, ProbeInv, VersionSucceeds
             PROVE  ProbeInv'
  OBVIOUS
<1>1. /\ UNCHANGED <<tlsVersions, server, ctx, outcome, faulted, lateDials>>
      /\ stage = "dial_version" /\ ctx = "live" /\ version \in 1..4 /\ server[version] # << >>
      /\ lateDials = 0
  BY DEF VersionSucceeds, Undisturbed, ProbeInv, Dialling
<1>2. CASE version = 4
  <2>1. server[4] = <<Suite13>>
    BY <1>1, <1>2, Peers DEF ProbeInv, ProbeType
  <2> DEFINE list == <<Suite13>>
  <2>2. /\ list \in Seq(Suites \cup {Suite13}) /\ Len(list) = 1
        /\ list = server[version] /\ server[version][1] = Suite13
    BY <1>2, <2>1
  <2>3. /\ supported' = Append(supported, Found(version, list))
        /\ version' = version + 1 /\ stage' = "versions"
    BY <1>2, <2>2 DEF VersionSucceeds, TLS13
  <2> HIDE DEF list
  <2>4. SeenSoFar'
    BY <1>1, <2>2, <2>3, OneMoreSeen DEF ProbeInv
  <2>5. WholeSoFar'
    <3>1. CASE ~faulted
      BY <1>1, <2>2, <2>3, <3>1, OneMoreWhole DEF ProbeInv
    <3>2. CASE faulted
      BY <1>1, <3>2 DEF WholeSoFar
    <3> QED
      BY <3>1, <3>2
  <2>6. ProbeType'
    BY <1>1, <1>2, <2>3 DEF ProbeInv, ProbeType
  <2> QED
    BY <1>1, <1>2, <2>3, <2>4, <2>5, <2>6 DEF ProbeInv, Dialling
<1>3. CASE version # 4
  <2>1. /\ available' = Suites /\ ciphers' = << >> /\ stage' = "ciphers"
        /\ UNCHANGED <<supported, version>>
    BY <1>3 DEF VersionSucceeds, TLS13
  <2>2. SearchInStep'
    <3>1. server[version] \in Seq(Suites)
      BY <1>1, <1>3, Peers DEF ProbeInv, ProbeType
    <3> QED
      BY <1>1, <1>3, <2>1, <3>1 DEF SearchInStep
  <2>3. SeenSoFar' /\ WholeSoFar'
    BY <1>1, <2>1 DEF ProbeInv, SeenSoFar, Seen, WholeSoFar
  <2>4. ProbeType'
    BY <1>1, <2>1 DEF ProbeInv, ProbeType
  <2> QED
    BY <1>1, <2>1, <2>2, <2>3, <2>4 DEF ProbeInv
<1> QED
  BY <1>2, <1>3

\* A version that fails is passed over, and is missed only if the peer speaks it.
LEMMA VersionsFail == ProbeInv /\ VersionFails => ProbeInv'
<1> SUFFICES ASSUME ProbeInv, VersionFails
             PROVE  ProbeInv'
  OBVIOUS
<1>1. /\ UNCHANGED <<tlsVersions, server, ctx, available, ciphers, supported, outcome>>
      /\ stage = "dial_version" /\ stage' = "versions" /\ version' = version + 1
      /\ version \in 1..4 /\ lateDials = 0
      /\ faulted' = (faulted \/ (server[version] # << >> /\ ctx = "live"))
      /\ lateDials' = IF ctx = "done" THEN lateDials + 1 ELSE lateDials
  BY DEF VersionFails, Ended, ProbeInv, Dialling
<1>2. SeenSoFar'
  BY <1>1, SeenAgain DEF ProbeInv
<1>3. faulted' \in BOOLEAN
  BY <1>1, Zenon DEF ProbeInv, ProbeType
<1>4. WholeSoFar'
  <2> SUFFICES ASSUME ctx = "live", ~faulted'
               PROVE  WholeSoFar'
    BY <1>1 DEF WholeSoFar
  <2>1. ~faulted /\ server[version] = << >>
    BY <1>1
  <2>2. \A v \in 1..version : v \in 1..(version - 1) \/ v = version
    BY <1>1
  <2> QED
    BY <1>1, <2>1, <2>2 DEF WholeSoFar, ProbeInv
<1>5. ProbeType'
  BY <1>1, <1>3 DEF ProbeInv, ProbeType
<1> QED
  BY <1>1, <1>2, <1>4, <1>5 DEF ProbeInv, Dialling

\* The list of a version becomes an entry; it is whole unless something has gone wrong.
LEMMA ListReturned ==
    ASSUME ProbeAssumption, ProbeInv, SearchInStep, CiphersDone,
           stage \in {"ciphers", "dial_cipher"},
           UNCHANGED <<tlsVersions, server, ctx, outcome>>,
           faulted' \in BOOLEAN, lateDials' \in 0..1,
           faulted => faulted', ctx = "live" => lateDials' = 0,
           ctx = "live" /\ ~faulted' => ciphers = server[version]
    PROVE  ProbeInv'
<1>1. /\ supported' = Append(supported, Found(version, ciphers))
      /\ version' = version + 1 /\ stage' = "versions" /\ version \in 1..3
  BY DEF CiphersDone, SearchInStep
<1>2. SeenSoFar'
  <2>1. ciphers \in Seq(Suites \cup {Suite13})
    BY DEF SearchInStep
  <2> QED
    BY <1>1, <2>1, OneMoreSeen DEF ProbeInv, SearchInStep
<1>3. WholeSoFar'
  <2>1. CASE ctx = "live" /\ ~faulted'
    BY <1>1, <2>1, OneMoreWhole DEF ProbeInv
  <2>2. CASE ~(ctx = "live" /\ ~faulted')
    BY <2>2 DEF WholeSoFar
  <2> QED
    BY <2>1, <2>2
<1>4. ProbeType'
  BY <1>1 DEF ProbeInv, ProbeType
<1> QED
  BY <1>1, <1>2, <1>3, <1>4 DEF ProbeInv, Dialling

\* The search of a version ends when every suite is found or the context is done.
LEMMA NextCiphers == ProbeAssumption /\ ProbeInv /\ NextCipher => ProbeInv'
<1> SUFFICES ASSUME ProbeAssumption, ProbeInv, NextCipher
             PROVE  ProbeInv'
  OBVIOUS
<1>1. /\ UNCHANGED <<tlsVersions, server, ctx, available, ciphers, outcome, faulted, lateDials>>
      /\ stage = "ciphers" /\ SearchInStep /\ lateDials = 0
  BY DEF NextCipher, Undisturbed, ProbeInv
<1>2. CASE available = {} \/ ctx = "done"
  <2>1. CiphersDone
    BY <1>2 DEF NextCipher
  <2>2. ctx = "live" => Acceptable = {}
    BY <1>2 DEF Acceptable
  <2>3. ctx = "live" => ciphers = server[version]
    BY <1>1, <2>2, NothingLeft DEF ProbeInv
  <2>4. faulted' \in BOOLEAN /\ (faulted => faulted')
    BY <1>1, Zenon DEF ProbeInv, ProbeType
  <2> QED
    BY <1>1, <2>1, <2>3, <2>4, ListReturned
<1>3. CASE ~(available = {} \/ ctx = "done")
  <2>1. stage' = "dial_cipher" /\ UNCHANGED <<supported, version>>
    BY <1>3 DEF NextCipher
  <2>2. SeenSoFar' /\ WholeSoFar' /\ SearchInStep'
    BY <1>1, <2>1 DEF ProbeInv, SeenSoFar, Seen, WholeSoFar, SearchInStep
  <2>3. ProbeType'
    BY <1>1, <2>1 DEF ProbeInv, ProbeType
  <2> QED
    BY <1>1, <2>1, <2>2, <2>3 DEF ProbeInv
<1> QED
  BY <1>2, <1>3

\* What is negotiated is the next of the preference.
LEMMA CiphersSucceed == ProbeAssumption /\ ProbeInv /\ CipherSucceeds => ProbeInv'
<1> SUFFICES ASSUME ProbeAssumption, ProbeInv, CipherSucceeds
             PROVE  ProbeInv'
  OBVIOUS
<1>1. /\ UNCHANGED <<tlsVersions, server, ctx, version, supported, outcome, faulted, lateDials>>
      /\ stage = "dial_cipher" /\ stage' = "ciphers" /\ SearchInStep /\ lateDials = 0
      /\ ciphers' = Append(ciphers, Negotiated)
      /\ available' = available \ {Negotiated}
      /\ Acceptable # {}
  BY DEF CipherSucceeds, Undisturbed, ProbeInv, Dialling
<1>2. /\ Len(ciphers) + 1 <= Len(server[version])
      /\ Negotiated = server[version][Len(ciphers) + 1]
      /\ Negotiated \in Suites
  BY <1>1, NextOfPreference DEF ProbeInv
<1>3. /\ ciphers' \in Seq(Suites) /\ Len(ciphers') = Len(ciphers) + 1 /\ Len(ciphers) \in Nat
      /\ \A i \in 1..Len(ciphers) : ciphers'[i] = ciphers[i]
      /\ ciphers'[Len(ciphers) + 1] = Negotiated
  BY <1>1, <1>2 DEF SearchInStep
<1>4. \A i \in 1..Len(ciphers') : i \in 1..Len(ciphers) \/ i = Len(ciphers) + 1
  BY <1>3
<1>5. ASSUME NEW i \in 1..Len(ciphers')
      PROVE  ciphers'[i] = server[version][i]
  <2>1. CASE i \in 1..Len(ciphers)
    BY <1>1, <1>3, <2>1 DEF SearchInStep
  <2>2. CASE i = Len(ciphers) + 1
    BY <1>2, <1>3, <2>2
  <2> QED
    BY <1>4, <2>1, <2>2
<1>6. \A s \in Suites : s \in available' <=> \A i \in 1..Len(ciphers') : ciphers'[i] # s
  <2> SUFFICES ASSUME NEW s \in Suites
               PROVE  s \in available' <=> \A i \in 1..Len(ciphers') : ciphers'[i] # s
    OBVIOUS
  <2>1. s \in available' <=> s \in available /\ s # Negotiated
    BY <1>1
  <2>2. (\A i \in 1..Len(ciphers') : ciphers'[i] # s)
           <=> (\A i \in 1..Len(ciphers) : ciphers[i] # s) /\ s # Negotiated
    BY <1>3, <1>4
  <2> QED
    BY <1>1, <2>1, <2>2 DEF SearchInStep
<1>7. SearchInStep'
  BY <1>1, <1>2, <1>3, <1>5, <1>6 DEF SearchInStep
<1>8. SeenSoFar' /\ WholeSoFar' /\ ProbeType'
  BY <1>1 DEF ProbeInv, ProbeType, SeenSoFar, Seen, WholeSoFar
<1> QED
  BY <1>1, <1>7, <1>8 DEF ProbeInv

\* A connection that fails ends the search, and hides what is left unless that is nothing.
LEMMA CiphersFail == ProbeAssumption /\ ProbeInv /\ CipherFails => ProbeInv'
<1> SUFFICES ASSUME ProbeAssumption, ProbeInv, CipherFails
             PROVE  ProbeInv'
  OBVIOUS
<1>1. /\ UNCHANGED <<tlsVersions, server, ctx, available, ciphers, outcome>>
      /\ stage = "dial_cipher" /\ SearchInStep /\ lateDials = 0 /\ CiphersDone
      /\ faulted' = (faulted \/ (Acceptable # {} /\ ctx = "live"))
      /\ lateDials' = IF ctx = "done" THEN lateDials + 1 ELSE lateDials
  BY DEF CipherFails, Ended, ProbeInv, Dialling
<1>2. faulted' \in BOOLEAN /\ (faulted => faulted')
  BY <1>1, Zenon DEF ProbeInv, ProbeType
<1>3. ctx = "live" /\ ~faulted' => Acceptable = {}
  BY <1>1
<1>4. ctx = "live" /\ ~faulted' => ciphers = server[version]
  BY <1>1, <1>3, NothingLeft DEF ProbeInv
<1>5. lateDials' \in 0..1 /\ (ctx = "live" => lateDials' = 0)
  BY <1>1
<1> QED
  BY <1>1, <1>2, <1>4, <1>5, ListReturned

\* The look at the context after the probes changes nothing of what was seen.
LEMMA LateChecks == ProbeInv /\ LateCheck => ProbeInv'
<1> SUFFICES ASSUME ProbeInv, LateCheck
             PROVE  ProbeInv'
  OBVIOUS
<1>1. /\ UNCHANGED <<tlsVersions, server, ctx, version, supported, faulted, lateDials>>
      /\ stage = "late" /\ stage' = "returned" /\ outcome' \in {"chain", "error"}
  BY DEF LateCheck, Undisturbed
<1>2. SeenSoFar' /\ WholeSoFar' /\ ProbeType'
  BY <1>1 DEF ProbeInv, ProbeType, SeenSoFar, Seen, WholeSoFar
<1> QED
  BY <1>1, <1>2 DEF ProbeInv, Dialling

\* The deadline or Ctrl-C.
LEMMA ContextEnds == ProbeInv /\ ContextDone => ProbeInv'
<1> SUFFICES ASSUME ProbeInv, ContextDone
             PROVE  ProbeInv'
  OBVIOUS
<1>1. /\ UNCHANGED <<tlsVersions, server, stage, version, available, ciphers, supported,
                     outcome, faulted, lateDials>>
      /\ ctx = "live" /\ ctx' = "done"
  BY DEF ContextDone, Undisturbed
<1>2. SeenSoFar' /\ WholeSoFar' /\ ProbeType' /\ (SearchInStep => SearchInStep')
  BY <1>1 DEF ProbeInv, ProbeType, SeenSoFar, Seen, WholeSoFar, SearchInStep
<1> QED
  BY <1>1, <1>2 DEF ProbeInv, Dialling

\* Nothing happens.
LEMMA ProbeStutters == ProbeInv /\ UNCHANGED queryVars => ProbeInv'
<1> SUFFICES ASSUME ProbeInv, UNCHANGED queryVars
             PROVE  ProbeInv'
  OBVIOUS
<1>1. UNCHANGED <<tlsVersions, server, stage, ctx, version, available, ciphers, supported,
                  outcome, faulted, lateDials>>
  BY DEF queryVars
<1>2. SeenSoFar' /\ WholeSoFar' /\ ProbeType' /\ (SearchInStep => SearchInStep')
  BY <1>1 DEF ProbeInv, ProbeType, SeenSoFar, Seen, WholeSoFar, SearchInStep
<1> QED
  BY <1>1, <1>2 DEF ProbeInv, Dialling

\* Every step of a query, a stutter included.
LEMMA ProbeStep == ProbeAssumption /\ ProbeInv /\ [QueryNext]_queryVars => ProbeInv'
<1>1. Returned => UNCHANGED queryVars
  BY DEF Returned
<1> QED
  BY <1>1, Handshakes, NextVersions, VersionsSucceed, VersionsFail, NextCiphers, CiphersSucceed,
     CiphersFail, LateChecks, ContextEnds, ProbeStutters DEF QueryNext, QueryStep

-----------------------------------------------------------------------------
(***************************************************************************)
(* The probes: the theorems.                                               *)
(***************************************************************************)
\* The invariant holds of every query.
THEOREM ProbeInvariance == QuerySpec => []ProbeInv
<1>1. ProbeInv /\ [QueryNext]_queryVars => ProbeInv'
  BY ProbeStep, ProbeAssumption
<1>2. QueryInit => ProbeInv
  BY ProbeBegins, ProbeAssumption
<1> QED
  BY <1>1, <1>2, PTL DEF QuerySpec

\* Whatever fails and whenever the context ends, probeTLSVersions and probeCipherSuites
\* (dial.go:53-140) report no version that the peer does not speak, versions in
\* order and once, and of each the first suites of the peer's preference: README's
\* "results reflect observed negotiation order".
THEOREM ReportsAreObserved == QuerySpec => []ReportsWhatWasSeen
<1>1. ASSUME ProbeInv
      PROVE  ReportsWhatWasSeen
  <2> SUFFICES ASSUME NEW k \in 1..Len(supported)
               PROVE  /\ server[supported[k].version] # << >>
                      /\ IsPrefix(supported[k].ciphers, server[supported[k].version])
                      /\ \A j \in 1..(k - 1) : supported[j].version < supported[k].version
    BY DEF ReportsWhatWasSeen
  <2>1. Seen(supported[k], version)
        /\ \A j \in 1..(k - 1) : supported[j].version < supported[k].version
    BY <1>1 DEF ProbeInv, SeenSoFar
  <2> DEFINE list == supported[k].ciphers
             preference == server[supported[k].version]
  <2>2. /\ list \in Seq(Suites \cup {Suite13}) /\ Len(list) <= Len(preference)
        /\ \A i \in 1..Len(list) : list[i] = preference[i]
    BY <2>1 DEF Seen
  <2>3. SubSeq(list, 1, Len(list)) = SubSeq(preference, 1, Len(list))
    BY <2>2
  <2> QED
    BY <2>1, <2>2, <2>3 DEF Seen, IsPrefix
<1> QED
  BY <1>1, ProbeInvariance, PTL

\* The safety half of StopsInTime: once the context is done at most one more
\* connection ends, whatever is left to probe (dial.go:66, dial.go:112).
THEOREM OneLateConnection == QuerySpec => [](lateDials <= 1)
<1>1. ProbeInv => lateDials <= 1
  BY DEF ProbeInv, ProbeType
<1> QED
  BY <1>1, ProbeInvariance, PTL

\* What is returned as complete is complete.
LEMMA ChainIsWhole ==
    ASSUME ProbeAssumption, ProbeInv, stage = "late", ctx = "live", ~faulted
    PROVE  ToSet(supported) = Capability
<1>1. version = 5 /\ SeenSoFar /\ WholeSoFar
  BY DEF ProbeInv
<1>2. \A k \in 1..Len(supported) :
         /\ supported[k].version \in 1..4 /\ server[supported[k].version] # << >>
         /\ supported[k] = Found(supported[k].version, server[supported[k].version])
  BY <1>1 DEF SeenSoFar, Seen, WholeSoFar
<1>3. \A v \in 1..4 : server[v] # << >> =>
         \E k \in 1..Len(supported) : supported[k] = Found(v, server[v])
  BY <1>1, <1>2 DEF WholeSoFar
<1>4. DOMAIN supported = 1..Len(supported)
  BY <1>1 DEF SeenSoFar
<1>5. ToSet(supported) = {supported[k] : k \in 1..Len(supported)}
  BY <1>4 DEF ToSet
<1>6. \A x : x \in Capability <=> \E v \in 1..4 : server[v] # << >> /\ x = Found(v, server[v])
  BY DEF Capability, Versions
<1>7. ASSUME NEW k \in 1..Len(supported)
      PROVE  supported[k] \in Capability
  BY <1>2, <1>6
<1>8. ASSUME NEW x \in Capability
      PROVE  \E k \in 1..Len(supported) : x = supported[k]
  BY <1>3, <1>6
<1> QED
  BY <1>5, <1>7, <1>8

\* What the worker sees of the query.
Answer ==
    IF outcome # "chain" THEN outcome
    ELSE IF tlsVersions /\ ~faulted /\ ToSet(supported) # Capability
    THEN "partial" ELSE "whole"

\* The steps of ContextCall in these terms.
LEMMA CallOfQuery ==
    /\ Call!Init <=> ctx \in {"live", "done"} /\ Answer = "pending"
    /\ ctx' = ctx /\ Answer' = Answer => UNCHANGED Call!vars
    /\ Call!End <=> ctx = "live" /\ ctx' = "done" /\ Answer' = Answer
    /\ Answer = "pending" /\ Answer' \in {"whole", "error"} /\ ctx' = ctx => Call!Return
<1>1. Call!Init <=> ctx \in {"live", "done"} /\ Answer = "pending"
  BY Zenon DEF Call!Init, Answer
<1>2. ctx' = ctx /\ Answer' = Answer => UNCHANGED Call!vars
  BY Zenon DEF Call!vars, Answer
<1>3. Call!End <=> ctx = "live" /\ ctx' = "done" /\ Answer' = Answer
  BY Zenon DEF Call!End, Answer
<1>4. ASSUME Answer = "pending", Answer' \in {"whole", "error"}, ctx' = ctx
      PROVE  Call!Return
  BY <1>4, Zenon DEF Call!Return, Answer
<1> QED
  BY <1>1, <1>2, <1>3, <1>4

\* The safety half of HonoursContext: the query answers once, and its answer leaves
\* nothing out that the peer supports unless a connection failed that the context has
\* nothing to do with (query.go:85-91).  That it also ends is left to the run.
THEOREM QueryHonoursContext ==
    QuerySpec => Call!Init /\ [][Call!Next]_(Call!vars)
<1>1. QueryInit => Call!Init
  BY CallOfQuery, Zenon DEF QueryInit, Answer
<1>2. ASSUME ProbeInv, [QueryNext]_queryVars
      PROVE  [Call!Next]_(Call!vars)
  <2>1. CASE UNCHANGED <<ctx, outcome>> /\ outcome = "pending"
    <3>1. Answer' = Answer
      BY <2>1 DEF Answer
    <3> QED
      BY <2>1, <3>1, CallOfQuery
  <2>2. CASE UNCHANGED queryVars
    <3>1. UNCHANGED <<ctx, outcome, tlsVersions, server, supported, faulted>>
      BY <2>2 DEF queryVars
    <3>2. Answer' = Answer
      BY <3>1 DEF Answer, Capability
    <3> QED
      BY <3>1, <3>2, CallOfQuery
  <2>3. ASSUME UNCHANGED ctx, outcome = "pending", Answer' \in {"whole", "error"}
        PROVE  [Call!Next]_(Call!vars)
    <3>1. Answer = "pending"
      BY <2>3 DEF Answer
    <3> QED
      BY <2>3, <3>1, CallOfQuery DEF Call!Next
  <2>4. CASE HandshakeSucceeds
    <3>1. UNCHANGED <<ctx, tlsVersions>> /\ outcome = "pending"
      BY <1>2, <2>4 DEF ProbeInv, ProbeType, HandshakeSucceeds
    <3>2. tlsVersions => outcome' = outcome
      BY <2>4, Zenon DEF HandshakeSucceeds
    <3>3. ~tlsVersions => outcome' = "chain"
      BY <2>4, Zenon DEF HandshakeSucceeds
    <3>4. ~tlsVersions => Answer' = "whole"
      BY <3>1, <3>3, Zenon DEF Answer
    <3> QED
      BY <2>1, <2>3, <3>1, <3>2, <3>4
  <2>5. CASE HandshakeFails
    <3>1. UNCHANGED ctx /\ outcome = "pending" /\ outcome' = "error"
      BY <1>2, <2>5 DEF ProbeInv, ProbeType, HandshakeFails
    <3>2. Answer' = "error"
      BY <3>1 DEF Answer
    <3> QED
      BY <2>3, <3>1, <3>2
  <2>6. CASE ContextDone
    <3>1. UNCHANGED outcome /\ outcome = "pending" /\ ctx = "live" /\ ctx' = "done"
      BY <1>2, <2>6 DEF ProbeInv, ProbeType, ContextDone
    <3>2. Answer' = Answer
      BY <3>1 DEF Answer
    <3> QED
      BY <3>1, <3>2, CallOfQuery DEF Call!Next
  <2>7. CASE LateCheck
    <3>1. /\ UNCHANGED <<ctx, tlsVersions, server, supported, faulted>>
          /\ stage = "late" /\ outcome = "pending"
          /\ outcome' = IF ctx = "done" THEN "error" ELSE "chain"
      BY <1>2, <2>7 DEF ProbeInv, ProbeType, LateCheck, Undisturbed
    <3>2. CASE ctx = "done"
      <4>1. Answer' = "error"
        BY <3>1, <3>2 DEF Answer
      <4> QED
        BY <2>3, <3>1, <4>1
    <3>3. CASE ctx # "done"
      <4>1. ctx = "live" /\ outcome' = "chain"
        BY <1>2, <3>1, <3>3 DEF ProbeInv, ProbeType
      <4>2. ~faulted => ToSet(supported) = Capability
        BY <1>2, <3>1, <4>1, ChainIsWhole, ProbeAssumption
      <4>3. ToSet(supported)' = ToSet(supported) /\ Capability' = Capability
        BY <3>1 DEF Capability, ToSet
      <4>4. ~(tlsVersions /\ ~faulted /\ ToSet(supported) # Capability)'
        BY <3>1, <4>2, <4>3
      <4>5. Answer' = "whole"
        BY <4>1, <4>4 DEF Answer
      <4> QED
        BY <2>3, <3>1, <4>5
    <3> QED
      BY <3>2, <3>3
  <2>8. ASSUME NextVersion \/ VersionSucceeds \/ VersionFails
               \/ NextCipher \/ CipherSucceeds \/ CipherFails
        PROVE  UNCHANGED <<ctx, outcome>> /\ outcome = "pending"
    BY <1>2, <2>8 DEF ProbeInv, ProbeType, NextVersion, VersionSucceeds, VersionFails,
       NextCipher, CipherSucceeds, CipherFails
  <2> QED
    BY <1>2, <2>1, <2>2, <2>4, <2>5, <2>6, <2>7, <2>8 DEF QueryNext, QueryStep, Returned
<1> QED
  BY <1>1, <1>2, ProbeInvariance, PTL DEF QuerySpec

=============================================================================
