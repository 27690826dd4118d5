----------------------------- MODULE InputProofs -----------------------------
(***************************************************************************)
(* What a command is given, and what it makes of it: the endpoints of the  *)
(* inputs and the way to them (Targets, Destinations, Proxy), for every    *)
(* file, every list of arguments and texts of any length; and the flags    *)
(* after the configuration is applied (Config), for every file and command *)
(* line; and the one after the other (Invocation).                         *)
(***************************************************************************)
EXTENDS Invocation, SequenceTheorems, FiniteSetTheorems, WellFoundedInduction, TLAPS

-----------------------------------------------------------------------------
(***************************************************************************)
(* Texts: where a character is, what a part of a text is, and where        *)
(* SplitHostPort splits.                                                   *)
(***************************************************************************)
\* The order of the numbers, as a relation.
Less == {p \in Nat \X Nat : p[1] < p[2]}

\* Min picks the least of a set of numbers.
LEMMA LeastIs ==
    ASSUME NEW S \in SUBSET Nat, S # {}
    PROVE  Min(S) \in S /\ \A k \in S : Min(S) <= k
<1>1. IsWellFoundedOn(Less, Nat)
  <2>1. OpToRel(<, Nat) = Less
    BY Zenon DEF OpToRel, Less
  <2> QED
    BY <2>1, NatLessThanWellFounded
<1>2. PICK n \in S : \A k \in S : ~(<<k, n>> \in Less)
  BY <1>1, WFMin
<1>3. ASSUME NEW k \in S
      PROVE  n <= k
  <2>1. <<k, n>> \in Nat \X Nat
    OBVIOUS
  <2>2. ~(<<k, n>>[1] < <<k, n>>[2])
    BY <1>2, <2>1, Zenon DEF Less
  <2> QED
    BY <2>2
<1> QED
  BY <1>3 DEF Min

\* Max picks the greatest of a set of places.
LEMMA GreatestIs ==
    ASSUME NEW n \in Nat, NEW S \in SUBSET (1..n), S # {}
    PROVE  Max(S) \in S /\ \A k \in S : k <= Max(S)
<1> DEFINE T == {n - k : k \in S}
<1>1. \A k \in S : n - k \in Nat /\ n - k \in T
  OBVIOUS
<1>2. T \in SUBSET Nat /\ T # {}
  BY <1>1
<1>3. Min(T) \in T /\ \A m \in T : Min(T) <= m
  BY <1>2, LeastIs
<1>4. PICK k \in S : n - k = Min(T)
  BY <1>3
<1> HIDE DEF T
<1>5. ASSUME NEW l \in S
      PROVE  l <= k
  <2>1. n - k <= n - l
    BY <1>1, <1>3, <1>4
  <2>2. k \in Int /\ l \in Int
    OBVIOUS
  <2> QED
    BY <2>1, <2>2
<1> QED
  BY <1>5 DEF Max

\* Where a character comes first in a text,
LEMMA FirstIs ==
    ASSUME NEW s \in Text, NEW c
    PROVE  /\ First(s, c) \in 0..Len(s)
           /\ First(s, c) = 0 <=> ~HasAny(s, {c})
           /\ First(s, c) # 0 => s[First(s, c)] = c /\ \A k \in 1..(First(s, c) - 1) : s[k] # c
<1> DEFINE I == {k \in 1..Len(s) : s[k] = c}
<1>1. First(s, c) = IF I # {} THEN Min(I) ELSE 0
  BY DEF First, SelectInSeq
<1>2. I \in SUBSET Nat /\ Len(s) \in Nat
  BY DEF Text
<1>3. I # {} => Min(I) \in I /\ \A k \in I : Min(I) <= k
  BY <1>2, LeastIs
<1> HIDE DEF I
<1>4. I # {} <=> HasAny(s, {c})
  BY DEF I, HasAny
<1>5. I # {} => /\ First(s, c) \in 1..Len(s) /\ s[First(s, c)] = c
                /\ \A k \in 1..Len(s) : s[k] = c => First(s, c) <= k
  BY <1>1, <1>3 DEF I
<1> QED
  BY <1>1, <1>2, <1>4, <1>5

\* ... and last.
LEMMA LastIs ==
    ASSUME NEW s \in Text, NEW c
    PROVE  /\ LastOf(s, c) \in 0..Len(s)
           /\ LastOf(s, c) = 0 <=> ~HasAny(s, {c})
           /\ LastOf(s, c) # 0 => /\ s[LastOf(s, c)] = c
                                  /\ \A k \in (LastOf(s, c) + 1)..Len(s) : s[k] # c
<1> DEFINE I == {k \in 1..Len(s) : s[k] = c}
<1>1. LastOf(s, c) = IF I # {} THEN Max(I) ELSE 0
  BY DEF LastOf, SelectLastInSeq
<1>2. I \in SUBSET (1..Len(s)) /\ Len(s) \in Nat
  BY DEF Text
<1>3. I # {} => Max(I) \in I /\ \A k \in I : k <= Max(I)
  BY <1>2, GreatestIs
<1> HIDE DEF I
<1>4. I # {} <=> HasAny(s, {c})
  BY DEF I, HasAny
<1>5. I # {} => /\ LastOf(s, c) \in 1..Len(s) /\ s[LastOf(s, c)] = c
                /\ \A k \in 1..Len(s) : s[k] = c => k <= LastOf(s, c)
  BY <1>1, <1>3 DEF I
<1> QED
  BY <1>1, <1>2, <1>4, <1>5

\* What every text is.
LEMMA TextFacts ==
    ASSUME NEW s \in Text
    PROVE  /\ Len(s) \in Nat /\ DOMAIN s = 1..Len(s)
           /\ \A k \in 1..Len(s) : s[k] \in Chars
           /\ s = << >> <=> Len(s) = 0
  BY DEF Text

\* A part of a text.
LEMMA SubTextIs ==
    ASSUME NEW s \in Text, NEW m \in Nat, NEW n \in 0..Len(s), 1 <= m
    PROVE  /\ SubSeq(s, m, n) \in Text
           /\ Len(SubSeq(s, m, n)) = IF m <= n THEN n - m + 1 ELSE 0
           /\ \A k \in 1..Len(SubSeq(s, m, n)) : SubSeq(s, m, n)[k] = s[m + k - 1]
<1>1. Len(s) \in Nat /\ m \in Int /\ n \in Int
  BY TextFacts
<1>2. \A k \in m..n : s[k] \in Chars
  BY <1>1, TextFacts
<1> QED
  BY <1>1, <1>2, SubSeqProperties DEF Text

\* A text up to a place,
LEMMA UptoIs ==
    ASSUME NEW s \in Text, NEW n \in 0..Len(s)
    PROVE  /\ Upto(s, n) \in Text /\ Len(Upto(s, n)) = n
           /\ \A k \in 1..n : Upto(s, n)[k] = s[k]
<1>1. Len(s) \in Nat
  BY TextFacts
<1> QED
  BY <1>1, SubTextIs DEF Upto

\* and after it.
LEMMA AfterIs ==
    ASSUME NEW s \in Text, NEW n \in 0..Len(s)
    PROVE  /\ After(s, n) \in Text /\ Len(After(s, n)) = Len(s) - n
           /\ \A k \in 1..(Len(s) - n) : After(s, n)[k] = s[n + k]
<1>1. Len(s) \in Nat
  BY TextFacts
<1> QED
  BY <1>1, SubTextIs DEF After

\* A digit of a group is none of the signs.
LEMMA HexFacts ==
    ASSUME NEW c, IsHexDigit(c)
    PROVE  c \notin {":", "[", "]", "%"}
  BY DEF IsHexDigit, IsDigit, Digit

\* An address of IPv6 has two colons.
LEMMA TwoColons ==
    ASSUME NEW s \in Text, IsIPv6(s)
    PROVE  \E i, j \in 1..Len(s) : i < j /\ s[i] = ":" /\ s[j] = ":"
<1> DEFINE percent == First(s, "%")
           body == IF percent = 0 THEN s ELSE Upto(s, percent - 1)
           last == LastOf(body, ":")
           hex == IF HasAny(body, {"."}) THEN Upto(body, last) ELSE body
           limit == IF HasAny(body, {"."}) THEN 6 ELSE 8
           doubled == {k \in 1..(Len(hex) - 1) : hex[k] = ":" /\ hex[k + 1] = ":"}
           groups == {k \in 1..Len(hex) : hex[k] # ":" /\ (k > 1 => hex[k - 1] = ":")}
<1>1. \/ doubled = {} /\ Cardinality(groups) = limit
      \/ \E k \in doubled : doubled = {k} /\ Cardinality(groups) < limit
  BY DEF IsIPv6
<1>2. percent \in 0..Len(s) /\ Len(s) \in Nat
  BY FirstIs, TextFacts
<1>3. body \in Text /\ Len(body) <= Len(s) /\ \A k \in 1..Len(body) : body[k] = s[k]
  BY <1>2, UptoIs
<1>4. last \in 0..Len(body) /\ Len(body) \in Nat
  BY <1>3, LastIs, TextFacts
<1> HIDE DEF last, body
<1>5. hex \in Text /\ Len(hex) <= Len(body) /\ \A k \in 1..Len(hex) : hex[k] = body[k]
  BY <1>3, <1>4, UptoIs
<1> HIDE DEF hex
<1>6. Len(hex) \in Nat /\ Len(hex) <= Len(s) /\ \A k \in 1..Len(hex) : hex[k] = s[k]
  BY <1>2, <1>3, <1>4, <1>5, TextFacts
<1>7. SUFFICES \E i, j \in 1..Len(hex) : i < j /\ hex[i] = ":" /\ hex[j] = ":"
  BY <1>2, <1>6
<1>8. CASE \E k \in doubled : TRUE
  BY <1>6, <1>8
<1>9. CASE doubled = {} /\ Cardinality(groups) = limit
  <2> SUFFICES ASSUME \A i, j \in 1..Len(hex) : hex[i] = ":" /\ hex[j] = ":" => i = j
               PROVE  FALSE
    BY <1>6
  <2>1. PICK c \in Nat : \A k \in 1..Len(hex) : hex[k] = ":" => k = c
    <3>1. CASE \E k \in 1..Len(hex) : hex[k] = ":"
      <4>1. PICK k \in 1..Len(hex) : hex[k] = ":"
        BY <3>1
      <4>2. k \in Nat /\ \A j \in 1..Len(hex) : hex[j] = ":" => j = k
        BY <1>6, <4>1
      <4> QED
        BY <4>2
    <3>2. CASE ~\E k \in 1..Len(hex) : hex[k] = ":"
      <4>1. 0 \in Nat /\ \A k \in 1..Len(hex) : hex[k] = ":" => k = 0
        BY <3>2
      <4> QED
        BY <4>1
    <3> QED
      BY <3>1, <3>2
  <2>2. groups \subseteq {1, c + 1}
    BY <1>6, <2>1
  <2>3. IsFiniteSet({1, c + 1}) /\ Cardinality({1, c + 1}) <= 2
    <3>1. IsFiniteSet({1}) /\ Cardinality({1}) = 1
      BY FS_Singleton
    <3>2. {1, c + 1} = {1} \cup {c + 1}
      OBVIOUS
    <3>3. /\ IsFiniteSet({1} \cup {c + 1})
          /\ \/ Cardinality({1} \cup {c + 1}) = 1
             \/ Cardinality({1} \cup {c + 1}) = 1 + 1
      BY <3>1, FS_AddElement, Zenon
    <3>4. Cardinality({1} \cup {c + 1}) <= 2
      <4> DEFINE size == Cardinality({1} \cup {c + 1})
      <4>1. size = 1 \/ size = 1 + 1
        BY <3>3
      <4> HIDE DEF size
      <4>2. size <= 2
        BY <4>1
      <4> QED
        BY <4>2 DEF size
    <3> QED
      BY <3>2, <3>3, <3>4, Zenon
  <2>4. Cardinality(groups) <= 2
    BY <2>2, <2>3, FS_Subset, FS_CardinalityType
  <2> QED
    BY <1>9, <2>4
<1> QED
  BY <1>1, <1>8, <1>9

-----------------------------------------------------------------------------
\* The two forms that split: one colon and no bracket, or a colon after the bracket
\* that closes the first.
BareAt(e, c) ==
    /\ c \in 1..Len(e)
    /\ \A k \in 1..Len(e) : (e[k] = ":" <=> k = c) /\ e[k] # "[" /\ e[k] # "]"
WrappedAt(e, c) ==
    /\ c \in 3..Len(e) /\ e[1] = "[" /\ e[c - 1] = "]" /\ e[c] = ":"
    /\ \A k \in 1..Len(e) : (e[k] = "[" => k = 1) /\ (e[k] = "]" => k = c - 1)
                            /\ (k > c => e[k] # ":")

\* SplitHostPort, form by form.
LEMMA SplitDefined ==
    ASSUME NEW e
    PROVE  /\ SplitHostPort(e).port = After(e, LastOf(e, ":"))
           /\ e # << >> /\ e[1] = "[" =>
                 /\ SplitHostPort(e).ok <=>
                       /\ LastOf(e, ":") # 0 /\ First(e, "]") # 0
                       /\ LastOf(e, ":") = First(e, "]") + 1
                       /\ ~HasAny(Tail(e), {"["}) /\ ~HasAny(After(e, First(e, "]")), {"]"})
                 /\ SplitHostPort(e).host = SubSeq(e, 2, First(e, "]") - 1)
           /\ ~(e # << >> /\ e[1] = "[") =>
                 /\ SplitHostPort(e).ok <=>
                       /\ LastOf(e, ":") # 0
                       /\ ~HasAny(Upto(e, LastOf(e, ":") - 1), {":"})
                       /\ ~HasAny(e, {"["}) /\ ~HasAny(e, {"]"})
                 /\ SplitHostPort(e).host = Upto(e, LastOf(e, ":") - 1)
<1>1. SplitHostPort(e).port = After(e, LastOf(e, ":"))
  BY DEF SplitHostPort
<1>2. ASSUME e # << >> /\ e[1] = "["
      PROVE  /\ SplitHostPort(e).ok <=>
                   /\ LastOf(e, ":") # 0 /\ First(e, "]") # 0
                   /\ LastOf(e, ":") = First(e, "]") + 1
                   /\ ~HasAny(Tail(e), {"["}) /\ ~HasAny(After(e, First(e, "]")), {"]"})
             /\ SplitHostPort(e).host = SubSeq(e, 2, First(e, "]") - 1)
  BY <1>2, Zenon DEF SplitHostPort
<1>3. ASSUME ~(e # << >> /\ e[1] = "[")
      PROVE  /\ SplitHostPort(e).ok <=>
                   /\ LastOf(e, ":") # 0
                   /\ ~HasAny(Upto(e, LastOf(e, ":") - 1), {":"})
                   /\ ~HasAny(e, {"["}) /\ ~HasAny(e, {"]"})
             /\ SplitHostPort(e).host = Upto(e, LastOf(e, ":") - 1)
  BY <1>3, Zenon DEF SplitHostPort
<1> QED
  BY <1>1, <1>2, <1>3, Zenon

\* A text of the first form splits at its colon.
LEMMA SplitBare ==
    ASSUME NEW e \in Text, NEW c, BareAt(e, c)
    PROVE  /\ SplitHostPort(e).ok
           /\ SplitHostPort(e).host = Upto(e, c - 1) /\ SplitHostPort(e).port = After(e, c)
<1>1. c \in 1..Len(e) /\ Len(e) \in Nat /\ e # << >> /\ e[1] # "["
  BY TextFacts DEF BareAt
<1>2. /\ LastOf(e, ":") \in 0..Len(e)
      /\ LastOf(e, ":") = 0 <=> ~HasAny(e, {":"})
      /\ LastOf(e, ":") # 0 => e[LastOf(e, ":")] = ":"
  BY LastIs
<1>3. LastOf(e, ":") = c
  BY <1>1, <1>2 DEF BareAt, HasAny
<1>4. /\ Len(Upto(e, c - 1)) = c - 1
      /\ \A k \in 1..(c - 1) : Upto(e, c - 1)[k] = e[k]
  <2>1. c - 1 \in 0..Len(e)
    BY <1>1
  <2> QED
    BY <2>1, UptoIs
<1>5. ~HasAny(Upto(e, c - 1), {":"}) /\ ~HasAny(e, {"["}) /\ ~HasAny(e, {"]"})
  BY <1>1, <1>4 DEF BareAt, HasAny
<1>6. c # 0
  BY <1>1
<1> QED
  BY <1>1, <1>3, <1>5, <1>6, SplitDefined, Zenon

\* One of the second splits at the colon after the bracket.
LEMMA SplitWrapped ==
    ASSUME NEW e \in Text, NEW c, WrappedAt(e, c)
    PROVE  /\ SplitHostPort(e).ok
           /\ SplitHostPort(e).host = SubSeq(e, 2, c - 2)
           /\ SplitHostPort(e).port = After(e, c)
<1>1. c \in 3..Len(e) /\ Len(e) \in Nat /\ e # << >> /\ e[1] = "["
  BY TextFacts DEF WrappedAt
<1>2. /\ LastOf(e, ":") \in 0..Len(e)
      /\ LastOf(e, ":") = 0 <=> ~HasAny(e, {":"})
      /\ LastOf(e, ":") # 0 => /\ e[LastOf(e, ":")] = ":"
                              /\ \A k \in (LastOf(e, ":") + 1)..Len(e) : e[k] # ":"
  BY LastIs
<1>3. LastOf(e, ":") # 0
  BY <1>1, <1>2 DEF WrappedAt, HasAny
<1>4. LastOf(e, ":") = c
  <2>1. LastOf(e, ":") <= c
    BY <1>1, <1>2, <1>3 DEF WrappedAt
  <2>2. LastOf(e, ":") >= c
    BY <1>1, <1>2, <1>3 DEF WrappedAt
  <2> QED
    BY <1>1, <1>2, <2>1, <2>2
<1>5. /\ First(e, "]") \in 0..Len(e)
      /\ First(e, "]") = 0 <=> ~HasAny(e, {"]"})
      /\ First(e, "]") # 0 => e[First(e, "]")] = "]"
  BY FirstIs
<1>6. First(e, "]") # 0
  BY <1>1, <1>5 DEF WrappedAt, HasAny
<1>7. First(e, "]") = c - 1
  BY <1>1, <1>5, <1>6 DEF WrappedAt
<1>8. /\ Len(Tail(e)) = Len(e) - 1 /\ \A k \in 1..Len(Tail(e)) : Tail(e)[k] = e[k + 1]
  BY <1>1, HeadTailProperties DEF Text
<1>9. Len(After(e, c - 1)) = Len(e) - (c - 1)
      /\ \A k \in 1..(Len(e) - (c - 1)) : After(e, c - 1)[k] = e[(c - 1) + k]
  <2>1. c - 1 \in 0..Len(e)
    BY <1>1
  <2> QED
    BY <2>1, AfterIs
<1>10. ~HasAny(Tail(e), {"["}) /\ ~HasAny(After(e, c - 1), {"]"})
  BY <1>1, <1>8, <1>9 DEF WrappedAt, HasAny
<1>11. c # 0 /\ c - 1 # 0 /\ c = (c - 1) + 1 /\ (c - 1) - 1 = c - 2
  BY <1>1
<1> QED
  BY <1>1, <1>4, <1>7, <1>10, <1>11, SplitDefined, Zenon

\* No other text splits.
LEMMA SplitOnly ==
    ASSUME NEW e \in Text, SplitHostPort(e).ok
    PROVE  \E c \in 1..Len(e) : BareAt(e, c) \/ WrappedAt(e, c)
<1> DEFINE c == LastOf(e, ":")
<1>1. /\ c \in 0..Len(e)
      /\ c # 0 => e[c] = ":" /\ \A k \in (c + 1)..Len(e) : e[k] # ":"
  BY LastIs
<1>2. Len(e) \in Nat
  BY TextFacts
<1>3. CASE e # << >> /\ e[1] = "["
  <2> DEFINE end == First(e, "]")
  <2>1. /\ c # 0 /\ end # 0 /\ c = end + 1
        /\ ~HasAny(Tail(e), {"["}) /\ ~HasAny(After(e, end), {"]"})
    BY <1>3, SplitDefined, Zenon
  <2>2. /\ end \in 1..Len(e) /\ e[end] = "]" /\ \A k \in 1..(end - 1) : e[k] # "]"
    <3>1. /\ end \in 0..Len(e)
          /\ end # 0 => e[end] = "]" /\ \A k \in 1..(end - 1) : e[k] # "]"
      BY FirstIs
    <3> QED
      BY <1>2, <2>1, <3>1
  <2> HIDE DEF end, c
  <2>3. c \in 3..Len(e)
    BY <1>1, <1>2, <1>3, <2>1, <2>2
  <2>4. /\ Len(Tail(e)) = Len(e) - 1 /\ \A k \in 1..Len(Tail(e)) : Tail(e)[k] = e[k + 1]
    BY <1>3, HeadTailProperties DEF Text
  <2>5. /\ Len(After(e, end)) = Len(e) - end
        /\ \A k \in 1..(Len(e) - end) : After(e, end)[k] = e[end + k]
    BY <1>2, <2>2, AfterIs
  <2>6. \A k \in 2..Len(e) : e[k] # "["
    <3> SUFFICES ASSUME NEW k \in 2..Len(e)
                 PROVE  e[k] # "["
      OBVIOUS
    <3>1. k - 1 \in 1..Len(Tail(e)) /\ Tail(e)[k - 1] = e[k]
      BY <1>2, <2>4
    <3> QED
      BY <2>1, <3>1 DEF HasAny
  <2>7. \A k \in (end + 1)..Len(e) : e[k] # "]"
    <3> SUFFICES ASSUME NEW k \in (end + 1)..Len(e)
                 PROVE  e[k] # "]"
      OBVIOUS
    <3>1. k - end \in 1..Len(After(e, end)) /\ After(e, end)[k - end] = e[k]
      BY <1>2, <2>2, <2>5
    <3> QED
      BY <2>1, <3>1 DEF HasAny
  <2>8. WrappedAt(e, c)
    BY <1>1, <1>2, <1>3, <2>1, <2>2, <2>3, <2>6, <2>7 DEF WrappedAt
  <2> QED
    BY <1>2, <2>3, <2>8
<1>4. CASE ~(e # << >> /\ e[1] = "[")
  <2>1. /\ c # 0 /\ ~HasAny(Upto(e, c - 1), {":"})
        /\ ~HasAny(e, {"["}) /\ ~HasAny(e, {"]"})
    BY <1>4, SplitDefined, Zenon
  <2>2. /\ Len(Upto(e, c - 1)) = c - 1 /\ \A k \in 1..(c - 1) : Upto(e, c - 1)[k] = e[k]
    BY <1>1, <1>2, <2>1, UptoIs
  <2> HIDE DEF c
  <2>3. \A k \in 1..(c - 1) : e[k] # ":"
    BY <2>1, <2>2 DEF HasAny
  <2>4. BareAt(e, c)
    BY <1>1, <1>2, <2>1, <2>3 DEF BareAt, HasAny
  <2> QED
    BY <1>1, <2>1, <2>4
<1> QED
  BY <1>3, <1>4

-----------------------------------------------------------------------------
\* Two texts, one after the other.
LEMMA JoinIs ==
    ASSUME NEW s \in Text, NEW t \in Text
    PROVE  /\ s \o t \in Text /\ Len(s \o t) = Len(s) + Len(t)
           /\ \A k \in 1..Len(s) : (s \o t)[k] = s[k]
           /\ \A k \in 1..Len(t) : (s \o t)[Len(s) + k] = t[k]
<1>1. Len(s) \in Nat /\ Len(t) \in Nat
  BY TextFacts
<1>2. /\ s \o t \in Text /\ Len(s \o t) = Len(s) + Len(t)
      /\ \A k \in 1..(Len(s) + Len(t)) :
            (s \o t)[k] = IF k <= Len(s) THEN s[k] ELSE t[k - Len(s)]
  BY ConcatProperties DEF Text
<1>3. \A k \in 1..Len(s) : (s \o t)[k] = s[k]
  BY <1>1, <1>2
<1>4. ASSUME NEW k \in 1..Len(t)
      PROVE  (s \o t)[Len(s) + k] = t[k]
  <2>1. Len(s) + k \in 1..(Len(s) + Len(t)) /\ ~(Len(s) + k <= Len(s)) /\ Len(s) + k - Len(s) = k
    BY <1>1
  <2> QED
    BY <1>2, <2>1
<1> QED
  BY <1>2, <1>3, <1>4

\* The signs that are written between host and port.
LEMMA Signs ==
    /\ <<":">> \in Text /\ Len(<<":">>) = 1 /\ <<":">>[1] = ":"
    /\ <<"[">> \in Text /\ Len(<<"[">>) = 1 /\ <<"[">>[1] = "["
    /\ <<"]">> \in Text /\ Len(<<"]">>) = 1 /\ <<"]">>[1] = "]"
    /\ <<"]", ":">> \in Text /\ Len(<<"]", ":">>) = 2
    /\ <<"]", ":">>[1] = "]" /\ <<"]", ":">>[2] = ":"
<1>1. /\ ":" \in Chars /\ "[" \in Chars /\ "]" \in Chars
  BY TargetsAssumption
<1>2. \A x \in Chars : <<x>> \in Text /\ Len(<<x>>) = 1 /\ <<x>>[1] = x
  BY DEF Text
<1>3. \A x, y \in Chars : <<x, y>> \in Text /\ Len(<<x, y>>) = 2 /\ <<x, y>>[1] = x
                           /\ <<x, y>>[2] = y
  BY DEF Text
<1> QED
  BY <1>1, <1>2, <1>3, Zenon

\* Texts that agree at every place are one text.
LEMMA SameText ==
    ASSUME NEW s \in Text, NEW t \in Text, Len(s) = Len(t), \A k \in 1..Len(s) : s[k] = t[k]
    PROVE  s = t
  BY SeqEqual DEF Text

\* A host, a colon and what follows it.
LEMMA ColonForm ==
    ASSUME NEW h \in Text, NEW q \in Text
    PROVE  /\ h \o <<":">> \o q \in Text
           /\ Len(h \o <<":">> \o q) = Len(h) + 1 + Len(q)
           /\ \A k \in 1..Len(h) : (h \o <<":">> \o q)[k] = h[k]
           /\ (h \o <<":">> \o q)[Len(h) + 1] = ":"
           /\ \A k \in 1..Len(q) : (h \o <<":">> \o q)[Len(h) + 1 + k] = q[k]
           /\ Upto(h \o <<":">> \o q, Len(h)) = h
           /\ After(h \o <<":">> \o q, Len(h) + 1) = q
<1> DEFINE w == h \o <<":">>
           e == w \o q
<1>1. Len(h) \in Nat /\ Len(q) \in Nat
  BY TextFacts
<1>2. /\ w \in Text /\ Len(w) = Len(h) + 1
      /\ \A k \in 1..Len(h) : w[k] = h[k]
      /\ w[Len(h) + 1] = ":"
  <2>1. /\ w \in Text /\ Len(w) = Len(h) + Len(<<":">>)
        /\ \A k \in 1..Len(h) : w[k] = h[k]
        /\ \A k \in 1..Len(<<":">>) : w[Len(h) + k] = <<":">>[k]
    BY Signs, JoinIs
  <2> QED
    BY <2>1, Signs
<1> HIDE DEF w
<1>3. /\ e \in Text /\ Len(e) = Len(w) + Len(q)
      /\ \A k \in 1..Len(w) : e[k] = w[k]
      /\ \A k \in 1..Len(q) : e[Len(w) + k] = q[k]
  BY <1>2, JoinIs
<1> HIDE DEF e
<1>4. /\ Len(e) = Len(h) + 1 + Len(q)
      /\ \A k \in 1..Len(h) : e[k] = h[k]
      /\ e[Len(h) + 1] = ":"
      /\ \A k \in 1..Len(q) : e[Len(h) + 1 + k] = q[k]
  BY <1>1, <1>2, <1>3
<1>5. Upto(e, Len(h)) = h
  <2>1. Len(h) \in 0..Len(e)
    BY <1>1, <1>4
  <2>2. /\ Upto(e, Len(h)) \in Text /\ Len(Upto(e, Len(h))) = Len(h)
        /\ \A k \in 1..Len(h) : Upto(e, Len(h))[k] = e[k]
    BY <1>3, <2>1, UptoIs
  <2> QED
    BY <1>4, <2>2, SameText
<1>6. After(e, Len(h) + 1) = q
  <2>1. Len(h) + 1 \in 0..Len(e)
    BY <1>1, <1>4
  <2>2. /\ After(e, Len(h) + 1) \in Text /\ Len(After(e, Len(h) + 1)) = Len(e) - (Len(h) + 1)
        /\ \A k \in 1..(Len(e) - (Len(h) + 1)) : After(e, Len(h) + 1)[k] = e[Len(h) + 1 + k]
    BY <1>3, <2>1, AfterIs
  <2>3. Len(e) - (Len(h) + 1) = Len(q)
    BY <1>1, <1>4
  <2> QED
    BY <1>4, <2>2, <2>3, SameText
<1> QED
  BY <1>3, <1>4, <1>5, <1>6 DEF e, w

\* A host in brackets.
LEMMA Brackets ==
    ASSUME NEW h \in Text
    PROVE  /\ <<"[">> \o h \o <<"]">> \in Text
           /\ Len(<<"[">> \o h \o <<"]">>) = Len(h) + 2
           /\ (<<"[">> \o h \o <<"]">>)[1] = "["
           /\ \A k \in 1..Len(h) : (<<"[">> \o h \o <<"]">>)[k + 1] = h[k]
           /\ (<<"[">> \o h \o <<"]">>)[Len(h) + 2] = "]"
<1> DEFINE w == <<"[">> \o h
           e == w \o <<"]">>
<1>1. Len(h) \in Nat
  BY TextFacts
<1>2. /\ w \in Text /\ Len(w) = Len(h) + 1
      /\ w[1] = "[" /\ \A k \in 1..Len(h) : w[k + 1] = h[k]
  <2>1. /\ w \in Text /\ Len(w) = Len(<<"[">>) + Len(h)
        /\ \A k \in 1..Len(<<"[">>) : w[k] = <<"[">>[k]
        /\ \A k \in 1..Len(h) : w[Len(<<"[">>) + k] = h[k]
    BY Signs, JoinIs
  <2> QED
    BY <1>1, <2>1, Signs
<1> HIDE DEF w
<1>3. /\ e \in Text /\ Len(e) = Len(w) + Len(<<"]">>)
      /\ \A k \in 1..Len(w) : e[k] = w[k]
      /\ \A k \in 1..Len(<<"]">>) : e[Len(w) + k] = <<"]">>[k]
  BY <1>2, Signs, JoinIs
<1> HIDE DEF e
<1>4. /\ Len(e) = Len(h) + 2 /\ e[1] = "[" /\ e[Len(h) + 2] = "]"
  BY <1>1, <1>2, <1>3, Signs
<1>5. ASSUME NEW k \in 1..Len(h)
      PROVE  e[k + 1] = h[k]
  BY <1>1, <1>2, <1>3
<1> QED
  BY <1>3, <1>4, <1>5 DEF e, w

\* No sign of a text is one that SplitHostPort looks for.
Clean(s) == ~HasAny(s, {":", "[", "]"})

\* A name and its port split where they were joined.
LEMMA BareJoined ==
    ASSUME NEW h \in Text, NEW q \in Text, Clean(h), Clean(q)
    PROVE  /\ SplitHostPort(h \o <<":">> \o q).ok
           /\ SplitHostPort(h \o <<":">> \o q).host = h
           /\ SplitHostPort(h \o <<":">> \o q).port = q
<1> DEFINE e == h \o <<":">> \o q
           c == Len(h) + 1
<1>1. Len(h) \in Nat /\ Len(q) \in Nat
  BY TextFacts
<1>2. /\ e \in Text /\ Len(e) = c + Len(q)
      /\ \A k \in 1..Len(h) : e[k] = h[k]
      /\ e[c] = ":"
      /\ \A k \in 1..Len(q) : e[c + k] = q[k]
      /\ Upto(e, Len(h)) = h /\ After(e, c) = q
  BY ColonForm
<1> HIDE DEF e
<1>3. BareAt(e, c)
  <2> SUFFICES ASSUME NEW k \in 1..Len(e)
               PROVE  (e[k] = ":" <=> k = c) /\ e[k] # "[" /\ e[k] # "]"
    BY <1>1, <1>2 DEF BareAt
  <2>1. CASE k <= Len(h)
    BY <1>1, <1>2, <2>1 DEF Clean, HasAny
  <2>2. CASE k = c
    BY <1>1, <1>2, <2>2
  <2>3. CASE k > c
    <3>1. k - c \in 1..Len(q) /\ e[k] = q[k - c]
      BY <1>1, <1>2, <2>3
    <3> QED
      BY <1>1, <2>3, <3>1 DEF Clean, HasAny
  <2> QED
    BY <1>1, <2>1, <2>2, <2>3
<1>4. c - 1 = Len(h)
  BY <1>1
<1> QED
  BY <1>2, <1>3, <1>4, SplitBare DEF e

\* So do an address in brackets and its port.
LEMMA WrappedJoined ==
    ASSUME NEW h \in Text, NEW q \in Text, ~HasAny(h, {"[", "]"}), h # << >>, Clean(q)
    PROVE  /\ SplitHostPort(<<"[">> \o h \o <<"]">> \o <<":">> \o q).ok
           /\ SplitHostPort(<<"[">> \o h \o <<"]">> \o <<":">> \o q).host = h
           /\ SplitHostPort(<<"[">> \o h \o <<"]">> \o <<":">> \o q).port = q
<1> DEFINE w == <<"[">> \o h \o <<"]">>
           e == w \o <<":">> \o q
           c == Len(h) + 3
<1>1. Len(h) \in Nat /\ Len(q) \in Nat
  BY TextFacts
<1>2. /\ w \in Text /\ Len(w) = Len(h) + 2 /\ w[1] = "[" /\ w[Len(h) + 2] = "]"
      /\ \A k \in 1..Len(h) : w[k + 1] = h[k]
  BY Brackets
<1> HIDE DEF w
<1>3. /\ e \in Text /\ Len(e) = Len(w) + 1 + Len(q)
      /\ \A k \in 1..Len(w) : e[k] = w[k]
      /\ e[Len(w) + 1] = ":"
      /\ \A k \in 1..Len(q) : e[Len(w) + 1 + k] = q[k]
      /\ After(e, Len(w) + 1) = q
  BY <1>2, ColonForm
<1> HIDE DEF e
<1>4. /\ Len(e) = c + Len(q) /\ e[1] = "[" /\ e[c - 1] = "]" /\ e[c] = ":"
      /\ After(e, c) = q
  BY <1>1, <1>2, <1>3
<1>5. ASSUME NEW k \in 2..(c - 2)
      PROVE  k - 1 \in 1..Len(h) /\ e[k] = h[k - 1]
  <2>1. k - 1 \in 1..Len(h) /\ (k - 1) + 1 = k /\ k \in 1..Len(w)
    BY <1>1, <1>2
  <2> QED
    BY <1>2, <1>3, <2>1
<1>6. ASSUME NEW k \in (c + 1)..Len(e)
      PROVE  k - c \in 1..Len(q) /\ e[k] = q[k - c]
  <2>1. k - c \in 1..Len(q) /\ Len(w) + 1 + (k - c) = k
    BY <1>1, <1>2, <1>4
  <2> QED
    BY <1>3, <2>1
<1>7. WrappedAt(e, c)
  <2> SUFFICES ASSUME NEW k \in 1..Len(e)
               PROVE  /\ (e[k] = "[" => k = 1) /\ (e[k] = "]" => k = c - 1)
                      /\ (k > c => e[k] # ":")
    BY <1>1, <1>4 DEF WrappedAt
  <2>1. CASE k \in {1, c - 1, c}
    BY <1>1, <1>4, <2>1
  <2>2. CASE k \in 2..(c - 2)
    BY <1>1, <1>5, <2>2 DEF HasAny
  <2>3. CASE k \in (c + 1)..Len(e)
    BY <1>1, <1>6, <2>3 DEF Clean, HasAny
  <2> QED
    BY <1>1, <1>4, <2>1, <2>2, <2>3
<1>8. SubSeq(e, 2, c - 2) = h
  <2>1. c - 2 \in 0..Len(e) /\ c - 2 - 2 + 1 = Len(h)
    BY <1>1, <1>4
  <2>2. Len(h) # 0
    BY TextFacts
  <2>3. /\ SubSeq(e, 2, c - 2) \in Text
        /\ Len(SubSeq(e, 2, c - 2)) = Len(h)
        /\ \A k \in 1..Len(h) : SubSeq(e, 2, c - 2)[k] = e[2 + k - 1]
    BY <1>1, <1>3, <2>1, <2>2, SubTextIs
  <2>4. ASSUME NEW k \in 1..Len(h)
        PROVE  e[2 + k - 1] = h[k]
    <3>1. k + 1 \in 2..(c - 2) /\ (k + 1) - 1 = k /\ 2 + k - 1 = k + 1
      BY <1>1
    <3> QED
      BY <1>5, <3>1
  <2> QED
    BY <2>3, <2>4, SameText
<1> QED
  BY <1>3, <1>4, <1>7, <1>8, SplitWrapped DEF e, w

\* What splits was joined: without brackets,
LEMMA BareWritten ==
    ASSUME NEW e \in Text, NEW c, BareAt(e, c)
    PROVE  /\ Upto(e, c - 1) \in Text /\ After(e, c) \in Text
           /\ Clean(Upto(e, c - 1)) /\ Clean(After(e, c))
           /\ e = Upto(e, c - 1) \o <<":">> \o After(e, c)
<1> DEFINE h == Upto(e, c - 1)
           q == After(e, c)
           d == h \o <<":">> \o q
<1>1. Len(e) \in Nat /\ c \in 1..Len(e) /\ c - 1 \in 0..Len(e) /\ c \in 0..Len(e)
  BY TextFacts DEF BareAt
<1>2. h \in Text /\ Len(h) = c - 1 /\ \A k \in 1..(c - 1) : h[k] = e[k]
  BY <1>1, UptoIs
<1>3. q \in Text /\ Len(q) = Len(e) - c /\ \A k \in 1..(Len(e) - c) : q[k] = e[c + k]
  BY <1>1, AfterIs
<1> HIDE DEF h, q
<1>4. Clean(h) /\ Clean(q)
  BY <1>1, <1>2, <1>3 DEF Clean, HasAny, BareAt
<1>5. /\ d \in Text /\ Len(d) = Len(h) + 1 + Len(q)
      /\ \A k \in 1..Len(h) : d[k] = h[k]
      /\ d[Len(h) + 1] = ":"
      /\ \A k \in 1..Len(q) : d[Len(h) + 1 + k] = q[k]
  BY <1>2, <1>3, ColonForm
<1> HIDE DEF d
<1>6. ASSUME NEW k \in 1..Len(e)
      PROVE  e[k] = d[k]
  <2>1. CASE k < c
    BY <1>1, <1>2, <1>5, <2>1
  <2>2. CASE k = c
    BY <1>1, <1>2, <1>5, <2>2 DEF BareAt
  <2>3. CASE k > c
    <3>1. k - c \in 1..Len(q) /\ c + (k - c) = k /\ Len(h) + 1 + (k - c) = k
      BY <1>1, <1>2, <1>3, <2>3
    <3> QED
      BY <1>3, <1>5, <3>1
  <2> QED
    BY <1>1, <2>1, <2>2, <2>3
<1>7. e = d
  BY <1>1, <1>2, <1>3, <1>5, <1>6, SameText
<1> QED
  BY <1>2, <1>3, <1>4, <1>7 DEF d, h, q

\* What stands between brackets.
LEMMA InnerIs ==
    ASSUME NEW e \in Text, NEW n \in 2..Len(e), e[1] = "[", e[n] = "]"
    PROVE  /\ SubSeq(e, 2, n - 1) \in Text /\ Len(SubSeq(e, 2, n - 1)) = n - 2
           /\ \A k \in 1..(n - 2) : SubSeq(e, 2, n - 1)[k] = e[k + 1]
           /\ Upto(e, n) = <<"[">> \o SubSeq(e, 2, n - 1) \o <<"]">>
<1> DEFINE h == SubSeq(e, 2, n - 1)
           w == <<"[">> \o h \o <<"]">>
<1>1. Len(e) \in Nat /\ n \in Nat /\ n - 1 \in 0..Len(e) /\ n \in 0..Len(e)
  BY TextFacts
<1>2. /\ h \in Text /\ Len(h) = IF 2 <= n - 1 THEN n - 1 - 2 + 1 ELSE 0
      /\ \A k \in 1..Len(h) : h[k] = e[2 + k - 1]
  BY <1>1, SubTextIs
<1> HIDE DEF h
<1>3. Len(h) = n - 2 /\ \A k \in 1..(n - 2) : h[k] = e[k + 1]
  <2>1. Len(h) = n - 2
    BY <1>1, <1>2
  <2>2. ASSUME NEW k \in 1..(n - 2)
        PROVE  h[k] = e[k + 1]
    <3>1. 2 + k - 1 = k + 1
      BY <1>1
    <3> QED
      BY <1>2, <2>1, <3>1
  <2> QED
    BY <2>1, <2>2
<1>4. /\ w \in Text /\ Len(w) = Len(h) + 2 /\ w[1] = "[" /\ w[Len(h) + 2] = "]"
      /\ \A k \in 1..Len(h) : w[k + 1] = h[k]
  BY <1>2, Brackets
<1>5. /\ Upto(e, n) \in Text /\ Len(Upto(e, n)) = n /\ \A k \in 1..n : Upto(e, n)[k] = e[k]
  BY <1>1, UptoIs
<1> HIDE DEF w
<1>6. ASSUME NEW k \in 1..n
      PROVE  e[k] = w[k]
  <2>1. CASE k = 1
    BY <1>4, <2>1
  <2>2. CASE k = n
    BY <1>1, <1>3, <1>4, <2>2
  <2>3. CASE k # 1 /\ k # n
    <3>1. k - 1 \in 1..(n - 2) /\ (k - 1) + 1 = k
      BY <1>1, <2>3
    <3> QED
      BY <1>3, <1>4, <3>1
  <2> QED
    BY <2>1, <2>2, <2>3
<1>7. Len(w) = n
  BY <1>1, <1>3, <1>4
<1>8. Upto(e, n) = w
  BY <1>4, <1>5, <1>6, <1>7, SameText
<1> QED
  BY <1>2, <1>3, <1>8 DEF w, h

\* ... and with brackets.
LEMMA WrappedWritten ==
    ASSUME NEW e \in Text, NEW c, WrappedAt(e, c)
    PROVE  /\ SubSeq(e, 2, c - 2) \in Text /\ After(e, c) \in Text
           /\ ~HasAny(SubSeq(e, 2, c - 2), {"[", "]"}) /\ Clean(After(e, c))
           /\ e = <<"[">> \o SubSeq(e, 2, c - 2) \o <<"]">> \o <<":">> \o After(e, c)
<1> DEFINE h == SubSeq(e, 2, c - 2)
           u == Upto(e, c - 1)
           q == After(e, c)
           d == u \o <<":">> \o q
<1>1. /\ Len(e) \in Nat /\ c \in 3..Len(e) /\ c - 1 \in 2..Len(e) /\ c \in 0..Len(e)
      /\ (c - 1) - 1 = c - 2 /\ c - 1 \in 0..Len(e)
  BY TextFacts DEF WrappedAt
<1>2. /\ h \in Text /\ Len(h) = (c - 1) - 2 /\ \A k \in 1..((c - 1) - 2) : h[k] = e[k + 1]
      /\ u = <<"[">> \o h \o <<"]">>
  <2>1. e[1] = "[" /\ e[c - 1] = "]"
    BY DEF WrappedAt
  <2> DEFINE n == c - 1
  <2>2. n \in 2..Len(e) /\ e[n] = "]" /\ n - 1 = c - 2
    BY <1>1, <2>1
  <2> HIDE DEF n
  <2>3. /\ SubSeq(e, 2, n - 1) \in Text /\ Len(SubSeq(e, 2, n - 1)) = n - 2
        /\ \A k \in 1..(n - 2) : SubSeq(e, 2, n - 1)[k] = e[k + 1]
        /\ Upto(e, n) = <<"[">> \o SubSeq(e, 2, n - 1) \o <<"]">>
    BY <2>1, <2>2, InnerIs
  <2> QED
    BY <2>2, <2>3 DEF n
<1>3. u \in Text /\ Len(u) = c - 1 /\ \A k \in 1..(c - 1) : u[k] = e[k]
  BY <1>1, UptoIs
<1>4. q \in Text /\ Len(q) = Len(e) - c /\ \A k \in 1..(Len(e) - c) : q[k] = e[c + k]
  BY <1>1, AfterIs
<1> HIDE DEF h, u, q
<1>5. ~HasAny(h, {"[", "]"})
  <2> SUFFICES ASSUME NEW k \in 1..Len(h)
               PROVE  h[k] \notin {"[", "]"}
    BY DEF HasAny
  <2>1. h[k] = e[k + 1] /\ k + 1 \in 1..Len(e) /\ k + 1 # 1 /\ k + 1 # c - 1
    BY <1>1, <1>2
  <2> QED
    BY <2>1 DEF WrappedAt
<1>6. Clean(q)
  BY <1>1, <1>4 DEF Clean, HasAny, WrappedAt
<1>7. /\ d \in Text /\ Len(d) = Len(u) + 1 + Len(q)
      /\ \A k \in 1..Len(u) : d[k] = u[k]
      /\ d[Len(u) + 1] = ":"
      /\ \A k \in 1..Len(q) : d[Len(u) + 1 + k] = q[k]
  BY <1>3, <1>4, ColonForm
<1> HIDE DEF d
<1>8. ASSUME NEW k \in 1..Len(e)
      PROVE  e[k] = d[k]
  <2>1. CASE k < c
    BY <1>1, <1>3, <1>7, <2>1
  <2>2. CASE k = c
    BY <1>1, <1>3, <1>7, <2>2 DEF WrappedAt
  <2>3. CASE k > c
    <3>1. k - c \in 1..Len(q) /\ c + (k - c) = k /\ Len(u) + 1 + (k - c) = k
      BY <1>1, <1>3, <1>4, <2>3
    <3> QED
      BY <1>4, <1>7, <3>1
  <2> QED
    BY <1>1, <2>1, <2>2, <2>3
<1>9. e = d
  BY <1>1, <1>3, <1>4, <1>7, <1>8, SameText
<1>10. e = <<"[">> \o h \o <<"]">> \o <<":">> \o q
  BY <1>2, <1>9, Zenon DEF d
<1> QED
  BY <1>2, <1>4, <1>5, <1>6, <1>10 DEF h, q

\* What HostAndPort takes from an input, in its four forms.
LEMMA Heard ==
    ASSUME NEW w \in Text, w # << >>
    PROVE  LET h == HostAndPort(w).host
               q == HostAndPort(w).port
           IN  /\ h \in Text /\ q \in Text /\ Clean(q)
               /\ \/ /\ SplitHostPort(w).ok /\ w[1] # "["
                     /\ Clean(h) /\ w = h \o <<":">> \o q
                  \/ /\ SplitHostPort(w).ok /\ w[1] = "["
                     /\ ~HasAny(h, {"[", "]"}) /\ w = <<"[">> \o h \o <<"]">> \o <<":">> \o q
                  \/ /\ ~SplitHostPort(w).ok /\ Bracketed(w) /\ w[1] = "["
                     /\ q = << >> /\ w = <<"[">> \o h \o <<"]">>
                  \/ /\ ~SplitHostPort(w).ok /\ ~Bracketed(w)
                     /\ q = << >> /\ w = h
<1>1. CASE SplitHostPort(w).ok
  <2>1. HostAndPort(w).host = SplitHostPort(w).host /\ HostAndPort(w).port = SplitHostPort(w).port
    BY <1>1, Zenon DEF HostAndPort
  <2>2. PICK c \in 1..Len(w) : BareAt(w, c) \/ WrappedAt(w, c)
    BY <1>1, SplitOnly
  <2>3. CASE BareAt(w, c)
    <3>1. SplitHostPort(w).host = Upto(w, c - 1) /\ SplitHostPort(w).port = After(w, c)
      BY <2>3, SplitBare
    <3>2. w[1] # "["
      BY <2>3, TextFacts DEF BareAt
    <3>3. /\ Upto(w, c - 1) \in Text /\ After(w, c) \in Text
          /\ Clean(Upto(w, c - 1)) /\ Clean(After(w, c))
          /\ w = Upto(w, c - 1) \o <<":">> \o After(w, c)
      BY <2>3, BareWritten
    <3> QED
      BY <1>1, <2>1, <3>1, <3>2, <3>3, Zenon
  <2>4. CASE WrappedAt(w, c)
    <3>1. SplitHostPort(w).host = SubSeq(w, 2, c - 2) /\ SplitHostPort(w).port = After(w, c)
      BY <2>4, SplitWrapped
    <3>2. w[1] = "["
      BY <2>4 DEF WrappedAt
    <3>3. /\ SubSeq(w, 2, c - 2) \in Text /\ After(w, c) \in Text
          /\ ~HasAny(SubSeq(w, 2, c - 2), {"[", "]"}) /\ Clean(After(w, c))
          /\ w = <<"[">> \o SubSeq(w, 2, c - 2) \o <<"]">> \o <<":">> \o After(w, c)
      BY <2>4, WrappedWritten
    <3> QED
      BY <1>1, <2>1, <3>1, <3>2, <3>3, Zenon
  <2> QED
    BY <2>2, <2>3, <2>4
<1>2. CASE ~SplitHostPort(w).ok
  <2>1. /\ HostAndPort(w).host = IF Bracketed(w) THEN SubSeq(w, 2, Len(w) - 1) ELSE w
        /\ HostAndPort(w).port = << >>
    BY <1>2, Zenon DEF HostAndPort
  <2>2. << >> \in Text /\ Clean(<< >>)
    BY DEF Text, Clean, HasAny
  <2>3. CASE Bracketed(w)
    <3> DEFINE n == Len(w)
    <3>1. n \in 2..Len(w) /\ w[1] = "[" /\ w[n] = "]"
      BY <2>3, TextFacts DEF Bracketed
    <3>2. SubSeq(w, 2, n - 1) \in Text /\ Upto(w, n) = <<"[">> \o SubSeq(w, 2, n - 1) \o <<"]">>
      BY <3>1, InnerIs
    <3>3. Upto(w, n) = w
      BY SubSeqFull DEF Upto, Text
    <3> QED
      BY <1>2, <2>1, <2>2, <2>3, <3>1, <3>2, <3>3
  <2>4. CASE ~Bracketed(w)
    BY <1>2, <2>1, <2>2, <2>4
  <2> QED
    BY <2>3, <2>4
<1> QED
  BY <1>1, <1>2

-----------------------------------------------------------------------------
(***************************************************************************)
(* Ports.                                                                  *)
(***************************************************************************)
\* Value, of three digits.
LEMMA ThreeDigits ==
    ASSUME NEW a, NEW b, NEW c,
           Digit[a] \in 0..9, Digit[b] \in 0..9, Digit[c] \in 0..9
    PROVE  Value(<<a, b, c>>) \in 0..999
<1> DEFINE s == <<a, b, c>>
           v == [n \in 0..Len(s) |->
                    IF n = 0 THEN 0 ELSE IF n = 1 THEN Digit[a]
                    ELSE IF n = 2 THEN Digit[a] * 10 + Digit[b]
                    ELSE (Digit[a] * 10 + Digit[b]) * 10 + Digit[c]]
           Good(f) == f = [n \in 0..Len(s) |-> IF n = 0 THEN 0 ELSE f[n - 1] * 10 + Digit[s[n]]]
<1>1. Len(s) = 3 /\ s[1] = a /\ s[2] = b /\ s[3] = c
  OBVIOUS
<1>2. Value(s) = (CHOOSE f : Good(f))[Len(s)]
  BY Zenon DEF Value
<1> HIDE DEF s
<1>3. Good(v)
  <2>1. \A n \in 0..Len(s) : v[n] = IF n = 0 THEN 0 ELSE v[n - 1] * 10 + Digit[s[n]]
    BY <1>1
  <2> QED
    BY <2>1
<1>4. Good(CHOOSE f : Good(f))
  BY <1>3
<1> DEFINE g == CHOOSE f : Good(f)
<1>5. g = [n \in 0..Len(s) |-> IF n = 0 THEN 0 ELSE g[n - 1] * 10 + Digit[s[n]]]
  BY <1>4
<1> HIDE DEF g
<1>6. /\ g[0] = 0 /\ g[1] = g[1 - 1] * 10 + Digit[a]
      /\ g[2] = g[2 - 1] * 10 + Digit[b] /\ g[3] = g[3 - 1] * 10 + Digit[c]
  BY <1>1, <1>5
<1>7. 1 - 1 = 0 /\ 2 - 1 = 1 /\ 3 - 1 = 2
  OBVIOUS
<1>8. /\ g[1] = g[0] * 10 + Digit[a] /\ g[2] = g[1] * 10 + Digit[b]
      /\ g[3] = g[2] * 10 + Digit[c]
  BY <1>6, <1>7, Zenon
<1>9. g[1] \in 0..9
  BY <1>6, <1>8
<1>10. g[2] \in 0..99
  BY <1>8, <1>9
<1>11. g[3] \in 0..999
  BY <1>8, <1>10
<1>12. Value(s) = g[3]
  BY <1>1, <1>2, Zenon DEF g
<1> QED
  BY <1>11, <1>12 DEF s

\* A digit is none of the signs.
LEMMA DigitFacts ==
    ASSUME NEW c, IsDigit(c)
    PROVE  c \in Chars /\ c \notin {":", "[", "]", "%", "+", "-"}
<1>1. c \in DOMAIN Digit /\ DOMAIN Digit \subseteq Chars
  BY TargetsAssumption DEF IsDigit
<1>2. c \notin {":", "[", "]", "%", "+", "-"}
  BY DEF IsDigit, Digit
<1> QED
  BY <1>1, <1>2

\* The port of every protocol (defaultPort) is one that the code would accept.
LEMMA DefaultPortIs ==
    ASSUME NEW p
    PROVE  /\ DefaultPort(p) \in Text /\ DefaultPort(p) # << >>
           /\ AllDigits(DefaultPort(p)) /\ Value(DefaultPort(p)) <= 65535
<1>1. \/ DefaultPort(p) = <<"5", "8", "7">> \/ DefaultPort(p) = <<"1", "4", "3">>
      \/ DefaultPort(p) = <<"1", "1", "0">> \/ DefaultPort(p) = <<"3", "8", "9">>
      \/ DefaultPort(p) = <<"4", "4", "3">>
  BY Zenon DEF DefaultPort
<1>2. \A d \in {"0", "1", "3", "4", "5", "7", "8", "9"} : IsDigit(d) /\ Digit[d] \in 0..9
  BY DEF IsDigit, Digit
<1>3. ASSUME NEW a, NEW b, NEW c, IsDigit(a), IsDigit(b), IsDigit(c),
             Digit[a] \in 0..9, Digit[b] \in 0..9, Digit[c] \in 0..9
      PROVE  /\ <<a, b, c>> \in Text /\ <<a, b, c>> # << >>
             /\ AllDigits(<<a, b, c>>) /\ Value(<<a, b, c>>) <= 65535
  <2>1. Value(<<a, b, c>>) \in 0..999
    BY <1>3, ThreeDigits
  <2>2. a \in Chars /\ b \in Chars /\ c \in Chars
    BY <1>3, DigitFacts
  <2>3. \A k \in 1..Len(<<a, b, c>>) : IsDigit(<<a, b, c>>[k])
    BY <1>3
  <2> QED
    BY <2>1, <2>2, <2>3 DEF Text, AllDigits
<1> DEFINE Fine(s) == s \in Text /\ s # << >> /\ AllDigits(s) /\ Value(s) <= 65535
<1>4. /\ Fine(<<"5", "8", "7">>) /\ Fine(<<"1", "4", "3">>) /\ Fine(<<"1", "1", "0">>)
      /\ Fine(<<"3", "8", "9">>) /\ Fine(<<"4", "4", "3">>)
  BY <1>2, <1>3
<1> HIDE DEF Fine
<1>5. Fine(DefaultPort(p))
  BY <1>1, <1>4, Zenon
<1> QED
  BY <1>5 DEF Fine

\* The grammar of a port is that of the code.
LEMMA PortAgrees ==
    ASSUME NEW port \in Text
    PROVE  IsPort(port) <=> ValidPort(port)
<1> ASSUME port # << >> PROVE 1 \in 1..Len(port)
  BY TextFacts
<1> ~IsDigit("+") /\ ~IsDigit("-")
  BY DigitFacts
<1>1. CASE port = << >>
  BY <1>1 DEF IsPort, ValidPort, AllDigits
<1>2. CASE port # << >> /\ port[1] = "+"
  <2>1. ~AllDigits(port)
    BY <1>2 DEF AllDigits
  <2> QED
    BY <1>2, <2>1 DEF IsPort, ValidPort
<1>3. CASE port # << >> /\ port[1] = "-"
  <2>1. ~AllDigits(port)
    BY <1>3 DEF AllDigits
  <2> QED
    BY <1>3, <2>1 DEF IsPort, ValidPort
<1>4. CASE port # << >> /\ port[1] \notin {"+", "-"}
  BY <1>4 DEF IsPort, ValidPort
<1> QED
  BY <1>1, <1>2, <1>3, <1>4

\* A port has no sign that would change where an endpoint splits.
LEMMA PortIsClean ==
    ASSUME NEW port \in Text, IsPort(port)
    PROVE  Clean(port) /\ port # << >>
<1>1. port # << >>
  BY DEF IsPort, AllDigits
<1>2. CASE port[1] \in {"+", "-"}
  <2>1. AllDigits(Tail(port))
    BY <1>1, <1>2 DEF IsPort
  <2>2. /\ Len(Tail(port)) = Len(port) - 1 /\ Len(port) \in Nat
        /\ \A k \in 1..Len(Tail(port)) : Tail(port)[k] = port[k + 1]
    BY <1>1, TextFacts, HeadTailProperties DEF Text
  <2>3. ASSUME NEW k \in 2..Len(port)
        PROVE  port[k] \notin {":", "[", "]"}
    <3>1. k - 1 \in 1..Len(Tail(port)) /\ (k - 1) + 1 = k
      BY <2>2
    <3>2. IsDigit(port[k])
      BY <2>1, <2>2, <3>1 DEF AllDigits
    <3> QED
      BY <3>2, DigitFacts
  <2> QED
    BY <1>1, <1>2, <2>2, <2>3 DEF Clean, HasAny
<1>3. CASE port[1] \notin {"+", "-"}
  <2>1. \A k \in 1..Len(port) : IsDigit(port[k])
    BY <1>3 DEF IsPort, AllDigits
  <2> QED
    BY <1>1, <2>1, DigitFacts DEF Clean, HasAny
<1> QED
  BY <1>1, <1>2, <1>3

-----------------------------------------------------------------------------
(***************************************************************************)
(* NormalizeEndpoint: what it accepts, and that its endpoints split where  *)
(* they were joined.                                                       *)
(***************************************************************************)
\* The refusals of NormalizeEndpoint, the port it takes, and a host before a port.
Refused(w) ==
    LET host == HostAndPort(w).host
        port == HostAndPort(w).port
    IN \/ LooksLikeURL(w)
       \/ w[1] = "[" /\ (SplitHostPort(w).ok \/ Bracketed(w)) /\ ~IsIPv6(host)
       \/ HasAny(host, {":", "[", "]", "%"}) /\ ~IsIPv6(host)
       \/ HasAny(host, {Blank})
       \/ host = <<>>
       \/ port # <<>> /\ ~ValidPort(port)
PortOf(w, p) == IF HostAndPort(w).port = <<>> THEN DefaultPort(p) ELSE HostAndPort(w).port
Wrap(h) == IF IsIPv6(h) THEN <<"[">> \o h \o <<"]">> ELSE h

\* NormalizeEndpoint is a refusal or a join.
LEMMA NormalIs ==
    ASSUME NEW w, NEW p
    PROVE  NormalizeEndpoint(w, p) =
              IF Refused(w) THEN <<>> ELSE JoinHostPort(HostAndPort(w).host, PortOf(w, p))
  BY Zenon DEF NormalizeEndpoint, Refused, PortOf

\* A host has a colon exactly if it is an address of IPv6 ...
LEMMA ColonIsIPv6 ==
    ASSUME NEW h \in Text, IsHost(h)
    PROVE  HasAny(h, {":"}) <=> IsIPv6(h)
<1>1. ASSUME IsIPv6(h)
      PROVE  HasAny(h, {":"})
  BY <1>1, TwoColons DEF HasAny
<1>2. ASSUME ~IsIPv6(h)
      PROVE  ~HasAny(h, {":"})
  BY <1>2 DEF IsHost, HasAny
<1> QED
  BY <1>1, <1>2

\* A host as it is written before a port is a text.
LEMMA WrapIs ==
    ASSUME NEW h \in Text
    PROVE  Wrap(h) \in Text
<1>1. <<"[">> \o h \o <<"]">> \in Text
  BY Brackets
<1> QED
  BY <1>1, Zenon DEF Wrap

\* ... so that JoinHostPort puts brackets around no other host.
LEMMA JoinWraps ==
    ASSUME NEW h \in Text, IsHost(h), NEW q \in Text
    PROVE  /\ JoinHostPort(h, q) = Wrap(h) \o <<":">> \o q
           /\ JoinHostPort(h, q) # <<>>
<1>1. JoinHostPort(h, q) = Wrap(h) \o <<":">> \o q
  <2>1. CASE IsIPv6(h)
    <3> DEFINE b == <<"[">> \o h
    <3>1. b \in Text
      BY Signs, JoinIs
    <3> HIDE DEF b
    <3>2. <<"]">> \o <<":">> = <<"]", ":">>
      <4> DEFINE x == <<"]">> \o <<":">>
                 y == <<"]", ":">>
      <4>1. /\ x \in Text /\ Len(x) = Len(<<"]">>) + Len(<<":">>)
            /\ \A k \in 1..Len(<<"]">>) : x[k] = <<"]">>[k]
            /\ \A k \in 1..Len(<<":">>) : x[Len(<<"]">>) + k] = <<":">>[k]
        BY Signs, JoinIs
      <4>2. y \in Text /\ Len(y) = 2 /\ y[1] = "]" /\ y[2] = ":"
        BY Signs
      <4> HIDE DEF x, y
      <4>3. Len(x) = 2 /\ x[1] = "]" /\ x[2] = ":"
        BY <4>1, Signs
      <4>4. x = y
        BY <4>1, <4>2, <4>3, SameText
      <4> QED
        BY <4>4 DEF x, y
    <3>3. b \o <<"]", ":">> = b \o <<"]">> \o <<":">>
      <4>1. b \in Seq(Chars) /\ <<"]">> \in Seq(Chars) /\ <<":">> \in Seq(Chars)
        BY <3>1, Signs DEF Text
      <4> QED
        BY <3>2, <4>1, ConcatAssociative
    <3>4. JoinHostPort(h, q) = b \o <<"]", ":">> \o q
      BY <2>1, ColonIsIPv6, Zenon DEF JoinHostPort, b
    <3>5. Wrap(h) \o <<":">> \o q = b \o <<"]">> \o <<":">> \o q
      BY <2>1, Zenon DEF Wrap, b
    <3> QED
      BY <3>3, <3>4, <3>5, Zenon
  <2>2. CASE ~IsIPv6(h)
    BY <2>2, ColonIsIPv6, Zenon DEF JoinHostPort, Wrap
  <2> QED
    BY <2>1, <2>2
<1>2. Len(Wrap(h) \o <<":">> \o q) = Len(Wrap(h)) + 1 + Len(q)
  BY WrapIs, ColonForm
<1>3. Len(Wrap(h)) \in Nat /\ Len(q) \in Nat
  BY WrapIs, TextFacts
<1>4. Len(JoinHostPort(h, q)) # 0
  BY <1>1, <1>2, <1>3
<1> QED
  BY <1>1, <1>4

\* A host and a port split where they were joined.
LEMMA JoinSplits ==
    ASSUME NEW h \in Text, IsHost(h), NEW q \in Text, Clean(q)
    PROVE  /\ SplitHostPort(Wrap(h) \o <<":">> \o q).ok
           /\ SplitHostPort(Wrap(h) \o <<":">> \o q).host = h
           /\ SplitHostPort(Wrap(h) \o <<":">> \o q).port = q
<1>1. CASE IsIPv6(h)
  <2>1. h # <<>> /\ ~HasAny(h, {"[", "]"})
    BY DEF IsHost, HasAny
  <2>2. /\ SplitHostPort(<<"[">> \o h \o <<"]">> \o <<":">> \o q).ok
        /\ SplitHostPort(<<"[">> \o h \o <<"]">> \o <<":">> \o q).host = h
        /\ SplitHostPort(<<"[">> \o h \o <<"]">> \o <<":">> \o q).port = q
    BY <2>1, WrappedJoined
  <2> QED
    BY <1>1, <2>2, Zenon DEF Wrap
<1>2. CASE ~IsIPv6(h)
  <2>1. Clean(h)
    BY <1>2 DEF IsHost, HasAny, Clean
  <2> QED
    BY <1>2, <2>1, BareJoined, Zenon DEF Wrap
<1> QED
  BY <1>1, <1>2

\* The spellings of a host and a port.
LEMMA HostsAre ==
    ASSUME NEW h, NEW q, NEW p, NEW w
    PROVE  w \in Spellings(h, q, p) <=>
              \/ w = Wrap(h) \o <<":">> \o q
              \/ q = DefaultPort(p) /\ (w = h \/ w = Wrap(h) \/ w = Wrap(h) \o <<":">>)
<1>1. CASE IsIPv6(h)
  BY <1>1, Zenon DEF Spellings, Wrap
<1>2. CASE ~IsIPv6(h)
  BY <1>2, Zenon DEF Spellings, Wrap
<1> QED
  BY <1>1, <1>2

\* What HostAndPort takes apart is, together, the input.
LEMMA WrittenSplits ==
    ASSUME NEW w \in Text, w # <<>>, IsHost(HostAndPort(w).host),
           w[1] = "[" /\ (SplitHostPort(w).ok \/ Bracketed(w)) => IsIPv6(HostAndPort(w).host)
    PROVE  LET h == HostAndPort(w).host
               q == HostAndPort(w).port
           IN  \/ w = Wrap(h) \o <<":">> \o q
               \/ q = <<>> /\ (w = h \/ w = Wrap(h))
<1> DEFINE h == HostAndPort(w).host
           q == HostAndPort(w).port
<1>1. /\ h \in Text /\ q \in Text
      /\ \/ /\ SplitHostPort(w).ok /\ w[1] # "["
            /\ Clean(h) /\ w = h \o <<":">> \o q
         \/ /\ SplitHostPort(w).ok /\ w[1] = "["
            /\ ~HasAny(h, {"[", "]"}) /\ w = <<"[">> \o h \o <<"]">> \o <<":">> \o q
         \/ /\ ~SplitHostPort(w).ok /\ Bracketed(w) /\ w[1] = "["
            /\ q = << >> /\ w = <<"[">> \o h \o <<"]">>
         \/ /\ ~SplitHostPort(w).ok /\ ~Bracketed(w)
            /\ q = << >> /\ w = h
  BY Heard, Zenon
<1>2. Clean(h) => ~IsIPv6(h)
  <2>1. HasAny(h, {":"}) <=> IsIPv6(h)
    BY <1>1, ColonIsIPv6
  <2>2. Clean(h) => ~HasAny(h, {":"})
    BY DEF Clean, HasAny
  <2> QED
    BY <2>1, <2>2
<1> HIDE DEF h, q
<1>3. w[1] = "[" /\ (SplitHostPort(w).ok \/ Bracketed(w)) => IsIPv6(h)
  BY DEF h
<1>4. \/ w = Wrap(h) \o <<":">> \o q
      \/ q = <<>> /\ (w = h \/ w = Wrap(h))
  BY <1>1, <1>2, <1>3, Zenon DEF Wrap
<1> QED
  BY <1>4 DEF h, q

\* What is accepted is spelled as the grammar says, and splits where it was joined.
LEMMA Accepted ==
    ASSUME NEW w \in Text, w # <<>>, NEW p, ~ZoneHasBracket(w), NormalizeEndpoint(w, p) # <<>>
    PROVE  LET h == HostAndPort(w).host
               q == PortOf(w, p)
               e == NormalizeEndpoint(w, p)
           IN  /\ h \in Text /\ q \in Text /\ IsHost(h) /\ ~LooksLikeURL(w)
               /\ HostAndPort(w).port = <<>> \/ IsPort(q)
               /\ SplitHostPort(e).ok /\ SplitHostPort(e).host = h /\ SplitHostPort(e).port = q
               /\ w \in Spellings(h, q, p)
<1> DEFINE h == HostAndPort(w).host
           r == HostAndPort(w).port
           q == PortOf(w, p)
           e == NormalizeEndpoint(w, p)
<1>1. ~Refused(w) /\ e = JoinHostPort(h, q)
  BY NormalIs, Zenon
<1>2. h \in Text /\ r \in Text
  BY Heard, Zenon
<1>3. /\ ~LooksLikeURL(w)
      /\ w[1] = "[" /\ (SplitHostPort(w).ok \/ Bracketed(w)) => IsIPv6(h)
      /\ ~(HasAny(h, {":", "[", "]", "%"}) /\ ~IsIPv6(h))
      /\ ~HasAny(h, {Blank}) /\ h # <<>>
      /\ r # <<>> => ValidPort(r)
  BY <1>1, Zenon DEF Refused
<1>4. ~(IsIPv6(h) /\ HasAny(h, {"[", "]"}))
  BY Zenon DEF ZoneHasBracket
<1>5. q = IF r = <<>> THEN DefaultPort(p) ELSE r
  BY DEF PortOf
<1> HIDE DEF h, r, q, e
<1>6. IsHost(h)
  BY <1>3, <1>4 DEF IsHost, HasAny
<1>7. q \in Text /\ IsPort(q)
  <2>1. CASE r = <<>>
    <3>1. /\ DefaultPort(p) \in Text /\ DefaultPort(p) # << >>
          /\ AllDigits(DefaultPort(p)) /\ Value(DefaultPort(p)) <= 65535
      BY DefaultPortIs
    <3>2. ValidPort(DefaultPort(p))
      BY <3>1 DEF ValidPort
    <3> QED
      BY <1>5, <2>1, <3>1, <3>2, PortAgrees
  <2>2. CASE r # <<>>
    BY <1>2, <1>3, <1>5, <2>2, PortAgrees
  <2> QED
    BY <2>1, <2>2
<1>8. Clean(q)
  BY <1>7, PortIsClean
<1>9. e = Wrap(h) \o <<":">> \o q
  BY <1>1, <1>2, <1>6, <1>7, JoinWraps
<1>10. SplitHostPort(e).ok /\ SplitHostPort(e).host = h /\ SplitHostPort(e).port = q
  BY <1>2, <1>6, <1>7, <1>8, <1>9, JoinSplits, Zenon
<1>11. \/ w = Wrap(h) \o <<":">> \o r
       \/ r = <<>> /\ (w = h \/ w = Wrap(h))
  BY <1>3, <1>6, WrittenSplits, Zenon DEF h, r
<1>12. w \in Spellings(h, q, p)
  <2>1. CASE r = <<>>
    <3>1. q = DefaultPort(p)
      BY <1>5, <2>1
    <3>2. Wrap(h) \o <<":">> \o <<>> = Wrap(h) \o <<":">>
      <4>1. Wrap(h) \o <<":">> \in Seq(Chars)
        BY <1>2, WrapIs, Signs, JoinIs DEF Text
      <4> QED
        BY <4>1, ConcatEmptySeq
    <3> QED
      BY <1>11, <2>1, <3>1, <3>2, HostsAre, Zenon
  <2>2. CASE r # <<>>
    BY <1>5, <1>11, <2>2, HostsAre, Zenon
  <2> QED
    BY <2>1, <2>2
<1>13. r = <<>> \/ IsPort(q)
  BY <1>7
<1> QED
  BY <1>2, <1>3, <1>6, <1>7, <1>10, <1>12, <1>13, Zenon DEF h, q, e, r

\* Where the host stands in an input, and the port after it.
LEMMA HostStands ==
    ASSUME NEW w \in Text, w # <<>>, HostAndPort(w).host # <<>>
    PROVE  LET h == HostAndPort(w).host
               q == HostAndPort(w).port
           IN  \E i, j \in 1..Len(w) :
                   /\ i <= j /\ SubSeq(w, i, j) = h
                   /\ q = <<>> \/ \E k \in j..Len(w) : q = After(w, k)
<1> DEFINE h == HostAndPort(w).host
           q == HostAndPort(w).port
<1>1. /\ h \in Text /\ q \in Text /\ h # <<>>
      /\ \/ w = h \o <<":">> \o q
         \/ w = <<"[">> \o h \o <<"]">> \o <<":">> \o q
         \/ q = << >> /\ w = <<"[">> \o h \o <<"]">>
         \/ q = << >> /\ w = h
  BY Heard, Zenon
<1> HIDE DEF h, q
<1>2. Len(h) \in Nat \ {0} /\ Len(q) \in Nat /\ Len(w) \in Nat
  BY <1>1, TextFacts
<1>3. CASE w = h \o <<":">> \o q
  <2>1. /\ Upto(w, Len(h)) = h /\ After(w, Len(h) + 1) = q /\ Len(w) = Len(h) + 1 + Len(q)
    BY <1>1, <1>3, ColonForm
  <2>2. SubSeq(w, 1, Len(h)) = h
    BY <2>1 DEF Upto
  <2>3. 1 \in 1..Len(w) /\ Len(h) \in 1..Len(w) /\ 1 <= Len(h) /\ Len(h) + 1 \in Len(h)..Len(w)
    BY <1>2, <2>1
  <2> QED
    BY <2>1, <2>2, <2>3, Zenon DEF h, q
<1> DEFINE b == <<"[">> \o h \o <<"]">>
<1>4. /\ b \in Text /\ Len(b) = Len(h) + 2 /\ \A k \in 1..Len(h) : b[k + 1] = h[k]
  BY <1>1, Brackets
<1>5. ASSUME Len(w) >= Len(h) + 2, \A k \in 1..Len(b) : w[k] = b[k]
      PROVE  SubSeq(w, 2, Len(h) + 1) = h
  <2>1. Len(h) + 1 \in 0..Len(w) /\ 2 <= Len(h) + 1 /\ Len(h) + 1 - 2 + 1 = Len(h)
    BY <1>2, <1>5
  <2>2. /\ SubSeq(w, 2, Len(h) + 1) \in Text
        /\ Len(SubSeq(w, 2, Len(h) + 1)) = Len(h)
        /\ \A k \in 1..Len(h) : SubSeq(w, 2, Len(h) + 1)[k] = w[2 + k - 1]
    BY <2>1, SubTextIs
  <2>3. ASSUME NEW k \in 1..Len(h)
        PROVE  w[2 + k - 1] = h[k]
    <3>1. 2 + k - 1 = k + 1 /\ k + 1 \in 1..Len(b)
      BY <1>2, <1>4
    <3> QED
      BY <1>4, <1>5, <3>1
  <2> QED
    BY <1>1, <2>2, <2>3, SameText
<1>9. \/ w = h \o <<":">> \o q
      \/ w = b \o <<":">> \o q
      \/ q = << >> /\ w = b
      \/ q = << >> /\ w = h
  BY <1>1
<1> HIDE DEF b
<1>6. CASE w = b \o <<":">> \o q
  <2>1. /\ Len(w) = Len(b) + 1 + Len(q) /\ After(w, Len(b) + 1) = q
        /\ \A k \in 1..Len(b) : w[k] = b[k]
    <3> DEFINE d == b \o <<":">> \o q
    <3>1. /\ Len(d) = Len(b) + 1 + Len(q) /\ After(d, Len(b) + 1) = q
          /\ \A k \in 1..Len(b) : d[k] = b[k]
      BY <1>1, <1>4, ColonForm
    <3> QED
      BY <1>6, <3>1, Zenon
  <2>2. /\ 2 \in 1..Len(w) /\ Len(h) + 1 \in 1..Len(w) /\ 2 <= Len(h) + 1
        /\ Len(b) + 1 \in (Len(h) + 1)..Len(w) /\ Len(w) >= Len(h) + 2
    BY <1>2, <1>4, <2>1
  <2>3. SubSeq(w, 2, Len(h) + 1) = h
    BY <1>5, <2>1, <2>2
  <2> QED
    BY <2>1, <2>2, <2>3, Zenon DEF h, q
<1>7. CASE q = << >> /\ w = b
  <2>1. /\ 2 \in 1..Len(w) /\ Len(h) + 1 \in 1..Len(w) /\ 2 <= Len(h) + 1 /\ Len(w) >= Len(h) + 2
    BY <1>2, <1>4, <1>7
  <2>2. SubSeq(w, 2, Len(h) + 1) = h
    BY <1>5, <1>7, <2>1
  <2> QED
    BY <1>7, <2>1, <2>2, Zenon DEF h, q
<1>8. CASE q = << >> /\ w = h
  <2>1. SubSeq(w, 1, Len(w)) = h
    BY <1>8, SubSeqFull DEF Text
  <2>2. 1 \in 1..Len(w) /\ Len(w) \in 1..Len(w) /\ 1 <= Len(w)
    BY <1>2, <1>8
  <2> QED
    BY <1>8, <2>1, <2>2, Zenon DEF h, q
<1> QED
  BY <1>3, <1>6, <1>7, <1>8, <1>9, Zenon

\* What NormalizeEndpoint accepts follows the grammar.
LEMMA AcceptedIsWellFormed ==
    ASSUME NEW w \in Text, w # <<>>, ~ZoneHasBracket(w), NormalizeEndpoint(w, proto) # <<>>
    PROVE  WellFormed(w)
<1> DEFINE h == HostAndPort(w).host
           r == HostAndPort(w).port
           q == PortOf(w, proto)
<1>1. /\ IsHost(h) /\ ~LooksLikeURL(w) /\ (r = <<>> \/ IsPort(q))
      /\ w \in Spellings(h, q, proto)
  BY Accepted, Zenon
<1>2. /\ ~LooksLikeURL(w) /\ h # <<>> /\ IsHost(h)
  BY Accepted, Zenon DEF IsHost
<1>3. PICK i, j \in 1..Len(w) :
          /\ i <= j /\ SubSeq(w, i, j) = h
          /\ r = <<>> \/ \E k \in j..Len(w) : r = After(w, k)
  BY <1>2, HostStands, Zenon
<1>4. q = IF r = <<>> THEN DefaultPort(proto) ELSE r
  BY DEF PortOf
<1> HIDE DEF h, r, q
<1>5. /\ q \in {DefaultPort(proto)} \cup {After(w, k) : k \in j..Len(w)}
      /\ q = DefaultPort(proto) \/ IsPort(q)
  BY <1>1, <1>3, <1>4, Zenon
<1> QED
  BY <1>1, <1>2, <1>3, <1>5, Zenon DEF WellFormed

-----------------------------------------------------------------------------
(***************************************************************************)
(* What follows the grammar is accepted.                                   *)
(***************************************************************************)
\* A host alone does not split.
LEMMA AloneIsWhole ==
    ASSUME NEW h \in Text, IsHost(h)
    PROVE  HostAndPort(h).host = h /\ HostAndPort(h).port = <<>>
<1>1. /\ h # <<>> /\ Len(h) \in Nat \ {0} /\ \A k \in 1..Len(h) : h[k] \notin {"[", "]"}
      /\ IsIPv6(h) \/ \A k \in 1..Len(h) : h[k] # ":"
  BY TextFacts DEF IsHost, HasAny
<1>2. ~SplitHostPort(h).ok
  <2> SUFFICES ASSUME SplitHostPort(h).ok PROVE FALSE
    OBVIOUS
  <2>1. PICK c \in 1..Len(h) : BareAt(h, c) \/ WrappedAt(h, c)
    BY SplitOnly
  <2>2. BareAt(h, c)
    BY <1>1, <2>1 DEF WrappedAt
  <2>3. ~IsIPv6(h)
    BY <2>2, TwoColons DEF BareAt
  <2> QED
    BY <1>1, <2>2, <2>3 DEF BareAt
<1>3. ~Bracketed(h)
  BY <1>1 DEF Bracketed
<1> QED
  BY <1>2, <1>3, Zenon DEF HostAndPort

\* Nor does an address in brackets.
LEMMA BracketsAreWhole ==
    ASSUME NEW h \in Text
    PROVE  LET w == <<"[">> \o h \o <<"]">>
           IN  HostAndPort(w).host = h /\ HostAndPort(w).port = <<>>
<1> DEFINE w == <<"[">> \o h \o <<"]">>
           n == Len(h) + 2
<1>1. /\ w \in Text /\ Len(w) = n /\ w[1] = "[" /\ w[n] = "]"
      /\ \A k \in 1..Len(h) : w[k + 1] = h[k]
  BY Brackets
<1>2. Len(h) \in Nat
  BY TextFacts
<1> HIDE DEF w
<1>3. ~SplitHostPort(w).ok
  <2> SUFFICES ASSUME SplitHostPort(w).ok PROVE FALSE
    OBVIOUS
  <2>1. PICK c \in 1..Len(w) : BareAt(w, c) \/ WrappedAt(w, c)
    BY <1>1, SplitOnly
  <2>2. n \in 1..Len(w)
    BY <1>1, <1>2
  <2> QED
    BY <1>1, <1>2, <2>1, <2>2 DEF BareAt, WrappedAt
<1>4. Bracketed(w)
  BY <1>1, <1>2 DEF Bracketed
<1>5. HostAndPort(w).host = SubSeq(w, 2, Len(w) - 1) /\ HostAndPort(w).port = <<>>
  BY <1>3, <1>4, Zenon DEF HostAndPort
<1>6. SubSeq(w, 2, n - 1) = h
  <2>1. n \in 2..Len(w)
    BY <1>1, <1>2
  <2>2. /\ SubSeq(w, 2, n - 1) \in Text /\ Len(SubSeq(w, 2, n - 1)) = n - 2
        /\ \A k \in 1..(n - 2) : SubSeq(w, 2, n - 1)[k] = w[k + 1]
    BY <1>1, <2>1, InnerIs
  <2>3. n - 2 = Len(h)
    BY <1>2
  <2> QED
    <3> DEFINE u == SubSeq(w, 2, n - 1)
    <3>1. u \in Text /\ Len(u) = Len(h) /\ \A k \in 1..Len(h) : u[k] = h[k]
      BY <1>1, <2>2, <2>3
    <3> HIDE DEF u
    <3>2. u = h
      BY <3>1, SameText
    <3> QED
      BY <3>2 DEF u
<1> QED
  BY <1>1, <1>5, <1>6 DEF w

\* From every spelling of a host and a port HostAndPort takes the host, and the port or none.
LEMMA SpellingIsHeard ==
    ASSUME NEW h \in Text, IsHost(h), NEW q \in Text, IsPort(q), NEW p, NEW w \in Spellings(h, q, p)
    PROVE  HostAndPort(w).host = h /\ HostAndPort(w).port \in {<<>>, q}
<1>1. \/ w = Wrap(h) \o <<":">> \o q
      \/ w = h \/ w = Wrap(h) \/ w = Wrap(h) \o <<":">>
  BY HostsAre, Zenon
<1>2. CASE w = Wrap(h) \o <<":">> \o q
  <2>1. Clean(q)
    BY PortIsClean
  <2>2. SplitHostPort(w).ok /\ SplitHostPort(w).host = h /\ SplitHostPort(w).port = q
    BY <1>2, <2>1, JoinSplits, Zenon
  <2> QED
    BY <2>2, Zenon DEF HostAndPort
<1>3. CASE w = h
  BY <1>3, AloneIsWhole
<1>4. CASE w = Wrap(h)
  <2>1. CASE IsIPv6(h)
    <3>1. w = <<"[">> \o h \o <<"]">>
      BY <1>4, <2>1, Zenon DEF Wrap
    <3> QED
      BY <3>1, BracketsAreWhole, Zenon
  <2>2. CASE ~IsIPv6(h)
    BY <1>4, <2>2, AloneIsWhole, Zenon DEF Wrap
  <2> QED
    BY <2>1, <2>2
<1>5. CASE w = Wrap(h) \o <<":">>
  <2>1. <<>> \in Text /\ Clean(<<>>)
    BY DEF Text, Clean, HasAny
  <2>2. Wrap(h) \o <<":">> \o <<>> = Wrap(h) \o <<":">>
    <3>1. Wrap(h) \o <<":">> \in Seq(Chars)
      BY WrapIs, Signs, JoinIs DEF Text
    <3> QED
      BY <3>1, ConcatEmptySeq
  <2>3. w = Wrap(h) \o <<":">> \o <<>>
    BY <1>5, <2>2
  <2>4. SplitHostPort(w).ok /\ SplitHostPort(w).host = h /\ SplitHostPort(w).port = <<>>
    BY <2>1, <2>3, JoinSplits, Zenon
  <2> QED
    BY <2>4, Zenon DEF HostAndPort
<1> QED
  BY <1>1, <1>2, <1>3, <1>4, <1>5

\* Only an address is written in brackets.
LEMMA OpensWithBracket ==
    ASSUME NEW h \in Text, IsHost(h), NEW q \in Text, NEW p, NEW w \in Spellings(h, q, p), w[1] = "["
    PROVE  IsIPv6(h)
<1> SUFFICES ASSUME ~IsIPv6(h) PROVE FALSE
  OBVIOUS
<1>1. Len(h) \in Nat \ {0} /\ h[1] # "["
  <2>1. h # <<>> /\ ~HasAny(h, {"[", "]", Blank})
    BY Zenon DEF IsHost
  <2>2. Len(h) \in Nat \ {0}
    BY <2>1, TextFacts
  <2>3. 1 \in 1..Len(h)
    BY <2>2
  <2> QED
    BY <2>1, <2>2, <2>3 DEF HasAny
<1>2. \/ w = h \o <<":">> \o q \/ w = h \/ w = h \o <<":">>
  BY HostsAre, Zenon DEF Wrap
<1>3. (h \o <<":">> \o q)[1] = h[1]
  BY <1>1, ColonForm
<1>4. (h \o <<":">>)[1] = h[1]
  BY <1>1, Signs, JoinIs
<1> QED
  BY <1>1, <1>2, <1>3, <1>4, Zenon

\* What follows the grammar is not refused.
LEMMA WellFormedIsAccepted ==
    ASSUME NEW w \in Text, w # <<>>, WellFormed(w)
    PROVE  NormalizeEndpoint(w, proto) # <<>>
<1>1. PICK i \in 1..Len(w), j \in 1..Len(w) :
          /\ i <= j /\ IsHost(SubSeq(w, i, j))
          /\ \E port \in {DefaultPort(proto)} \cup {After(w, k) : k \in j..Len(w)} :
                /\ port = DefaultPort(proto) \/ IsPort(port)
                /\ w \in Spellings(SubSeq(w, i, j), port, proto)
  BY Zenon DEF WellFormed
<1>2. PICK port \in {DefaultPort(proto)} \cup {After(w, k) : k \in j..Len(w)} :
          /\ port = DefaultPort(proto) \/ IsPort(port)
          /\ w \in Spellings(SubSeq(w, i, j), port, proto)
  BY <1>1, Zenon
<1> DEFINE h == SubSeq(w, i, j)
           r == HostAndPort(w).port
           q == PortOf(w, proto)
<1>3. Len(w) \in Nat /\ i \in Nat /\ 1 <= i /\ j \in 0..Len(w)
  BY TextFacts
<1>4. h \in Text
  BY <1>3, SubTextIs
<1>5. /\ DefaultPort(proto) \in Text /\ DefaultPort(proto) # << >>
      /\ AllDigits(DefaultPort(proto)) /\ Value(DefaultPort(proto)) <= 65535
  BY DefaultPortIs
<1>6. IsPort(DefaultPort(proto))
  BY <1>5, PortAgrees DEF ValidPort
<1>7. port \in Text /\ IsPort(port)
  <2>1. \A k \in j..Len(w) : After(w, k) \in Text
    <3> SUFFICES ASSUME NEW k \in j..Len(w) PROVE After(w, k) \in Text
      OBVIOUS
    <3>1. k \in 0..Len(w)
      BY <1>3
    <3> QED
      BY <3>1, AfterIs
  <2> QED
    BY <1>2, <1>5, <1>6, <2>1
<1> HIDE DEF h
<1>8. HostAndPort(w).host = h /\ r \in {<<>>, port} /\ IsHost(h) /\ w \in Spellings(h, port, proto)
  <2>1. IsHost(h) /\ w \in Spellings(h, port, proto)
    BY <1>1, <1>2 DEF h
  <2> QED
    BY <1>4, <1>7, <2>1, SpellingIsHeard
<1>9. w[1] = "[" => IsIPv6(h)
  BY <1>4, <1>7, <1>8, OpensWithBracket
<1>10. ~LooksLikeURL(w)
  BY Zenon DEF WellFormed
<1>11. r # <<>> => ValidPort(r)
  BY <1>7, <1>8, PortAgrees
<1>12. h # <<>> /\ ~HasAny(h, {Blank}) /\ ~(HasAny(h, {":", "[", "]", "%"}) /\ ~IsIPv6(h))
  BY <1>8 DEF IsHost, HasAny
<1>13. ~Refused(w)
  BY <1>8, <1>9, <1>10, <1>11, <1>12, Zenon DEF Refused
<1>14. q \in Text
  BY <1>5, <1>7, <1>8 DEF PortOf
<1>15. JoinHostPort(h, q) # <<>>
  BY <1>4, <1>8, <1>14, JoinWraps
<1> QED
  BY <1>8, <1>13, <1>15, NormalIs, Zenon

-----------------------------------------------------------------------------
(***************************************************************************)
(* The inputs, and lists that are made of other lists by passing over      *)
(* members.                                                                *)
(***************************************************************************)
\* strings.TrimSpace leaves no white space at either end,
LEMMA TrimIs ==
    ASSUME NEW s \in Text
    PROVE  /\ TrimSpace(s) \in Text
           /\ TrimSpace(s) # <<>> =>
                 TrimSpace(s)[1] # Blank /\ TrimSpace(s)[Len(TrimSpace(s))] # Blank
<1> DEFINE ink == {k \in 1..Len(s) : s[k] # Blank}
<1>1. Len(s) \in Nat /\ <<>> \in Text
  BY TextFacts DEF Text
<1>2. CASE ink = {}
  BY <1>1, <1>2 DEF TrimSpace
<1>3. CASE ink # {}
  <2>1. ink \in SUBSET Nat /\ ink \in SUBSET (1..Len(s))
    BY <1>1
  <2>2. /\ Min(ink) \in ink /\ Max(ink) \in ink /\ \A k \in ink : Min(ink) <= k
    BY <1>1, <1>3, <2>1, LeastIs, GreatestIs
  <2> DEFINE m == Min(ink)
             n == Max(ink)
  <2>3. TrimSpace(s) = SubSeq(s, m, n)
    BY <1>3 DEF TrimSpace
  <2>4. m \in 1..Len(s) /\ n \in 1..Len(s) /\ m <= n /\ s[m] # Blank /\ s[n] # Blank
    BY <2>2
  <2> HIDE DEF m, n, ink
  <2>5. /\ SubSeq(s, m, n) \in Text /\ Len(SubSeq(s, m, n)) = n - m + 1
        /\ \A k \in 1..Len(SubSeq(s, m, n)) : SubSeq(s, m, n)[k] = s[m + k - 1]
    <3>1. m \in Nat /\ 1 <= m /\ n \in 0..Len(s) /\ m <= n
      BY <1>1, <2>4
    <3> QED
      BY <3>1, SubTextIs
  <2>6. m + 1 - 1 = m /\ m + (n - m + 1) - 1 = n /\ 1 \in 1..(n - m + 1)
        /\ n - m + 1 \in 1..(n - m + 1)
    BY <1>1, <2>4
  <2> QED
    BY <2>3, <2>4, <2>5, <2>6
<1> QED
  BY <1>2, <1>3

\* and nothing for a second time.
LEMMA TrimAgain ==
    ASSUME NEW s \in Text
    PROVE  TrimSpace(TrimSpace(s)) = TrimSpace(s)
<1> DEFINE t == TrimSpace(s)
<1>1. t \in Text /\ (t # <<>> => t[1] # Blank /\ t[Len(t)] # Blank)
  BY TrimIs
<1> HIDE DEF t
<1> SUFFICES TrimSpace(t) = t
  BY DEF t
<1> DEFINE ink == {k \in 1..Len(t) : t[k] # Blank}
<1>2. CASE t = <<>>
  BY <1>2 DEF TrimSpace
<1>3. CASE t # <<>>
  <2>1. Len(t) \in Nat \ {0}
    BY <1>1, <1>3, TextFacts
  <2>2. 1 \in ink /\ Len(t) \in ink /\ ink \in SUBSET Nat /\ ink \in SUBSET (1..Len(t))
    BY <1>1, <1>3, <2>1
  <2>3. /\ Min(ink) \in ink /\ Max(ink) \in ink
        /\ \A k \in ink : Min(ink) <= k
        /\ \A k \in ink : k <= Max(ink)
    BY <2>1, <2>2, LeastIs, GreatestIs
  <2>4. Min(ink) = 1 /\ Max(ink) = Len(t)
    BY <2>1, <2>2, <2>3
  <2>5. TrimSpace(t) = SubSeq(t, 1, Len(t))
    BY <2>2, <2>4 DEF TrimSpace
  <2>6. SubSeq(t, 1, Len(t)) = t
    BY <1>1, SubSeqFull DEF Text
  <2> QED
    BY <2>5, <2>6
<1> QED
  BY <1>2, <1>3

\* The input of a line is what it tells, trimmed once.
LEMMA InputIs ==
    ASSUME NEW s \in Text
    PROVE  /\ InputOf(s) = TrimSpace(Told(s)) /\ Told(s) \in Text
           /\ InputOf(s) \in Text /\ TrimSpace(InputOf(s)) = InputOf(s)
<1> DEFINE hash == {k \in 1..Len(s) : s[k] = "#"}
           told == IF First(s, "#") = 0 THEN s ELSE Upto(s, First(s, "#") - 1)
<1>1. First(s, "#") = IF hash # {} THEN Min(hash) ELSE 0
  BY DEF First, SelectInSeq
<1>2. hash # {} => Min(hash) \in hash
  <2>1. hash \in SUBSET Nat
    OBVIOUS
  <2> QED
    BY <2>1, LeastIs
<1>3. InputOf(s) = TrimSpace(told)
  BY DEF InputOf
<1>4. Told(s) = IF hash = {} THEN s ELSE Upto(s, Min(hash) - 1)
  BY DEF Told, Min
<1> HIDE DEF hash
<1>5. hash # {} => Min(hash) # 0 /\ Min(hash) - 1 \in 0..Len(s)
  BY <1>2, TextFacts DEF hash
<1>6. told = Told(s)
  BY <1>1, <1>4, <1>5
<1>7. Told(s) \in Text
  BY <1>4, <1>5, UptoIs
<1> QED
  BY <1>3, <1>6, <1>7, TrimIs, TrimAgain

-----------------------------------------------------------------------------
\* Places are taken in their order, and none of K is left out.
Sifts(f, m, n, K) ==
    /\ f \in [1..m -> 1..n]
    /\ \A j, k \in 1..m : j < k => f[j] < f[k]
    /\ \A i \in K : i <= n => \E k \in 1..m : f[k] = i

\* No place of none.
LEMMA SiftNone ==
    ASSUME NEW K \in SUBSET (Nat \ {0})
    PROVE  Sifts(<<>>, 0, 0, K)
<1>1. <<>> \in [1..0 -> 1..0]
  OBVIOUS
<1> QED
  BY <1>1 DEF Sifts

\* The next place is passed over,
LEMMA SiftOver ==
    ASSUME NEW f, NEW m \in Nat, NEW n \in Nat, NEW K \in SUBSET Nat, Sifts(f, m, n, K), n + 1 \notin K
    PROVE  Sifts(f, m, n + 1, K)
<1>1. f \in [1..m -> 1..(n + 1)]
  BY DEF Sifts
<1>2. \A i \in K : i <= n + 1 => i <= n
  OBVIOUS
<1> QED
  BY <1>1, <1>2 DEF Sifts

\* or taken,
LEMMA SiftOne ==
    ASSUME NEW f, NEW m \in Nat, NEW n \in Nat, NEW K \in SUBSET Nat, Sifts(f, m, n, K)
    PROVE  Sifts([k \in 1..(m + 1) |-> IF k = m + 1 THEN n + 1 ELSE f[k]], m + 1, n + 1, K)
<1> DEFINE g == [k \in 1..(m + 1) |-> IF k = m + 1 THEN n + 1 ELSE f[k]]
<1>1. \A k \in 1..m : g[k] = f[k] /\ f[k] \in 1..n
  BY DEF Sifts
<1>2. g[m + 1] = n + 1
  OBVIOUS
<1>3. g \in [1..(m + 1) -> 1..(n + 1)]
  <2>1. ASSUME NEW k \in 1..(m + 1)
        PROVE  (IF k = m + 1 THEN n + 1 ELSE f[k]) \in 1..(n + 1)
    <3>1. k # m + 1 => k \in 1..m /\ f[k] \in 1..n
      BY DEF Sifts
    <3> QED
      BY <3>1
  <2> QED
    BY <2>1
<1> HIDE DEF g
<1>4. ASSUME NEW j \in 1..(m + 1), NEW k \in 1..(m + 1), j < k
      PROVE  g[j] < g[k]
  <2>1. CASE k = m + 1
    <3>1. j \in 1..m
      BY <1>4, <2>1
    <3> QED
      BY <1>1, <1>2, <2>1, <3>1
  <2>2. CASE k # m + 1
    <3>1. j \in 1..m /\ k \in 1..m
      BY <1>4, <2>2
    <3> QED
      BY <1>1, <1>4, <3>1 DEF Sifts
  <2> QED
    BY <2>1, <2>2
<1>5. ASSUME NEW i \in K, i <= n + 1
      PROVE  \E k \in 1..(m + 1) : g[k] = i
  <2>1. CASE i = n + 1
    BY <1>2, <2>1
  <2>2. CASE i # n + 1
    <3>1. i <= n
      BY <1>5, <2>2
    <3>2. PICK k \in 1..m : f[k] = i
      BY <3>1 DEF Sifts
    <3> QED
      BY <1>1, <3>2
  <2> QED
    BY <2>1, <2>2
<1>6. Sifts(g, m + 1, n + 1, K)
  BY <1>3, <1>4, <1>5 DEF Sifts
<1> QED
  BY <1>6 DEF g

\* or all that follow are taken.
LEMMA SiftAll ==
    ASSUME NEW f, NEW m \in Nat, NEW n \in Nat, NEW a \in Nat, NEW K \in SUBSET Nat, Sifts(f, m, n, K)
    PROVE  Sifts([k \in 1..(m + a) |-> IF k <= m THEN f[k] ELSE n + (k - m)], m + a, n + a, K)
<1> DEFINE g == [k \in 1..(m + a) |-> IF k <= m THEN f[k] ELSE n + (k - m)]
<1>1. \A k \in 1..m : g[k] = f[k] /\ f[k] \in 1..n
  BY DEF Sifts
<1>2. \A k \in (m + 1)..(m + a) : g[k] = n + (k - m)
  OBVIOUS
<1>3. \A k \in 1..(m + a) : g[k] \in 1..(n + a)
  <2> SUFFICES ASSUME NEW k \in 1..(m + a) PROVE g[k] \in 1..(n + a)
    OBVIOUS
  <2> HIDE DEF g
  <2>1. CASE k <= m
    <3>1. k \in 1..m
      BY <2>1
    <3> QED
      BY <1>1, <3>1
  <2>2. CASE ~(k <= m)
    <3>1. k \in (m + 1)..(m + a)
      BY <2>2
    <3> QED
      BY <1>2, <3>1
  <2> QED
    BY <2>1, <2>2
<1>4. g \in [1..(m + a) -> 1..(n + a)]
  BY <1>3
<1> HIDE DEF g
<1>5. ASSUME NEW j \in 1..(m + a), NEW k \in 1..(m + a), j < k
      PROVE  g[j] < g[k]
  <2>1. CASE k <= m
    <3>1. j \in 1..m /\ k \in 1..m
      BY <1>5, <2>1
    <3> QED
      BY <1>1, <1>5, <3>1 DEF Sifts
  <2>2. CASE ~(k <= m) /\ j <= m
    <3>1. j \in 1..m /\ k \in (m + 1)..(m + a)
      BY <1>5, <2>2
    <3>2. g[j] <= n /\ g[k] = n + (k - m) /\ k - m > 0 /\ g[j] \in Int
      BY <1>1, <1>2, <3>1
    <3> QED
      BY <3>2
  <2>3. CASE ~(k <= m) /\ ~(j <= m)
    <3>1. j \in (m + 1)..(m + a) /\ k \in (m + 1)..(m + a)
      BY <1>5, <2>3
    <3> QED
      BY <1>2, <1>5, <3>1
  <2> QED
    BY <2>1, <2>2, <2>3
<1>6. ASSUME NEW i \in K, i <= n + a
      PROVE  \E k \in 1..(m + a) : g[k] = i
  <2>1. CASE i <= n
    <3>1. PICK k \in 1..m : f[k] = i
      BY <2>1 DEF Sifts
    <3> QED
      BY <1>1, <3>1
  <2>2. CASE ~(i <= n)
    <3>1. m + (i - n) \in (m + 1)..(m + a) /\ n + (m + (i - n) - m) = i
      BY <1>6, <2>2
    <3>2. g[m + (i - n)] = i /\ m + (i - n) \in 1..(m + a)
      BY <1>2, <3>1
    <3> QED
      BY <3>2
  <2> QED
    BY <2>1, <2>2
<1>7. Sifts(g, m + a, n + a, K)
  BY <1>4, <1>5, <1>6 DEF Sifts
<1> QED
  BY <1>7 DEF g

\* What is taken of what was taken.
LEMMA SiftTwice ==
    ASSUME NEW f, NEW g, NEW l \in Nat, NEW m \in Nat, NEW n \in Nat, NEW K \in SUBSET Nat, NEW L,
           Sifts(f, m, n, K), Sifts(g, l, m, L), \A k \in 1..m : f[k] \in K => k \in L
    PROVE  Sifts([k \in 1..l |-> f[g[k]]], l, n, K)
<1> DEFINE h == [k \in 1..l |-> f[g[k]]]
<1>1. \A k \in 1..l : g[k] \in 1..m /\ f[g[k]] \in 1..n /\ h[k] = f[g[k]]
  BY DEF Sifts
<1>2. h \in [1..l -> 1..n]
  BY <1>1
<1> HIDE DEF h
<1>3. ASSUME NEW j \in 1..l, NEW k \in 1..l, j < k
      PROVE  h[j] < h[k]
  <2>1. g[j] < g[k]
    BY <1>3 DEF Sifts
  <2> QED
    BY <1>1, <2>1 DEF Sifts
<1>4. ASSUME NEW i \in K, i <= n
      PROVE  \E k \in 1..l : h[k] = i
  <2>1. PICK p \in 1..m : f[p] = i
    BY <1>4 DEF Sifts
  <2>2. p \in L /\ p <= m
    BY <2>1
  <2>3. PICK k \in 1..l : g[k] = p
    BY <2>2 DEF Sifts
  <2> QED
    BY <1>1, <2>1, <2>3
<1>5. Sifts(h, l, n, K)
  BY <1>2, <1>3, <1>4 DEF Sifts
<1> QED
  BY <1>5 DEF h

-----------------------------------------------------------------------------
(***************************************************************************)
(* The inductive invariant of collectTargets.                              *)
(***************************************************************************)
\* The members of the list that say something, and the inputs that have been read.
Filled == {k \in 1..Len(targets) : TrimSpace(targets[k]) # <<>>}
Seen == IF outcome = "reading" THEN line ELSE Len(Inputs)

\* The list is that of the inputs read so far, f the place of each of its members; and
\* the endpoints are those of the members looked at, g the member of each.
ListedBy(f) ==
    /\ Sifts(f, Len(targets), Seen, Written)
    /\ \A k \in 1..Len(targets) : TrimSpace(targets[k]) = Inputs[f[k]]
TakenBy(g) ==
    /\ Sifts(g, Len(normalized), at, Filled)
    /\ \A k \in 1..Len(normalized) :
          /\ g[k] \in Filled
          /\ normalized[k] = NormalizeEndpoint(TrimSpace(targets[g[k]]), proto)
          /\ normalized[k] # <<>>

\* An error has its cause, and a complete list has nothing left to look at.
TargetsInv ==
    /\ file \in Files /\ args \in Args /\ line \in 0..Len(Lines)
    /\ targets \in Seq(Text) /\ at \in 0..Len(targets) /\ normalized \in Seq(Text)
    /\ outcome \in {"reading", "normalizing", "ok", "error"}
    /\ outcome = "reading" => at = 0 /\ normalized = <<>>
    /\ outcome # "error" => \E f \in [1..Len(targets) -> 1..Seen] : ListedBy(f)
    /\ outcome # "error" => \E g \in [1..Len(normalized) -> 1..at] : TakenBy(g)
    /\ outcome = "ok" => at = Len(targets) /\ normalized # <<>>
    /\ outcome = "error" =>
          \/ file = Broken \/ Written = {}
          \/ \E k \in Written : NormalizeEndpoint(Inputs[k], proto) = <<>>

\* The inputs: those of the lines, then the arguments.
LEMMA InputsAre ==
    ASSUME file \in Files, args \in Args
    PROVE  /\ Lines \in Seq(Text) /\ args \in Seq(Text) /\ Inputs \in Seq(Text)
           /\ Len(Inputs) = Len(Lines) + Len(args) /\ Len(Lines) \in Nat /\ Len(args) \in Nat
           /\ \A k \in 1..Len(Lines) : Inputs[k] = InputOf(Lines[k])
           /\ \A k \in 1..Len(args) : Inputs[Len(Lines) + k] = TrimSpace(args[k])
           /\ Written = {k \in 1..Len(Inputs) : Inputs[k] # <<>>}
           /\ Written \in SUBSET Nat
<1>1. Lines \in Seq(Text) /\ args \in Seq(Text)
  <2>1. <<>> \in Seq(Text)
    OBVIOUS
  <2>2. file \in {None, Broken} \/ file \in Seq(Text)
    BY TargetsAssumption
  <2> QED
    BY <2>1, <2>2, TargetsAssumption DEF Lines
<1>2. Len(Lines) \in Nat /\ Len(args) \in Nat
  BY <1>1
<1> DEFINE N == Len(Lines) + Len(args)
           In(k) == TrimSpace(IF k <= Len(Lines) THEN Told(Lines[k]) ELSE args[k - Len(Lines)])
<1>3. Inputs = [k \in 1..N |-> In(k)]
  BY DEF Inputs
<1>4. \A k \in 1..Len(Lines) : In(k) = InputOf(Lines[k]) /\ In(k) \in Text
  BY <1>1, <1>2, InputIs
<1>5. ASSUME NEW k \in 1..Len(args)
      PROVE  In(Len(Lines) + k) = TrimSpace(args[k]) /\ In(Len(Lines) + k) \in Text
  <2>1. ~(Len(Lines) + k <= Len(Lines)) /\ Len(Lines) + k - Len(Lines) = k
    BY <1>2
  <2>2. args[k] \in Text
    BY <1>1
  <2> QED
    BY <2>1, <2>2, TrimIs
<1> HIDE DEF In
<1>6. \A k \in 1..N : In(k) \in Text
  <2> SUFFICES ASSUME NEW k \in 1..N PROVE In(k) \in Text
    OBVIOUS
  <2>1. k \in 1..Len(Lines) \/ (k - Len(Lines) \in 1..Len(args) /\ Len(Lines) + (k - Len(Lines)) = k)
    BY <1>2
  <2> QED
    BY <1>4, <1>5, <2>1
<1>7. N \in Nat
  BY <1>2
<1>8. Inputs \in Seq(Text) /\ Len(Inputs) = N
  BY <1>3, <1>6, <1>7
<1>9. \A k \in 1..Len(Lines) : k \in 1..N
  BY <1>2
<1>10. \A k \in 1..Len(args) : Len(Lines) + k \in 1..N
  BY <1>2
<1>11. Written = {k \in 1..Len(Inputs) : Inputs[k] # <<>>} /\ Written \in SUBSET Nat
  BY DEF Written
<1> QED
  BY <1>1, <1>2, <1>3, <1>4, <1>5, <1>8, <1>9, <1>10, <1>11

\* No step changes what the inputs are.
LEMMA SameInputs ==
    ASSUME UNCHANGED <<file, args>>
    PROVE  Lines' = Lines /\ Inputs' = Inputs /\ Written' = Written
<1>1. Lines' = Lines
  BY DEF Lines
<1>2. Inputs' = Inputs
  BY <1>1, Zenon DEF Inputs
<1> QED
  BY <1>1, <1>2, Zenon DEF Written

\* Before the first line nothing is listed.
LEMMA InitHolds ==
    ASSUME Init
    PROVE  TargetsInv
<1> USE DEF Init
<1>1. Len(Lines) \in Nat /\ Written \in SUBSET Nat
  BY InputsAre
<1>2. \A k \in Written : k # 0
  BY InputsAre
<1>3. Filled = {}
  BY DEF Filled
<1>4. /\ Sifts(<<>>, 0, 0, Written) /\ Sifts(<<>>, 0, 0, Filled) /\ <<>> \in [1..0 -> 1..0]
  BY <1>1, <1>2, <1>3, SiftNone
<1>5. Len(targets) = 0 /\ Len(normalized) = 0 /\ Seen = 0
  BY DEF Seen
<1>6. ListedBy(<<>>) /\ TakenBy(<<>>)
  BY <1>4, <1>5 DEF ListedBy, TakenBy
<1>7. /\ \E f \in [1..Len(targets) -> 1..Seen] : ListedBy(f)
      /\ \E g \in [1..Len(normalized) -> 1..at] : TakenBy(g)
  BY <1>4, <1>5, <1>6
<1>8. /\ 0 \in 0..Len(Lines) /\ <<>> \in Seq(Text) /\ 0 \in 0..Len(targets) /\ normalized \in Seq(Text)
  BY <1>1, <1>5
<1> QED
  BY <1>7, <1>8 DEF TargetsInv

\* A line adds its input, or nothing.
LEMMA ReadLineHolds ==
    ASSUME TargetsInv, ReadLine
    PROVE  TargetsInv'
<1> DEFINE m == Len(targets)
           input == InputOf(Lines[line + 1])
<1>1. /\ file \in Files /\ args \in Args /\ line \in 0..Len(Lines) /\ targets \in Seq(Text)
      /\ outcome = "reading" /\ at = 0 /\ normalized = <<>>
  BY DEF TargetsInv, ReadLine
<1>2. /\ line' = line + 1 /\ line + 1 \in 1..Len(Lines)
      /\ targets' = IF input = <<>> THEN targets ELSE Append(targets, input)
      /\ file' = file /\ args' = args /\ proto' = proto
      /\ at' = 0 /\ normalized' = <<>> /\ outcome' = "reading"
  BY <1>1, InputsAre DEF ReadLine
<1>3. Lines' = Lines /\ Inputs' = Inputs /\ Written' = Written
  BY <1>2, SameInputs
<1>4. PICK f : ListedBy(f)
  BY <1>1 DEF TargetsInv
<1>5. /\ Sifts(f, m, line, Written)
      /\ \A k \in 1..m : TrimSpace(targets[k]) = Inputs[f[k]]
  BY <1>1, <1>4 DEF ListedBy, Seen
<1>6. /\ Lines[line + 1] \in Text /\ Inputs[line + 1] = input
      /\ Written \in SUBSET Nat /\ Written = {k \in 1..Len(Inputs) : Inputs[k] # <<>>}
  BY <1>1, <1>2, InputsAre
<1>7. input \in Text /\ TrimSpace(input) = input
  BY <1>6, InputIs
<1>8. m \in Nat /\ line \in Nat
  BY <1>1, InputsAre
<1>9. Seen' = line + 1
  BY <1>2 DEF Seen
<1> HIDE DEF input
<1>10. targets' \in Seq(Text) /\ \E h : ListedBy(h)'
  <2>1. CASE input = <<>>
    <3>1. line + 1 \notin Written
      BY <1>6, <2>1
    <3>2. Sifts(f, m, line + 1, Written)
      BY <1>5, <1>6, <1>8, <3>1, SiftOver
    <3>3. targets' = targets
      BY <1>2, <2>1
    <3>4. ListedBy(f)'
      BY <1>3, <1>5, <1>9, <3>2, <3>3 DEF ListedBy
    <3> QED
      BY <1>1, <3>3, <3>4
  <2>2. CASE input # <<>>
    <3> DEFINE h == [k \in 1..(m + 1) |-> IF k = m + 1 THEN line + 1 ELSE f[k]]
    <3>1. Sifts(h, m + 1, line + 1, Written)
      BY <1>5, <1>6, <1>8, SiftOne
    <3>2. targets' = Append(targets, input)
      BY <1>2, <2>2
    <3>3. /\ targets' \in Seq(Text) /\ Len(targets') = m + 1 /\ targets'[m + 1] = input
          /\ \A k \in 1..m : targets'[k] = targets[k]
      BY <1>1, <1>7, <3>2, AppendProperties
    <3>4. ASSUME NEW k \in 1..(m + 1)
          PROVE  TrimSpace(targets'[k]) = Inputs[h[k]]
      <4>1. CASE k = m + 1
        BY <1>6, <1>7, <3>3, <4>1
      <4>2. CASE k # m + 1
        <5>1. k \in 1..m /\ h[k] = f[k]
          BY <1>8, <4>2
        <5> QED
          BY <1>5, <3>3, <5>1
      <4> QED
        BY <4>1, <4>2
    <3> HIDE DEF h
    <3>5. PICK g : g = h
      OBVIOUS
    <3>6. ListedBy(g)'
      BY <1>3, <1>9, <3>1, <3>3, <3>4, <3>5 DEF ListedBy
    <3> QED
      BY <3>3, <3>6
  <2> QED
    BY <2>1, <2>2
<1>11. PICK h : ListedBy(h)'
  BY <1>10
<1>12. h \in [1..Len(targets') -> 1..Seen']
  BY <1>11 DEF ListedBy, Sifts
<1>13. TakenBy(<<>>)' /\ <<>> \in [1..Len(normalized') -> 1..at']
  <2>1. Sifts(<<>>, 0, 0, Filled') /\ <<>> \in [1..0 -> 1..0] /\ Len(normalized') = 0
    <3>1. Filled' \in SUBSET (Nat \ {0})
      BY <1>10 DEF Filled
    <3> QED
      BY <1>2, <3>1, SiftNone
  <2> QED
    BY <1>2, <2>1 DEF TakenBy
<1>14. line' \in 0..Len(Lines') /\ at' \in 0..Len(targets') /\ normalized' \in Seq(Text)
  BY <1>2, <1>3, <1>10
<1> QED
  BY <1>1, <1>2, <1>10, <1>11, <1>12, <1>13, <1>14 DEF TargetsInv

\* A file that cannot be read ends the command.
LEMMA ReadFailsHolds ==
    ASSUME TargetsInv, ReadFails
    PROVE  TargetsInv'
<1>1. Lines' = Lines
  BY SameInputs DEF ReadFails
<1> QED
  BY <1>1 DEF TargetsInv, ReadFails

\* An endpoint is a text again.
LEMMA EndpointIsText ==
    ASSUME NEW w \in Text, w # <<>>, NEW p
    PROVE  NormalizeEndpoint(w, p) \in Text
<1> DEFINE h == HostAndPort(w).host
           q == PortOf(w, p)
<1>1. h \in Text /\ HostAndPort(w).port \in Text /\ DefaultPort(p) \in Text /\ <<>> \in Text
  <2>1. h \in Text /\ HostAndPort(w).port \in Text
    BY Heard, Zenon
  <2> QED
    BY <2>1, DefaultPortIs DEF Text
<1>2. q \in Text
  BY <1>1, Zenon DEF PortOf
<1> HIDE DEF h, q
<1>3. <<"[">> \o h \o <<"]", ":">> \o q \in Text
  <2>1. <<"[">> \o h \in Text
    BY <1>1, Signs, JoinIs
  <2>2. <<"[">> \o h \o <<"]", ":">> \in Text
    BY <2>1, Signs, JoinIs
  <2> QED
    BY <1>2, <2>2, JoinIs
<1>4. h \o <<":">> \o q \in Text
  BY <1>1, <1>2, ColonForm
<1>5. JoinHostPort(h, q) \in Text
  BY <1>3, <1>4, Zenon DEF JoinHostPort
<1> QED
  BY <1>1, <1>5, NormalIs, Zenon DEF h, q

\* The arguments follow the file.
LEMMA CollectHolds ==
    ASSUME TargetsInv, Collect
    PROVE  TargetsInv'
<1> DEFINE m == Len(targets)
           a == Len(args)
<1>1. /\ file \in Files /\ args \in Args /\ targets \in Seq(Text)
      /\ outcome = "reading" /\ at = 0 /\ normalized = <<>> /\ line = Len(Lines)
  BY DEF TargetsInv, Collect
<1>2. /\ targets' = targets \o args /\ outcome' = IF targets' = <<>> THEN "error" ELSE "normalizing"
      /\ file' = file /\ args' = args /\ proto' = proto /\ line' = line
      /\ at' = 0 /\ normalized' = <<>>
  BY <1>1 DEF Collect
<1>3. Lines' = Lines /\ Inputs' = Inputs /\ Written' = Written
  BY <1>2, SameInputs
<1>4. /\ Written \in SUBSET Nat /\ Len(Inputs) = line + a /\ line \in Nat /\ a \in Nat /\ m \in Nat
      /\ \A k \in 1..a : Inputs[line + k] = TrimSpace(args[k])
      /\ args \in Seq(Text) /\ Written = {k \in 1..Len(Inputs) : Inputs[k] # <<>>}
  <2>1. m \in Nat
    BY <1>1
  <2>2. /\ Written \in SUBSET Nat /\ Len(Inputs) = Len(Lines) + a /\ Len(Lines) \in Nat /\ a \in Nat
        /\ \A k \in 1..a : Inputs[Len(Lines) + k] = TrimSpace(args[k])
        /\ args \in Seq(Text) /\ Written = {k \in 1..Len(Inputs) : Inputs[k] # <<>>}
    BY <1>1, InputsAre, Zenon
  <2> QED
    BY <1>1, <2>1, <2>2, Zenon
<1>5. PICK f : ListedBy(f)
  BY <1>1 DEF TargetsInv
<1>6. /\ Sifts(f, m, line, Written)
      /\ \A k \in 1..m : TrimSpace(targets[k]) = Inputs[f[k]]
  BY <1>1, <1>5 DEF ListedBy, Seen
<1>7. /\ targets' \in Seq(Text) /\ Len(targets') = m + a
      /\ \A k \in 1..m : targets'[k] = targets[k]
      /\ \A k \in 1..a : targets'[m + k] = args[k]
  <2>1. /\ targets' \in Seq(Text) /\ Len(targets') = m + a
        /\ \A k \in 1..(m + a) : targets'[k] = IF k <= m THEN targets[k] ELSE args[k - m]
    BY <1>1, <1>2, <1>4, ConcatProperties
  <2>2. \A k \in 1..m : k \in 1..(m + a) /\ k <= m
    BY <1>4
  <2>3. \A k \in 1..a : m + k \in 1..(m + a) /\ ~(m + k <= m) /\ m + k - m = k
    BY <1>4
  <2> HIDE DEF m, a
  <2>4. \A k \in 1..m : targets'[k] = targets[k]
    BY <2>1, <2>2, Zenon
  <2>5. ASSUME NEW k \in 1..a
        PROVE  targets'[m + k] = args[k]
    <3>1. m + k \in 1..(m + a) /\ ~(m + k <= m) /\ m + k - m = k
      BY <2>3
    <3>2. PICK i : i = m + k
      OBVIOUS
    <3>3. i \in 1..(m + a) /\ ~(i <= m) /\ i - m = k
      BY <1>4, <3>2
    <3>4. targets'[i] = args[i - m]
      BY <2>1, <3>3
    <3> QED
      BY <3>2, <3>3, <3>4
  <2> QED
    BY <2>1, <2>4, <2>5, Zenon
<1> DEFINE h == [k \in 1..(m + a) |-> IF k <= m THEN f[k] ELSE line + (k - m)]
<1>8. Sifts(h, m + a, line + a, Written)
  BY <1>4, <1>6, SiftAll
<1>9. ASSUME NEW k \in 1..(m + a)
      PROVE  TrimSpace(targets'[k]) = Inputs[h[k]]
  <2>1. CASE k <= m
    <3>1. k \in 1..m /\ h[k] = f[k]
      BY <1>4, <2>1
    <3> QED
      BY <1>6, <1>7, <3>1
  <2>2. CASE ~(k <= m)
    <3>1. k - m \in 1..a /\ h[k] = line + (k - m) /\ m + (k - m) = k
      BY <1>4, <2>2
    <3> QED
      BY <1>4, <1>7, <3>1
  <2> QED
    BY <2>1, <2>2
<1> HIDE DEF h
<1>10. PICK g : g = h
  OBVIOUS
<1>11. outcome' # "error" => Seen' = line + a
  BY <1>2, <1>3, <1>4 DEF Seen
<1>12. outcome' # "error" => ListedBy(g)'
  BY <1>3, <1>7, <1>8, <1>9, <1>10, <1>11 DEF ListedBy
<1>13. outcome' # "error" => g \in [1..Len(targets') -> 1..Seen']
  BY <1>12 DEF ListedBy, Sifts
<1>14. TakenBy(<<>>)' /\ <<>> \in [1..Len(normalized') -> 1..at']
  <2>1. Sifts(<<>>, 0, 0, Filled') /\ <<>> \in [1..0 -> 1..0] /\ Len(normalized') = 0
    <3>1. Filled' \in SUBSET (Nat \ {0})
      BY <1>7 DEF Filled
    <3> QED
      BY <1>2, <3>1, SiftNone
  <2> QED
    BY <1>2, <2>1 DEF TakenBy
<1>15. outcome' = "error" => Written = {}
  <2> SUFFICES ASSUME outcome' = "error", NEW i \in Written PROVE FALSE
    OBVIOUS
  <2>1. m + a = 0
    BY <1>2, <1>7
  <2>2. i <= line + a
    BY <1>4
  <2>3. PICK k \in 1..(m + a) : h[k] = i
    BY <1>8, <2>2 DEF Sifts
  <2> QED
    BY <2>1, <2>3
<1>16. line' \in 0..Len(Lines') /\ at' \in 0..Len(targets') /\ normalized' \in Seq(Text)
  BY <1>1, <1>2, <1>3, <1>4, <1>7
<1>17. outcome' \in {"normalizing", "error"}
  BY <1>2
<1> QED
  BY <1>1, <1>2, <1>3, <1>7, <1>12, <1>13, <1>14, <1>15, <1>16, <1>17 DEF TargetsInv

\* An input adds its endpoint, or nothing, or ends the command.
LEMMA NormalizeHolds ==
    ASSUME TargetsInv, Normalize
    PROVE  TargetsInv'
<1> DEFINE m == Len(normalized)
           value == TrimSpace(targets[at + 1])
           endpoint == NormalizeEndpoint(value, proto)
<1>1. /\ file \in Files /\ args \in Args /\ line \in 0..Len(Lines)
      /\ targets \in Seq(Text) /\ normalized \in Seq(Text)
      /\ outcome = "normalizing" /\ at \in 0..Len(targets) /\ at + 1 \in 1..Len(targets)
  BY DEF TargetsInv, Normalize
<1>2. /\ targets' = targets /\ at' = at + 1
      /\ file' = file /\ args' = args /\ proto' = proto /\ line' = line
      /\ \/ value = <<>> /\ normalized' = normalized /\ outcome' = outcome
         \/ value # <<>> /\ endpoint = <<>> /\ outcome' = "error" /\ normalized' = normalized
         \/ /\ value # <<>> /\ endpoint # <<>>
            /\ normalized' = Append(normalized, endpoint) /\ outcome' = outcome
  BY DEF Normalize
<1>3. Lines' = Lines /\ Inputs' = Inputs /\ Written' = Written /\ Filled' = Filled
  BY <1>2, SameInputs DEF Filled
<1>4. PICK f : ListedBy(f)
  BY <1>1 DEF TargetsInv
<1>5. PICK g : TakenBy(g)
  BY <1>1 DEF TargetsInv
<1>6. /\ Sifts(g, m, at, Filled)
      /\ \A k \in 1..m : /\ g[k] \in Filled
                         /\ normalized[k] = NormalizeEndpoint(TrimSpace(targets[g[k]]), proto)
                         /\ normalized[k] # <<>>
  BY <1>5 DEF TakenBy
<1>7. m \in Nat /\ at \in Nat /\ Filled \in SUBSET Nat
  BY <1>1 DEF Filled
<1>8. value \in Text
  BY <1>1, TrimIs
<1>9. at + 1 \in Filled <=> value # <<>>
  BY <1>1 DEF Filled
<1> HIDE DEF value, endpoint, m
<1>10. line' \in 0..Len(Lines') /\ at' \in 0..Len(targets')
  BY <1>1, <1>2, <1>3
<1>11. ASSUME outcome' = outcome
       PROVE  ListedBy(f)' /\ f \in [1..Len(targets') -> 1..Seen']
  <2>1. Seen' = Seen
    BY <1>1, <1>2, <1>3, <1>11 DEF Seen
  <2>2. ListedBy(f)'
    BY <1>2, <1>3, <1>4, <2>1 DEF ListedBy
  <2> QED
    BY <2>2 DEF ListedBy, Sifts
<1>12. CASE value = <<>> /\ normalized' = normalized /\ outcome' = outcome
  <2>1. Sifts(g, m, at + 1, Filled)
    BY <1>6, <1>7, <1>9, <1>12, SiftOver
  <2>2. TakenBy(g)'
    BY <1>2, <1>3, <1>6, <1>12, <2>1 DEF TakenBy, m
  <2>3. g \in [1..Len(normalized') -> 1..at']
    BY <2>2 DEF TakenBy, Sifts
  <2> QED
    BY <1>1, <1>2, <1>10, <1>11, <1>12, <2>2, <2>3 DEF TargetsInv
<1>13. CASE value # <<>> /\ endpoint = <<>> /\ outcome' = "error" /\ normalized' = normalized
  <2>1. f[at + 1] \in 1..Len(Inputs) /\ Inputs[f[at + 1]] = value
    BY <1>1, <1>4 DEF ListedBy, Sifts, Seen, value
  <2>2. f[at + 1] \in Written
    BY <1>13, <2>1 DEF Written
  <2>3. NormalizeEndpoint(Inputs[f[at + 1]], proto) = <<>>
    BY <1>13, <2>1 DEF endpoint
  <2>4. \E k \in Written' : NormalizeEndpoint(Inputs'[k], proto') = <<>>
    BY <1>2, <1>3, <2>2, <2>3
  <2> QED
    BY <1>1, <1>2, <1>10, <1>13, <2>4 DEF TargetsInv
<1>14. CASE /\ value # <<>> /\ endpoint # <<>>
            /\ normalized' = Append(normalized, endpoint) /\ outcome' = outcome
  <2> DEFINE h == [k \in 1..(m + 1) |-> IF k = m + 1 THEN at + 1 ELSE g[k]]
  <2>1. Sifts(h, m + 1, at + 1, Filled)
    BY <1>6, <1>7, SiftOne
  <2>2. endpoint \in Text
    BY <1>8, <1>14, EndpointIsText DEF endpoint
  <2>3. /\ normalized' \in Seq(Text) /\ Len(normalized') = m + 1 /\ normalized'[m + 1] = endpoint
        /\ \A k \in 1..m : normalized'[k] = normalized[k]
    BY <1>1, <1>14, <2>2, AppendProperties DEF m
  <2>4. ASSUME NEW k \in 1..(m + 1)
        PROVE  /\ h[k] \in Filled
               /\ normalized'[k] = NormalizeEndpoint(TrimSpace(targets[h[k]]), proto)
               /\ normalized'[k] # <<>>
    <3>1. CASE k = m + 1
      BY <1>9, <1>14, <2>3, <3>1 DEF value, endpoint
    <3>2. CASE k # m + 1
      <4>1. k \in 1..m /\ h[k] = g[k]
        BY <1>7, <3>2
      <4> QED
        BY <1>6, <2>3, <4>1
    <3> QED
      BY <3>1, <3>2
  <2> HIDE DEF h
  <2>5. PICK i : i = h
    OBVIOUS
  <2>6. TakenBy(i)'
    BY <1>2, <1>3, <2>1, <2>3, <2>4, <2>5 DEF TakenBy
  <2>7. i \in [1..Len(normalized') -> 1..at']
    BY <2>6 DEF TakenBy, Sifts
  <2> QED
    BY <1>1, <1>2, <1>10, <1>11, <1>14, <2>3, <2>6, <2>7 DEF TargetsInv
<1> QED
  BY <1>2, <1>12, <1>13, <1>14

\* The list is complete.
LEMMA FinishHolds ==
    ASSUME TargetsInv, Finish
    PROVE  TargetsInv'
<1>1. /\ file \in Files /\ args \in Args /\ line \in 0..Len(Lines)
      /\ targets \in Seq(Text) /\ normalized \in Seq(Text)
      /\ outcome = "normalizing" /\ at = Len(targets) /\ at \in 0..Len(targets)
  BY DEF TargetsInv, Finish
<1>2. /\ UNCHANGED <<file, args, proto, line, targets, at, normalized>>
      /\ outcome' = IF normalized = <<>> THEN "error" ELSE "ok"
  BY DEF Finish
<1>3. Lines' = Lines /\ Inputs' = Inputs /\ Written' = Written /\ Filled' = Filled
  BY <1>2, SameInputs DEF Filled
<1>4. PICK f : ListedBy(f)
  BY <1>1 DEF TargetsInv
<1>5. PICK g : TakenBy(g)
  BY <1>1 DEF TargetsInv
<1>6. Seen = Len(Inputs) /\ Seen' = Seen
  BY <1>1, <1>2, <1>3 DEF Seen
<1>7. ListedBy(f)' /\ TakenBy(g)'
  BY <1>2, <1>3, <1>4, <1>5, <1>6 DEF ListedBy, TakenBy
<1>8. f \in [1..Len(targets') -> 1..Seen'] /\ g \in [1..Len(normalized') -> 1..at']
  BY <1>7 DEF ListedBy, TakenBy, Sifts
<1>9. normalized = <<>> => Written = {}
  <2> SUFFICES ASSUME normalized = <<>>, NEW i \in Written PROVE FALSE
    OBVIOUS
  <2>1. i <= Len(Inputs) /\ Inputs[i] # <<>>
    BY <1>1, InputsAre
  <2>2. PICK k \in 1..Len(targets) : f[k] = i
    BY <1>4, <1>6, <2>1 DEF ListedBy, Sifts
  <2>3. k \in Filled /\ k <= at
    BY <1>1, <1>4, <2>1, <2>2 DEF ListedBy, Filled
  <2>4. PICK j \in 1..Len(normalized) : g[j] = k
    BY <1>5, <2>3 DEF TakenBy, Sifts
  <2> QED
    BY <2>4
<1> QED
  BY <1>1, <1>2, <1>3, <1>7, <1>8, <1>9 DEF TargetsInv

\* Every step of collectTargets keeps the invariant.
LEMMA StepHolds ==
    ASSUME TargetsInv, [Next]_vars
    PROVE  TargetsInv'
<1>1. CASE UNCHANGED vars
  <2>1. UNCHANGED <<file, args, proto, line, targets, at, normalized, outcome>>
    BY <1>1 DEF vars
  <2>2. Lines' = Lines /\ Inputs' = Inputs /\ Written' = Written /\ Filled' = Filled /\ Seen' = Seen
    BY <2>1, SameInputs DEF Filled, Seen
  <2>3. \A f : ListedBy(f)' <=> ListedBy(f)
    BY <2>1, <2>2 DEF ListedBy
  <2>4. \A g : TakenBy(g)' <=> TakenBy(g)
    BY <2>1, <2>2 DEF TakenBy
  <2> QED
    BY <2>1, <2>2, <2>3, <2>4 DEF TargetsInv
<1> QED
  BY <1>1, ReadLineHolds, ReadFailsHolds, CollectHolds, NormalizeHolds, FinishHolds DEF Next

\* The endpoints are those of the inputs, each at its place.
LEMMA PlacesHold ==
    ASSUME TargetsInv, outcome = "ok"
    PROVE  \E place \in [1..Len(normalized) -> Written] :
              /\ \A k \in 2..Len(normalized) : place[k - 1] < place[k]
              /\ \A i \in Written : \E k \in 1..Len(normalized) : place[k] = i
              /\ \A k \in 1..Len(normalized) :
                    /\ normalized[k] = NormalizeEndpoint(Inputs[place[k]], proto)
                    /\ normalized[k] # <<>>
<1>1. /\ file \in Files /\ args \in Args /\ at = Len(targets)
      /\ targets \in Seq(Text) /\ normalized \in Seq(Text)
  BY DEF TargetsInv
<1>2. /\ Written \in SUBSET Nat /\ Len(Inputs) \in Nat
      /\ Written = {k \in 1..Len(Inputs) : Inputs[k] # <<>>}
  BY <1>1, InputsAre
<1>3. PICK f : ListedBy(f)
  BY DEF TargetsInv
<1>4. PICK g : TakenBy(g)
  BY DEF TargetsInv
<1> DEFINE l == Len(normalized)
           m == Len(targets)
           n == Len(Inputs)
<1>5. /\ Sifts(f, m, n, Written) /\ \A k \in 1..m : TrimSpace(targets[k]) = Inputs[f[k]]
  BY <1>3 DEF ListedBy, Seen
<1>6. /\ Sifts(g, l, m, Filled)
      /\ \A k \in 1..l : /\ g[k] \in Filled
                         /\ normalized[k] = NormalizeEndpoint(TrimSpace(targets[g[k]]), proto)
                         /\ normalized[k] # <<>>
  BY <1>1, <1>4 DEF TakenBy
<1>7. l \in Nat /\ m \in Nat /\ n \in Nat
  BY <1>1, <1>2
<1>8. Filled = {k \in 1..m : TrimSpace(targets[k]) # <<>>}
  BY DEF Filled
<1> DEFINE h == [k \in 1..l |-> f[g[k]]]
<1>9. \A k \in 1..m : f[k] \in Written <=> k \in Filled
  <2> SUFFICES ASSUME NEW k \in 1..m PROVE f[k] \in Written <=> k \in Filled
    OBVIOUS
  <2>1. f[k] \in 1..n
    BY <1>5 DEF Sifts
  <2> QED
    BY <1>2, <1>5, <1>8, <2>1
<1>10. Sifts(h, l, n, Written)
  BY <1>2, <1>5, <1>6, <1>7, <1>9, SiftTwice
<1>11. ASSUME NEW k \in 1..l
       PROVE  /\ h[k] \in Written
              /\ normalized[k] = NormalizeEndpoint(Inputs[h[k]], proto)
              /\ normalized[k] # <<>>
  <2>1. h[k] = f[g[k]] /\ g[k] \in 1..m
    BY <1>6, <1>8
  <2> QED
    BY <1>5, <1>6, <1>9, <2>1
<1>12. h \in [1..l -> Written]
  BY <1>11
<1>13. \A i \in Written : \E k \in 1..l : h[k] = i
  BY <1>2, <1>10 DEF Sifts
<1>14. ASSUME NEW k \in 2..l
       PROVE  h[k - 1] < h[k]
  <2>1. k - 1 \in 1..l /\ k \in 1..l /\ k - 1 < k
    BY <1>7
  <2> QED
    BY <1>10, <2>1 DEF Sifts
<1> HIDE DEF h
<1> WITNESS h \in [1..l -> Written]
<1> QED
  BY <1>11, <1>13, <1>14, Zenon

\* The invariant gives the endpoints their meaning ...
LEMMA MeaningHolds ==
    ASSUME TargetsInv
    PROVE  EndpointsMeanInputs
<1> SUFFICES ASSUME outcome = "ok"
             PROVE  \E place \in [1..Len(normalized) -> Written] :
                        /\ \A k \in 2..Len(normalized) : place[k - 1] < place[k]
                        /\ \A i \in Written : \E k \in 1..Len(normalized) : place[k] = i
                        /\ \A k \in 1..Len(normalized) :
                              LET split == SplitHostPort(normalized[k])
                                  input == Inputs[place[k]]
                              IN \/ split.ok /\ input \in Spellings(split.host, split.port, proto)
                                 \/ ZoneHasBracket(input)
  BY Zenon DEF EndpointsMeanInputs
<1>1. PICK place \in [1..Len(normalized) -> Written] :
          /\ \A k \in 2..Len(normalized) : place[k - 1] < place[k]
          /\ \A i \in Written : \E k \in 1..Len(normalized) : place[k] = i
          /\ \A k \in 1..Len(normalized) :
                /\ normalized[k] = NormalizeEndpoint(Inputs[place[k]], proto)
                /\ normalized[k] # <<>>
  BY PlacesHold
<1>2. \A k \in Written : Inputs[k] \in Text /\ Inputs[k] # <<>>
  BY InputsAre DEF TargetsInv
<1>3. ASSUME NEW k \in 1..Len(normalized)
      PROVE  LET split == SplitHostPort(normalized[k])
                 input == Inputs[place[k]]
             IN \/ split.ok /\ input \in Spellings(split.host, split.port, proto)
                \/ ZoneHasBracket(input)
  <2> DEFINE w == Inputs[place[k]]
             e == NormalizeEndpoint(w, proto)
  <2>1. w \in Text /\ w # <<>> /\ normalized[k] = e /\ e # <<>>
    BY <1>1, <1>2
  <2> HIDE DEF w, e
  <2>2. ASSUME ~ZoneHasBracket(w)
        PROVE  /\ SplitHostPort(e).ok
               /\ w \in Spellings(SplitHostPort(e).host, SplitHostPort(e).port, proto)
    <3>1. /\ SplitHostPort(e).ok /\ SplitHostPort(e).host = HostAndPort(w).host
          /\ SplitHostPort(e).port = PortOf(w, proto)
          /\ w \in Spellings(HostAndPort(w).host, PortOf(w, proto), proto)
      BY <2>1, <2>2, Accepted, Zenon DEF e
    <3> QED
      BY <3>1, Zenon
  <2> QED
    BY <2>1, <2>2, Zenon DEF w
<1> QED
  BY <1>1, <1>3, Zenon

\* ... a complete list only to inputs that follow the grammar ...
LEMMA AcceptedOnly ==
    ASSUME TargetsInv, outcome = "ok"
    PROVE  Written # {} /\ \A k \in Written : Odd \/ WellFormed(Inputs[k])
<1>1. PICK place \in [1..Len(normalized) -> Written] :
          /\ \A k \in 2..Len(normalized) : place[k - 1] < place[k]
          /\ \A i \in Written : \E k \in 1..Len(normalized) : place[k] = i
          /\ \A k \in 1..Len(normalized) :
                /\ normalized[k] = NormalizeEndpoint(Inputs[place[k]], proto)
                /\ normalized[k] # <<>>
  BY PlacesHold
<1>2. \A k \in Written : Inputs[k] \in Text /\ Inputs[k] # <<>>
  BY InputsAre DEF TargetsInv
<1>3. Written # {}
  <2>1. normalized \in Seq(Text) /\ normalized # <<>>
    BY DEF TargetsInv
  <2>2. 1 \in 1..Len(normalized)
    BY <2>1
  <2> QED
    BY <2>2
<1>4. ASSUME NEW i \in Written, ~Odd
      PROVE  WellFormed(Inputs[i])
  <2>1. ~ZoneHasBracket(Inputs[i])
    BY <1>4, Zenon DEF Odd
  <2>2. NormalizeEndpoint(Inputs[i], proto) # <<>>
    BY <1>1
  <2> QED
    BY <1>2, <2>1, <2>2, AcceptedIsWellFormed
<1> QED
  BY <1>3, <1>4, Zenon

\* ... and a refusal a reason.
LEMMA RefusalHolds ==
    ASSUME TargetsInv
    PROVE  RefusedExactlyMalformed
<1> SUFFICES ASSUME outcome \in {"ok", "error"}, file # Broken, ~Odd
             PROVE  (outcome = "error") <=> (Written = {} \/ \E k \in Written : ~WellFormed(Inputs[k]))
  BY Zenon DEF RefusedExactlyMalformed
<1>1. file \in Files /\ args \in Args
  BY DEF TargetsInv
<1>2. \A k \in Written : Inputs[k] \in Text /\ Inputs[k] # <<>>
  BY <1>1, InputsAre
<1>3. ASSUME outcome = "error"
      PROVE  Written = {} \/ \E k \in Written : ~WellFormed(Inputs[k])
  <2> SUFFICES ASSUME Written # {}
               PROVE  \E k \in Written : ~WellFormed(Inputs[k])
    OBVIOUS
  <2>1. PICK k \in Written : NormalizeEndpoint(Inputs[k], proto) = <<>>
    BY <1>3, Zenon DEF TargetsInv
  <2>2. ~WellFormed(Inputs[k])
    BY <1>2, <2>1, WellFormedIsAccepted
  <2> QED
    BY <2>2
<1>4. ASSUME outcome = "ok"
      PROVE  Written # {} /\ \A k \in Written : WellFormed(Inputs[k])
  BY <1>4, AcceptedOnly, Zenon
<1>5. "ok" # "error"
  OBVIOUS
<1> QED
  BY <1>3, <1>4, <1>5, Zenon

-----------------------------------------------------------------------------
(***************************************************************************)
(* The way to an endpoint.                                                 *)
(***************************************************************************)
\* A connection is made to the proxy that was chosen, after the list was complete.
ProxyInv ==
    /\ step \in {"validate", "resolve"} => route = "" /\ addr = None
    /\ step = "resolve" => flag = None \/ P!Accepts(P!WithScheme(flag))
    /\ step = "dial" => route = "proxy" /\ addr = None
    /\ route = "proxy" => P!Accepts(proxy)
    /\ addr # None => addr = [host |-> proxy.host, port |-> P!PortToDial(proxy)] /\ route = "proxy"
    /\ route \in {"direct", "proxy"} => outcome = "ok"
    /\ P!ChoiceFollows

DestInv == TargetsInv /\ ProxyInv

\* The choice of a proxy begins with nothing chosen.
LEMMA ProxyStarts ==
    ASSUME P!Init
    PROVE  ProxyInv
  BY DEF P!Init, ProxyInv, P!ChoiceFollows

\* A flag that passed the validation is accepted.
LEMMA ValidateHolds ==
    ASSUME ProxyInv, P!Validate, UNCHANGED vars
    PROVE  ProxyInv'
<1>1. route = "" /\ addr = None /\ outcome' = outcome
  BY DEF ProxyInv, P!Validate, vars
<1>2. UNCHANGED <<flag, setting, excluded, proxy, addr>>
  BY DEF P!Validate
<1>3. CASE (flag = None \/ P!Accepts(P!WithScheme(flag))) /\ step' = "resolve" /\ route' = route
  <2>1. (flag = None \/ P!Accepts(P!WithScheme(flag)))'
    BY <1>2, <1>3, Zenon DEF P!Accepts, P!WithScheme
  <2>2. route' = "" /\ addr' = None
    BY <1>1, <1>2, <1>3
  <2>3. P!ChoiceFollows'
    BY <2>2 DEF P!ChoiceFollows
  <2> QED
    BY <1>3, <2>1, <2>2, <2>3 DEF ProxyInv
<1>4. CASE step' = "end" /\ route' = "refused"
  BY <1>1, <1>2, <1>4 DEF ProxyInv, P!ChoiceFollows
<1> QED
  BY <1>3, <1>4, Zenon DEF P!Validate

\* The flag first, then what can be read of the environment; a proxy that is not
\* accepted is an error.
LEMMA ResolveHolds ==
    ASSUME ProxyInv, P!Resolve, outcome = "ok", UNCHANGED vars
    PROVE  ProxyInv'
<1>1. route = "" /\ addr = None /\ outcome' = "ok" /\ (flag = None \/ P!Accepts(P!WithScheme(flag)))
  BY DEF ProxyInv, P!Resolve, vars
<1>2. UNCHANGED <<flag, setting, excluded, addr>>
  BY DEF P!Resolve
<1>3. \/ flag # None /\ P!Chosen.route = "proxy" /\ P!Chosen.proxy = P!WithScheme(flag)
      \/ /\ flag = None /\ (setting = None \/ excluded \/ ~setting.parses)
         /\ P!Chosen.route = "direct"
      \/ /\ flag = None /\ ~excluded /\ setting.parses /\ P!Chosen.route = "proxy"
         /\ P!Chosen.proxy = P!WithScheme(setting)
  BY Zenon DEF P!Chosen, P!Environment
<1>4. CASE /\ P!Chosen.route = "proxy" /\ P!Accepts(P!Chosen.proxy)
           /\ step' = "dial" /\ route' = "proxy" /\ proxy' = P!Chosen.proxy
  <2>1. P!ChoiceFollows'
    BY <1>2, <1>3, <1>4, Zenon DEF P!ChoiceFollows, P!WithScheme
  <2>2. P!Accepts(proxy)'
    BY <1>4, Zenon DEF P!Accepts
  <2> QED
    BY <1>1, <1>2, <1>4, <2>1, <2>2 DEF ProxyInv
<1>5. CASE /\ ~(P!Chosen.route = "proxy" /\ P!Accepts(P!Chosen.proxy))
           /\ step' = "end" /\ proxy' = proxy
           /\ route' = IF P!Chosen.route = "direct" THEN "direct" ELSE "error"
  <2>1. ASSUME P!Chosen.route = "direct"
        PROVE  P!ChoiceFollows'
    <3>1. flag = None /\ (setting = None \/ excluded \/ ~setting.parses)
      BY <1>3, <2>1, Zenon
    <3>2. route' = "direct"
      BY <1>5, <2>1, Zenon
    <3> QED
      BY <1>2, <3>1, <3>2, Zenon DEF P!ChoiceFollows
  <2>2. ASSUME P!Chosen.route # "direct"
        PROVE  P!ChoiceFollows'
    <3>1. P!Chosen.route = "proxy" /\ ~P!Accepts(P!Chosen.proxy)
      BY <1>3, <1>5, <2>2, Zenon
    <3>2. flag = None /\ ~excluded /\ setting.parses /\ ~P!Accepts(P!WithScheme(setting))
      BY <1>1, <1>3, <3>1, Zenon
    <3>3. route' = "error"
      BY <1>5, <2>2, Zenon
    <3>4. (~P!Accepts(P!WithScheme(setting)))'
      BY <1>2, <3>2, Zenon DEF P!Accepts, P!WithScheme
    <3> QED
      BY <1>2, <3>2, <3>3, <3>4, Zenon DEF P!ChoiceFollows
  <2>3. P!ChoiceFollows'
    BY <2>1, <2>2, Zenon
  <2> QED
    BY <1>1, <1>2, <1>5, <2>3 DEF ProxyInv
<1> QED
  BY <1>4, <1>5, Zenon DEF P!Resolve

\* The address is made of the proxy that was chosen.
LEMMA DialHolds ==
    ASSUME ProxyInv, P!Dial, UNCHANGED vars
    PROVE  ProxyInv'
<1>1. /\ UNCHANGED <<flag, setting, excluded, route, proxy, outcome>> /\ route = "proxy"
      /\ step' = "end" /\ addr' = [host |-> proxy.host, port |-> P!PortToDial(proxy)]
  BY DEF ProxyInv, P!Dial, vars
<1>2. P!ChoiceFollows' <=> P!ChoiceFollows
  BY <1>1 DEF P!ChoiceFollows, P!WithScheme
<1>3. (P!Accepts(proxy))' <=> P!Accepts(proxy)
  BY <1>1 DEF P!Accepts
<1>4. (P!PortToDial(proxy))' = P!PortToDial(proxy)
  BY <1>1 DEF P!PortToDial
<1> QED
  BY <1>1, <1>2, <1>3, <1>4 DEF ProxyInv

\* While the targets are collected nothing is chosen.
LEMMA ProxyIdles ==
    ASSUME ProxyInv, UNCHANGED proxyVars, outcome' = outcome \/ step = "resolve"
    PROVE  ProxyInv'
<1>1. UNCHANGED <<flag, setting, excluded, step, route, proxy, addr>>
  BY DEF proxyVars
<1>2. P!ChoiceFollows' <=> P!ChoiceFollows
  BY <1>1 DEF P!ChoiceFollows, P!WithScheme
<1>3. (P!Accepts(proxy))' <=> P!Accepts(proxy)
  BY <1>1 DEF P!Accepts
<1>4. (P!PortToDial(proxy))' = P!PortToDial(proxy)
  BY <1>1 DEF P!PortToDial
<1>5. (P!Accepts(P!WithScheme(flag)))' <=> P!Accepts(P!WithScheme(flag))
  BY <1>1 DEF P!Accepts, P!WithScheme
<1> QED
  BY <1>1, <1>2, <1>3, <1>4, <1>5 DEF ProxyInv

\* The invariant of the way from the command line to the first connection
\* (RunE, collectTargets, resolveProxy, dialViaProxyContext).
THEOREM DestInvariance == DestSpec => []DestInv
<1>1. DestInit => DestInv
  BY InitHolds, ProxyStarts DEF DestInit, DestInv
<1>2. ASSUME DestInv, [DestNext]_destVars
      PROVE  DestInv'
  <2>1. CASE CheckProxy
    BY <1>2, <2>1, StepHolds, ValidateHolds DEF DestInv, CheckProxy
  <2>2. CASE CollectTargets
    BY <1>2, <2>2, StepHolds, ProxyIdles DEF DestInv, CollectTargets
  <2>3. CASE Connect
    BY <1>2, <2>3, StepHolds, ResolveHolds, DialHolds DEF DestInv, Connect
  <2>4. CASE UNCHANGED destVars
    <3>1. UNCHANGED vars /\ UNCHANGED proxyVars
      BY <2>4 DEF destVars
    <3>2. outcome' = outcome
      BY <3>1 DEF vars
    <3> QED
      BY <1>2, <3>1, <3>2, StepHolds, ProxyIdles DEF DestInv
  <2> QED
    BY <1>2, <2>1, <2>2, <2>3, <2>4 DEF DestNext, Done
<1> QED
  BY <1>1, <1>2, PTL DEF DestSpec

\* The endpoints that collectTargets returns are those of the inputs in their
\* order, and SplitHostPort finds in each the host and the port that were meant: for
\* every file, every list of arguments and texts of any length.
THEOREM EndpointsFollow == DestSpec => []EndpointsMeanInputs
<1>1. DestInv => EndpointsMeanInputs
  BY MeaningHolds DEF DestInv
<1> QED
  BY <1>1, DestInvariance, PTL

\* NormalizeEndpoint and collectTargets refuse exactly what does not follow the
\* grammar of endpoints, whatever is written.
THEOREM RefusalFollows == DestSpec => []RefusedExactlyMalformed
<1>1. DestInv => RefusedExactlyMalformed
  BY RefusalHolds DEF DestInv
<1> QED
  BY <1>1, DestInvariance, PTL

\* The port that is dialled is the one written or that of the scheme.
LEMMA PortHolds ==
    ASSUME ProxyInv
    PROVE  P!PortFollows
<1> DEFINE n == proxy.port
           c == proxy.scheme
           a == addr.port
<1> SUFFICES ASSUME addr # None, n # P!EmptyPort
             PROVE  IF n = P!NoPort THEN a = (IF c = "http" THEN 80 ELSE 443)
                    ELSE a = n /\ a \in P!Ports
  BY Zenon DEF P!PortFollows
<1>1. a = P!PortToDial(proxy) /\ P!Accepts(proxy)
  BY DEF ProxyInv
<1>2. c \in {"http", "https"} /\ n \in {P!NoPort, P!EmptyPort} \cup P!Ports
  BY <1>1, Zenon DEF P!Accepts
<1>3. a = IF n = P!NoPort THEN IF c = "https" THEN 443 ELSE 80 ELSE n
  BY <1>1, Zenon DEF P!PortToDial
<1> HIDE DEF n, c, a
<1> QED
  BY <1>2, <1>3

\* resolveProxy takes the way the flag asks for, or that part of the environment that
\* net/http can read; the port that is dialled is the one that was meant, and nothing
\* is dialled for a refused list.
THEOREM RouteFollows == DestSpec => []RouteAsConfigured
<1>1. ASSUME DestInv
      PROVE  RouteAsConfigured
  <2>1. P!ChoiceFollows /\ P!PortFollows
    BY <1>1, PortHolds DEF DestInv, ProxyInv
  <2>2. ASSUME route \in {"direct", "proxy"}
        PROVE  \A k \in Written : Odd \/ WellFormed(Inputs[k])
    BY <1>1, <2>2, AcceptedOnly, Zenon DEF DestInv, ProxyInv
  <2> QED
    BY <2>1, <2>2, Zenon DEF RouteAsConfigured
<1> QED
  BY <1>1, DestInvariance, PTL

-----------------------------------------------------------------------------
(***************************************************************************)
(* The flags of a command (Config).                                        *)
(***************************************************************************)
\* What a flag is before the file is applied, and after.
Given(k) == IF cli[k] = "absent" THEN "default" ELSE cli[k]
Final(k) ==
    IF k \in CommandKeys(command) /\ cli[k] = "absent" /\ FlagValues[k] # "absent"
    THEN FlagValues[k] ELSE Given(k)

ConfigType ==
    /\ command \in {"client", "pem"} /\ explicit \in BOOLEAN /\ configDir \in BOOLEAN
    /\ configFile \in File
    /\ settings \in FileSettings
    /\ configFile # "ok" => settings = NoSettings
    /\ cli \in [Keys -> ValueFrom("cli")]
    /\ \A k \in Keys \ CommandKeys(command) : cli[k] = "absent"
    /\ DOMAIN values = Keys /\ DOMAIN flags = Keys
    /\ pc \in {"load", "apply", "validate", "ended"}
    /\ result \in {"pending", "running", "error"}

\* In whichever order the values are taken: one that is left is the file's and its
\* flag is untouched, one that is gone has been applied where it belongs.
AppliedSoFar ==
    \A k \in Keys :
        \/ values[k] = "absent" /\ flags[k] = Final(k)
        \/ values[k] = FlagValues[k] /\ flags[k] = Given(k)

Decided ==
    IF result = "error" THEN ~LoadAccepts \/ \E k \in CommandKeys(command) : Final(k) = "bad"
    ELSE /\ result = "running" /\ LoadAccepts
         /\ \A k \in CommandKeys(command) : flags[k] = Final(k) /\ Final(k) # "bad"

ConfigInv ==
    /\ ConfigType
    /\ pc = "load" => \A k \in Keys : flags[k] = Given(k)
    /\ pc = "apply" => LoadAccepts /\ AppliedSoFar
    /\ pc = "validate" => LoadAccepts /\ \A k \in Keys : flags[k] = Final(k)
    /\ pc = "ended" => Decided
    /\ pc # "ended" => result = "pending"

\* No sections is a file with nothing in it.
LEMMA NoSettingsFit == NoSettings \in FileSettings
  BY DEF NoSettings, FileSettings, Sections, Keys, SectionKeys, ValueFrom

\* A command has flags of the keys only.
LEMMA CommandKeysFit == command \in {"client", "pem"} => CommandKeys(command) \subseteq Keys
  BY DEF CommandKeys, Keys

\* A run begins with the flags of the command line.
LEMMA ConfigBegins == ConfigInit => ConfigInv
<1> SUFFICES ASSUME ConfigInit
             PROVE  ConfigInv
  OBVIOUS
<1>1. configFile \in File /\ settings \in FileSettings /\ (configFile # "ok" => settings = NoSettings)
  BY NoSettingsFit DEF ConfigInit, File
<1>2. ConfigType
  BY <1>1 DEF ConfigInit, ConfigType
<1> QED
  BY <1>2 DEF ConfigInit, ConfigInv, Given

\* Load takes the values of the file, or refuses it.
LEMMA Loading == ConfigInv /\ Load => ConfigInv'
<1> SUFFICES ASSUME ConfigInv, Load
             PROVE  ConfigInv'
  OBVIOUS
<1>1. UNCHANGED <<command, explicit, configDir, configFile, settings, cli>>
  BY DEF Load
<1>2. /\ LoadAccepts' = LoadAccepts /\ FlagValues' = FlagValues
      /\ \A k \in Keys : Final(k)' = Final(k) /\ Given(k)' = Given(k)
  BY <1>1 DEF LoadAccepts, Valid, FlagValues, Final, Given, CommandKeys
<1>3. CASE LoadAccepts
  <2>1. values' = FlagValues /\ pc' = "apply" /\ UNCHANGED <<flags, result>>
    BY <1>3 DEF Load
  <2> QED
    BY <1>1, <1>2, <1>3, <2>1 DEF ConfigInv, ConfigType, AppliedSoFar, Load, FlagValues
<1>4. CASE ~LoadAccepts
  <2>1. pc' = "ended" /\ result' = "error" /\ UNCHANGED <<values, flags>>
    BY <1>4 DEF Load, Reject
  <2> QED
    BY <1>1, <1>2, <1>4, <2>1 DEF ConfigInv, ConfigType, Decided
<1> QED
  BY <1>3, <1>4

\* Steps that change neither the file nor the command line leave open what a flag is to be.
LEMMA Steady ==
    ASSUME UNCHANGED <<command, explicit, configDir, configFile, settings, cli>>
    PROVE  /\ LoadAccepts' = LoadAccepts /\ FlagValues' = FlagValues
           /\ CommandKeys(command)' = CommandKeys(command)
           /\ \A k \in Keys : Final(k)' = Final(k) /\ Given(k)' = Given(k)
  BY DEF LoadAccepts, Valid, FlagValues, Final, Given, CommandKeys

\* One turn of the loop applies one value, in whichever order.
LEMMA Applying == \A k \in Keys : ConfigInv /\ Apply(k) => ConfigInv'
<1> SUFFICES ASSUME NEW k \in Keys, ConfigInv, Apply(k)
             PROVE  ConfigInv'
  OBVIOUS
<1>1. /\ UNCHANGED <<command, explicit, configDir, configFile, settings, cli, pc, result>>
      /\ pc = "apply" /\ values[k] # "absent" /\ values' = [values EXCEPT ![k] = "absent"]
      /\ flags' = IF k \in CommandKeys(command) /\ cli[k] = "absent"
                  THEN [flags EXCEPT ![k] = values[k]] ELSE flags
  BY DEF Apply, Changed
<1>2. ConfigType' /\ LoadAccepts'
  BY <1>1, Steady DEF ConfigInv, ConfigType
<1>3. values[k] = FlagValues[k] /\ flags[k] = Given(k)
  BY <1>1 DEF ConfigInv, AppliedSoFar
<1>4. values'[k] = "absent" /\ flags'[k] = Final(k)
  BY <1>1, <1>3 DEF ConfigInv, ConfigType, Final
<1>5. \A l \in Keys \ {k} : values'[l] = values[l] /\ flags'[l] = flags[l]
  BY <1>1 DEF ConfigInv, ConfigType
<1>6. AppliedSoFar'
  BY <1>1, <1>4, <1>5, Steady DEF ConfigInv, AppliedSoFar
<1> QED
  BY <1>1, <1>2, <1>6 DEF ConfigInv

\* When no value is left every flag is final.
LEMMA ApplyingEnds == ConfigInv /\ Applied => ConfigInv'
<1> SUFFICES ASSUME ConfigInv, Applied
             PROVE  ConfigInv'
  OBVIOUS
<1>1. /\ UNCHANGED <<command, explicit, configDir, configFile, settings, cli>>
      /\ UNCHANGED <<values, flags, result>>
      /\ pc = "apply" /\ pc' = "validate" /\ \A k \in Keys : values[k] = "absent"
  BY DEF Applied
<1>2. \A k \in Keys : flags[k] = Final(k)
  BY <1>1 DEF ConfigInv, AppliedSoFar, Final
<1> QED
  BY <1>1, <1>2, Steady DEF ConfigInv, ConfigType

\* The head of RunE refuses a bad flag.
LEMMA Validating == ConfigInv /\ ValidateFlags => ConfigInv'
<1> SUFFICES ASSUME ConfigInv, ValidateFlags
             PROVE  ConfigInv'
  OBVIOUS
<1>1. /\ UNCHANGED <<command, explicit, configDir, configFile, settings, cli, values, flags>>
      /\ pc = "validate" /\ pc' = "ended"
      /\ result' = IF \E k \in CommandKeys(command) : flags[k] = "bad" THEN "error"
                                                                        ELSE "running"
  BY DEF ValidateFlags, Reject
<1>2. /\ LoadAccepts /\ \A k \in Keys : flags[k] = Final(k)
      /\ CommandKeys(command) \subseteq Keys
  BY <1>1, CommandKeysFit DEF ConfigInv, ConfigType
<1>3. Decided'
  BY <1>1, <1>2, Steady DEF Decided
<1> QED
  BY <1>1, <1>3, Steady DEF ConfigInv, ConfigType

\* Every step of the configuration keeps the invariant.
LEMMA ConfigStep == ConfigInv /\ [ConfigNext]_configVars => ConfigInv'
<1>1. ASSUME ConfigInv, Ended \/ UNCHANGED configVars
      PROVE  ConfigInv'
  <2>1. /\ UNCHANGED <<command, explicit, configDir, configFile, settings, cli>>
        /\ UNCHANGED <<pc, values, flags, result>>
    BY <1>1 DEF Ended, configVars
  <2> QED
    BY <1>1, <2>1, Steady, CommandKeysFit DEF ConfigInv, ConfigType, AppliedSoFar, Decided
<1> QED
  BY <1>1, Loading, Applying, ApplyingEnds, Validating DEF ConfigNext

\* The invariant of the flags (loadAndApplyConfig and the validation in RunE).
THEOREM ConfigInvariance == ConfigSpec => []ConfigInv
  BY ConfigBegins, ConfigStep, PTL DEF ConfigSpec

\* The checks of Settings.validate leave out no value of any section.
LEMMA ChecksComplete ==
    settings \in FileSettings =>
        (Valid <=> \A sec \in Sections, k \in Keys : settings[sec][k] # "bad")
<1> SUFFICES ASSUME settings \in FileSettings
             PROVE  Valid <=> \A sec \in Sections, k \in Keys : settings[sec][k] # "bad"
  OBVIOUS
<1>1. \A sec \in Sections, k \in Keys : k \notin SectionKeys(sec) => settings[sec][k] = "absent"
  BY DEF FileSettings
<1>2. ASSUME Valid, NEW sec \in Sections, NEW k \in Keys
      PROVE  settings[sec][k] # "bad"
  BY <1>1, <1>2 DEF Valid, SectionKeys, Sections, Keys
<1>3. ASSUME \A sec \in Sections, k \in Keys : settings[sec][k] # "bad"
      PROVE  Valid
  BY <1>3 DEF Valid, Sections, Keys
<1> QED
  BY <1>2, <1>3

\* What is bad ends nowhere but in a refusal.
LEMMA FinalSource ==
    ASSUME ConfigInv, LoadAccepts, NEW k \in CommandKeys(command)
    PROVE  Final(k) = IF cli[k] # "absent" THEN cli[k]
                      ELSE IF settings[command][k] # "absent" THEN command
                      ELSE IF settings["global"][k] # "absent" THEN "global"
                      ELSE "default"
<1>1. k \in Keys /\ command \in Sections /\ "global" \in Sections
  BY CommandKeysFit DEF ConfigInv, ConfigType, Sections
<1>2. \A sec \in Sections : settings[sec][k] \in {"absent", sec}
  <2>1. settings \in FileSettings /\ (configFile # "ok" => settings = NoSettings)
    BY DEF ConfigInv, ConfigType
  <2>2. \A sec \in Sections : settings[sec][k] # "bad"
    <3>1. CASE configFile = "ok"
      BY <1>1, <2>1, <3>1, ChecksComplete DEF LoadAccepts
    <3>2. CASE configFile # "ok"
      BY <1>1, <2>1, <3>2 DEF NoSettings
    <3> QED
      BY <3>1, <3>2
  <2>3. \A sec \in Sections : settings[sec][k] \in ValueFrom(sec) \/ settings[sec][k] = "absent"
    BY <1>1, <2>1 DEF FileSettings
  <2> QED
    BY <2>2, <2>3 DEF ValueFrom
<1>3. FlagValues[k] = IF settings[command][k] # "absent" THEN settings[command][k]
                        ELSE settings["global"][k]
  BY <1>1 DEF FlagValues
<1> QED
  BY <1>1, <1>2, <1>3 DEF Final, Given

\* A command that runs has each flag from the first source that gives it:
\* the command line, its own section, the global one, the default (FlagValues and
\* f.Changed), whatever the order of the map.
THEOREM PrecedenceHolds == ConfigSpec => []Precedence
<1>1. ASSUME ConfigInv
      PROVE  Precedence
  <2> SUFFICES ASSUME result = "running", NEW k \in CommandKeys(command)
               PROVE  flags[k] = IF cli[k] # "absent" THEN "cli"
                                 ELSE IF settings[command][k] # "absent" THEN command
                                 ELSE IF settings["global"][k] # "absent" THEN "global"
                                 ELSE "default"
    BY <1>1 DEF Precedence, ConfigInv, ConfigType
  <2>1. LoadAccepts /\ flags[k] = Final(k) /\ Final(k) # "bad"
    BY <1>1 DEF ConfigInv, Decided
  <2>2. cli[k] \in {"absent", "bad", "cli"}
    BY <1>1, CommandKeysFit DEF ConfigInv, ConfigType, ValueFrom
  <2> QED
    BY <1>1, <2>1, <2>2, FinalSource
<1> QED
  BY <1>1, ConfigInvariance, PTL

\* A command is refused exactly if something the user supplied is bad, be it
\* overridden or for the other command, or if there is no directory for the default
\* file: no value slips through the checks (DefaultPath, Load, validate, RunE).
THEOREM RefusalIsJust == ConfigSpec => []RefusedExactlyWhenBad
<1>1. ASSUME ConfigInv
      PROVE  RefusedExactlyWhenBad
  <2> SUFFICES ASSUME pc = "ended"
               PROVE  result = "error" <=>
                         \/ configFile \in {"unreadable", "invalid"}
                         \/ (configFile = "missing" /\ explicit)
                         \/ ~explicit /\ ~configDir
                         \/ \E sec \in Sections, k \in Keys : settings[sec][k] = "bad"
                         \/ \E k \in Keys : cli[k] = "bad"
    BY DEF RefusedExactlyWhenBad
  <2>1. ~LoadAccepts <=> \/ configFile \in {"unreadable", "invalid"}
                         \/ (configFile = "missing" /\ explicit)
                         \/ ~explicit /\ ~configDir
                         \/ \E sec \in Sections, k \in Keys : settings[sec][k] = "bad"
    <3>1. configFile # "ok" => ~\E sec \in Sections, k \in Keys : settings[sec][k] = "bad"
      BY <1>1 DEF ConfigInv, ConfigType, NoSettings
    <3>2. Valid <=> ~\E sec \in Sections, k \in Keys : settings[sec][k] = "bad"
      BY <1>1, ChecksComplete DEF ConfigInv, ConfigType
    <3>3. explicit \in BOOLEAN /\ configDir \in BOOLEAN /\ configFile \in File
      BY <1>1 DEF ConfigInv, ConfigType
    <3> QED
      BY <3>1, <3>2, <3>3, SMT DEF LoadAccepts, File
  <2>2. ASSUME LoadAccepts
        PROVE  (\E k \in CommandKeys(command) : Final(k) = "bad")
                  <=> \E k \in Keys : cli[k] = "bad"
    <3>1. \A k \in CommandKeys(command) : Final(k) = "bad" <=> cli[k] = "bad"
      BY <1>1, <2>2, FinalSource DEF ConfigInv, ConfigType
    <3>2. \A k \in Keys : cli[k] = "bad" => k \in CommandKeys(command)
      BY <1>1 DEF ConfigInv, ConfigType
    <3> QED
      BY <1>1, <3>1, <3>2, CommandKeysFit DEF ConfigInv, ConfigType
  <2> QED
    BY <1>1, <2>1, <2>2 DEF ConfigInv, Decided
<1> QED
  BY <1>1, ConfigInvariance, PTL

-----------------------------------------------------------------------------
(***************************************************************************)
(* The one after the other (Invocation).                                   *)
(***************************************************************************)
\* What RunE does with its targets leaves the flags alone, and what
\* PersistentPreRunE does with the flags comes before: an invocation is a
\* run of Config, and one of Destinations that may never begin.
THEOREM InvocationRunsBoth == InvocationSpec => ConfigSpec /\ DestSpec
<1>1. InvocationInit => ConfigInit /\ DestInit
  BY DEF InvocationInit
<1>2. [InvocationNext]_invocationVars => [ConfigNext]_configVars /\ [DestNext]_destVars
  <2>1. Configure => ConfigNext /\ UNCHANGED destVars
    BY DEF Configure, ConfigNext
  <2>2. Visit => DestNext /\ UNCHANGED configVars
    BY DEF Visit, DestNext
  <2>3. InvocationEnded \/ UNCHANGED invocationVars => UNCHANGED configVars /\ UNCHANGED destVars
    BY DEF InvocationEnded, invocationVars
  <2> QED
    BY <2>1, <2>2, <2>3 DEF InvocationNext
<1> QED
  BY <1>1, <1>2, PTL DEF InvocationSpec, ConfigSpec, DestSpec

\* So everything said of the flags, of the endpoints and of the way to them holds of
\* an invocation (loadAndApplyConfig, then RunE).
THEOREM InvocationIsSound ==
    InvocationSpec => /\ []Precedence /\ []RefusedExactlyWhenBad
                      /\ []EndpointsMeanInputs /\ []RefusedExactlyMalformed
                      /\ []RouteAsConfigured
  BY InvocationRunsBoth, PrecedenceHolds, RefusalIsJust, EndpointsFollow, RefusalFollows,
     RouteFollows, PTL
=============================================================================
