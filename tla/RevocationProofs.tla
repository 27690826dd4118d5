--------------------------- MODULE RevocationProofs ---------------------------
(***************************************************************************)
(* Proofs about Revocation, for every number of responders, every CRL,     *)
(* every answer and every moment at which a context ends.                  *)
(***************************************************************************)
EXTENDS Revocation, WellFoundedInduction, TLAPS

-----------------------------------------------------------------------------
(* The inductive invariant, in named parts.                                *)

Last == attempts[Len(attempts)]

Types ==
    /\ input \in Inputs /\ pc \in PC
    /\ parent \in {"live", "done"} /\ request \in {"none", "live", "done"}
    /\ attempts \in Seq(Attempt)

Clocks == clock \in 1..MaxTime /\ now \in 0..MaxTime

Answered == answer \in Answers \cup {NoAnswer}

\* No responder was asked for nothing: all attempts but the last were neither
\* decisive nor late.
OnlyLast ==
    \A k \in 1..Len(attempts) :
        Decisive(attempts[k].status) \/ attempts[k].late => k = Len(attempts)

LateMeansDone == \A k \in 1..Len(attempts) : attempts[k].late => parent = "done"

\* Before the next request everything was in vain and in time.
Asking ==
    /\ pc = "start" => attempts = << >>
    /\ pc \in {"request", "await", "decide"} =>
          input.leaf /\ input.issuer /\ input.responders > 0
    /\ pc \in {"request", "await"} =>
          /\ Len(attempts) < input.responders
          /\ \A k \in 1..Len(attempts) : ~Decisive(attempts[k].status) /\ ~attempts[k].late
    /\ pc = "decide" => Len(attempts) <= input.responders
    /\ pc \in {"decide", "overall", "done"} => Len(attempts) >= 1

\* The answer that made the last attempt decisive is the one that is kept.
Evidence ==
    Len(attempts) > 0 =>
        /\ Last.status = "good"    => Usable(answer, now) /\ SaysGood(answer)
        /\ Last.status = "revoked" => Usable(answer, now) /\ SaysRevoked(answer)

Concluded ==
    IF pc = "done"
    THEN overall = ApplySoftFail(
                      OverallStatus([k \in 1..Len(attempts) |-> attempts[k].status]),
                      input.softFail)
    ELSE overall = ""

Inv ==
    /\ Types /\ Clocks /\ Answered /\ OnlyLast /\ LateMeansDone /\ Asking
    /\ RespondersInOrder /\ Evidence /\ Concluded

USE RevocationAssumption

-----------------------------------------------------------------------------
(* Lemmas about the data.                                                  *)

Less == {p \in Nat \X Nat : p[1] < p[2]}

\* A set of naturals that is not empty has a smallest element.
LEMMA Smallest ==
    ASSUME NEW T \in SUBSET Nat, T # {}
    PROVE  \E x \in T : \A y \in T : x <= y
<1>1. IsWellFoundedOn(Less, Nat)
  <2>1. OpToRel(<, Nat) = Less
    BY Zenon DEF OpToRel, Less
  <2> QED
    BY <2>1, NatLessThanWellFounded
<1>2. PICK x \in T : \A y \in T : ~(<<y, x>> \in Less)
  BY <1>1, WFMin
<1>3. ASSUME NEW y \in T PROVE x <= y
  <2>1. <<y, x>> \in Nat \X Nat
    OBVIOUS
  <2>2. ~(<<y, x>>[1] < <<y, x>>[2])
    BY <1>2, <2>1, Zenon DEF Less
  <2> QED
    BY <2>2
<1> QED
  BY <1>3

\* Once a request is over there is one more attempt, and the others are as before.
LEMMA RecordFacts ==
    ASSUME Types, NEW s \in Status, Record(s)
    PROVE  /\ attempts' \in Seq(Attempt)
           /\ Len(attempts') = Len(attempts) + 1
           /\ \A k \in 1..Len(attempts) : attempts'[k] = attempts[k]
           /\ attempts'[Len(attempts) + 1].status = s
           /\ attempts'[Len(attempts) + 1].late <=> parent = "done"
<1> DEFINE a == [status |-> s, late |-> parent = "done"]
<1>1. a \in Attempt
  BY DEF Attempt
<1>2. attempts' = Append(attempts, a)
  BY DEF Record
<1>3. a.status = s /\ (a.late <=> parent = "done")
  OBVIOUS
<1> HIDE DEF a
<1>4. /\ attempts' \in Seq(Attempt) /\ Len(attempts') = Len(attempts) + 1
      /\ \A k \in 1..Len(attempts) : attempts'[k] = attempts[k]
      /\ attempts'[Len(attempts) + 1] = a
  BY <1>1, <1>2 DEF Types
<1> QED
  BY <1>3, <1>4

\* computeOverallStatus of a list in which only the last status can be decisive:
\* it is the last one, or says that there was none.
LEMMA OverallOf ==
    ASSUME NEW n \in Nat \ {0}, NEW s, s = [k \in 1..n |-> s[k]],
           \A k \in 1..n : s[k] \in Status,
           \A k \in 1..n : Decisive(s[k]) => k = n
    PROVE  /\ Len(s) = n
           /\ OverallStatus(s) \in Status
           /\ Decisive(s[n]) => OverallStatus(s) = s[n]
           /\ ~Decisive(s[n]) => ~Decisive(OverallStatus(s))
<1>1. s \in Seq(Status) /\ Len(s) = n
  OBVIOUS
<1> DEFINE Seen == {s[k] : k \in 1..n}
<1>2. OverallStatus(s) =
          IF Seen = {} THEN "not_checked"
          ELSE IF "revoked" \in Seen THEN "revoked"
          ELSE IF "good" \in Seen THEN "good"
          ELSE IF Seen = {"not_supported"} THEN "not_supported"
          ELSE IF "error" \in Seen THEN "error"
          ELSE "unknown"
  BY <1>1 DEF OverallStatus
<1>3. s[n] \in Seen
  OBVIOUS
<1>4. ASSUME NEW x \in Seen, Decisive(x) PROVE x = s[n]
  BY <1>4
<1>5. Seen # {}
  BY <1>3
<1> HIDE DEF Seen
<1>6. OverallStatus(s) \in Status
  BY <1>2, Zenon DEF Status
<1>7. ASSUME Decisive(s[n]) PROVE OverallStatus(s) = s[n]
  <2>1. CASE s[n] = "revoked"
    BY <1>2, <1>3, <1>5, <2>1, Zenon
  <2>2. CASE s[n] = "good"
    <3>1. "revoked" \notin Seen
      BY <1>4, <2>2 DEF Decisive
    <3> QED
      BY <1>2, <1>3, <1>5, <2>2, <3>1, Zenon
  <2> QED
    BY <1>7, <2>1, <2>2 DEF Decisive
<1>8. ASSUME ~Decisive(s[n]) PROVE ~Decisive(OverallStatus(s))
  <2>1. "revoked" \notin Seen /\ "good" \notin Seen
    BY <1>4, <1>8 DEF Decisive
  <2>2. OverallStatus(s) \in {"not_supported", "error", "unknown"}
    BY <1>2, <1>5, <2>1, Zenon
  <2> QED
    BY <2>2 DEF Decisive
<1> QED
  BY <1>1, <1>6, <1>7, <1>8

\* What the judgement of an answer says, the answer says, and it is usable.
LEMMA JudgeIsEvidence ==
    ASSUME Types, Clocks, NEW a \in Answers
    PROVE  /\ Judge(a) \in Status
           /\ Judge(a) = "good"    => Usable(a, now) /\ SaysGood(a)
           /\ Judge(a) = "revoked" => Usable(a, now) /\ SaysRevoked(a)
<1> USE FreshnessAssumption
<1>1. ASSUME NEW d1 \in Nat, NEW d2 \in Nat, Fresh(d1, d2, now)
      PROVE  /\ d1 \in 1..(now + FutureSkew)
             /\ \/ d2 = 0 /\ now - d1 <= MaxAge
                \/ d2 > d1 /\ d2 > now
  BY <1>1 DEF Fresh, Clocks
<1>2. Dates \subseteq Nat
  BY DEF Dates
<1>3. CASE input.method = "crl"
  <2>1. a \in CRLAnswer(Dates, Entries)
    BY <1>3 DEF Answers
  <2>2. a.thisUpdate \in Nat /\ a.nextUpdate \in Nat /\ a.sound \in BOOLEAN
    BY <1>2, <2>1 DEF CRLAnswer
  <2>3. a.entries \in Seq({"other", "leaf", "critical"})
    BY <2>1 DEF CRLAnswer
  <2> DEFINE decisive == {k \in DOMAIN a.entries : a.entries[k] # "other"}
             first == CHOOSE k \in decisive : \A j \in decisive : k <= j
  <2>4. Judge(a) = IF ~a.sound THEN "error"
                   ELSE IF ~Fresh(a.thisUpdate, a.nextUpdate, now) THEN "unknown"
                   ELSE IF decisive = {} THEN "good"
                   ELSE IF a.entries[first] = "critical" THEN "error"
                   ELSE "revoked"
    BY <1>3, Zenon DEF Judge, JudgeCRL
  <2>5. decisive \subseteq Nat /\ DOMAIN a.entries = 1..Len(a.entries)
    BY <2>3
  <2>6. decisive # {} => first \in decisive /\ \A j \in decisive : first <= j
    BY <2>5, Smallest, Zenon
  <2>7. Judge(a) \in Status
    BY <2>4, Zenon DEF Status
  <2>8. ASSUME Judge(a) \in {"good", "revoked"} PROVE Usable(a, now)
    <3>1. a.sound /\ Fresh(a.thisUpdate, a.nextUpdate, now)
      BY <2>4, <2>8, Zenon
    <3> QED
      BY <1>1, <2>2, <3>1 DEF Usable
  <2>9. ASSUME Judge(a) = "good" PROVE SaysGood(a)
    <3>1. decisive = {}
      BY <2>4, <2>9, Zenon
    <3> QED
      BY <1>3, <3>1 DEF SaysGood
  <2>10. ASSUME Judge(a) = "revoked" PROVE SaysRevoked(a)
    <3>1. decisive # {} /\ a.entries[first] # "critical"
      BY <2>4, <2>10, Zenon
    <3>2. first \in 1..Len(a.entries) /\ a.entries[first] # "other"
      BY <2>5, <2>6, <3>1
    <3>3. a.entries[first] = "leaf"
      <4> HIDE DEF first, decisive
      <4>1. a.entries[first] \in {"other", "leaf", "critical"}
        BY <2>3, <3>2
      <4> QED
        BY <3>1, <3>2, <4>1
    <3>4. \A j \in 1..(first - 1) : a.entries[j] = "other"
      <4>1. ASSUME NEW j \in 1..(first - 1), a.entries[j] # "other" PROVE FALSE
        <5> HIDE DEF first
        <5>1. j \in DOMAIN a.entries /\ j < first
          BY <2>3, <2>5, <3>2
        <5>2. j \in decisive
          BY <4>1, <5>1
        <5> QED
          BY <2>6, <3>1, <3>2, <5>1, <5>2
      <4> QED
        BY <4>1
    <3> QED
      BY <1>3, <2>5, <3>2, <3>3, <3>4 DEF SaysRevoked
  <2> QED
    BY <2>7, <2>8, <2>9, <2>10
<1>4. CASE input.method # "crl"
  <2>1. a \in OCSPAnswer(Dates)
    BY <1>4 DEF Answers
  <2>2. a.thisUpdate \in Nat /\ a.nextUpdate \in Nat /\ a.sound \in BOOLEAN
        /\ a.status \in {"good", "revoked", "unknown"}
    BY <1>2, <2>1 DEF OCSPAnswer
  <2>3. Judge(a) = IF ~a.sound THEN "error"
                   ELSE IF ~Fresh(a.thisUpdate, a.nextUpdate, now) THEN "unknown"
                   ELSE a.status
    BY <1>4, Zenon DEF Judge, JudgeOCSP
  <2>4. Judge(a) \in Status
    BY <2>2, <2>3 DEF Status
  <2>5. ASSUME Judge(a) \in {"good", "revoked"} PROVE Usable(a, now) /\ a.status = Judge(a)
    <3>1. a.sound /\ Fresh(a.thisUpdate, a.nextUpdate, now) /\ a.status = Judge(a)
      BY <2>3, <2>5, Zenon
    <3> QED
      BY <1>1, <2>2, <3>1 DEF Usable
  <2> QED
    BY <1>4, <2>4, <2>5 DEF SaysGood, SaysRevoked
<1> QED
  BY <1>3, <1>4

-----------------------------------------------------------------------------
\* A check begins with nothing.
LEMMA InvInit == Init => Inv
<1> SUFFICES ASSUME Init PROVE Inv
  OBVIOUS
<1>1. pc = "start" /\ overall = ""
  BY DEF Init
<1>a. attempts = << >>
  BY DEF Init
<1>b. attempts \in Seq(Attempt) /\ Len(attempts) = 0
  BY <1>a
<1>c. \A k \in 1..Len(attempts) : FALSE
  BY <1>b
<1>d. now = 0
  BY DEF Init
<1>e. now \in 0..MaxTime
  BY <1>d
<1>2. Types
  <2>2. pc \in PC /\ request \in {"none", "live", "done"}
    BY DEF Init, PC
  <2> QED
    BY <1>b, <2>2 DEF Init, Types
<1>3. Clocks
  BY <1>e DEF Init, Clocks
<1>4. Answered
  BY DEF Init, Answered
<1>5. OnlyLast /\ LateMeansDone /\ Evidence
  <2>1. ~(Len(attempts) > 0)
    BY <1>b
  <2> QED
    BY <1>c, <2>1, Zenon DEF OnlyLast, LateMeansDone, Evidence
<1>6. Asking /\ Concluded
  BY <1>1, <1>a DEF Asking, Concluded
<1>7. RespondersInOrder
  <2>1. input.responders \in Nat
    BY <1>2 DEF Types, Inputs
  <2>2. Len(attempts) <= input.responders
    BY <1>b, <2>1
  <2>4. pc \notin {"overall", "done"}
    BY <1>1
  <2> QED
    BY <1>c, <2>2, <2>4, Zenon DEF RespondersInOrder
<1> QED
  BY <1>2, <1>3, <1>4, <1>5, <1>6, <1>7 DEF Inv

\* An attempt that ends the loop's round, or stands for all of it.
LEMMA RecordKeeps ==
    ASSUME Inv, NEW s \in Status, Record(s), UNCHANGED <<input, parent, overall>>,
           \A k \in 1..Len(attempts) : ~Decisive(attempts[k].status) /\ ~attempts[k].late,
           pc' \in {"decide", "overall"}, pc # "done",
           Types', pc' = "decide" => Len(attempts) < input.responders,
           pc' = "overall" => Len(attempts) = 0 /\ ~Decisive(s),
           pc' = "overall" => ~input.leaf \/ ~input.issuer \/ input.responders = 0,
           pc' = "decide" => input.leaf /\ input.issuer
    PROVE  OnlyLast' /\ LateMeansDone' /\ Asking' /\ RespondersInOrder' /\ Concluded'
<1> DEFINE n == Len(attempts)
<1>1. n \in Nat /\ input.responders \in Nat
  BY DEF Inv, Types, Inputs
<1>2. /\ Len(attempts') = n + 1
      /\ \A k \in 1..n : attempts'[k] = attempts[k]
      /\ attempts'[n + 1].status = s
      /\ attempts'[n + 1].late <=> parent = "done"
  BY RecordFacts DEF Inv
<1> HIDE DEF n
<1>3. \A k \in 1..(n + 1) : k = n + 1 \/ k \in 1..n
  BY <1>1
<1>4. \A k \in 1..n : ~Decisive(attempts'[k].status) /\ ~attempts'[k].late
  BY <1>2 DEF n
<1>5. OnlyLast'
  BY <1>2, <1>3, <1>4 DEF OnlyLast
<1>6. LateMeansDone'
  BY <1>2, <1>3, <1>4 DEF LateMeansDone
<1>7. Asking'
  BY <1>1, <1>2 DEF Asking, n
<1>8. RespondersInOrder'
  <2>1. \A k \in 1..(n + 1) : Decisive(attempts'[k].status) => k = n + 1
    BY <1>3, <1>4
  <2>2. n + 1 <= input.responders \/ n + 1 = 1
    BY <1>1 DEF n
  <2>3. pc' = "overall" /\ input.leaf /\ input.issuer => n + 1 >= input.responders
    BY <1>1
  <2> QED
    BY <1>2, <2>1, <2>2, <2>3 DEF RespondersInOrder
<1>9. Concluded'
  BY DEF Inv, Concluded
<1> QED
  BY <1>5, <1>6, <1>7, <1>8, <1>9

\* Every step of the check, of its contexts and of the clock preserves the invariant.
LEMMA InvNext == Inv /\ [Next]_vars => Inv'
<1> SUFFICES ASSUME Inv, [Next]_vars PROVE Inv'
  OBVIOUS
<1>0. /\ Len(attempts) \in Nat /\ input.responders \in Nat
      /\ input.leaf \in BOOLEAN /\ input.issuer \in BOOLEAN
  BY DEF Inv, Types, Inputs
<1>1. CASE Start
  <2>1. attempts = << >> /\ pc = "start" /\ UNCHANGED <<input, clock, parent, request, answer, overall>>
    BY <1>1 DEF Start, Inv, Asking
  <2>2. Len(attempts) = 0
    BY <2>1
  <2>3. Clocks' /\ Answered'
    BY <1>1, <2>1 DEF Start, Inv, Clocks, Answered, Answers
  <2>4. CASE \/ ~input.leaf /\ Record("not_checked") /\ pc' = "overall"
             \/ input.leaf /\ input.responders = 0 /\ Record("not_supported") /\ pc' = "overall"
             \/ /\ input.leaf /\ input.responders > 0 /\ ~input.issuer
                /\ Record("not_checked") /\ pc' = "overall"
    <3>1. PICK s \in {"not_checked", "not_supported"} : Record(s)
      BY <2>4, Zenon
    <3>2. s \in Status /\ ~Decisive(s)
      BY DEF Status, Decisive
    <3>3. /\ attempts' \in Seq(Attempt) /\ Len(attempts') = 1
          /\ attempts'[1].status = s
      BY <2>2, <3>1, <3>2, RecordFacts DEF Inv
    <3>4. pc' = "overall" /\ (~input.leaf \/ ~input.issuer \/ input.responders = 0)
      BY <2>4, Zenon
    <3>5. Types'
      BY <2>1, <3>3, <3>4 DEF Inv, Types, PC
    <3>6. \A k \in 1..Len(attempts) : ~Decisive(attempts[k].status) /\ ~attempts[k].late
      BY <2>2
    <3>7. OnlyLast' /\ LateMeansDone' /\ Asking' /\ RespondersInOrder' /\ Concluded'
      <4>1. pc' \in {"decide", "overall"} /\ pc' # "decide" /\ pc # "done"
        BY <2>1, <3>4
      <4> QED
        BY <2>1, <2>2, <3>1, <3>2, <3>4, <3>5, <3>6, <4>1, RecordKeeps
    <3>8. Evidence'
      BY <3>2, <3>3 DEF Evidence, Last, Decisive
    <3> QED
      BY <2>3, <3>5, <3>7, <3>8 DEF Inv
  <2>5. CASE /\ input.leaf /\ input.responders > 0 /\ input.issuer
             /\ pc' = "request" /\ UNCHANGED attempts
    <3>1. attempts' = << >> /\ Len(attempts') = 0
      BY <2>1, <2>5
    <3>2. Types'
      BY <2>1, <2>5 DEF Inv, Types, PC
    <3>3. OnlyLast' /\ LateMeansDone' /\ Evidence'
      BY <3>1 DEF OnlyLast, LateMeansDone, Evidence
    <3>4. Asking'
      BY <1>0, <2>1, <2>5, <3>1 DEF Asking
    <3>5. RespondersInOrder'
      BY <1>0, <2>1, <2>5, <3>1 DEF RespondersInOrder
    <3>6. Concluded'
      BY <2>1, <2>5 DEF Inv, Concluded
    <3> QED
      BY <2>3, <3>2, <3>3, <3>4, <3>5, <3>6 DEF Inv
  <2> QED
    BY <1>1, <2>4, <2>5 DEF Start
<1>2. CASE SendRequest
  <2>1. Types'
    BY <1>2 DEF SendRequest, Inv, Types, PC
  <2>2. Clocks' /\ Answered'
    BY <1>2 DEF SendRequest, Inv, Clocks, Answered, Answers
  <2>3. OnlyLast' /\ LateMeansDone' /\ Evidence'
    BY <1>2 DEF SendRequest, Inv, OnlyLast, LateMeansDone, Evidence, Last, SaysGood, SaysRevoked
  <2>4. Asking' /\ Concluded'
    BY <1>2 DEF SendRequest, Inv, Asking, Concluded
  <2>5. RespondersInOrder'
    BY <1>2 DEF SendRequest, Inv, RespondersInOrder
  <2> QED
    BY <2>1, <2>2, <2>3, <2>4, <2>5 DEF Inv
<1>3. ASSUME NEW a \in Answers, pc = "await", answer' = a, Record(Judge(a)), request' = "none",
             pc' = "decide", UNCHANGED <<input, clock, now, parent, overall>>
      PROVE  Inv'
  <2>1. /\ Judge(a) \in Status
        /\ Judge(a) = "good"    => Usable(a, now) /\ SaysGood(a)
        /\ Judge(a) = "revoked" => Usable(a, now) /\ SaysRevoked(a)
    BY JudgeIsEvidence DEF Inv
  <2>2. /\ attempts' \in Seq(Attempt) /\ Len(attempts') = Len(attempts) + 1
        /\ attempts'[Len(attempts) + 1].status = Judge(a)
    BY <1>3, <2>1, RecordFacts DEF Inv
  <2>3. Types'
    BY <1>3, <2>2 DEF Inv, Types, PC
  <2>4. Clocks' /\ Answered'
    BY <1>3 DEF Inv, Clocks, Answered, Answers
  <2>5. /\ Len(attempts) < input.responders /\ input.leaf /\ input.issuer
        /\ \A k \in 1..Len(attempts) : ~Decisive(attempts[k].status) /\ ~attempts[k].late
    BY <1>3 DEF Inv, Asking
  <2>6. OnlyLast' /\ LateMeansDone' /\ Asking' /\ RespondersInOrder' /\ Concluded'
    <3>1. pc' \in {"decide", "overall"} /\ pc' # "overall" /\ pc # "done"
      BY <1>3
    <3> QED
      BY <1>3, <2>1, <2>3, <2>5, <3>1, RecordKeeps
  <2>7. Evidence'
    <3>1. Last' = attempts'[Len(attempts) + 1]
      BY <2>2 DEF Last
    <3> QED
      BY <1>3, <2>1, <2>2, <3>1 DEF Evidence, SaysGood, SaysRevoked
  <2> QED
    BY <2>3, <2>4, <2>6, <2>7 DEF Inv
<1>4. CASE RequestFails
  <2>0. /\ pc = "await" /\ Record("error") /\ request' = "none" /\ pc' = "decide"
        /\ UNCHANGED <<input, clock, now, parent, answer, overall>>
    BY <1>4 DEF RequestFails
  <2>1. "error" \in Status /\ ~Decisive("error")
    BY DEF Status, Decisive
  <2>2. /\ attempts' \in Seq(Attempt) /\ Len(attempts') = Len(attempts) + 1
        /\ attempts'[Len(attempts) + 1].status = "error"
    BY <2>0, <2>1, RecordFacts DEF Inv
  <2>3. Types'
    BY <2>0, <2>2 DEF Inv, Types, PC
  <2>4. Clocks' /\ Answered'
    BY <2>0 DEF Inv, Clocks, Answered, Answers
  <2>5. /\ Len(attempts) < input.responders /\ input.leaf /\ input.issuer
        /\ \A k \in 1..Len(attempts) : ~Decisive(attempts[k].status) /\ ~attempts[k].late
    BY <2>0 DEF Inv, Asking
  <2>6. OnlyLast' /\ LateMeansDone' /\ Asking' /\ RespondersInOrder' /\ Concluded'
    <3>1. pc' \in {"decide", "overall"} /\ pc' # "overall" /\ pc # "done"
      BY <2>0
    <3> QED
      BY <2>0, <2>1, <2>3, <2>5, <3>1, RecordKeeps
  <2>7. Evidence'
    BY <2>2 DEF Evidence, Last
  <2> QED
    BY <2>3, <2>4, <2>6, <2>7 DEF Inv
<1>5. CASE Decide
  <2>0. /\ pc = "decide" /\ pc' \in {"overall", "request"}
        /\ UNCHANGED <<input, clock, now, parent, request, answer, attempts, overall>>
    BY <1>5 DEF Decide
  <2>1. Types'
    BY <2>0 DEF Inv, Types, PC
  <2>2. Clocks' /\ Answered'
    BY <2>0 DEF Inv, Clocks, Answered, Answers
  <2>3. OnlyLast' /\ LateMeansDone' /\ Evidence'
    BY <2>0 DEF Inv, OnlyLast, LateMeansDone, Evidence, Last, SaysGood, SaysRevoked
  <2>4. Concluded'
    BY <2>0 DEF Inv, Concluded
  <2>5. /\ input.leaf /\ input.issuer /\ input.responders > 0
        /\ Len(attempts) >= 1 /\ Len(attempts) <= input.responders
    BY <2>0 DEF Inv, Asking
  <2>6. CASE \/ Decisive(attempts[Len(attempts)].status)
             \/ parent = "done"
             \/ Len(attempts) = input.responders
    <3>1. pc' = "overall"
      BY <1>5, <2>6 DEF Decide
    <3>2. Asking'
      BY <2>0, <2>5, <3>1 DEF Asking
    <3>3. RespondersInOrder'
      BY <1>0, <2>0, <2>5, <2>6, <3>1 DEF Inv, RespondersInOrder
    <3> QED
      BY <2>1, <2>2, <2>3, <2>4, <3>2, <3>3 DEF Inv
  <2>7. CASE ~(\/ Decisive(attempts[Len(attempts)].status)
               \/ parent = "done"
               \/ Len(attempts) = input.responders)
    <3>1. pc' = "request"
      BY <1>5, <2>7 DEF Decide
    <3>2. \A k \in 1..Len(attempts) : ~Decisive(attempts[k].status) /\ ~attempts[k].late
      BY <2>7 DEF Inv, OnlyLast, LateMeansDone
    <3>3. Len(attempts) < input.responders
      BY <1>0, <2>5, <2>7
    <3>4. Asking'
      BY <2>0, <2>5, <3>1, <3>2, <3>3 DEF Asking
    <3>5. RespondersInOrder'
      BY <2>0, <3>1 DEF Inv, RespondersInOrder
    <3> QED
      BY <2>1, <2>2, <2>3, <2>4, <3>4, <3>5 DEF Inv
  <2> QED
    BY <2>6, <2>7
<1>6. CASE Conclude
  <2>1. Types'
    BY <1>6 DEF Conclude, Inv, Types, PC
  <2>2. Clocks' /\ Answered'
    BY <1>6 DEF Conclude, Inv, Clocks, Answered, Answers
  <2>3. OnlyLast' /\ LateMeansDone' /\ Evidence'
    BY <1>6 DEF Conclude, Inv, OnlyLast, LateMeansDone, Evidence, Last, SaysGood, SaysRevoked
  <2>4. Asking'
    BY <1>6 DEF Conclude, Inv, Asking
  <2>5. Concluded'
    BY <1>6, Zenon DEF Conclude, Concluded
  <2>6. RespondersInOrder'
    BY <1>6 DEF Conclude, Inv, RespondersInOrder
  <2> QED
    BY <2>1, <2>2, <2>3, <2>4, <2>5, <2>6 DEF Inv
<1>7. CASE RequestTimesOut
  <2>1. Types'
    BY <1>7 DEF RequestTimesOut, Inv, Types, PC
  <2>2. Clocks' /\ Answered'
    BY <1>7 DEF RequestTimesOut, Inv, Clocks, Answered, Answers
  <2>3. OnlyLast' /\ LateMeansDone' /\ Evidence'
    BY <1>7 DEF RequestTimesOut, Inv, OnlyLast, LateMeansDone, Evidence, Last, SaysGood, SaysRevoked
  <2>4. Asking' /\ Concluded'
    BY <1>7 DEF RequestTimesOut, Inv, Asking, Concluded
  <2>5. RespondersInOrder'
    BY <1>7 DEF RequestTimesOut, Inv, RespondersInOrder
  <2> QED
    BY <2>1, <2>2, <2>3, <2>4, <2>5 DEF Inv
<1>8. CASE ParentDone
  <2>1. Types'
    BY <1>8 DEF ParentDone, Inv, Types, PC
  <2>2. Clocks' /\ Answered'
    BY <1>8 DEF ParentDone, Inv, Clocks, Answered, Answers
  <2>3. OnlyLast' /\ LateMeansDone' /\ Evidence'
    BY <1>8 DEF ParentDone, Inv, OnlyLast, LateMeansDone, Evidence, Last, SaysGood, SaysRevoked
  <2>4. Asking' /\ Concluded'
    BY <1>8 DEF ParentDone, Inv, Asking, Concluded
  <2>5. RespondersInOrder'
    BY <1>8 DEF ParentDone, Inv, RespondersInOrder
  <2> QED
    BY <2>1, <2>2, <2>3, <2>4, <2>5 DEF Inv
<1>9. CASE Tick
  <2>1. Types'
    BY <1>9 DEF Tick, Inv, Types, PC
  <2>2. Clocks' /\ Answered'
    BY <1>9 DEF Tick, Inv, Clocks, Answered, Answers
  <2>3. OnlyLast' /\ LateMeansDone' /\ Evidence'
    BY <1>9 DEF Tick, Inv, OnlyLast, LateMeansDone, Evidence, Last, SaysGood, SaysRevoked
  <2>4. Asking' /\ Concluded'
    BY <1>9 DEF Tick, Inv, Asking, Concluded
  <2>5. RespondersInOrder'
    BY <1>9 DEF Tick, Inv, RespondersInOrder
  <2> QED
    BY <2>1, <2>2, <2>3, <2>4, <2>5 DEF Inv
<1>10. CASE UNCHANGED vars
  <2>1. Types' /\ Clocks' /\ Answered'
    BY <1>10 DEF vars, Inv, Types, Clocks, Answered, Answers
  <2>2. OnlyLast' /\ LateMeansDone' /\ Evidence'
    BY <1>10 DEF vars, Inv, OnlyLast, LateMeansDone, Evidence, Last, SaysGood, SaysRevoked
  <2>3. Asking' /\ Concluded'
    BY <1>10 DEF vars, Inv, Asking, Concluded
  <2>4. RespondersInOrder'
    BY <1>10 DEF vars, Inv, RespondersInOrder
  <2> QED
    BY <2>1, <2>2, <2>3, <2>4 DEF Inv
<1> QED
  BY <1>1, <1>2, <1>3, <1>4, <1>5, <1>6, <1>7, <1>8, <1>9, <1>10
     DEF Next, AnswerArrives, Returned

\* The invariant holds of every check.
THEOREM Invariance == Spec => []Inv
<1>1. Init => Inv
  BY InvInit
<1>2. Inv /\ [Next]_vars => Inv'
  BY InvNext
<1> QED
  BY <1>1, <1>2, PTL DEF Spec

\* The statuses from which the overall one is computed: only the last can be decisive.
LEMMA OverallOfAttempts ==
    ASSUME Inv, pc = "done"
    PROVE  /\ Decisive(Last.status) => overall = Last.status
           /\ ~Decisive(Last.status) => ~Decisive(overall) /\ (input.softFail <=> overall # "error")
           /\ overall \in Status
<1> DEFINE n == Len(attempts)
           s == [k \in 1..n |-> attempts[k].status]
<1>1. n \in Nat \ {0} /\ input.softFail \in BOOLEAN
  BY DEF Inv, Asking, Types, Inputs
<1>2. \A k \in 1..n : s[k] \in Status /\ s[k] = attempts[k].status
  <2>1. ASSUME NEW k \in 1..n PROVE attempts[k].status \in Status
    <3>1. attempts[k] \in Attempt
      BY DEF Inv, Types
    <3> QED
      BY <3>1 DEF Attempt
  <2> QED
    BY <2>1
<1>3. \A k \in 1..n : Decisive(s[k]) => k = n
  BY <1>2 DEF Inv, OnlyLast
<1>4. s = [k \in 1..n |-> s[k]] /\ s[n] = Last.status
  BY <1>1, <1>2 DEF Last
<1>5. overall = ApplySoftFail(OverallStatus(s), input.softFail)
  BY DEF Inv, Concluded
<1> HIDE DEF s, n
<1>6. /\ OverallStatus(s) \in Status
      /\ Decisive(s[n]) => OverallStatus(s) = s[n]
      /\ ~Decisive(s[n]) => ~Decisive(OverallStatus(s))
  BY <1>1, <1>2, <1>3, <1>4, OverallOf
<1>7. CASE Decisive(s[n])
  BY <1>4, <1>5, <1>6, <1>7 DEF ApplySoftFail, Decisive, Status
<1>8. CASE ~Decisive(s[n])
  <2>1. CASE input.softFail
    BY <1>4, <1>5, <1>6, <1>8, <2>1 DEF ApplySoftFail, Decisive, Status
  <2>2. CASE ~input.softFail
    BY <1>4, <1>5, <1>6, <1>8, <2>2 DEF ApplySoftFail, Decisive, Status
  <2> QED
    BY <2>1, <2>2
<1> QED
  BY <1>7, <1>8

\* The state of a check is type correct, and it records no more attempts than
\* the certificate has responders.
THEOREM TypeCorrect == Spec => []TypeOK
<1>1. Inv => TypeOK
  <2> SUFFICES ASSUME Inv PROVE TypeOK
    OBVIOUS
  <2>1. Len(attempts) <= IF NResponders = 0 THEN 1 ELSE NResponders
    <3>1. input.responders \in 0..NResponders /\ Len(attempts) \in Nat
      BY DEF Inv, Types, Inputs
    <3> QED
      BY <3>1 DEF Inv, RespondersInOrder
  <2>2. overall \in Status \cup {""}
    <3>1. CASE pc = "done"
      BY <3>1, OverallOfAttempts
    <3>2. CASE pc # "done"
      BY <3>2 DEF Inv, Concluded
    <3> QED
      BY <3>1, <3>2
  <2> QED
    BY <2>1, <2>2 DEF Inv, Types, Clocks, Answered, TypeOK
<1> QED
  BY <1>1, Invariance, PTL

\* A leaf is called good or revoked only on a sound and fresh answer that says so
\* (checker.go:95-110, crl.go:95-130), for every CRL and every clock.
THEOREM VerdictsHaveEvidence == Spec => []VerdictHasEvidence
<1>1. Inv => VerdictHasEvidence
  <2> SUFFICES ASSUME Inv PROVE VerdictHasEvidence
    OBVIOUS
  <2>1. CASE pc = "done"
    <3>1. Decisive(overall) => overall = Last.status
      BY <2>1, OverallOfAttempts
    <3>2. Len(attempts) > 0
      BY <2>1 DEF Inv, Asking, Types
    <3> QED
      BY <3>1, <3>2 DEF Inv, Evidence, VerdictHasEvidence, Decisive
  <2>2. CASE pc # "done"
    BY <2>2 DEF Inv, Concluded, VerdictHasEvidence
  <2> QED
    BY <2>1, <2>2
<1> QED
  BY <1>1, Invariance, PTL

\* The policy (checker.go:46-60): without a usable answer a check is an error
\* exactly under hard-fail, and a usable answer is never softened.
THEOREM PolicyHolds == Spec => []PolicyTable
<1>1. Inv => PolicyTable
  <2> SUFFICES ASSUME Inv, pc = "done" PROVE PolicyTable
    BY DEF PolicyTable
  <2>1. Len(attempts) \in Nat /\ Len(attempts) >= 1
    BY DEF Inv, Asking, Types
  <2>2. CASE \E k \in 1..Len(attempts) : Decisive(attempts[k].status)
    <3>1. Decisive(Last.status)
      BY <2>2 DEF Inv, OnlyLast, Last
    <3> QED
      BY <2>2, <3>1, OverallOfAttempts DEF PolicyTable, Last
  <2>3. CASE ~\E k \in 1..Len(attempts) : Decisive(attempts[k].status)
    <3>1. ~Decisive(Last.status)
      BY <2>1, <2>3 DEF Last
    <3> QED
      BY <2>3, <3>1, OverallOfAttempts DEF PolicyTable
  <2> QED
    BY <2>2, <2>3
<1> QED
  BY <1>1, Invariance, PTL

\* Responders are asked in order up to the first usable answer, and no further
\* (crl.go:26-36, ocsp.go:28-38).
THEOREM InOrder == Spec => []RespondersInOrder
  BY Invariance, PTL DEF Inv

\* At most one attempt ends after the target's context is done (crl.go:32).
THEOREM NoneAfterLate == Spec => []NoAttemptAfterLate
<1>1. Inv => NoAttemptAfterLate
  BY DEF Inv, OnlyLast, NoAttemptAfterLate
<1> QED
  BY <1>1, Invariance, PTL
-----------------------------------------------------------------------------
(* The worker's call.                                                      *)

\* What the worker sees of the check.
Result == IF pc # "done" THEN "pending" ELSE IF GaveUp THEN "partial" ELSE "whole"

\* The steps of ContextCall in these terms.
LEMMA CallSteps ==
    /\ Call!Init <=> parent \in {"live", "done"} /\ Result = "pending"
    /\ parent' = parent /\ Result' = Result => UNCHANGED Call!vars
    /\ parent = "live" /\ parent' = "done" /\ Result' = Result => Call!End
    /\ parent' = parent /\ Result = "pending" /\ Result' = "whole" => Call!Return
    /\ parent' = parent /\ Result = "pending" /\ Result' = "partial" /\ parent = "done"
          => Call!Return
<1>1. Call!Init <=> parent \in {"live", "done"} /\ Result = "pending"
  BY Zenon DEF Call!Init, Result
<1>2. parent' = parent /\ Result' = Result => UNCHANGED Call!vars
  BY Zenon DEF Call!vars, Result
<1>3. parent = "live" /\ parent' = "done" /\ Result' = Result => Call!End
  BY Zenon DEF Call!End, Result
<1>4. parent' = parent /\ Result = "pending" /\ Result' = "whole" => Call!Return
  BY Zenon DEF Call!Return, Result
<1>5. parent' = parent /\ Result = "pending" /\ Result' = "partial" /\ parent = "done"
         => Call!Return
  BY Zenon DEF Call!Return, Result
<1> QED
  BY <1>1, <1>2, <1>3, <1>4, <1>5

\* The second of the worker's calls keeps what the worker relies on: an answer from
\* which something is missing, which soft-fail may make look like a result, is only
\* given under a context that is done by then, so that one look at the context
\* (client.go:174) finds it.  That the check also ends is left to the run.
THEOREM CheckHonoursContext == Spec => Call!Init /\ [][Call!Next]_(Call!vars)
<1>1. Init => Call!Init
  BY CallSteps, Zenon DEF Init, Result
<1>2. ASSUME Inv, [Next]_vars
      PROVE  [Call!Next]_(Call!vars)
  <2>1. CASE pc # "done" /\ pc' # "done" /\ UNCHANGED parent
    BY <2>1, CallSteps DEF Result
  <2>2. CASE UNCHANGED vars
    <3>1. Result' = Result /\ parent' = parent
      BY <2>2 DEF vars, Result, GaveUp, Decisive
    <3> QED
      BY <3>1, CallSteps
  <2>3. CASE RequestTimesOut
    <3>1. Result' = Result /\ parent' = parent
      BY <2>3 DEF RequestTimesOut, Result, GaveUp, Decisive
    <3> QED
      BY <3>1, CallSteps
  <2>4. CASE ParentDone
    <3>1. Result' = Result /\ parent = "live" /\ parent' = "done"
      BY <2>4 DEF ParentDone, Result
    <3> QED
      BY <3>1, CallSteps DEF Call!Next
  <2>5. CASE Conclude
    <3>1. /\ pc = "overall" /\ pc' = "done" /\ UNCHANGED <<input, parent, attempts>>
      BY <2>5 DEF Conclude
    <3>2. GaveUp => parent = "done"
      <4>1. Len(attempts) \in Nat /\ Len(attempts) >= 1 /\ NResponders \in Nat
        BY <1>2, <3>1 DEF Inv, Asking, Types
      <4>2. CASE \E k \in 1..Len(attempts) : attempts[k].late
        BY <1>2, <4>2 DEF Inv, LateMeansDone
      <4>3. CASE GaveUp /\ Len(attempts) < input.responders
        BY <1>2, <3>1, <4>1, <4>3 DEF Inv, RespondersInOrder, GaveUp, Types, Inputs
      <4> QED
        BY <4>2, <4>3 DEF GaveUp
    <3>3. GaveUp' = GaveUp
      BY <3>1 DEF GaveUp, Decisive
    <3>4. Result = "pending" /\ Result' = IF GaveUp THEN "partial" ELSE "whole"
      BY <3>1, <3>3 DEF Result
    <3> QED
      BY <3>1, <3>2, <3>4, CallSteps DEF Call!Next
  <2> QED
    BY <1>2, <2>1, <2>2, <2>3, <2>4, <2>5
    DEF Next, Start, SendRequest, AnswerArrives, RequestFails, Decide, Tick, Returned
<1> QED
  BY <1>1, <1>2, Invariance, PTL DEF Spec
=============================================================================
