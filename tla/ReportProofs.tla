----------------------------- MODULE ReportProofs -----------------------------
(***************************************************************************)
(* Proofs about Report, for every number of results, all dates, every      *)
(* warning period that fits a duration, and every clock that runs while    *)
(* the report is written; then about Output, which writes it.              *)
(***************************************************************************)
EXTENDS Report, Output, SequenceTheorems, FiniteSetTheorems, WellFoundedInduction, TLAPS

Indices == 1..NResults

-----------------------------------------------------------------------------
(* The inductive invariant, in named parts.                                *)

Controls ==
    /\ format \in Format /\ pc \in {"clock", "tally", "render", "done"}
    /\ envelope = IF pc = "done" /\ Structured THEN EnvelopeStatus ELSE ""

Numbers ==
    /\ clock \in 0..MaxTime /\ now \in 0..MaxTime /\ cursor \in 1..(NResults + 1)
    /\ exit \in ExitCode

Chain == [verified : BOOLEAN, verificationError : {"", "unknown authority"},
          notBefore : Dates, notAfter : Dates, revocation : RevocationStatus \cup {""}]

ResultTypes ==
    \A i \in Indices :
        /\ results[i].err \in BOOLEAN
        /\ ~results[i].err => results[i].chain \in Chain

\* The results whose code the tracker has been given.
Counted(i) ==
    \/ pc \in {"render", "done"}
    \/ pc = "tally" /\ i < cursor

Tracked ==
    /\ pc = "clock" => cursor = 1
    /\ \A i \in Indices : Counted(i) => exitPriority[CodeOf(results[i])] <= exitPriority[exit]
    /\ \/ exit = ExitOK /\ \A i \in Indices : ~Counted(i)
       \/ \E i \in Indices : Counted(i) /\ exit = CodeOf(results[i])

\* The results that have been rendered, all with the time of the tally.
Written(i) ==
    \/ pc = "done"
    \/ pc = "render" /\ i < cursor

Printed ==
    /\ printed = [i \in Indices |-> printed[i]]
    /\ \A i \in Indices : printed[i] = IF Written(i) THEN LineOf(results[i]) ELSE NoLine

Inv == Controls /\ Numbers /\ ResultTypes /\ Tracked /\ Printed

-----------------------------------------------------------------------------
(* Arithmetic.                                                             *)

\* More days are at least as long.
LEMMA Monotone ==
    ASSUME NEW a \in Nat, NEW b \in Nat, NEW d \in Nat, a <= b
    PROVE  a * d <= b * d
  OBVIOUS

\* A number below the modulus is its own remainder.
LEMMA SmallRemainder ==
    ASSUME NEW x \in Nat, NEW m \in Nat, x < m
    PROVE  x % m = x
  OBVIOUS

\* The warning period is never cut: the product of the days does not wrap around.
LEMMA PeriodFits ==
    /\ WarningDays * Day \in Nat /\ WarningDays * Day < MaxDuration
    /\ DaysAsDuration(WarningDays) = WarningDays * Day
<1> USE DurationAssumption
<1> DEFINE p == WarningDays * Day
<1>1. p \in Nat /\ p < MaxDuration
  <2>1. WarningDays \in Nat /\ WarningDays * Day < MaxDuration
    BY ReportAssumption
  <2> QED
    BY <2>1
<1> HIDE DEF p
<1>2. (p + MaxDuration + 1) % (2 * (MaxDuration + 1)) = p + MaxDuration + 1
  <2>1. p + MaxDuration + 1 \in Nat /\ 2 * (MaxDuration + 1) \in Nat
        /\ p + MaxDuration + 1 < 2 * (MaxDuration + 1)
    BY <1>1
  <2> QED
    BY <2>1, SmallRemainder
<1>3. DaysAsDuration(WarningDays)
        = ((p + MaxDuration + 1) % (2 * (MaxDuration + 1))) - (MaxDuration + 1)
  BY DEF DaysAsDuration, p
<1>4. DaysAsDuration(WarningDays) = p
  BY <1>1, <1>2, <1>3
<1> QED
  BY <1>1, <1>4 DEF p

\* A difference and its saturation lie on the same side of a period that fits.
LEMMA SubAgrees ==
    ASSUME NEW t \in Nat, NEW u \in Nat, NEW p \in Nat, p < MaxDuration
    PROVE  /\ Sub(t, u) \in Int
           /\ Sub(t, u) <= p <=> t - u <= p
           /\ Sub(t, u) >= 0 <=> t >= u
<1> USE DurationAssumption
<1> DEFINE d == t - u
<1>1. d \in Int /\ (d >= 0 <=> t >= u)
  OBVIOUS
<1>2. Sub(t, u) = IF d > MaxDuration THEN MaxDuration
                  ELSE IF d < -(MaxDuration + 1) THEN -(MaxDuration + 1) ELSE d
  BY DEF Sub
<1> HIDE DEF d
<1>3. CASE d > MaxDuration
  <2>1. Sub(t, u) = MaxDuration
    BY <1>2, <1>3
  <2>2. MaxDuration >= 0 /\ d >= 0 /\ (MaxDuration <= p <=> d <= p)
    BY <1>1, <1>3
  <2> QED
    BY <1>1, <2>1, <2>2 DEF d
<1>4. CASE d < -(MaxDuration + 1)
  <2>1. Sub(t, u) = -(MaxDuration + 1)
    BY <1>1, <1>2, <1>4
  <2>2. -(MaxDuration + 1) \in Int /\ ~(-(MaxDuration + 1) >= 0) /\ ~(d >= 0)
        /\ -(MaxDuration + 1) <= p /\ d <= p
    BY <1>1, <1>4
  <2> QED
    BY <1>1, <2>1, <2>2 DEF d
<1>5. CASE ~(d > MaxDuration) /\ ~(d < -(MaxDuration + 1))
  <2>1. Sub(t, u) = d
    BY <1>2, <1>5
  <2> QED
    BY <1>1, <2>1 DEF d
<1> QED
  BY <1>3, <1>4, <1>5

\* The whole days in a duration.
LEMMA WholeDays ==
    ASSUME NEW x \in Nat
    PROVE  /\ x \div Day \in Nat
           /\ (x \div Day) * Day <= x
           /\ x < (x \div Day + 1) * Day
  BY DurationAssumption

-----------------------------------------------------------------------------
(* Lemmas about lines, codes and health.                                   *)

ALine(status, reason, mark, days, expired) ==
    [status |-> status, reason |-> reason, mark |-> mark, days |-> days, expired |-> expired]

\* The parts of a line.
LEMMA PartsOf ==
    ASSUME NEW a, NEW b, NEW m, NEW d, NEW x
    PROVE  /\ ALine(a, b, m, d, x).status = a /\ ALine(a, b, m, d, x).mark = m
           /\ ALine(a, b, m, d, x).days = d /\ ALine(a, b, m, d, x).expired = x
  BY DEF ALine

\* The same of a line that says nothing.
LEMMA PartsOfNoLine ==
    /\ NoLine.status = "" /\ NoLine.mark = ""
    /\ NoLine.days = 0 /\ NoLine.expired = FALSE
  BY DEF NoLine

\* The order of severity is total, and only the runtime error is above all.
LEMMA Priorities ==
    /\ \A c \in ExitCode : exitPriority[c] \in 0..4
    /\ \A c, d \in ExitCode : exitPriority[c] = exitPriority[d] => c = d
    /\ \A c \in ExitCode : exitPriority[c] = 0 <=> c = ExitOK
    /\ \A c \in ExitCode : exitPriority[c] <= exitPriority[ExitRuntimeError]
  BY DEF exitPriority, ExitCode, ExitOK, ExitRuntimeError, ExitInsecure,
     ExitRevocationError, ExitExpiring

\* Set escalates.
LEMMA Escalates ==
    ASSUME NEW c \in ExitCode, NEW d \in ExitCode
    PROVE  /\ TrackerSet(c, d) \in {c, d}
           /\ exitPriority[c] <= exitPriority[TrackerSet(c, d)]
           /\ exitPriority[d] <= exitPriority[TrackerSet(c, d)]
  BY Priorities DEF TrackerSet

\* A health asks for a code, never for the one of failed inputs.
LEMMA CodeOfHealth ==
    ASSUME NEW s
    PROVE  HealthCode(s) \in ExitCode /\ HealthCode(s) # ExitRuntimeError
  BY DEF HealthCode, ExitCode, ExitOK, ExitRuntimeError, ExitInsecure,
     ExitRevocationError, ExitExpiring

\* The code of a result.
LEMMA CodeFacts ==
    ASSUME NEW r
    PROVE  CodeOf(r) \in ExitCode /\ (CodeOf(r) = ExitRuntimeError <=> r.err)
<1>1. ExitRuntimeError \in ExitCode
  BY DEF ExitCode
<1>2. CodeOf(r) = IF r.err THEN ExitRuntimeError
                  ELSE HealthCode(HealthOf(r.chain, now, WarningDays).status)
  BY DEF CodeOf
<1> QED
  BY <1>1, <1>2, CodeOfHealth

\* The status of a chain and what it means.
LEMMA HealthFacts ==
    ASSUME NEW c \in Chain, now \in Nat
    PROVE  LET s == HealthOf(c, now, WarningDays).status
           IN  /\ s \in HealthStatus
               /\ s = "secure" => /\ now \in c.notBefore..c.notAfter
                                  /\ c.notAfter > now + WarningDays * Day
                                  /\ c.revocation \notin {"revoked", "error"}
               /\ s = "expiring" => c.notAfter \in now..(now + WarningDays * Day)
<1> DEFINE s == HealthOf(c, now, WarningDays).status
<1>1. /\ c.notBefore \in Nat /\ c.notAfter \in Nat
      /\ WarningDays \in Nat /\ ~(WarningDays <= 0) /\ Day \in Nat
  <2>1. c.notBefore \in Dates /\ c.notAfter \in Dates
    BY Zenon DEF Chain
  <2>2. WarningDays \in 1..10000
    BY ReportAssumption
  <2>3. WarningDays \in Nat /\ ~(WarningDays <= 0)
    BY <2>2
  <2>4. Day \in Nat
    BY DurationAssumption
  <2>5. c.notBefore \in Nat /\ c.notAfter \in Nat
    <3>1. \A d \in Dates : d \in Nat
      BY ReportAssumption
    <3> QED
      BY <2>1, <3>1, Zenon
  <2> QED
    BY <2>3, <2>4, <2>5, Zenon
<1>2. s = IF c.revocation = "revoked" THEN "insecure"
          ELSE IF c.revocation = "error" THEN "revocation_error"
          ELSE IF ~c.verified THEN "insecure"
          ELSE IF now < c.notBefore THEN "insecure"
          ELSE IF now > c.notAfter THEN "insecure"
          ELSE IF Sub(c.notAfter, now) <= WarningDays * Day THEN "expiring"
          ELSE "secure"
  BY <1>1, PeriodFits DEF HealthOf, Verdict
<1> HIDE DEF s
<1>3. s \in HealthStatus
  BY <1>2, Zenon DEF HealthStatus
<1>4. ASSUME s = "secure"
      PROVE  /\ ~(now < c.notBefore) /\ ~(now > c.notAfter)
             /\ ~(Sub(c.notAfter, now) <= WarningDays * Day)
             /\ c.revocation \notin {"revoked", "error"}
  BY <1>2, <1>4, Zenon
<1>5. ASSUME s = "expiring"
      PROVE  ~(now > c.notAfter) /\ Sub(c.notAfter, now) <= WarningDays * Day
  BY <1>2, <1>5, Zenon
<1>6. /\ WarningDays * Day \in Nat
      /\ Sub(c.notAfter, now) <= WarningDays * Day <=> c.notAfter - now <= WarningDays * Day
  BY <1>1, PeriodFits, SubAgrees
<1>7. ASSUME s = "secure"
      PROVE  now \in c.notBefore..c.notAfter /\ c.notAfter > now + WarningDays * Day
  BY <1>1, <1>4, <1>6, <1>7
<1>8. ASSUME s = "expiring" PROVE c.notAfter \in now..(now + WarningDays * Day)
  BY <1>1, <1>5, <1>6, <1>8
<1> QED
  BY <1>3, <1>4, <1>7, <1>8 DEF s

\* The days of a certificate fit its status.
LEMMA DaysFacts ==
    ASSUME NEW c \in Chain, now \in Nat
    PROVE  LET s == HealthOf(c, now, WarningDays).status
               d == Days(c.notAfter, now)
           IN  /\ d \in Int
               /\ d < WarningDays => s # "secure"
               /\ d > WarningDays => s # "expiring"
               /\ now > c.notAfter => d <= 0 /\ s \notin {"secure", "expiring"}
<1> DEFINE s == HealthOf(c, now, WarningDays).status
           d == Days(c.notAfter, now)
           r == Sub(c.notAfter, now)
           p == WarningDays * Day
<1>1. c.notAfter \in Nat
  <2>1. c.notAfter \in Dates
    BY Zenon DEF Chain
  <2>2. \A x \in Dates : x \in Nat
    BY ReportAssumption
  <2> QED
    BY <2>1, <2>2, Zenon
<1>2. WarningDays \in Nat /\ Day \in Nat /\ Day > 0
  BY ReportAssumption, DurationAssumption
<1>3. /\ p \in Nat /\ r \in Int
      /\ r <= p <=> c.notAfter - now <= p
      /\ r >= 0 <=> c.notAfter >= now
  BY <1>1, PeriodFits, SubAgrees
<1>4. /\ s = "secure" => now <= c.notAfter /\ c.notAfter > now + p
      /\ s = "expiring" => now <= c.notAfter /\ c.notAfter <= now + p
  BY <1>1, <1>3, HealthFacts
<1>5. d = IF r >= 0 THEN r \div Day ELSE -((-r) \div Day)
  BY DEF Days
<1> HIDE DEF s, d, r
<1>6. r >= 0 => d \in Nat /\ d * Day <= r /\ r < (d + 1) * Day
  BY <1>3, <1>5, WholeDays
<1>7. ~(r >= 0) => d \in Int /\ d <= 0
  <2> SUFFICES ASSUME ~(r >= 0) PROVE d \in Int /\ d <= 0
    OBVIOUS
  <2>1. -r \in Nat /\ d = -((-r) \div Day)
    BY <1>3, <1>5
  <2>2. (-r) \div Day \in Nat
    BY <2>1, WholeDays
  <2> QED
    BY <2>1, <2>2
<1>8. d \in Int
  BY <1>6, <1>7
<1>9. ASSUME d < WarningDays, s = "secure" PROVE FALSE
  <2>1. r >= 0 /\ ~(r <= p)
    BY <1>1, <1>3, <1>4, <1>9
  <2>2. d + 1 \in Nat /\ d + 1 <= WarningDays
    BY <1>2, <1>6, <1>9, <2>1
  <2>3. (d + 1) * Day <= p /\ (d + 1) * Day \in Nat
    BY <1>2, <2>2, Monotone
  <2> QED
    BY <1>3, <1>6, <2>1, <2>3
<1>10. ASSUME d > WarningDays, s = "expiring" PROVE FALSE
  <2>1. r >= 0 /\ r <= p
    BY <1>1, <1>3, <1>4, <1>10
  <2>2. WarningDays + 1 \in Nat /\ d \in Nat /\ WarningDays + 1 <= d
    BY <1>2, <1>6, <1>10, <2>1
  <2>3. (WarningDays + 1) * Day <= d * Day /\ d * Day \in Nat
    BY <1>2, <2>2, Monotone
  <2>4. (WarningDays + 1) * Day = p + Day
    BY <1>2
  <2> HIDE DEF p
  <2> QED
    BY <1>2, <1>3, <1>6, <2>1, <2>3, <2>4
<1>11. ASSUME now > c.notAfter PROVE d <= 0 /\ s \notin {"secure", "expiring"}
  <2>1. ~(r >= 0)
    BY <1>1, <1>3, <1>11
  <2>2. ~(now <= c.notAfter)
    BY <1>1, <1>11
  <2> QED
    BY <1>4, <1>7, <2>1, <2>2
<1> QED
  BY <1>8, <1>9, <1>10, <1>11 DEF s, d

\* What a line says of a result: the health at the time of the tally, and the
\* days at that time; a failed input has no line.
LEMMA LineFacts ==
    ASSUME Controls, NEW i \in Indices, ResultTypes, now \in Nat
    PROVE  LET line == LineOf(results[i])
               c == results[i].chain
           IN  /\ results[i].err => line = NoLine
               /\ ~results[i].err =>
                     /\ line.status = HealthOf(c, now, WarningDays).status
                     /\ line.mark \in {"", "ok", "warning", "bad"}
                     /\ line.mark = "ok" =>
                           /\ line.status \notin {"insecure", "revocation_error", "expiring"}
                           /\ c.revocation \in {"", "good", "revoked", "error"}
                     /\ line.days = IF format = "text" THEN 0 ELSE Days(c.notAfter, now)
                     /\ line.expired = (format = "human" /\ now > c.notAfter)
<1> DEFINE c == results[i].chain
           h == HealthOf(c, now, WarningDays)
           d == Days(c.notAfter, now)
           x == now > c.notAfter
<1>1. results[i].err \in BOOLEAN
  BY DEF ResultTypes
<1>3. CASE results[i].err
  BY <1>3, Zenon DEF LineOf, BatchLine
<1>4. CASE Structured /\ ~results[i].err
  <2>1. LineOf(results[i]) = [NoLine EXCEPT !.status = h.status, !.days = d]
    BY <1>4, Zenon DEF LineOf, BatchLine, RenderTime
  <2> HIDE DEF h, d
  <2> DEFINE no == FALSE
  <2>2. LineOf(results[i]) = ALine(h.status, "", "", d, no)
    BY <2>1 DEF NoLine, ALine
  <2> HIDE DEF no
  <2>3. /\ LineOf(results[i]).status = h.status /\ LineOf(results[i]).mark = ""
        /\ LineOf(results[i]).days = d /\ LineOf(results[i]).expired = no
    <3> DEFINE line == ALine(h.status, "", "", d, no)
    <3>1. line.status = h.status /\ line.mark = "" /\ line.days = d /\ line.expired = no
      BY Zenon DEF ALine
    <3>2. LineOf(results[i]) = line
      BY <2>2
    <3> HIDE DEF line
    <3> QED
      BY <3>1, <3>2, Zenon
  <2>4. format # "text" /\ format # "human"
    BY <1>4 DEF Structured
  <2> QED
    BY <1>4, <2>3, <2>4 DEF h, d, no
<1>5. CASE ~Structured /\ ~results[i].err /\ format = "human"
  <2> DEFINE b == IF h.status = "expiring" THEN "" ELSE h.reason
             m == HumanMark(c, h)
  <2>1. LineOf(results[i]) = ALine(h.status, b, m, d, x)
    BY <1>5, Zenon DEF LineOf, HumanLine, RenderTime, ALine
  <2>2. /\ m \in {"ok", "warning", "bad"}
        /\ m = "ok" =>
              /\ h.status \notin {"insecure", "revocation_error", "expiring"}
              /\ c.revocation \in {"", "good", "revoked", "error"}
    BY DEF HumanMark
  <2> HIDE DEF h, b, m, d, x
  <2>3. /\ LineOf(results[i]).status = h.status /\ LineOf(results[i]).mark = m
        /\ LineOf(results[i]).days = d /\ LineOf(results[i]).expired = x
    BY <2>1, PartsOf
  <2>4. x \in BOOLEAN
    BY DEF x
  <2> QED
    BY <1>5, <2>2, <2>3, <2>4 DEF h, d, x
<1>6. CASE ~Structured /\ ~results[i].err /\ format # "human"
  <2> DEFINE b == IF h.reason # "" THEN c.verificationError ELSE ""
  <2>1. LineOf(results[i]) = [NoLine EXCEPT !.status = h.status, !.reason = b]
    BY <1>6, Zenon DEF LineOf, TextLine, RenderTime
  <2> HIDE DEF h, b
  <2> DEFINE no == FALSE
  <2>2. LineOf(results[i]) = ALine(h.status, b, "", 0, no)
    BY <2>1 DEF NoLine, ALine
  <2> HIDE DEF no
  <2>3. /\ LineOf(results[i]).status = h.status /\ LineOf(results[i]).mark = ""
        /\ LineOf(results[i]).days = 0 /\ LineOf(results[i]).expired = no
    <3> DEFINE line == ALine(h.status, b, "", 0, no)
    <3>1. line.status = h.status /\ line.mark = "" /\ line.days = 0 /\ line.expired = no
      BY Zenon DEF ALine
    <3>2. LineOf(results[i]) = line
      BY <2>2
    <3> HIDE DEF line
    <3> QED
      BY <3>1, <3>2, Zenon
  <2>4. format = "text"
    BY <1>6 DEF Controls, Format, Structured
  <2> QED
    BY <1>6, <2>3, <2>4 DEF h, no
<1> QED
  BY <1>1, <1>3, <1>4, <1>5, <1>6

-----------------------------------------------------------------------------
\* A report begins with nothing counted or written.
LEMMA InvInit == Init => Inv
<1> SUFFICES ASSUME Init PROVE Inv
  OBVIOUS
<1>1. Controls
  BY DEF Init, Controls
<1>2. Numbers
  <2>1. 0 \in 0..MaxTime /\ 1 \in 1..(NResults + 1)
    BY ReportAssumption
  <2>2. ExitOK \in ExitCode
    BY DEF ExitCode
  <2> QED
    BY <2>1, <2>2, Zenon DEF Init, Numbers
<1>3. ResultTypes
  <2>1. ASSUME NEW i \in Indices
        PROVE  results[i].err \in BOOLEAN /\ (~results[i].err => results[i].chain \in Chain)
    <3>1. results[i] \in ResultAt(clock)
      BY DEF Init, Indices
    <3>2. CASE results[i] = Failure
      BY <3>2 DEF Failure
    <3>3. CASE results[i] \in [err : {FALSE}, chain : ChainAt(clock)]
      <4>1. results[i].err = FALSE /\ results[i].chain \in ChainAt(clock)
        BY <3>3
      <4> QED
        BY <4>1 DEF ChainAt, Chain
    <3> QED
      BY <3>1, <3>2, <3>3 DEF ResultAt
  <2> QED
    BY <2>1 DEF ResultTypes
<1>4. Tracked
  BY DEF Init, Tracked, Counted
<1>5. Printed
  BY DEF Init, Printed, Written, Indices
<1> QED
  BY <1>1, <1>2, <1>3, <1>4, <1>5 DEF Inv

\* Every step of the report, and the clock, preserves the invariant.
LEMMA InvNext == Inv /\ [Next]_vars => Inv'
<1> SUFFICES ASSUME Inv, [Next]_vars PROVE Inv'
  OBVIOUS
<1>0. ResultTypes'
  BY DEF Inv, ResultTypes, Next, vars, ReadClock, Tally, TallyDone, Render, RenderDone, Tick, Finished
<1>n. /\ NResults \in Nat /\ NResults >= 1 /\ cursor \in Nat /\ cursor >= 1
      /\ \A i \in Indices : i \in Nat /\ 1 <= i /\ i <= NResults
  BY ReportAssumption DEF Inv, Numbers, Indices
<1>1. CASE ReadClock
  <2>1. Controls'
    BY <1>1 DEF ReadClock, Inv, Controls, Structured
  <2>2. Numbers'
    BY <1>1 DEF ReadClock, Inv, Numbers
  <2>3. cursor' = 1 /\ pc' = "tally" /\ exit' = exit /\ exit = ExitOK
    BY <1>1 DEF ReadClock, Inv, Tracked, Counted
  <2>4. Tracked'
    BY <1>n, <2>3 DEF Tracked, Counted
  <2>5. Printed'
    BY <1>1 DEF ReadClock, Inv, Printed, Written
  <2> QED
    BY <1>0, <2>1, <2>2, <2>4, <2>5 DEF Inv
<1>2. CASE Tally
  <2>0. /\ pc = "tally" /\ pc' = "tally" /\ cursor \in Indices /\ cursor' = cursor + 1
        /\ exit' = TrackerSet(exit, CodeOf(results[cursor]))
        /\ UNCHANGED <<format, results, clock, now, printed, envelope>>
    BY <1>2, <1>n DEF Tally, Indices
  <2>1. Controls'
    BY <2>0 DEF Inv, Controls, Structured
  <2>2. /\ CodeOf(results[cursor]) \in ExitCode /\ exit \in ExitCode /\ exit' \in ExitCode
        /\ exit' \in {exit, CodeOf(results[cursor])}
        /\ exitPriority[exit] <= exitPriority[exit']
        /\ exitPriority[CodeOf(results[cursor])] <= exitPriority[exit']
    BY <2>0, CodeFacts, Escalates DEF Inv, Numbers
  <2>3. Numbers'
    BY <1>n, <2>0, <2>2 DEF Inv, Numbers, Indices
  <2>4. \A i \in Indices : Counted(i)' <=> Counted(i) \/ i = cursor
    BY <1>n, <2>0 DEF Counted
  <2>5. \A i \in Indices : CodeOf(results[i])' = CodeOf(results[i])
    BY <2>0 DEF CodeOf
  <2>6. ASSUME NEW i \in Indices, Counted(i)'
        PROVE  exitPriority[CodeOf(results[i])] <= exitPriority[exit']
    <3>1. CASE i = cursor
      BY <2>2, <3>1
    <3>2. CASE i # cursor
      <4>1. exitPriority[CodeOf(results[i])] <= exitPriority[exit]
        BY <2>4, <2>6, <3>2 DEF Inv, Tracked
      <4>2. /\ exitPriority[CodeOf(results[i])] \in Nat /\ exitPriority[exit] \in Nat
            /\ exitPriority[exit'] \in Nat
        BY <2>2, CodeFacts, Priorities
      <4> QED
        BY <2>2, <4>1, <4>2
    <3> QED
      BY <3>1, <3>2
  <2>7. \E i \in Indices : Counted(i)' /\ exit' = CodeOf(results[i])
    <3>1. CASE exit' = CodeOf(results[cursor])
      BY <2>0, <2>4, <3>1
    <3>2. CASE exit' = exit /\ exit' # CodeOf(results[cursor])
      <4>1. exit # ExitOK
        <5> SUFFICES ASSUME exit = ExitOK PROVE FALSE
          OBVIOUS
        <5>1. exitPriority[exit] = 0 /\ exitPriority[CodeOf(results[cursor])] \in 0..4
          BY <2>2, Priorities
        <5>2. exitPriority[CodeOf(results[cursor])] = 0
          BY <2>2, <3>2, <5>1
        <5> QED
          BY <2>2, <3>2, <5>2, Priorities
      <4>2. PICK i \in Indices : Counted(i) /\ exit = CodeOf(results[i])
        BY <4>1 DEF Inv, Tracked
      <4> QED
        BY <2>4, <3>2, <4>2
    <3> QED
      BY <2>2, <3>1, <3>2
  <2>8. Tracked'
    BY <2>0, <2>5, <2>6, <2>7 DEF Tracked
  <2>9. Printed'
    BY <2>0 DEF Inv, Printed, Written
  <2> QED
    BY <1>0, <2>1, <2>3, <2>8, <2>9 DEF Inv
<1>3. CASE TallyDone
  <2>0. /\ pc = "tally" /\ pc' = "render" /\ cursor > NResults /\ cursor' = 1
        /\ UNCHANGED <<format, results, clock, now, exit, printed, envelope>>
    BY <1>3 DEF TallyDone
  <2>1. Controls'
    BY <2>0 DEF Inv, Controls, Structured
  <2>2. Numbers'
    BY <1>n, <2>0 DEF Inv, Numbers
  <2>3. \A i \in Indices : Counted(i)' /\ Counted(i) /\ ~Written(i) /\ ~Written(i)'
    <3>1. \A i \in Indices : i < cursor /\ ~(i < cursor')
      BY <1>n, <2>0
    <3> QED
      BY <2>0, <3>1, Zenon DEF Counted, Written
  <2>4. Tracked'
    BY <2>0, <2>3 DEF Inv, Tracked, CodeOf
  <2>5. Printed'
    BY <2>0, <2>3 DEF Inv, Printed
  <2> QED
    BY <1>0, <2>1, <2>2, <2>4, <2>5 DEF Inv
<1>4. CASE Render
  <2>0. /\ pc = "render" /\ pc' = "render" /\ cursor \in Indices /\ cursor' = cursor + 1
        /\ printed' = [printed EXCEPT ![cursor] = LineOf(results[cursor])]
        /\ UNCHANGED <<format, results, clock, now, exit, envelope>>
    BY <1>4, <1>n DEF Render, Indices
  <2>1. Controls'
    BY <2>0 DEF Inv, Controls, Structured
  <2>2. Numbers'
    BY <1>n, <2>0 DEF Inv, Numbers, Indices
  <2>3. Tracked'
    <3>1. \A i \in Indices : Counted(i) /\ Counted(i)'
      BY <2>0, Zenon DEF Counted
    <3>2. \A i \in Indices : CodeOf(results[i])' = CodeOf(results[i])
      BY <2>0 DEF CodeOf
    <3>3. pc' # "clock"
      BY <2>0
    <3> QED
      BY <2>0, <3>1, <3>2, <3>3, Zenon DEF Inv, Tracked
  <2>4. \A i \in Indices : LineOf(results[i])' = LineOf(results[i])
    BY <2>0 DEF LineOf, Structured, BatchLine, HumanLine, TextLine, RenderTime
  <2>5. \A i \in Indices : Written(i)' <=> Written(i) \/ i = cursor
    BY <1>n, <2>0 DEF Written
  <2>6. Printed'
    BY <2>0, <2>4, <2>5 DEF Inv, Printed
  <2> QED
    BY <1>0, <2>1, <2>2, <2>3, <2>6 DEF Inv
<1>5. CASE RenderDone
  <2>0. /\ pc = "render" /\ pc' = "done" /\ cursor > NResults
        /\ envelope' = (IF Structured THEN EnvelopeStatus ELSE "")
        /\ UNCHANGED <<format, results, clock, now, cursor, exit, printed>>
    BY <1>5 DEF RenderDone
  <2>1. Controls'
    BY <2>0 DEF Inv, Controls, Structured, EnvelopeStatus
  <2>2. Numbers'
    BY <2>0 DEF Inv, Numbers
  <2>3. Tracked'
    BY <2>0 DEF Inv, Tracked, Counted, CodeOf
  <2>4. \A i \in Indices : Written(i)' /\ Written(i)
    <3>1. cursor > NResults
      BY <2>0
    <3>2. \A i \in Indices : i < cursor
      BY <1>n, <3>1
    <3> QED
      BY <2>0, <3>2, Zenon DEF Written
  <2>5. \A i \in Indices : LineOf(results[i])' = LineOf(results[i])
    BY <2>0 DEF LineOf, Structured, BatchLine, HumanLine, TextLine, RenderTime
  <2>6. Printed'
    BY <2>0, <2>4, <2>5 DEF Inv, Printed
  <2> QED
    BY <1>0, <2>1, <2>2, <2>3, <2>6 DEF Inv
<1>6. CASE Tick \/ UNCHANGED vars
  <2>0. /\ UNCHANGED <<format, results, now, pc, cursor, exit, printed, envelope>>
        /\ clock' \in 0..MaxTime
    BY <1>6, ReportAssumption DEF Tick, vars, Inv, Numbers
  <2>1. Controls'
    BY <2>0 DEF Inv, Controls, Structured, EnvelopeStatus
  <2>2. Numbers'
    BY <2>0 DEF Inv, Numbers
  <2>3. Tracked'
    BY <2>0 DEF Inv, Tracked, Counted, CodeOf
  <2>4. \A i \in Indices : LineOf(results[i])' = LineOf(results[i])
    BY <2>0 DEF LineOf, Structured, BatchLine, HumanLine, TextLine, RenderTime
  <2>5. Printed'
    BY <2>0, <2>4 DEF Inv, Printed, Written
  <2> QED
    BY <1>0, <2>1, <2>2, <2>3, <2>5 DEF Inv
<1> QED
  BY <1>1, <1>2, <1>3, <1>4, <1>5, <1>6 DEF Next, Finished

\* The invariant holds of every report.
THEOREM Invariance == Spec => []Inv
<1>1. Init => Inv
  BY InvInit
<1>2. Inv /\ [Next]_vars => Inv'
  BY InvNext
<1> QED
  BY <1>1, <1>2, PTL DEF Spec

\* The time of the report is a number.
LEMMA TimeIsNumber == Inv => now \in Nat
  BY DEF Inv, Numbers

\* What stands on a line, in all states: nothing, or the health of the tally.
LEMMA Reads ==
    ASSUME Inv, NEW i \in Indices
    PROVE  /\ printed[i].status \in HealthStatus \cup {""}
           /\ printed[i].mark \in {"", "ok", "warning", "bad"}
           /\ printed[i].days \in Int /\ printed[i].expired \in BOOLEAN
           /\ printed[i].status # "" =>
                 /\ results[i].chain \in Chain
                 /\ printed[i].status = HealthOf(results[i].chain, now, WarningDays).status
                 /\ format # "text" => printed[i].days = Days(results[i].chain.notAfter, now)
                 /\ printed[i].expired = (format = "human" /\ now > results[i].chain.notAfter)
           /\ printed[i].mark = "ok" =>
                 /\ printed[i].status \notin {"", "insecure", "revocation_error", "expiring"}
                 /\ results[i].chain.revocation \in {"", "good", "revoked", "error"}
<1>1. now \in Nat
  BY DEF Inv, Numbers
<1>2. CASE printed[i] = NoLine
  <2>1. /\ printed[i].status = "" /\ printed[i].mark = ""
        /\ printed[i].days = 0 /\ printed[i].expired = FALSE
    BY <1>2, PartsOfNoLine, Zenon
  <2>2. printed[i].days \in Int
    <3>1. 0 \in Int
      OBVIOUS
    <3> QED
      BY <2>1, <3>1, Zenon
  <2> QED
    BY <2>1, <2>2, Zenon
<1>3. CASE printed[i] # NoLine
  <2>1. printed[i] = LineOf(results[i])
    BY <1>3, Zenon DEF Inv, Printed
  <2>2. ~results[i].err
    BY <1>1, <1>3, <2>1, LineFacts DEF Inv
  <2>3. results[i].chain \in Chain
    BY <2>2 DEF Inv, ResultTypes
  <2>4. HealthOf(results[i].chain, now, WarningDays).status \in HealthStatus
    BY <1>1, <2>3, HealthFacts
  <2>5. Days(results[i].chain.notAfter, now) \in Int
    BY <1>1, <2>3, DaysFacts
  <2>6. "" \notin HealthStatus
    BY DEF HealthStatus
  <2>7. /\ printed[i].status = HealthOf(results[i].chain, now, WarningDays).status
        /\ printed[i].mark \in {"", "ok", "warning", "bad"}
        /\ printed[i].mark = "ok" =>
              /\ printed[i].status \notin {"insecure", "revocation_error", "expiring"}
              /\ results[i].chain.revocation \in {"", "good", "revoked", "error"}
        /\ printed[i].days = IF format = "text" THEN 0
                             ELSE Days(results[i].chain.notAfter, now)
        /\ printed[i].expired = (format = "human" /\ now > results[i].chain.notAfter)
    BY <1>1, <2>1, <2>2, LineFacts DEF Inv
  <2>8. /\ printed[i].days \in Int
        /\ format # "text" => printed[i].days = Days(results[i].chain.notAfter, now)
    <3>1. 0 \in Int
      OBVIOUS
    <3> QED
      BY <2>5, <2>7, <3>1, Zenon
  <2>9. printed[i].expired \in BOOLEAN
    BY <2>7, Zenon
  <2> HIDE DEF Chain
  <2> QED
    BY <2>3, <2>4, <2>6, <2>7, <2>8, <2>9, Zenon
<1> QED
  BY <1>2, <1>3

\* The state of the report is type correct.
THEOREM TypeCorrect == Spec => []TypeOK
<1>1. Inv => TypeOK
  <2> SUFFICES ASSUME Inv PROVE TypeOK
    OBVIOUS
  <2>1. envelope \in {"", "success", "partial_success", "failure"}
    BY DEF Inv, Controls, EnvelopeStatus
  <2> QED
    BY <2>1, Reads DEF Inv, Controls, Numbers, TypeOK, Indices
<1> QED
  BY <1>1, Invariance, PTL

\* The envelope (batch.go:84-122) and the exit status agree on whether an input failed.
LEMMA EnvelopeAgrees ==
    ASSUME Inv, pc = "done", Structured
    PROVE  envelope = "success" <=> exit # ExitRuntimeError
<1>1. envelope = "success" <=> \A i \in Indices : ~results[i].err
  <2>1. envelope = EnvelopeStatus
    BY DEF Inv, Controls
  <2> QED
    BY <2>1 DEF EnvelopeStatus, Indices
<1>2. exit \in ExitCode
  BY DEF Inv, Numbers
<1>3. ASSUME NEW i \in Indices, results[i].err PROVE exit = ExitRuntimeError
  <2>1. CodeOf(results[i]) = ExitRuntimeError
    BY <1>3, CodeFacts
  <2>2. exitPriority[ExitRuntimeError] <= exitPriority[exit]
    <3>1. exitPriority[CodeOf(results[i])] <= exitPriority[exit]
      BY Zenon DEF Inv, Tracked, Counted
    <3> QED
      BY <2>1, <3>1
  <2>3. ExitRuntimeError \in ExitCode
    BY DEF ExitCode
  <2>4. exitPriority[ExitRuntimeError] = exitPriority[exit]
    BY <1>2, <2>2, <2>3, Priorities
  <2> QED
    BY <1>2, <2>3, <2>4, Priorities
<1>4. ASSUME exit = ExitRuntimeError PROVE \E i \in Indices : results[i].err
  <2>1. exit # ExitOK
    BY <1>4 DEF ExitOK, ExitRuntimeError
  <2>2. PICK i \in Indices : exit = CodeOf(results[i])
    BY <2>1 DEF Inv, Tracked
  <2> QED
    BY <1>4, <2>2, CodeFacts
<1> QED
  BY <1>1, <1>3, <1>4

\* The exit status is the worst that the printed statuses and the failed inputs
\* ask for (client.go:263-330), although the clock runs between tally and output, and so
\* says the envelope.
THEOREM OutputAndExitAgree == Spec => []ExitMatchesOutput
<1>1. Inv => ExitMatchesOutput
  <2> SUFFICES ASSUME Inv, pc = "done" PROVE ExitMatchesOutput
    BY DEF ExitMatchesOutput
  <2>1. ASSUME NEW i \in Indices
        PROVE  (IF results[i].err THEN ExitRuntimeError ELSE HealthCode(printed[i].status))
                   = CodeOf(results[i])
    <3>1. printed[i] = LineOf(results[i])
      BY Zenon DEF Inv, Printed, Written
    <3>2. ~results[i].err =>
             printed[i].status = HealthOf(results[i].chain, now, WarningDays).status
      <4>1. now \in Nat /\ Controls /\ ResultTypes
        BY DEF Inv, Numbers
      <4> QED
        BY <3>1, <4>1, LineFacts, Zenon
    <3> QED
      BY <3>2, Zenon DEF CodeOf
  <2> DEFINE codes == {IF results[i].err THEN ExitRuntimeError
                       ELSE HealthCode(printed[i].status) : i \in 1..NResults}
  <2>2. codes = {CodeOf(results[i]) : i \in Indices}
    BY <2>1, Zenon DEF Indices
  <2> HIDE DEF codes
  <2>3. 1 \in Indices
    BY ReportAssumption DEF Indices
  <2>4. \E i \in Indices : exit = CodeOf(results[i])
    BY <2>3, Zenon DEF Inv, Tracked, Counted
  <2>5. \A i \in Indices : exitPriority[CodeOf(results[i])] <= exitPriority[exit]
    BY Zenon DEF Inv, Tracked, Counted
  <2>6. Structured => (envelope = "success" <=> exit # ExitRuntimeError)
    BY EnvelopeAgrees
  <2>7. exit \in codes /\ \A c \in codes : exitPriority[c] <= exitPriority[exit]
    BY <2>2, <2>4, <2>5
  <2> QED
    BY <2>6, <2>7, Zenon DEF ExitMatchesOutput, codes
<1> QED
  BY <1>1, Invariance, PTL

\* A chain is judged by the time of the report (health.go:29-56), whenever it was
\* verified.
THEOREM JudgedNow == Spec => []JudgedAtReport
<1>1. Inv => JudgedAtReport
  <2> SUFFICES ASSUME Inv, NEW i \in Indices
               PROVE  /\ printed[i].status = "secure" =>
                            now \in results[i].chain.notBefore..results[i].chain.notAfter
                            /\ results[i].chain.notAfter > now + WarningDays * Day
                      /\ printed[i].status = "expiring" =>
                            results[i].chain.notAfter \in now..(now + WarningDays * Day)
    BY DEF JudgedAtReport, Indices
  <2>1. now \in Nat
    BY DEF Inv, Numbers
  <2>2. CASE printed[i].status = ""
    BY <2>2
  <2>3. CASE printed[i].status # ""
    BY <2>1, <2>3, Reads, HealthFacts
  <2> QED
    BY <2>2, <2>3
<1> QED
  BY <1>1, Invariance, PTL

\* The clean sign (human.go:44) is never given to a check that could not be made.
THEOREM SoftFailIsVisible == Spec => []NoSilentSoftFail
<1>1. Inv => NoSilentSoftFail
  <2> SUFFICES ASSUME Inv, NEW i \in Indices, printed[i].mark = "ok"
               PROVE  /\ printed[i].status = "secure"
                      /\ results[i].chain.revocation \in {"", "good"}
    BY DEF NoSilentSoftFail, Indices
  <2>1. now \in Nat
    BY DEF Inv, Numbers
  <2>2. printed[i].status = "secure"
    BY Reads DEF HealthStatus
  <2>3. results[i].chain.revocation \notin {"revoked", "error"}
    BY <2>1, <2>2, Reads, HealthFacts
  <2> QED
    BY <2>2, <2>3, Reads
<1> QED
  BY <1>1, Invariance, PTL

\* The number of days, the word "expired" and the status fit each other
\* (human.go:32-53, 150-162, csv.go:69).
THEOREM DaysFit == Spec => []DaysFitStatus
<1>1. Inv => DaysFitStatus
  <2> SUFFICES ASSUME Inv, NEW i \in Indices, printed[i].status # "", format # "text"
               PROVE  /\ printed[i].days < WarningDays => printed[i].status # "secure"
                      /\ printed[i].days > WarningDays => printed[i].status # "expiring"
                      /\ printed[i].expired =>
                            printed[i].days <= 0 /\ printed[i].status \notin {"secure", "expiring"}
                      /\ format = "human" =>
                            (printed[i].expired <=> now > results[i].chain.notAfter)
    BY DEF DaysFitStatus, Indices
  <2>1. now \in Nat
    BY TimeIsNumber, Zenon
  <2>2. /\ results[i].chain \in Chain
        /\ printed[i].status = HealthOf(results[i].chain, now, WarningDays).status
        /\ printed[i].days = Days(results[i].chain.notAfter, now)
        /\ printed[i].expired = (format = "human" /\ now > results[i].chain.notAfter)
    BY Reads
  <2> QED
    BY <2>1, <2>2, DaysFacts
<1> QED
  BY <1>1, Invariance, PTL

-----------------------------------------------------------------------------
(***************************************************************************)
(* Proofs about Output, for every set of chains, every report of them, all *)
(* orders in which Write takes, cuts or refuses pieces, and every size of  *)
(* the buffer of csv.Writer.                                               *)
(*                                                                         *)
(* First what FlattenSeq and the filters built from it return: sequences   *)
(* are joined one after the other.  Such facts go by the least number that *)
(* would refute them.                                                      *)
(***************************************************************************)
\* The order of the numbers, as a relation.
Less == {p \in Nat \X Nat : p[1] < p[2]}

\* Induction, for a set of numbers.
LEMMA Counting ==
    ASSUME NEW P, 0 \in P, \A n \in Nat : n \in P => n + 1 \in P
    PROVE  \A n \in Nat : n \in P
<1> SUFFICES ASSUME Nat \ P # {}
             PROVE  FALSE
  OBVIOUS
<1>1. IsWellFoundedOn(Less, Nat)
  <2>1. OpToRel(<, Nat) = Less
    BY Zenon DEF OpToRel, Less
  <2> QED
    BY <2>1, NatLessThanWellFounded
<1>2. PICK n \in Nat \ P : \A k \in Nat \ P : ~(<<k, n>> \in Less)
  <2>1. Nat \ P \subseteq Nat
    OBVIOUS
  <2> QED
    BY <1>1, <2>1, WFMin
<1>3. n # 0 /\ n - 1 \in Nat /\ n - 1 < n
  OBVIOUS
<1>4. <<n - 1, n>> \in Nat \X Nat /\ <<n - 1, n>>[1] < <<n - 1, n>>[2]
  BY <1>3
<1>5. <<n - 1, n>> \in Less
  BY <1>4, Zenon DEF Less
<1>6. n - 1 \in P
  BY <1>2, <1>3, <1>5
<1>7. (n - 1) + 1 \in P
  BY <1>3, <1>6
<1> QED
  BY <1>7

-----------------------------------------------------------------------------
\* The beginnings of a sequence of sequences joined, one after the other.
Joined(f, p, n) ==
    \A i \in 1..n : f[i] = IF i = 1 THEN p[i] ELSE f[i - 1] \o p[i]

Agree(f, g, n) == \A i \in 1..n : f[i] = g[i]

\* The beginnings of a sequence of sequences can be joined.
LEMMA JoinedExists ==
    ASSUME NEW S, NEW p \in Seq(Seq(S))
    PROVE  \E f \in [1..Len(p) -> Seq(S)] : Joined(f, p, Len(p))
<1> DEFINE Has(n) == \E f \in [1..n -> Seq(S)] : Joined(f, p, n)
           P == {n \in Nat : n <= Len(p) => Has(n)}
<1>1. Has(0)
  <2>1. [i \in 1..0 |-> p[i]] \in [1..0 -> Seq(S)]
    OBVIOUS
  <2>2. Joined([i \in 1..0 |-> p[i]], p, 0)
    BY DEF Joined
  <2> QED
    BY <2>1, <2>2
<1>2. ASSUME NEW n \in Nat, Has(n), n + 1 <= Len(p)
      PROVE  Has(n + 1)
  <2>1. PICK f \in [1..n -> Seq(S)] : Joined(f, p, n)
    BY <1>2
  <2>2. p[n + 1] \in Seq(S)
    BY <1>2
  <2> DEFINE new == IF n = 0 THEN p[n + 1] ELSE f[n] \o p[n + 1]
             g == [i \in 1..(n + 1) |-> IF i = n + 1 THEN new ELSE f[i]]
  <2>3. new \in Seq(S)
    <3>1. CASE n = 0
      BY <2>2, <3>1
    <3>2. CASE n # 0
      <4>1. f[n] \in Seq(S)
        BY <3>2
      <4> QED
        BY <2>2, <3>2, <4>1
    <3> QED
      BY <3>1, <3>2
  <2>4. g[n + 1] = new /\ \A i \in 1..n : g[i] = f[i]
    <3> HIDE DEF new
    <3>1. n + 1 \in 1..(n + 1) /\ \A i \in 1..n : i \in 1..(n + 1) /\ i # n + 1
      OBVIOUS
    <3> QED
      BY <3>1
  <2>5. g \in [1..(n + 1) -> Seq(S)]
    <3> HIDE DEF new
    <3> QED
      BY <2>3
  <2>6. Joined(g, p, n + 1)
    <3> HIDE DEF g
    <3> SUFFICES ASSUME NEW i \in 1..(n + 1)
                 PROVE  g[i] = IF i = 1 THEN p[i] ELSE g[i - 1] \o p[i]
      BY DEF Joined
    <3>1. CASE i = n + 1
      <4>1. n # 0 => g[i - 1] = f[n]
        BY <2>4, <3>1
      <4> QED
        BY <2>4, <3>1, <4>1
    <3>2. CASE i # n + 1
      <4>1. i \in 1..n /\ (i # 1 => i - 1 \in 1..n)
        BY <3>2
      <4> QED
        BY <2>1, <2>4, <4>1 DEF Joined
    <3> QED
      BY <3>1, <3>2
  <2> HIDE DEF g
  <2> QED
    BY <2>5, <2>6
<1>3. \A n \in Nat : n \in P
  <2> HIDE DEF Has
  <2>1. 0 \in P
    BY <1>1
  <2>2. \A n \in Nat : n \in P => n + 1 \in P
    BY <1>2
  <2> HIDE DEF P
  <2> QED
    BY <2>1, <2>2, Counting
<1>4. Len(p) \in Nat
  OBVIOUS
<1>5. Has(Len(p))
  <2> HIDE DEF Has
  <2> QED
    BY <1>3, <1>4
<1> QED
  BY <1>5

\* Two ways of joining the same beginnings agree.
LEMMA JoinedOnce ==
    ASSUME NEW p, NEW q, NEW n \in Nat, NEW f, NEW g, Joined(f, p, n), Joined(g, q, n),
           Agree(p, q, n)
    PROVE  Agree(f, g, n)
<1> DEFINE P == {k \in Nat : k \in 1..n => f[k] = g[k]}
<1>1. 0 \in P
  OBVIOUS
<1>2. ASSUME NEW k \in Nat, k \in P
      PROVE  k + 1 \in P
  <2> SUFFICES ASSUME k + 1 \in 1..n
               PROVE  f[k + 1] = g[k + 1]
    OBVIOUS
  <2>1. /\ f[k + 1] = IF k + 1 = 1 THEN p[k + 1] ELSE f[(k + 1) - 1] \o p[k + 1]
        /\ g[k + 1] = IF k + 1 = 1 THEN q[k + 1] ELSE g[(k + 1) - 1] \o q[k + 1]
    BY DEF Joined
  <2>2. (k + 1) - 1 = k /\ p[k + 1] = q[k + 1]
    BY DEF Agree
  <2>3. k # 0 => f[k] = g[k]
    BY <1>2
  <2> QED
    BY <2>1, <2>2, <2>3
<1>3. \A k \in Nat : k \in P
  <2> HIDE DEF P
  <2> QED
    BY <1>1, <1>2, Counting
<1> QED
  BY <1>3 DEF Agree

\* FlattenSeq joins all of them.
LEMMA FlattenIs ==
    ASSUME NEW S, NEW p \in Seq(Seq(S)), Len(p) # 0
    PROVE  \E f \in [1..Len(p) -> Seq(S)] : Joined(f, p, Len(p)) /\ FlattenSeq(p) = f[Len(p)]
<1> DEFINE Good(f) == f = [i \in 1..Len(p) |-> IF i = 1 THEN p[i] ELSE f[i - 1] \o p[i]]
<1>1. FlattenSeq(p) = (CHOOSE f : Good(f))[Len(p)]
  BY Zenon DEF FlattenSeq
<1>2. PICK g \in [1..Len(p) -> Seq(S)] : Joined(g, p, Len(p))
  BY JoinedExists
<1>3. Good(g)
  BY <1>2 DEF Joined
<1>4. Good(CHOOSE f : Good(f))
  BY <1>3, Zenon
<1> DEFINE h == CHOOSE f : Good(f)
<1>5. h = [i \in 1..Len(p) |-> IF i = 1 THEN p[i] ELSE h[i - 1] \o p[i]]
  BY <1>4, Zenon
<1>6. FlattenSeq(p) = h[Len(p)]
  BY <1>1, Zenon
<1> HIDE DEF h
<1>7. Joined(h, p, Len(p))
  BY <1>5 DEF Joined
<1>8. Agree(h, g, Len(p))
  BY <1>2, <1>7, JoinedOnce DEF Agree
<1>9. Len(p) \in 1..Len(p)
  OBVIOUS
<1> QED
  BY <1>2, <1>6, <1>8, <1>9 DEF Agree

\* What FlattenSeq joins is a sequence of the same things.
LEMMA FlattenType ==
    ASSUME NEW S, NEW p \in Seq(Seq(S))
    PROVE  FlattenSeq(p) \in Seq(S)
<1>1. CASE Len(p) = 0
  BY <1>1 DEF FlattenSeq
<1>2. CASE Len(p) # 0
  <2>1. Len(p) \in 1..Len(p)
    BY <1>2
  <2>2. PICK f \in [1..Len(p) -> Seq(S)] : FlattenSeq(p) = f[Len(p)]
    BY <1>2, FlattenIs
  <2> QED
    BY <2>1, <2>2
<1> QED
  BY <1>1, <1>2

\* The last of the sequences stands at the end.
LEMMA FlattenAppend ==
    ASSUME NEW S, NEW p \in Seq(Seq(S)), NEW x \in Seq(S)
    PROVE  FlattenSeq(Append(p, x)) = FlattenSeq(p) \o x
<1> SUFFICES ASSUME NEW q \in Seq(Seq(S)), q = Append(p, x), NEW n \in Nat, n = Len(p)
             PROVE  FlattenSeq(q) = FlattenSeq(p) \o x
  <2>1. Append(p, x) \in Seq(Seq(S)) /\ Len(p) \in Nat
    OBVIOUS
  <2> QED
    BY <2>1, Zenon
<1>1. Len(q) = n + 1 /\ q[n + 1] = x /\ \A i \in 1..n : q[i] = p[i]
  OBVIOUS
<1>2. PICK g \in [1..Len(q) -> Seq(S)] : Joined(g, q, Len(q)) /\ FlattenSeq(q) = g[Len(q)]
  <2>1. Len(q) # 0
    BY <1>1
  <2> QED
    BY <2>1, FlattenIs
<1>3. Joined(g, q, n) /\ g[n + 1] = IF n + 1 = 1 THEN x ELSE g[(n + 1) - 1] \o x
  <2>1. n + 1 \in 1..Len(q) /\ \A i \in 1..n : i \in 1..Len(q)
    BY <1>1
  <2>2. Joined(g, q, Len(q))
    BY <1>2
  <2> QED
    BY <1>1, <2>1, <2>2 DEF Joined
<1>4. CASE n = 0
  <2>1. FlattenSeq(p) = p /\ p = << >>
    <3>1. Len(p) = 0
      BY <1>4
    <3> QED
      BY <3>1 DEF FlattenSeq
  <2> QED
    BY <1>1, <1>2, <1>3, <1>4, <2>1
<1>5. CASE n # 0
  <2>1. PICK f \in [1..n -> Seq(S)] : Joined(f, p, n) /\ FlattenSeq(p) = f[n]
    BY <1>5, FlattenIs
  <2>2. Agree(p, q, n)
    BY <1>1 DEF Agree
  <2>3. Agree(f, g, n)
    BY <1>3, <2>1, <2>2, JoinedOnce
  <2>4. n \in 1..n /\ (n + 1) - 1 = n /\ n + 1 # 1
    BY <1>5
  <2> QED
    BY <1>1, <1>2, <1>3, <2>1, <2>3, <2>4 DEF Agree
<1> QED
  BY <1>4, <1>5

-----------------------------------------------------------------------------
\* The first n members of p, joined.
Upto(p, n) == FlattenSeq([i \in 1..n |-> p[i]])

\* One more is joined after those before it.
LEMMA UptoNext ==
    ASSUME NEW S, NEW N \in Nat, NEW p \in [1..N -> Seq(S)]
    PROVE  /\ \A n \in 0..N : Upto(p, n) \in Seq(S)
           /\ Upto(p, 0) = << >>
           /\ \A n \in Nat : n < N => Upto(p, n + 1) = Upto(p, n) \o p[n + 1]
<1>1. ASSUME NEW n \in 0..N
      PROVE  Upto(p, n) \in Seq(S)
  <2>1. [i \in 1..n |-> p[i]] \in Seq(Seq(S))
    OBVIOUS
  <2> QED
    BY <2>1, FlattenType DEF Upto
<1>2. Upto(p, 0) = << >>
  <2>1. [i \in 1..0 |-> p[i]] = << >>
    OBVIOUS
  <2>2. FlattenSeq(<< >>) = << >>
    BY DEF FlattenSeq
  <2> QED
    BY <2>1, <2>2 DEF Upto
<1>3. ASSUME NEW n \in Nat, n < N
      PROVE  Upto(p, n + 1) = Upto(p, n) \o p[n + 1]
  <2> DEFINE s == [i \in 1..n |-> p[i]]
  <2>1. s \in Seq(Seq(S)) /\ p[n + 1] \in Seq(S)
    BY <1>3
  <2>2. Append(s, p[n + 1]) = [i \in 1..(n + 1) |-> p[i]]
    BY <1>3
  <2>3. FlattenSeq(Append(s, p[n + 1])) = FlattenSeq(s) \o p[n + 1]
    <3> HIDE DEF s
    <3> QED
      BY <2>1, FlattenAppend
  <2> QED
    BY <2>2, <2>3 DEF Upto
<1> QED
  BY <1>1, <1>2, <1>3

\* Empty members add nothing.
Gap(p, n, m) == \A k \in (n + 1)..m : p[k] = << >>

\* Empty ones add nothing.
LEMMA UptoSkips ==
    ASSUME NEW S, NEW N \in Nat, NEW p \in [1..N -> Seq(S)], NEW n \in 0..N, NEW m \in n..N,
           Gap(p, n, m)
    PROVE  Upto(p, m) = Upto(p, n)
<1> DEFINE P == {k \in Nat : k \in n..m => Upto(p, k) = Upto(p, n)}
<1>1. 0 \in P
  OBVIOUS
<1>2. ASSUME NEW k \in Nat, k \in P
      PROVE  k + 1 \in P
  <2> SUFFICES ASSUME k + 1 \in n..m
               PROVE  Upto(p, k + 1) = Upto(p, n)
    OBVIOUS
  <2>1. CASE k + 1 = n
    BY <2>1
  <2>2. CASE k + 1 # n
    <3>1. k \in n..m /\ k \in 0..N /\ k < N /\ k + 1 \in (n + 1)..m
      BY <2>2
    <3>2. Upto(p, k) = Upto(p, n)
      BY <1>2, <3>1
    <3>3. Upto(p, k + 1) = Upto(p, k) \o p[k + 1] /\ Upto(p, k) \in Seq(S)
      BY <3>1, UptoNext
    <3>4. p[k + 1] = << >>
      BY <3>1 DEF Gap
    <3> QED
      BY <3>2, <3>3, <3>4
  <2> QED
    BY <2>1, <2>2
<1>3. \A k \in Nat : k \in P
  <2> HIDE DEF P
  <2> QED
    BY <1>1, <1>2, Counting
<1> QED
  BY <1>3

\* What is joined first stands first.
Continues(S, s, t) == \E rest \in Seq(S) : t = s \o rest

LEMMA UptoGrows ==
    ASSUME NEW S, NEW N \in Nat, NEW p \in [1..N -> Seq(S)], NEW n \in 0..N
    PROVE  Continues(S, Upto(p, n), Upto(p, N))
<1> DEFINE Grown(k) == \E rest \in Seq(S) : Upto(p, k) = Upto(p, n) \o rest
           P == {k \in Nat : k \in n..N => Grown(k)}
<1>1. Upto(p, n) \in Seq(S)
  BY UptoNext
<1>2. Grown(n)
  <2>1. << >> \in Seq(S) /\ Upto(p, n) = Upto(p, n) \o << >>
    BY <1>1
  <2> QED
    BY <2>1, Zenon
<1>3. ASSUME NEW k \in Nat, k \in n..N, k < N, Grown(k)
      PROVE  Grown(k + 1)
  <2>1. PICK rest \in Seq(S) : Upto(p, k) = Upto(p, n) \o rest
    BY <1>3
  <2>2. Upto(p, k + 1) = Upto(p, k) \o p[k + 1] /\ p[k + 1] \in Seq(S)
    <3>1. p[k + 1] \in Seq(S)
      BY <1>3
    <3>2. Upto(p, k + 1) = Upto(p, k) \o p[k + 1]
      BY <1>3, UptoNext
    <3> QED
      BY <3>1, <3>2
  <2>3. rest \o p[k + 1] \in Seq(S)
    BY <2>2
  <2>4. Upto(p, k + 1) = Upto(p, n) \o (rest \o p[k + 1])
    <3>1. \A u, v, w \in Seq(S) : (u \o v) \o w = u \o (v \o w)
      OBVIOUS
    <3>2. Upto(p, k + 1) = (Upto(p, n) \o rest) \o p[k + 1]
      BY <2>1, <2>2
    <3> QED
      BY <1>1, <2>2, <3>1, <3>2, Zenon
  <2> QED
    BY <2>3, <2>4, Zenon
<1> HIDE DEF Grown
<1>4. 0 \in P
  BY <1>2
<1>5. ASSUME NEW k \in Nat, k \in P
      PROVE  k + 1 \in P
  <2> SUFFICES ASSUME k + 1 \in n..N
               PROVE  Grown(k + 1)
    OBVIOUS
  <2>1. CASE k + 1 = n
    BY <1>2, <2>1
  <2>2. CASE k + 1 # n
    <3>1. k \in n..N /\ k < N
      BY <2>2
    <3> QED
      BY <1>3, <1>5, <3>1
  <2> QED
    BY <2>1, <2>2
<1>6. \A k \in Nat : k \in P
  <2> HIDE DEF P
  <2> QED
    BY <1>4, <1>5, Counting
<1>7. Grown(N)
  BY <1>6
<1> QED
  BY <1>7 DEF Grown, Continues

-----------------------------------------------------------------------------
\* What lines and records say.
CertNames ==
    {"[type]", "Version", "SHA-256", "SHA-1", "Serial", "Signature", "Issuer", "Subject",
     "Not Before", "Not After", "Key Algorithm", "Key Length", "Key Usage", "Ext Key Usage",
     "Constraints", "SKID", "AKID", "SANs", "Emails", "IPs", "OCSP", "CA Issuers", "CRL",
     "Revocation", "Checked", "Method", "Method Status", "Responder", "Revoked At", "Reason",
     "Error"}
ChainNames ==
    {"Target", "status", "Subject", "Issuer", "Validity", "Handshake", "SANs", "IPs",
     "Revocation", "TLS", "Status", "reason", "end of line", "failed", "blank",
     "Negotiated Version", "Negotiated Suite", "Negotiated ALPN", "end of part",
     "TLS Versions"}
OtherNames ==
    {"Ciphers", "heading", "secure suite", "insecure suite", "blank", "Chain", "PEM", "torn",
     "separator", "header", "row", "failed", "envelope", "result"}
Word == CertNames \cup ChainNames \cup OtherNames
Piece == Nat \X Word \X Nat \X Nat

\* What is kept of a sequence is of its members.
LEMMA OnlyType ==
    ASSUME NEW S, NEW seq \in Seq(S), NEW kept
    PROVE  Only(seq, kept) \in Seq(S)
<1>1. [k \in 1..Len(seq) |-> IF seq[k] \in kept THEN <<seq[k]>> ELSE <<>>] \in Seq(Seq(S))
  <2>1. \A k \in 1..Len(seq) : (IF seq[k] \in kept THEN <<seq[k]>> ELSE <<>>) \in Seq(S)
    OBVIOUS
  <2> QED
    BY <2>1
<1> QED
  BY <1>1, FlattenType DEF Only

\* Pieces, and the lines made of them.
LEMMA SayType ==
    ASSUME NEW i \in Nat, NEW what \in Word
    PROVE  Say(i, what) \in Piece
  BY DEF Say, Piece

\* The fields are names.
LEMMA FieldNames ==
    /\ HumanFields \in Seq(Word) /\ TextFields \in Seq(Word) /\ CertFields \in Seq(Word)
<1>1. HumanFields \in Seq(ChainNames)
  BY DEF HumanFields, ChainNames
<1>2. TextFields \in Seq(ChainNames)
  BY DEF TextFields, ChainNames
<1>3. CertFields \in Seq(CertNames)
  BY DEF CertFields, CertNames
<1>4. CertNames \subseteq Word /\ ChainNames \subseteq Word
  BY DEF Word
<1> QED
  BY <1>1, <1>2, <1>3, <1>4

\* One piece for each name that is kept.
LEMMA SaysType ==
    ASSUME NEW i \in Nat, NEW n \in Nat, NEW names \in Seq(Word), NEW kept
    PROVE  Says(i, n, Only(names, kept)) \in Seq(Piece)
<1> DEFINE few == Only(names, kept)
<1>1. few \in Seq(Word)
  BY OnlyType
<1> HIDE DEF few
<1>2. \A k \in 1..Len(few) : <<i, few[k], n, 0>> \in Piece
  BY <1>1 DEF Piece
<1>3. Says(i, n, few) \in Seq(Piece)
  BY <1>1, <1>2 DEF Says
<1> QED
  BY <1>3 DEF few

\* A heading and one line per suite.
LEMMA SuiteLines ==
    ASSUME NEW i \in Nat, NEW v \in Nat, NEW heading \in Word,
           NEW suites \in Seq(Nat), NEW what \in [1..Len(suites) -> Word]
    PROVE  <<<<i, heading, v, 0>>>> \o [k \in 1..Len(suites) |-> <<i, what[k], v, suites[k]>>]
              \in Seq(Piece)
<1>1. <<i, heading, v, 0>> \in Piece
  BY DEF Piece
<1>2. \A k \in 1..Len(suites) : <<i, what[k], v, suites[k]>> \in Piece
  BY DEF Piece
<1>3. [k \in 1..Len(suites) |-> <<i, what[k], v, suites[k]>>] \in Seq(Piece)
  BY <1>2
<1> QED
  BY <1>1, <1>3

\* The words the renderers use themselves.
LEMMA OtherWords == OtherNames \subseteq Word
  BY DEF Word

\* What HumanRenderer writes of a chain.
LEMMA HumanType ==
    ASSUME NEW i \in Nat, NEW chain \in Chains
    PROVE  HumanLines(i, chain) \in Seq(Piece)
<1>1. chain.versions \in Seq(Seq(Nat))
  BY OutputAssumption
<1> DEFINE insecure(v) == InsecureSuites(chain.versions[v])
           what(v) == [k \in 1..Len(chain.versions[v]) |->
                          IF Contains(insecure(v), chain.versions[v][k])
                          THEN "insecure suite" ELSE "secure suite"]
           version(v) ==
               IF chain.versions[v] = <<>> THEN <<>>
               ELSE <<<<i, "Ciphers", v, 0>>>> \o [k \in 1..Len(chain.versions[v]) |->
                       <<i, IF Contains(insecure(v), chain.versions[v][k])
                            THEN "insecure suite" ELSE "secure suite", v, chain.versions[v][k]>>]
<1>2. ASSUME NEW v \in 1..Len(chain.versions)
      PROVE  version(v) \in Seq(Piece)
  <2>1. chain.versions[v] \in Seq(Nat) /\ v \in Nat
    BY <1>1
  <2>2. what(v) \in [1..Len(chain.versions[v]) -> Word] /\ "Ciphers" \in Word
    BY OtherWords DEF OtherNames
  <2>3. <<<<i, "Ciphers", v, 0>>>> \o
          [k \in 1..Len(chain.versions[v]) |-> <<i, what(v)[k], v, chain.versions[v][k]>>]
            \in Seq(Piece)
    <3> HIDE DEF what
    <3> QED
      BY <2>1, <2>2, SuiteLines
  <2>4. [k \in 1..Len(chain.versions[v]) |-> <<i, what(v)[k], v, chain.versions[v][k]>>]
        = [k \in 1..Len(chain.versions[v]) |->
              <<i, IF Contains(insecure(v), chain.versions[v][k])
                   THEN "insecure suite" ELSE "secure suite", v, chain.versions[v][k]>>]
    OBVIOUS
  <2>5. << >> \in Seq(Piece)
    OBVIOUS
  <2> HIDE DEF what
  <2> QED
    BY <2>3, <2>4, <2>5, Zenon
<1> DEFINE all == [v \in 1..Len(chain.versions) |-> version(v)]
           end == IF Len(chain.certs) > 1 THEN <<Say(i, "blank"), Say(i, "Chain")>> ELSE <<>>
<1>3. all \in Seq(Seq(Piece))
  <2> HIDE DEF version
  <2> QED
    BY <1>1, <1>2
<1>4. FlattenSeq(all) \in Seq(Piece)
  <2> HIDE DEF all
  <2> QED
    BY <1>3, FlattenType
<1>5. end \in Seq(Piece)
  <2>1. Say(i, "blank") \in Piece /\ Say(i, "Chain") \in Piece
    BY SayType, OtherWords DEF OtherNames
  <2> QED
    BY <2>1
<1> DEFINE shown(f) ==
               CASE f = "Handshake" -> chain.handshake # "none"
                 [] f \in {"SANs", "IPs", "Revocation"} -> f \in chain.certs[1]
                 [] f = "TLS" -> chain.versions # <<>>
                 [] OTHER -> TRUE
           fields == Says(i, 0, Only(HumanFields, {f \in ToSet(HumanFields) : shown(f)}))
<1>6. fields \in Seq(Piece)
  <2> HIDE DEF shown
  <2> QED
    BY SaysType, FieldNames
<1>7. HumanLines(i, chain) = fields \o FlattenSeq(all) \o end
  BY Zenon DEF HumanLines
<1> HIDE DEF fields, all, end
<1> QED
  BY <1>4, <1>5, <1>6, <1>7

\* What renderCertFields writes of a certificate.
LEMMA CertLinesType ==
    ASSUME NEW i \in Nat, NEW n \in Nat, NEW cert
    PROVE  CertLines(i, n, cert) \in Seq(Piece)
<1>1. Say(i, "blank") \in Piece
  BY SayType, OtherWords DEF OtherNames
<1>2. Says(i, n, Only(CertFields, AlwaysShown \cup cert)) \in Seq(Piece)
  BY SaysType, FieldNames
<1>3. (IF n > 1 THEN <<Say(i, "blank")>> ELSE <<>>) \in Seq(Piece)
  BY <1>1
<1> QED
  BY <1>2, <1>3 DEF CertLines

\* The lines of one kind of suites; none without a suite.
LEMMA PartType ==
    ASSUME NEW i \in Nat, NEW v \in Nat, NEW what \in Word, NEW suites \in Seq(Nat)
    PROVE  (IF suites = <<>> THEN <<>>
            ELSE <<<<i, "heading", v, 0>>>> \o [k \in 1..Len(suites) |-> <<i, what, v, suites[k]>>])
              \in Seq(Piece)
<1> DEFINE names == [k \in 1..Len(suites) |-> what]
<1>1. names \in [1..Len(suites) -> Word] /\ "heading" \in Word
  BY OtherWords DEF OtherNames
<1>2. <<<<i, "heading", v, 0>>>> \o [k \in 1..Len(suites) |-> <<i, names[k], v, suites[k]>>]
        \in Seq(Piece)
  <2> HIDE DEF names
  <2> QED
    BY <1>1, SuiteLines
<1>3. [k \in 1..Len(suites) |-> <<i, names[k], v, suites[k]>>]
      = [k \in 1..Len(suites) |-> <<i, what, v, suites[k]>>]
  OBVIOUS
<1> HIDE DEF names
<1>4. << >> \in Seq(Piece)
  OBVIOUS
<1> QED
  BY <1>2, <1>3, <1>4, Zenon

\* What VerboseTextRenderer writes of a chain.
LEMMA TextType ==
    ASSUME NEW i \in Nat, NEW chain \in Chains
    PROVE  TextLines(i, chain) \in Seq(Piece)
<1>1. chain.versions \in Seq(Seq(Nat)) /\ chain.certs \in Seq(SUBSET STRING)
  BY OutputAssumption
<1> DEFINE part(v, what, suites) ==
               IF suites = <<>> THEN <<>>
               ELSE <<<<i, "heading", v, 0>>>> \o [k \in 1..Len(suites) |-> <<i, what, v, suites[k]>>]
           version(v) == part(v, "secure suite", SecureSuites(chain.versions[v]))
                         \o part(v, "insecure suite", InsecureSuites(chain.versions[v]))
<1>2. ASSUME NEW v \in 1..Len(chain.versions)
      PROVE  version(v) \in Seq(Piece)
  <2>1. chain.versions[v] \in Seq(Nat) /\ v \in Nat
    BY <1>1
  <2>2. /\ SecureSuites(chain.versions[v]) \in Seq(Nat)
        /\ InsecureSuites(chain.versions[v]) \in Seq(Nat)
    BY <2>1, OnlyType DEF SecureSuites, InsecureSuites
  <2>3. "secure suite" \in Word /\ "insecure suite" \in Word
    BY OtherWords DEF OtherNames
  <2>4. part(v, "secure suite", SecureSuites(chain.versions[v])) \in Seq(Piece)
    BY <2>1, <2>2, <2>3, PartType
  <2>5. part(v, "insecure suite", InsecureSuites(chain.versions[v])) \in Seq(Piece)
    BY <2>1, <2>2, <2>3, PartType
  <2>6. \A s, u \in Seq(Piece) : s \o u \in Seq(Piece)
    OBVIOUS
  <2> HIDE DEF part
  <2> QED
    BY <2>4, <2>5, <2>6, Zenon
<1> DEFINE suites == [v \in 1..Len(chain.versions) |-> version(v)]
           certs == [n \in 1..Len(chain.certs) |-> CertLines(i, n, chain.certs[n])]
           blank == IF chain.versions # <<>> THEN <<Say(i, "blank")>> ELSE <<>>
<1>3. suites \in Seq(Seq(Piece))
  <2> HIDE DEF version
  <2> QED
    BY <1>1, <1>2
<1>4. FlattenSeq(suites) \in Seq(Piece)
  <2> HIDE DEF suites
  <2> QED
    BY <1>3, FlattenType
<1>5. certs \in Seq(Seq(Piece))
  <2>1. \A n \in 1..Len(chain.certs) : CertLines(i, n, chain.certs[n]) \in Seq(Piece)
    BY CertLinesType
  <2> QED
    BY <1>1, <2>1
<1>6. FlattenSeq(certs) \in Seq(Piece)
  <2> HIDE DEF certs
  <2> QED
    BY <1>5, FlattenType
<1>7. blank \in Seq(Piece)
  <2>1. Say(i, "blank") \in Piece
    BY SayType, OtherWords DEF OtherNames
  <2> QED
    BY <2>1
<1> DEFINE shown(f) ==
               CASE f = "reason" -> chain.reason
                 [] f = "failed" -> ~chain.verified
                 [] f = "Negotiated ALPN" -> chain.handshake = "alpn"
                 [] f \in {"Negotiated Version", "Negotiated Suite", "end of part"} ->
                        chain.handshake # "none"
                 [] f = "TLS Versions" -> chain.versions # <<>>
                 [] OTHER -> TRUE
           fields == Says(i, 0, Only(TextFields, {f \in ToSet(TextFields) : shown(f)}))
<1>8. fields \in Seq(Piece)
  <2> HIDE DEF shown
  <2> QED
    BY SaysType, FieldNames
<1>9. TextLines(i, chain) = fields \o FlattenSeq(suites) \o blank \o FlattenSeq(certs)
  BY Zenon DEF TextLines
<1> HIDE DEF fields, suites, certs, blank
<1> QED
  BY <1>4, <1>6, <1>7, <1>8, <1>9

\* What RawPEMRenderer writes of a chain.
LEMMA RawType ==
    ASSUME NEW i \in Nat, NEW chain \in Chains
    PROVE  RawLines(i, chain) \in Seq(Piece)
<1>1. chain.certs \in Seq(SUBSET STRING)
  BY OutputAssumption
<1>2. \A n \in 1..Len(chain.certs) : <<i, "PEM", n, 0>> \in Piece
  <2>1. "PEM" \in Word
    BY OtherWords DEF OtherNames
  <2> QED
    BY <2>1 DEF Piece
<1> QED
  BY <1>1, <1>2 DEF RawLines

-----------------------------------------------------------------------------
\* What a report is of.
Reported ==
    /\ output \in Formats /\ quiet \in BOOLEAN
    /\ batch \in Seq(Chains \cup {Failed})

\* What Render writes of an input that was inspected.
LEMMA LinesType ==
    ASSUME Reported, NEW i \in 1..Len(batch), i \notin FailedInputs
    PROVE  Lines(i) \in Seq(Piece)
<1>1. batch[i] \in Chains /\ i \in Nat
  BY DEF Reported, FailedInputs
<1> QED
  BY <1>1, HumanType, TextType, RawType DEF Lines

\* What a reader should find of each input.
LEMMA PartsType ==
    ASSUME Reported
    PROVE  [i \in 1..Len(batch) |-> Part(i)] \in [1..Len(batch) -> Seq(Piece)]
<1> SUFFICES ASSUME NEW i \in 1..Len(batch)
             PROVE  Part(i) \in Seq(Piece)
  OBVIOUS
<1>1. CASE i \in FailedInputs
  BY <1>1 DEF Part
<1>2. CASE i \notin FailedInputs
  <2>1. Lines(i) \in Seq(Piece)
    BY <1>2, LinesType
  <2>2. Separator(i) \in Seq(Piece)
    <3>1. Say(0, "separator") \in Piece
      BY SayType, OtherWords DEF OtherNames
    <3> QED
      BY <3>1 DEF Separator
  <2> QED
    BY <1>2, <2>1, <2>2 DEF Part
<1> QED
  BY <1>1, <1>2

\* Records are a header, then rows.
Row == Nat \X {"row", "failed"} \X Nat \X Nat

\* The records of CSV: a header, and rows after it.
LEMMA RecordsType ==
    ASSUME Reported
    PROVE  /\ Records \in Seq(Piece) /\ Records # << >>
           /\ Records[1][2] = "header"
           /\ \A k \in 1..Len(Records) : k # 1 => Records[k] \in Row
<1> DEFINE of(i) ==
               IF batch[i] = Failed THEN <<Say(i, "failed")>>
               ELSE [n \in 1..(IF output = "csv" THEN 1 ELSE Len(batch[i].certs)) |->
                        <<i, "row", n, 0>>]
           rows == FlattenSeq([i \in 1..Len(batch) |-> of(i)])
<1>1. ASSUME NEW i \in 1..Len(batch)
      PROVE  of(i) \in Seq(Row)
  <2>1. CASE batch[i] = Failed
    <3>1. Say(i, "failed") \in Row
      BY DEF Say, Row
    <3> QED
      BY <2>1, <3>1
  <2>2. CASE batch[i] # Failed
    <3>1. batch[i] \in Chains
      BY <2>2 DEF Reported
    <3>2. Len(batch[i].certs) \in Nat
      BY <3>1, OutputAssumption
    <3>3. PICK n \in Nat : n = IF output = "csv" THEN 1 ELSE Len(batch[i].certs)
      BY <3>2
    <3>4. \A m \in 1..n : <<i, "row", m, 0>> \in Row
      BY DEF Row
    <3>5. [m \in 1..n |-> <<i, "row", m, 0>>] \in Seq(Row)
      BY <3>4
    <3> QED
      BY <2>2, <3>3, <3>5
  <2> QED
    BY <2>1, <2>2
<1>2. rows \in Seq(Row)
  <2>1. [i \in 1..Len(batch) |-> of(i)] \in Seq(Seq(Row))
    <3> HIDE DEF of
    <3> QED
      BY <1>1 DEF Reported
  <2> HIDE DEF of
  <2> QED
    BY <2>1, FlattenType
<1>3. Records = <<Say(0, "header")>> \o rows
  BY Zenon DEF Records
<1> HIDE DEF rows
<1>4. /\ Len(Records) = Len(rows) + 1 /\ Records[1] = Say(0, "header")
      /\ \A k \in 1..Len(Records) : k # 1 => Records[k] = rows[k - 1] /\ k - 1 \in 1..Len(rows)
  BY <1>2, <1>3
<1>5. Row \subseteq Piece
  BY OtherWords DEF Row, Piece, OtherNames
<1>6. Say(0, "header") \in Piece /\ Say(0, "header")[2] = "header"
  BY SayType, OtherWords DEF OtherNames, Say
<1>7. Records \in Seq(Piece)
  BY <1>2, <1>3, <1>5, <1>6
<1>8. Records # << >>
  BY <1>2, <1>4
<1>9. \A k \in 1..Len(Records) : k # 1 => Records[k] \in Row
  BY <1>2, <1>4
<1> QED
  BY <1>4, <1>6, <1>7, <1>8, <1>9

\* The envelope of a structured format.
LEMMA EnvelopeType ==
    ASSUME Reported
    PROVE  Envelope \in Seq(Piece)
<1>1. Say(0, "envelope") \in Piece
  BY SayType, OtherWords DEF OtherNames
<1>2. \A i \in 1..Len(batch) : Say(i, "result") \in Piece
  <2>1. "result" \in Word
    BY OtherWords DEF OtherNames
  <2> QED
    BY <2>1 DEF Say, Piece
<1>3. [i \in 1..Len(batch) |-> Say(i, "result")] \in Seq(Piece)
  BY <1>2 DEF Reported
<1> QED
  BY <1>1, <1>3 DEF Envelope

\* The whole report.
LEMMA WholeType ==
    ASSUME Reported
    PROVE  Whole \in Seq(Piece)
<1>1. FlattenSeq([i \in 1..Len(batch) |-> Part(i)]) \in Seq(Piece)
  <2>1. [i \in 1..Len(batch) |-> Part(i)] \in Seq(Seq(Piece))
    BY PartsType DEF Reported
  <2> QED
    BY <2>1, FlattenType
<1>2. << >> \in Seq(Piece)
  OBVIOUS
<1> QED
  BY <1>1, <1>2, RecordsType, EnvelopeType, Zenon DEF Whole
-----------------------------------------------------------------------------
(***************************************************************************)
(* The writing: the inductive invariant.                                   *)
(***************************************************************************)
\* The part of each input on standard output, and on standard error.
Parts == [i \in 1..Len(batch) |-> Part(i)]
Names == [i \in 1..Len(batch) |-> IF i \in FailedInputs THEN <<i>> ELSE <<>>]

\* A beginning of w, perhaps with a piece that was cut.
IsCut(s, w) ==
    \E n \in 0..Len(w) : s = SubSeq(w, 1, n) \/ s = SubSeq(w, 1, n) \o <<Torn>>

OutputType ==
    /\ Reported
    /\ at \in 0..Len(batch) /\ err \in BOOLEAN
    /\ todo \in Seq(Piece) /\ buffer \in Seq(Piece) /\ stdout \in Seq(Piece)
    /\ stage \in {"start", "chains", "lines", "records", "encode", "diagnose", "returned"}

Rendering == ~quiet /\ output \in Streamed /\ stderr = << >>

Writing ==
    /\ stage = "start" => /\ at = 0 /\ todo = << >> /\ buffer = << >>
                          /\ stdout = << >> /\ stderr = << >>
    /\ stage = "chains" => /\ Rendering /\ at \notin FailedInputs
                           /\ stdout = Upto(Parts, at)
    /\ stage = "lines" =>
          /\ Rendering /\ at \in 1..Len(batch) /\ at \notin FailedInputs
          /\ IF err THEN IsCut(stdout, Whole) ELSE stdout \o todo = Upto(Parts, at)
    /\ stage = "records" => /\ ~quiet /\ output \in {"csv", "csv-full"} /\ stderr = << >>
                            /\ stdout \o (buffer \o todo) = Records
    /\ stage = "encode" => /\ ~quiet /\ output \in {"json", "yaml"} /\ stderr = << >>
                           /\ todo = Envelope /\ stdout = << >>

\* What has been named so far, and what a report ends with.
NamedUpto(n) == IF quiet \/ output \in Streamed THEN Upto(Names, n) ELSE << >>

Ending ==
    /\ stage = "diagnose" => stdout = Whole /\ stderr = NamedUpto(at)
    /\ stage = "returned" =>
          IF returned = "nil" THEN stdout = Whole /\ stderr = NamedUpto(Len(batch))
          ELSE output # "yaml" => IsCut(stdout, Whole)
    /\ stage # "returned" => returned = ""

OutputInv == OutputType /\ Writing /\ Ending

-----------------------------------------------------------------------------
\* The least of a set of numbers.
LEMMA LeastExists ==
    ASSUME NEW T \in SUBSET Nat, T # {}
    PROVE  \E i \in T : \A j \in T : i <= j
<1>1. IsWellFoundedOn(Less, Nat)
  <2>1. OpToRel(<, Nat) = Less
    BY Zenon DEF OpToRel, Less
  <2> QED
    BY <2>1, NatLessThanWellFounded
<1>2. PICK n \in T : \A k \in T : ~(<<k, n>> \in Less)
  BY <1>1, WFMin
<1>3. ASSUME NEW k \in T
      PROVE  n <= k
  <2>1. <<k, n>> \in Nat \X Nat
    OBVIOUS
  <2>2. ~(<<k, n>>[1] < <<k, n>>[2])
    BY <1>2, <2>1, Zenon DEF Less
  <2> QED
    BY <2>2
<1> QED
  BY <1>3

\* NextOf finds the next one.
LEMMA NextIs ==
    ASSUME at \in Nat, NEW inputs \in SUBSET (Nat \ {0})
    PROVE  \/ NextOf(inputs) = 0 /\ \A k \in inputs : k <= at
           \/ /\ NextOf(inputs) \in inputs /\ NextOf(inputs) > at
              /\ \A k \in inputs : k <= at \/ k >= NextOf(inputs)
<1> DEFINE left == {i \in inputs : i > at}
<1>1. CASE left = {}
  <2>1. NextOf(inputs) = 0
    BY <1>1 DEF NextOf
  <2>2. \A k \in inputs : k \in Nat /\ ~(k > at)
    BY <1>1
  <2> QED
    BY <2>1, <2>2
<1>2. CASE left # {}
  <2> DEFINE next == CHOOSE i \in left : \A j \in left : i <= j
  <2>1. \E i \in left : \A j \in left : i <= j
    BY <1>2, LeastExists
  <2>2. next \in left /\ \A j \in left : next <= j
    BY <2>1, Zenon
  <2>3. NextOf(inputs) = next
    BY <1>2, Zenon DEF NextOf
  <2> HIDE DEF next
  <2> QED
    BY <2>2, <2>3
<1> QED
  BY <1>1, <1>2

\* A refused call leaves a beginning.
LEMMA CutIs ==
    ASSUME NEW s \in Seq(Piece), NEW p \in Seq(Piece), NEW rest \in Seq(Piece), NEW u,
           NEW n \in 0..(Len(p) - 1), u = s \o SubSeq(p, 1, n) \/ u = s \o SubSeq(p, 1, n) \o <<Torn>>
    PROVE  IsCut(u, s \o (p \o rest))
<1> DEFINE w == s \o (p \o rest)
<1>1. PICK m \in Nat : m = Len(s) + n
  OBVIOUS
<1>2. w \in Seq(Piece) /\ Len(w) = Len(s) + Len(p) + Len(rest)
  OBVIOUS
<1>3. m \in 0..Len(w)
  BY <1>1, <1>2
<1>4. SubSeq(w, 1, m) = s \o SubSeq(p, 1, n)
  <2>1. \A i \in 1..m : w[i] = IF i <= Len(s) THEN s[i] ELSE p[i - Len(s)]
    BY <1>1
  <2>2. /\ SubSeq(w, 1, m) \in Seq(Piece) /\ Len(SubSeq(w, 1, m)) = m
        /\ \A i \in 1..m : SubSeq(w, 1, m)[i] = w[i]
    <3> HIDE DEF w
    <3> QED
      BY <1>2, <1>3
  <2>3. /\ SubSeq(p, 1, n) \in Seq(Piece) /\ Len(SubSeq(p, 1, n)) = n
        /\ \A i \in 1..n : SubSeq(p, 1, n)[i] = p[i]
    OBVIOUS
  <2>4. /\ s \o SubSeq(p, 1, n) \in Seq(Piece) /\ Len(s \o SubSeq(p, 1, n)) = m
        /\ \A i \in 1..m : (s \o SubSeq(p, 1, n))[i] = IF i <= Len(s) THEN s[i] ELSE p[i - Len(s)]
    <3>1. \A i \in 1..m : i > Len(s) => i - Len(s) \in 1..n
      BY <1>1
    <3> QED
      BY <1>1, <2>3, <3>1
  <2> HIDE DEF w
  <2> QED
    BY <2>1, <2>2, <2>4
<1> HIDE DEF w
<1>5. IsCut(u, w)
  BY <1>3, <1>4, Zenon DEF IsCut
<1> QED
  BY <1>5 DEF w

\* The beginning of a beginning is one of the whole.
LEMMA CutOfMore ==
    ASSUME NEW s, NEW a \in Seq(Piece), NEW b \in Seq(Piece), IsCut(s, a)
    PROVE  IsCut(s, a \o b)
<1>1. PICK n \in 0..Len(a) : s = SubSeq(a, 1, n) \/ s = SubSeq(a, 1, n) \o <<Torn>>
  BY DEF IsCut
<1>2. n \in 0..Len(a \o b) /\ SubSeq(a \o b, 1, n) = SubSeq(a, 1, n)
  <2>1. \A i \in 1..n : (a \o b)[i] = a[i]
    OBVIOUS
  <2>2. n \in 0..Len(a \o b)
    OBVIOUS
  <2> QED
    BY <2>1, <2>2
<1> QED
  BY <1>1, <1>2, Zenon DEF IsCut

\* The whole is one of its beginnings.
LEMMA WholeIsCut ==
    ASSUME NEW w \in Seq(Piece)
    PROVE  IsCut(w, w)
<1>1. Len(w) \in 0..Len(w) /\ w = SubSeq(w, 1, Len(w))
  OBVIOUS
<1> QED
  BY <1>1, Zenon DEF IsCut

\* The report a reader should find does not change.
LEMMA ReportStays ==
    ASSUME UNCHANGED <<output, quiet, batch>>
    PROVE  /\ Reported' = Reported /\ FailedInputs' = FailedInputs
           /\ Parts' = Parts /\ Names' = Names
           /\ Records' = Records /\ Envelope' = Envelope /\ Whole' = Whole
<1>1. FailedInputs' = FailedInputs /\ Reported' = Reported
  BY DEF FailedInputs, Reported
<1>2. \A i : Lines(i)' = Lines(i)
  BY DEF Lines
<1>3. \A i : Separator(i)' = Separator(i)
  BY <1>1 DEF Separator
<1>4. \A i : Part(i)' = Part(i)
  BY <1>1, <1>2, <1>3 DEF Part
<1>5. Parts' = Parts
  BY <1>4 DEF Parts
<1>6. Names' = Names
  BY <1>1 DEF Names
<1>7. Records' = Records
  BY Zenon DEF Records
<1>8. Envelope' = Envelope
  BY DEF Envelope
<1>9. [i \in 1..Len(batch) |-> Part(i)]' = [i \in 1..Len(batch) |-> Part(i)]
  BY <1>4
<1>10. Whole' = Whole
  BY <1>7, <1>8, <1>9, Zenon DEF Whole
<1> QED
  BY <1>1, <1>5, <1>6, <1>7, <1>8, <1>10

\* What is joined is the report, and the failed inputs.
LEMMA Joining ==
    ASSUME Reported
    PROVE  /\ Len(batch) \in Nat /\ FailedInputs \subseteq 1..Len(batch)
           /\ DOMAIN batch = 1..Len(batch)
           /\ Parts \in [1..Len(batch) -> Seq(Piece)]
           /\ Names \in [1..Len(batch) -> Seq(Nat)]
           /\ ~quiet /\ output \in Streamed => Whole = Upto(Parts, Len(batch))
           /\ Only([i \in 1..Len(batch) |-> i], FailedInputs) = Upto(Names, Len(batch))
<1>1. Len(batch) \in Nat /\ DOMAIN batch = 1..Len(batch)
  BY DEF Reported
<1>2. FailedInputs \subseteq 1..Len(batch)
  BY <1>1 DEF FailedInputs
<1>3. Parts \in [1..Len(batch) -> Seq(Piece)]
  BY PartsType DEF Parts
<1>4. Names \in [1..Len(batch) -> Seq(Nat)]
  BY <1>1 DEF Names
<1>5. [i \in 1..Len(batch) |-> Parts[i]] = [i \in 1..Len(batch) |-> Part(i)]
  BY DEF Parts
<1>6. ~quiet /\ output \in Streamed => Whole = Upto(Parts, Len(batch))
  <2>1. ~quiet /\ output \in Streamed => Whole = FlattenSeq([i \in 1..Len(batch) |-> Part(i)])
    <3>1. output \in Streamed => output \notin {"csv", "csv-full"}
      BY DEF Streamed
    <3> QED
      BY <3>1, Zenon DEF Whole
  <2> QED
    BY <1>5, <2>1 DEF Upto
<1>7. Only([i \in 1..Len(batch) |-> i], FailedInputs) = Upto(Names, Len(batch))
  <2> DEFINE all == [i \in 1..Len(batch) |-> i]
  <2>1. Len(all) = Len(batch) /\ \A i \in 1..Len(batch) : all[i] = i
    BY <1>1
  <2> HIDE DEF all
  <2>2. [k \in 1..Len(all) |-> IF all[k] \in FailedInputs THEN <<all[k]>> ELSE <<>>]
        = [i \in 1..Len(batch) |-> Names[i]]
    BY <2>1 DEF Names
  <2>3. Only(all, FailedInputs) = Upto(Names, Len(batch))
    BY <2>2, Zenon DEF Only, Upto
  <2> QED
    BY <2>3 DEF all
<1> QED
  BY <1>1, <1>2, <1>3, <1>4, <1>6, <1>7

\* The inputs between one chain and the next have no part.
LEMMA NextPart ==
    ASSUME Reported, at \in 0..Len(batch), at \notin FailedInputs, Rendering
    PROVE  /\ NextChain \in 0..Len(batch)
           /\ NextChain = 0 => Upto(Parts, at) = Whole
           /\ NextChain # 0 =>
                 /\ NextChain \notin FailedInputs /\ NextChain \in 1..Len(batch)
                 /\ (at = 0 <=> (1..(NextChain - 1)) \ FailedInputs = {})
                 /\ Upto(Parts, NextChain)
                    = Upto(Parts, at) \o (Separator(NextChain) \o Lines(NextChain))
<1> DEFINE chains == DOMAIN batch \ FailedInputs
<1>0. Len(batch) \in Nat /\ Parts \in [1..Len(batch) -> Seq(Piece)]
  BY Joining
<1>1. chains \in SUBSET (Nat \ {0}) /\ chains = (1..Len(batch)) \ FailedInputs /\ Len(batch) \in Nat
  BY Joining
<1>2. PICK next : next = NextChain
  OBVIOUS
<1>3. \/ next = 0 /\ \A k \in chains : k <= at
      \/ next \in chains /\ next > at /\ \A k \in chains : k <= at \/ k >= next
  <2> HIDE DEF chains
  <2>1. at \in Nat
    BY <1>1
  <2> QED
    BY <1>1, <1>2, <2>1, NextIs DEF NextChain, chains
<1>4. \A k \in 1..Len(batch) : k \notin chains => Parts[k] = << >>
  BY <1>1 DEF Parts, Part
<1>5. CASE next = 0
  <2>1. Gap(Parts, at, Len(batch))
    BY <1>1, <1>3, <1>4, <1>5 DEF Gap
  <2>2. Len(batch) \in at..Len(batch)
    BY <1>1
  <2>3. Upto(Parts, Len(batch)) = Upto(Parts, at)
    BY <1>0, <2>1, <2>2, UptoSkips
  <2> QED
    BY <1>1, <1>2, <1>5, <2>3, Joining DEF Rendering
<1>6. CASE next # 0
  <2>1. next \in 1..Len(batch) /\ next \notin FailedInputs /\ at < next
    BY <1>1, <1>3, <1>6
  <2>2. PICK last \in Nat : last = next - 1
    BY <2>1
  <2>3. last \in at..Len(batch) /\ last < Len(batch) /\ last + 1 = next
    BY <1>1, <2>1, <2>2
  <2>4. Gap(Parts, at, last)
    BY <1>1, <1>3, <1>4, <2>1, <2>2 DEF Gap
  <2>5. Upto(Parts, last) = Upto(Parts, at)
    <3>1. last \in at..Len(batch) /\ at \in 0..Len(batch)
      BY <2>3
    <3> QED
      BY <1>0, <2>4, <3>1, UptoSkips
  <2>6. Upto(Parts, next) = Upto(Parts, last) \o Parts[next]
    BY <1>0, <2>3, UptoNext
  <2>7. Parts[next] = Separator(next) \o Lines(next)
    BY <2>1 DEF Parts, Part
  <2>8. at = 0 <=> (1..(next - 1)) \ FailedInputs = {}
    <3>1. at # 0 => at \in (1..(next - 1)) \ FailedInputs
      BY <1>1, <2>1
    <3>2. at = 0 => \A k \in 1..(next - 1) : k \in FailedInputs
      BY <1>1, <1>3, <2>1
    <3> QED
      BY <3>1, <3>2
  <2> QED
    BY <1>2, <1>6, <2>1, <2>5, <2>6, <2>7, <2>8
<1> QED
  BY <1>5, <1>6

\* The same for the names.
LEMMA NextName ==
    ASSUME Reported, at \in 0..Len(batch)
    PROVE  LET next == NextOf(FailedInputs)
           IN  /\ next \in 0..Len(batch)
               /\ next = 0 => Upto(Names, at) = Upto(Names, Len(batch))
               /\ next # 0 => Upto(Names, next) = Append(Upto(Names, at), next)
<1>0. Len(batch) \in Nat /\ Names \in [1..Len(batch) -> Seq(Nat)]
  BY Joining
<1>1. Len(batch) \in Nat /\ FailedInputs \subseteq 1..Len(batch)
  BY Joining
<1>2. PICK next : next = NextOf(FailedInputs)
  OBVIOUS
<1>3. \/ next = 0 /\ \A k \in FailedInputs : k <= at
      \/ next \in FailedInputs /\ next > at /\ \A k \in FailedInputs : k <= at \/ k >= next
  <2>1. at \in Nat /\ FailedInputs \in SUBSET (Nat \ {0})
    BY <1>1
  <2> QED
    BY <1>2, <2>1, NextIs
<1>4. \A k \in 1..Len(batch) : Names[k] = IF k \in FailedInputs THEN <<k>> ELSE << >>
  BY DEF Names
<1>5. CASE next = 0
  <2>1. Gap(Names, at, Len(batch))
    <3>1. \A k \in (at + 1)..Len(batch) : k \in 1..Len(batch) /\ k \notin FailedInputs
      BY <1>1, <1>3, <1>5
    <3> QED
      BY <1>4, <3>1 DEF Gap
  <2>2. Len(batch) \in at..Len(batch)
    BY <1>1
  <2>3. Upto(Names, Len(batch)) = Upto(Names, at)
    BY <1>0, <2>1, <2>2, UptoSkips
  <2> QED
    BY <1>1, <1>2, <1>5, <2>3
<1>6. CASE next # 0
  <2>1. next \in 1..Len(batch) /\ next \in FailedInputs /\ at < next
    BY <1>1, <1>3, <1>6
  <2>2. PICK last \in Nat : last = next - 1
    BY <2>1
  <2>3. last \in at..Len(batch) /\ last < Len(batch) /\ last + 1 = next
    BY <1>1, <2>1, <2>2
  <2>4. Gap(Names, at, last)
    <3>1. \A k \in (at + 1)..last : k \in 1..Len(batch) /\ k \notin FailedInputs
      BY <1>1, <1>3, <2>1, <2>2
    <3> QED
      BY <1>4, <3>1 DEF Gap
  <2>5. Upto(Names, last) = Upto(Names, at)
    <3>1. last \in at..Len(batch) /\ at \in 0..Len(batch)
      BY <2>3
    <3> QED
      BY <1>0, <2>4, <3>1, UptoSkips
  <2>6. Upto(Names, next) = Upto(Names, last) \o Names[next]
    BY <1>0, <2>3, UptoNext
  <2>7. Names[next] = <<next>>
    BY <1>4, <2>1
  <2>8. Upto(Names, at) \in Seq(Nat)
    BY <1>1, Joining, UptoNext
  <2> QED
    BY <1>2, <1>6, <2>1, <2>5, <2>6, <2>7, <2>8
<1> QED
  BY <1>5, <1>6

\* Joining two sequences, and three.
LEMMA Concatenation ==
    ASSUME NEW S, NEW u \in Seq(S), NEW v \in Seq(S)
    PROVE  u \o v \in Seq(S) /\ u \o << >> = u /\ << >> \o u = u
  OBVIOUS

\* The order in which three are joined does not matter.
LEMMA Associativity ==
    ASSUME NEW S, NEW u \in Seq(S), NEW v \in Seq(S), NEW w \in Seq(S)
    PROVE  (u \o v) \o w = u \o (v \o w)
  OBVIOUS

\* The first and the others.
LEMMA HeadTail ==
    ASSUME NEW S, NEW s \in Seq(S), s # << >>
    PROVE  /\ <<Head(s)>> \in Seq(S) /\ Tail(s) \in Seq(S) /\ s = <<Head(s)>> \o Tail(s)
           /\ \A u \in Seq(S) : Append(u, Head(s)) = u \o <<Head(s)>>
<1>1. Head(s) \in S /\ Tail(s) \in Seq(S)
  OBVIOUS
<1>2. s = <<Head(s)>> \o Tail(s)
  OBVIOUS
<1>3. \A u \in Seq(S) : Append(u, Head(s)) = u \o <<Head(s)>>
  BY <1>1
<1> QED
  BY <1>1, <1>2, <1>3

\* A beginning of the parts so far is one of the report.
LEMMA CutOfReport ==
    ASSUME Reported, Rendering, NEW n \in 0..Len(batch), NEW s, IsCut(s, Upto(Parts, n))
    PROVE  IsCut(s, Whole)
<1>1. Len(batch) \in Nat /\ Parts \in [1..Len(batch) -> Seq(Piece)]
  BY Joining
<1>2. Whole = Upto(Parts, Len(batch))
  BY Joining DEF Rendering
<1>3. PICK rest \in Seq(Piece) : Upto(Parts, Len(batch)) = Upto(Parts, n) \o rest
  <2>1. PICK N \in Nat : N = Len(batch)
    BY <1>1
  <2>2. n \in 0..N /\ Parts \in [1..N -> Seq(Piece)]
    BY <1>1, <2>1
  <2>3. \E rest \in Seq(Piece) : Upto(Parts, N) = Upto(Parts, n) \o rest
    <3>1. Continues(Piece, Upto(Parts, n), Upto(Parts, N))
      BY <2>2, UptoGrows
    <3> QED
      BY <3>1 DEF Continues
  <2> QED
    BY <2>1, <2>3
<1>4. Upto(Parts, n) \in Seq(Piece)
  BY <1>1, UptoNext
<1>5. IsCut(s, Upto(Parts, n) \o rest)
  BY <1>3, <1>4, CutOfMore
<1> QED
  BY <1>2, <1>3, <1>5

\* Nothing stands before the first input.
LEMMA NothingYet ==
    ASSUME Reported
    PROVE  /\ Upto(Parts, 0) = << >> /\ Upto(Names, 0) = << >> /\ 0 \notin FailedInputs
           /\ 0 \in 0..Len(batch)
<1>1. /\ Len(batch) \in Nat /\ FailedInputs \subseteq 1..Len(batch)
      /\ Parts \in [1..Len(batch) -> Seq(Piece)] /\ Names \in [1..Len(batch) -> Seq(Nat)]
  BY Joining
<1>2. Upto(Parts, 0) = << >>
  BY <1>1, UptoNext
<1>3. Upto(Names, 0) = << >>
  BY <1>1, UptoNext
<1>4. 0 \notin FailedInputs /\ 0 \in 0..Len(batch)
  BY <1>1
<1> QED
  BY <1>2, <1>3, <1>4

\* What a refused call leaves.
LEMMA RefusedIs ==
    ASSUME stdout \in Seq(Piece), NEW p \in Seq(Piece), NEW rest \in Seq(Piece), Refused(p)
    PROVE  stdout' \in Seq(Piece) /\ IsCut(stdout', stdout \o (p \o rest))
<1>1. PICK n \in 0..(Len(p) - 1), torn \in {<<>>, <<Torn>>} :
         stdout' = stdout \o SubSeq(p, 1, n) \o torn
  BY DEF Refused
<1>2. SubSeq(p, 1, n) \in Seq(Piece)
  OBVIOUS
<1>3. Torn \in Piece
  BY SayType, OtherWords DEF OtherNames, Torn
<1>4. stdout' = stdout \o SubSeq(p, 1, n) \/ stdout' = stdout \o SubSeq(p, 1, n) \o <<Torn>>
  <2>1. CASE torn = << >>
    <3>1. stdout \o SubSeq(p, 1, n) \in Seq(Piece)
      BY <1>2
    <3> QED
      BY <1>1, <2>1, <3>1
  <2>2. CASE torn = <<Torn>>
    BY <1>1, <2>2, Zenon
  <2> QED
    BY <2>1, <2>2
<1>5. stdout' \in Seq(Piece)
  <2>1. stdout \o SubSeq(p, 1, n) \in Seq(Piece)
    BY <1>2, Concatenation
  <2>2. <<Torn>> \in Seq(Piece)
    BY <1>3
  <2>3. (stdout \o SubSeq(p, 1, n)) \o <<Torn>> \in Seq(Piece)
    BY <2>1, <2>2, Concatenation
  <2> QED
    BY <1>4, <2>1, <2>3, Zenon
<1>6. IsCut(stdout', stdout \o (p \o rest))
  BY <1>4, CutIs
<1> QED
  BY <1>5, <1>6

\* Nothing is rendered, or the renderer begins.
LEMMA Starting == OutputInv /\ Start => OutputInv'
<1> SUFFICES ASSUME OutputInv, Start
             PROVE  OutputInv'
  OBVIOUS
<1>1. /\ stage = "start" /\ UNCHANGED <<output, quiet, batch, err, buffer, stdout, stderr>>
      /\ at = 0 /\ todo = << >> /\ buffer = << >> /\ stdout = << >> /\ stderr = << >>
      /\ returned = ""
  BY DEF Start, OutputInv, Writing, Ending
<1>2. /\ Reported /\ Reported' /\ Parts' = Parts /\ Names' = Names /\ FailedInputs' = FailedInputs
      /\ Records' = Records /\ Envelope' = Envelope /\ Whole' = Whole
  BY <1>1, ReportStays DEF OutputInv, OutputType
<1>3. Upto(Parts, 0) = << >> /\ Upto(Names, 0) = << >> /\ 0 \notin FailedInputs
  BY <1>2, NothingYet
<1>4. CASE quiet
  <2>1. stage' = "diagnose" /\ at' = 0 /\ UNCHANGED <<todo, returned>>
    BY <1>1, <1>4 DEF Start, Diagnose
  <2>2. Whole = << >>
    BY <1>4, Zenon DEF Whole
  <2>3. OutputType'
    BY <1>1, <1>2, <2>1 DEF OutputInv, OutputType
  <2>4. Writing'
    BY <2>1, Zenon DEF Writing
  <2>5. Ending'
    BY <1>1, <1>2, <1>3, <2>1, <2>2 DEF Ending, NamedUpto
  <2> QED
    BY <2>3, <2>4, <2>5 DEF OutputInv
<1>5. CASE ~quiet /\ output \in Streamed
  <2>1. stage' = "chains" /\ UNCHANGED <<at, todo, returned>>
    BY <1>1, <1>5 DEF Start
  <2>2. OutputType'
    BY <1>1, <1>2, <2>1 DEF OutputInv, OutputType
  <2>3. Writing'
    BY <1>1, <1>2, <1>3, <1>5, <2>1 DEF Writing, Rendering
  <2>4. Ending'
    BY <1>1, <2>1 DEF Ending
  <2> QED
    BY <2>2, <2>3, <2>4 DEF OutputInv
<1>6. CASE ~quiet /\ output \in {"csv", "csv-full"}
  <2>1. stage' = "records" /\ todo' = Records /\ UNCHANGED <<at, returned>>
    BY <1>1, <1>6 DEF Start, Streamed
  <2>2. Records \in Seq(Piece)
    BY <1>2, RecordsType
  <2>3. OutputType'
    BY <1>1, <1>2, <2>1, <2>2 DEF OutputInv, OutputType
  <2>4. stdout' \o (buffer' \o todo') = Records
    BY <1>1, <2>1, <2>2, Concatenation
  <2>6. Writing'
    BY <1>1, <1>2, <1>6, <2>1, <2>4 DEF Writing
  <2>5. Ending'
    BY <1>1, <2>1 DEF Ending
  <2> QED
    BY <2>3, <2>5, <2>6 DEF OutputInv
<1>7. CASE ~quiet /\ output \in {"json", "yaml"}
  <2>1. stage' = "encode" /\ todo' = Envelope /\ UNCHANGED <<at, returned>>
    BY <1>1, <1>7 DEF Start, Streamed
  <2>2. Envelope \in Seq(Piece)
    BY <1>2, EnvelopeType
  <2>3. OutputType'
    BY <1>1, <1>2, <2>1, <2>2 DEF OutputInv, OutputType
  <2>4. Writing'
    BY <1>1, <1>2, <1>7, <2>1, <2>2 DEF Writing
  <2>5. Ending'
    BY <1>1, <2>1 DEF Ending
  <2> QED
    BY <2>3, <2>4, <2>5 DEF OutputInv
<1> QED
  BY <1>2, <1>4, <1>5, <1>6, <1>7 DEF Reported, Formats

\* A chain begins where the one before has ended.
LEMMA BeginningChain == OutputInv /\ BeginChain => OutputInv'
<1> SUFFICES ASSUME OutputInv, BeginChain
             PROVE  OutputInv'
  OBVIOUS
<1>1. /\ stage = "chains" /\ NextChain # 0 /\ UNCHANGED <<output, quiet, batch, buffer, stderr>>
      /\ Rendering /\ at \notin FailedInputs /\ stdout = Upto(Parts, at) /\ returned = ""
      /\ at \in 0..Len(batch) /\ stdout \in Seq(Piece)
  BY DEF BeginChain, OutputInv, OutputType, Writing, Ending
<1>2. /\ Reported /\ Reported' /\ Parts' = Parts /\ FailedInputs' = FailedInputs /\ Whole' = Whole
  BY <1>1, ReportStays DEF OutputInv, OutputType
<1>3. PICK next : next = NextChain
  OBVIOUS
<1>4. /\ next \notin FailedInputs /\ next \in 1..Len(batch)
      /\ (at = 0 <=> (1..(next - 1)) \ FailedInputs = {})
      /\ Upto(Parts, next) = stdout \o (Separator(next) \o Lines(next))
  BY <1>1, <1>2, <1>3, NextPart
<1>5. Lines(next) \in Seq(Piece)
  BY <1>2, <1>4, LinesType
<1> DEFINE between == <<Say(0, "separator")>>
<1>6. between \in Seq(Piece)
  <2>1. Say(0, "separator") \in Piece
    BY SayType, OtherWords DEF OtherNames
  <2> QED
    BY <2>1
<1>7. Separator(next) = IF at # 0 /\ output # "raw" THEN between ELSE << >>
  BY <1>4, Zenon DEF Separator
<1> HIDE DEF between
<1>8. CASE stage' = "lines"
  <2>1. /\ at' = next /\ todo' = Lines(next) /\ err' = FALSE /\ UNCHANGED returned
        /\ IF at # 0 /\ output # "raw" THEN Accepted(between) ELSE UNCHANGED stdout
    BY <1>3, <1>8 DEF BeginChain, Return, between
  <2>2. stdout' = stdout \o Separator(next) /\ Separator(next) \in Seq(Piece)
    <3>1. CASE at # 0 /\ output # "raw"
      BY <1>6, <1>7, <2>1, <3>1, Zenon DEF Accepted
    <3>2. CASE ~(at # 0 /\ output # "raw")
      <4>1. stdout' = stdout /\ Separator(next) = << >>
        BY <1>7, <2>1, <3>2
      <4>2. stdout \o << >> = stdout /\ << >> \in Seq(Piece)
        <5>1. stdout \in Seq(Piece)
          BY <1>1
        <5> QED
          BY <5>1
      <4> QED
        BY <4>1, <4>2
    <3> QED
      BY <3>1, <3>2
  <2>3. stdout' \in Seq(Piece) /\ stdout' \o todo' = Upto(Parts, next)
    <3>1. (stdout \o Separator(next)) \o Lines(next) = Upto(Parts, next)
      <4>1. stdout \in Seq(Piece) /\ Separator(next) \in Seq(Piece)
        BY <1>1, <2>2
      <4>2. (stdout \o Separator(next)) \o Lines(next) = stdout \o (Separator(next) \o Lines(next))
        BY <1>5, <4>1, Associativity
      <4> QED
        BY <1>4, <4>2
    <3>2. stdout \o Separator(next) \in Seq(Piece)
      BY <1>1, <2>2, Concatenation
    <3> QED
      BY <2>1, <2>2, <3>1, <3>2
  <2>4. OutputType'
    <3>1. at' \in 0..Len(batch')
      <4>1. Len(batch') = Len(batch) /\ Len(batch) \in Nat
        BY <1>1, <1>2, Joining
      <4>2. next \in 0..Len(batch)
        BY <1>4
      <4> QED
        BY <2>1, <4>1, <4>2
    <3>2. todo' \in Seq(Piece) /\ buffer' \in Seq(Piece)
      BY <1>1, <1>5, <2>1 DEF OutputInv, OutputType
    <3> QED
      BY <1>2, <1>8, <2>1, <2>3, <3>1, <3>2 DEF OutputType
  <2>5. Writing'
    BY <1>1, <1>2, <1>4, <1>8, <2>1, <2>3 DEF Writing, Rendering
  <2>6. Ending'
    BY <1>1, <1>8, <2>1 DEF Ending
  <2> QED
    BY <2>4, <2>5, <2>6 DEF OutputInv
<1>9. CASE stage' # "lines"
  <2>1. /\ at # 0 /\ output # "raw" /\ Refused(between)
        /\ stage' = "returned" /\ returned' = "error" /\ UNCHANGED <<at, todo, err>>
    BY <1>9 DEF BeginChain, Return, between
  <2>2. stdout' \in Seq(Piece) /\ IsCut(stdout', stdout \o (between \o Lines(next)))
    BY <1>1, <1>5, <1>6, <2>1, RefusedIs
  <2>3. IsCut(stdout', Upto(Parts, next))
    BY <1>4, <1>7, <2>1, <2>2
  <2>4. IsCut(stdout', Whole)
    <3>1. next \in 0..Len(batch)
      BY <1>4
    <3> QED
      BY <1>1, <1>2, <2>3, <3>1, CutOfReport
  <2>5. OutputType'
    BY <1>1, <1>2, <2>1, <2>2 DEF OutputInv, OutputType
  <2>6. Writing'
    BY <2>1, Zenon DEF Writing
  <2>7. Ending'
    BY <1>2, <2>1, <2>4 DEF Ending
  <2> QED
    BY <2>5, <2>6, <2>7 DEF OutputInv
<1> QED
  BY <1>8, <1>9

\* After the last chain the failed inputs are named.
LEMMA EndingChains == OutputInv /\ EndChains => OutputInv'
<1> SUFFICES ASSUME OutputInv, EndChains
             PROVE  OutputInv'
  OBVIOUS
<1>1. /\ stage = "chains" /\ NextChain = 0 /\ stage' = "diagnose" /\ at' = 0
      /\ UNCHANGED <<output, quiet, batch, todo, err, buffer, stdout, stderr, returned>>
      /\ Rendering /\ at \notin FailedInputs /\ stdout = Upto(Parts, at) /\ returned = ""
      /\ at \in 0..Len(batch)
  BY DEF EndChains, Diagnose, OutputInv, OutputType, Writing, Ending
<1>2. /\ Reported /\ Reported' /\ Names' = Names /\ Whole' = Whole
  BY <1>1, ReportStays DEF OutputInv, OutputType
<1>3. stdout = Whole
  BY <1>1, <1>2, NextPart
<1>4. Upto(Names, 0) = << >>
  BY <1>2, Joining, UptoNext
<1>5. OutputType'
  <2>1. at' \in 0..Len(batch')
    <3>1. Len(batch') = Len(batch) /\ at' = 0
      BY <1>1
    <3> QED
      BY <1>2, <3>1, NothingYet
  <2> QED
    BY <1>1, <1>2, <2>1 DEF OutputInv, OutputType
<1>6. Writing'
  BY <1>1, Zenon DEF Writing
<1>7. Ending'
  BY <1>1, <1>2, <1>3, <1>4 DEF Ending, NamedUpto, Rendering
<1> QED
  BY <1>5, <1>6, <1>7 DEF OutputInv

\* A line is written, lost, or passed over.
LEMMA WritingLine == OutputInv /\ WriteLine => OutputInv'
<1> SUFFICES ASSUME OutputInv, WriteLine
             PROVE  OutputInv'
  OBVIOUS
<1>1. /\ stage = "lines" /\ todo # << >> /\ todo' = Tail(todo)
      /\ UNCHANGED <<output, quiet, batch, at, buffer, stderr, stage, returned>>
      /\ Rendering /\ at \in 1..Len(batch) /\ at \notin FailedInputs /\ returned = ""
      /\ IF err THEN IsCut(stdout, Whole) ELSE stdout \o todo = Upto(Parts, at)
  BY DEF WriteLine, OutputInv, Writing, Ending
<1>2. stdout \in Seq(Piece) /\ todo \in Seq(Piece) /\ buffer \in Seq(Piece) /\ err \in BOOLEAN
  BY DEF OutputInv, OutputType
<1>3. /\ Reported /\ Reported' /\ Parts' = Parts /\ FailedInputs' = FailedInputs /\ Whole' = Whole
  BY <1>1, ReportStays DEF OutputInv, OutputType
<1>4. PICK line \in Seq(Piece) : line = <<Head(todo)>>
  <2>1. <<Head(todo)>> \in Seq(Piece)
    BY <1>1, <1>2, HeadTail, Zenon
  <2> QED
    BY <2>1
<1>5. PICK rest \in Seq(Piece) : rest = Tail(todo)
  <2>1. Tail(todo) \in Seq(Piece)
    BY <1>1, <1>2, HeadTail, Zenon
  <2> QED
    BY <2>1
<1>6. todo = line \o rest
  <2>1. todo = <<Head(todo)>> \o Tail(todo)
    BY <1>1, <1>2, HeadTail, Zenon
  <2> QED
    BY <1>4, <1>5, <2>1
<1>7. /\ stdout' \in Seq(Piece) /\ err' \in BOOLEAN
      /\ IF err' THEN IsCut(stdout', Whole) ELSE stdout' \o rest = Upto(Parts, at)
  <2>1. CASE err
    BY <1>1, <1>2, <2>1, Zenon DEF WriteLine
  <2>2. CASE ~err /\ Accepted(line) /\ err' = FALSE
    <3>1. stdout' = stdout \o line
      BY <2>2 DEF Accepted
    <3>2. stdout \o line \in Seq(Piece)
      BY <1>2, Concatenation
    <3>3. (stdout \o line) \o rest = stdout \o (line \o rest)
      <4>1. stdout \in Seq(Piece)
        BY <1>2
      <4> QED
        BY <4>1
    <3>4. stdout' \o rest = Upto(Parts, at)
      BY <1>1, <1>6, <2>2, <3>1, <3>3
    <3> QED
      BY <2>2, <3>1, <3>2, <3>4
  <2>3. CASE ~err /\ Refused(line) /\ err' = TRUE
    <3>1. stdout' \in Seq(Piece) /\ IsCut(stdout', stdout \o (line \o rest))
      BY <1>2, <2>3, RefusedIs
    <3>2. IsCut(stdout', Upto(Parts, at))
      BY <1>1, <1>6, <2>3, <3>1
    <3>3. at \in 0..Len(batch)
      BY DEF OutputInv, OutputType
    <3>4. IsCut(stdout', Whole)
      BY <1>1, <1>3, <3>2, <3>3, CutOfReport
    <3> QED
      BY <2>3, <3>1, <3>4
  <2> QED
    BY <1>4, <2>1, <2>2, <2>3, Zenon DEF WriteLine
<1>8. todo' = rest
  BY <1>1, <1>5
<1>9. OutputType'
  <2>1. at' \in 0..Len(batch')
    BY <1>1 DEF OutputInv, OutputType
  <2> QED
    BY <1>1, <1>2, <1>3, <1>7, <1>8, <2>1 DEF OutputType
<1>10. Writing'
  <2>1. stage' = "lines" /\ Rendering' /\ at' \in 1..Len(batch') /\ at' \notin FailedInputs'
    BY <1>1, <1>3 DEF Rendering
  <2>2. IF err' THEN IsCut(stdout', Whole') ELSE stdout' \o todo' = Upto(Parts', at')
    BY <1>1, <1>3, <1>7, <1>8
  <2> QED
    BY <2>1, <2>2 DEF Writing
<1>11. Ending'
  BY <1>1 DEF Ending
<1> QED
  BY <1>9, <1>10, <1>11 DEF OutputInv

\* A chain ends with the error its writer retains, or after its last line.
LEMMA EndingLines == OutputInv /\ EndChain => OutputInv'
<1> SUFFICES ASSUME OutputInv, EndChain
             PROVE  OutputInv'
  OBVIOUS
<1>1. /\ stage = "lines" /\ todo = << >> /\ returned = ""
      /\ UNCHANGED <<output, quiet, batch, at, todo, err, buffer, stdout, stderr>>
      /\ Rendering /\ at \in 1..Len(batch) /\ at \notin FailedInputs
      /\ IF err THEN IsCut(stdout, Whole) ELSE stdout \o todo = Upto(Parts, at)
  BY DEF EndChain, OutputInv, Writing, Ending
<1>2. /\ Reported /\ Reported' /\ Parts' = Parts /\ FailedInputs' = FailedInputs /\ Whole' = Whole
  BY <1>1, ReportStays DEF OutputInv, OutputType
<1>3. CASE err
  <2>1. stage' = "returned" /\ returned' = "error"
    BY <1>3, Zenon DEF EndChain, Return
  <2>2. OutputType'
    BY <1>1, <1>2, <2>1 DEF OutputInv, OutputType
  <2>3. Writing'
    BY <2>1, Zenon DEF Writing
  <2>4. IsCut(stdout', Whole')
    BY <1>1, <1>2, <1>3
  <2>5. Ending'
    BY <2>1, <2>4 DEF Ending
  <2> QED
    BY <2>2, <2>3, <2>5 DEF OutputInv
<1>4. CASE ~err
  <2>1. stage' = "chains" /\ returned' = returned
    BY <1>4, Zenon DEF EndChain
  <2>2. OutputType'
    BY <1>1, <1>2, <2>1 DEF OutputInv, OutputType
  <2>3. stdout = Upto(Parts, at)
    <3>1. stdout \in Seq(Piece)
      BY DEF OutputInv, OutputType
    <3>2. stdout \o << >> = stdout
      BY <3>1
    <3> QED
      BY <1>1, <1>4, <3>2
  <2>4. Writing'
    BY <1>1, <1>2, <2>1, <2>3 DEF Writing, Rendering
  <2>5. Ending'
    BY <1>1, <2>1 DEF Ending
  <2> QED
    BY <2>2, <2>4, <2>5 DEF OutputInv
<1> QED
  BY <1>3, <1>4

\* A record is held back, after the ones before it if they fill the buffer.
LEMMA Recording == OutputInv /\ Record => OutputInv'
<1> SUFFICES ASSUME OutputInv, Record
             PROVE  OutputInv'
  OBVIOUS
<1>1. /\ stage = "records" /\ todo # << >> /\ UNCHANGED <<output, quiet, batch, at, stderr>>
      /\ ~quiet /\ output \in {"csv", "csv-full"} /\ stderr = << >> /\ returned = ""
      /\ stdout \o (buffer \o todo) = Records
  BY DEF Record, OutputInv, Writing, Ending
<1>2. stdout \in Seq(Piece) /\ todo \in Seq(Piece) /\ buffer \in Seq(Piece) /\ err \in BOOLEAN
  BY DEF OutputInv, OutputType
<1>3. /\ Reported /\ Reported' /\ Whole' = Whole /\ Records' = Records /\ Whole = Records
  <2>1. Whole = Records
    BY <1>1, Zenon DEF Whole
  <2> QED
    BY <1>1, <2>1, ReportStays DEF OutputInv, OutputType
<1>4. PICK record \in Seq(Piece) : record = <<Head(todo)>>
  <2>1. <<Head(todo)>> \in Seq(Piece)
    BY <1>1, <1>2, HeadTail, Zenon
  <2> QED
    BY <2>1
<1>5. PICK rest \in Seq(Piece) : rest = Tail(todo)
  <2>1. Tail(todo) \in Seq(Piece)
    BY <1>1, <1>2, HeadTail, Zenon
  <2> QED
    BY <2>1
<1>6. todo = record \o rest
  <2>1. todo = <<Head(todo)>> \o Tail(todo)
    BY <1>1, <1>2, HeadTail, Zenon
  <2> QED
    BY <1>4, <1>5, <2>1
<1>7. CASE stage' = "returned"
  <2>1. Refused(buffer) /\ err' = TRUE /\ returned' = "error" /\ UNCHANGED <<buffer, todo>>
    BY <1>1, <1>7 DEF Record, Return
  <2>2. stdout' \in Seq(Piece) /\ IsCut(stdout', Records)
    <3>1. stdout' \in Seq(Piece) /\ IsCut(stdout', stdout \o (buffer \o todo))
      BY <1>2, <2>1, RefusedIs
    <3> QED
      BY <1>1, <3>1
  <2>3. OutputType'
    BY <1>1, <1>2, <1>3, <1>7, <2>1, <2>2 DEF OutputInv, OutputType
  <2>4. Writing'
    BY <1>7, Zenon DEF Writing
  <2>5. IsCut(stdout', Whole')
    BY <1>3, <2>2
  <2>6. Ending'
    BY <1>7, <2>1, <2>5 DEF Ending
  <2> QED
    BY <2>3, <2>4, <2>6 DEF OutputInv
<1>8. CASE stage' # "returned"
  <2>1. UNCHANGED <<err, stage, returned>> /\ todo' = rest
    BY <1>5, <1>8 DEF Record, Return
  <2>2. /\ stdout' \in Seq(Piece) /\ buffer' \in Seq(Piece)
        /\ stdout' \o (buffer' \o rest) = Records
    <3>1. CASE stdout' = stdout /\ buffer' = Append(buffer, Head(todo))
      <4>1. buffer' = buffer \o record
        <5>1. Append(buffer, Head(todo)) = buffer \o <<Head(todo)>>
          BY <1>1, <1>2, HeadTail, Zenon
        <5> QED
          BY <1>4, <3>1, <5>1
      <4>2. buffer \o record \in Seq(Piece)
        BY <1>2, Concatenation
      <4>3. (buffer \o record) \o rest = buffer \o (record \o rest)
        <5>1. buffer \in Seq(Piece)
          BY <1>2
        <5> QED
          BY <5>1
      <4> QED
        BY <1>1, <1>2, <1>6, <3>1, <4>1, <4>2, <4>3
    <3>2. CASE stdout' = stdout \o buffer /\ buffer' = record
      <4>1. stdout \o buffer \in Seq(Piece)
        BY <1>2, Concatenation
      <4>2. (stdout \o buffer) \o (record \o rest) = stdout \o (buffer \o (record \o rest))
        <5>1. record \o rest \in Seq(Piece)
          BY Concatenation
        <5>2. stdout \in Seq(Piece) /\ buffer \in Seq(Piece)
          BY <1>2
        <5> QED
          BY <5>1, <5>2, Associativity
      <4> QED
        BY <1>1, <1>6, <3>2, <4>1, <4>2
    <3> QED
      BY <1>4, <1>8, <3>1, <3>2 DEF Record, Accepted, Return
  <2>3. OutputType'
    BY <1>1, <1>2, <1>3, <2>1, <2>2 DEF OutputInv, OutputType
  <2>4. Writing'
    BY <1>1, <1>3, <2>1, <2>2 DEF Writing
  <2>5. Ending'
    BY <1>1, <2>1 DEF Ending
  <2> QED
    BY <2>3, <2>4, <2>5 DEF OutputInv
<1> QED
  BY <1>7, <1>8

\* The last records are written, or an error is returned.
LEMMA Flushing == OutputInv /\ Flush => OutputInv'
<1> SUFFICES ASSUME OutputInv, Flush
             PROVE  OutputInv'
  OBVIOUS
<1>1. /\ stage = "records" /\ todo = << >> /\ UNCHANGED <<output, quiet, batch, todo, stderr>>
      /\ ~quiet /\ output \in {"csv", "csv-full"} /\ stderr = << >> /\ returned = ""
      /\ stdout \o (buffer \o todo) = Records
  BY DEF Flush, OutputInv, Writing, Ending
<1>2. stdout \in Seq(Piece) /\ todo \in Seq(Piece) /\ buffer \in Seq(Piece) /\ err \in BOOLEAN
  BY DEF OutputInv, OutputType
<1>3. /\ Reported /\ Reported' /\ Whole' = Whole /\ Names' = Names /\ Whole = Records
  <2>1. Whole = Records
    BY <1>1, Zenon DEF Whole
  <2> QED
    BY <1>1, <2>1, ReportStays DEF OutputInv, OutputType
<1>4. CASE stage' = "diagnose"
  <2>1. stdout' = stdout \o buffer /\ buffer' = << >> /\ at' = 0 /\ UNCHANGED <<returned, err>>
    BY <1>4 DEF Flush, Accepted, Diagnose, Return
  <2>2. stdout' \in Seq(Piece) /\ stdout' = Whole
    <3>1. buffer \o todo = buffer
      <4>1. buffer \o << >> = buffer
        BY <1>2, Concatenation, Zenon
      <4> QED
        BY <1>1, <4>1
    <3>2. stdout \o buffer \in Seq(Piece)
      BY <1>2, Concatenation
    <3> QED
      BY <1>1, <1>3, <2>1, <3>1, <3>2
  <2>3. OutputType'
    <3>1. at' \in 0..Len(batch')
      BY <1>1, <1>3, <2>1, NothingYet
    <3> QED
      BY <1>1, <1>2, <1>3, <1>4, <2>1, <2>2, <3>1 DEF OutputType
  <2>4. Writing'
    BY <1>4, Zenon DEF Writing
  <2>5. stderr' = NamedUpto(at)'
    BY <1>1, <1>3, <2>1, NothingYet DEF NamedUpto
  <2>6. Ending'
    BY <1>1, <1>3, <1>4, <2>1, <2>2, <2>5 DEF Ending
  <2> QED
    BY <2>3, <2>4, <2>6 DEF OutputInv
<1>5. CASE stage' # "diagnose"
  <2>1. /\ Refused(buffer) /\ err' = TRUE /\ stage' = "returned" /\ returned' = "error"
        /\ UNCHANGED <<at, buffer>>
    BY <1>5 DEF Flush, Diagnose, Return
  <2>2. stdout' \in Seq(Piece) /\ IsCut(stdout', Records)
    <3>1. stdout' \in Seq(Piece) /\ IsCut(stdout', stdout \o (buffer \o todo))
      BY <1>2, <2>1, RefusedIs
    <3> QED
      BY <1>1, <3>1
  <2>3. OutputType'
    BY <1>1, <1>2, <1>3, <2>1, <2>2 DEF OutputInv, OutputType
  <2>4. Writing'
    BY <2>1, Zenon DEF Writing
  <2>5. IsCut(stdout', Whole')
    BY <1>3, <2>2
  <2>6. Ending'
    BY <2>1, <2>5 DEF Ending
  <2> QED
    BY <2>3, <2>4, <2>6 DEF OutputInv
<1> QED
  BY <1>4, <1>5

\* The envelope is one call, and the encoder of YAML may follow it with another.
LEMMA Encoding == OutputInv /\ Encode => OutputInv'
<1> SUFFICES ASSUME OutputInv, Encode
             PROVE  OutputInv'
  OBVIOUS
<1>1. /\ stage = "encode" /\ UNCHANGED <<output, quiet, batch, todo, err, buffer, stderr>>
      /\ ~quiet /\ output \in {"json", "yaml"} /\ stderr = << >> /\ returned = ""
      /\ todo = Envelope /\ stdout = << >>
  BY DEF Encode, OutputInv, Writing, Ending
<1>2. todo \in Seq(Piece) /\ buffer \in Seq(Piece) /\ stdout \in Seq(Piece)
  BY DEF OutputInv, OutputType
<1>3. /\ Reported /\ Reported' /\ Whole' = Whole /\ Names' = Names /\ Whole = todo
  <2>1. output \notin {"csv", "csv-full"} \cup Streamed
    BY <1>1 DEF Streamed
  <2>2. Whole = Envelope
    BY <1>1, <2>1, Zenon DEF Whole
  <2> QED
    BY <1>1, <2>2, ReportStays DEF OutputInv, OutputType
<1>4. << >> \o todo = todo /\ todo \o << >> = todo
  BY <1>2, Concatenation, Zenon
<1>5. CASE Accepted(todo) /\ Diagnose
  <2>1. stdout' = todo /\ stage' = "diagnose" /\ at' = 0 /\ returned' = returned
    BY <1>1, <1>4, <1>5 DEF Accepted, Diagnose
  <2>2. OutputType'
    <3>1. at' \in 0..Len(batch')
      BY <1>1, <1>3, <2>1, NothingYet
    <3> QED
      BY <1>1, <1>2, <1>3, <2>1, <3>1 DEF OutputInv, OutputType
  <2>3. Writing'
    BY <2>1, Zenon DEF Writing
  <2>4. stderr' = NamedUpto(at)'
    BY <1>1, <1>3, <2>1, NothingYet DEF NamedUpto
  <2>5. Ending'
    BY <1>1, <1>3, <2>1, <2>4 DEF Ending
  <2> QED
    BY <2>2, <2>3, <2>5 DEF OutputInv
<1>6. CASE Refused(todo) /\ Return("error") /\ at' = at
  <2>1. stdout' \in Seq(Piece) /\ IsCut(stdout', Whole)
    <3>1. << >> \in Seq(Piece)
      OBVIOUS
    <3>2. stdout' \in Seq(Piece) /\ IsCut(stdout', stdout \o (todo \o << >>))
      BY <1>2, <1>6, <3>1, RefusedIs
    <3>3. stdout \o (todo \o << >>) = Whole
      BY <1>1, <1>3, <1>4
    <3> QED
      BY <3>2, <3>3
  <2>2. stage' = "returned" /\ returned' = "error"
    BY <1>6 DEF Return
  <2>3. OutputType'
    BY <1>1, <1>2, <1>3, <1>6, <2>1, <2>2 DEF OutputInv, OutputType
  <2>4. Writing'
    BY <2>2, Zenon DEF Writing
  <2>5. IsCut(stdout', Whole')
    BY <1>3, <2>1
  <2>6. Ending'
    BY <2>2, <2>5 DEF Ending
  <2> QED
    BY <2>3, <2>4, <2>6 DEF OutputInv
<1>7. CASE /\ output = "yaml" /\ Return("error") /\ at' = at
           /\ \E n \in 0..(Len(todo) - 1) :
                 stdout' = stdout \o SubSeq(todo, 1, n) \o <<Torn>> \o todo
  <2>1. stdout' \in Seq(Piece)
    <3>1. PICK n \in 0..(Len(todo) - 1) :
             stdout' = stdout \o SubSeq(todo, 1, n) \o <<Torn>> \o todo
      BY <1>7
    <3>2. SubSeq(todo, 1, n) \in Seq(Piece)
      BY <1>2
    <3>3. Torn \in Piece
      BY SayType, OtherWords DEF OtherNames, Torn
    <3>4. <<Torn>> \in Seq(Piece)
      BY <3>3
    <3>5. stdout \o SubSeq(todo, 1, n) \in Seq(Piece)
      BY <1>2, <3>2, Concatenation
    <3>6. stdout \o SubSeq(todo, 1, n) \o <<Torn>> \in Seq(Piece)
      BY <3>4, <3>5, Concatenation
    <3>7. stdout \o SubSeq(todo, 1, n) \o <<Torn>> \o todo \in Seq(Piece)
      BY <1>2, <3>6, Concatenation
    <3> QED
      BY <3>1, <3>7
  <2>2. stage' = "returned" /\ returned' = "error" /\ output' = "yaml"
    BY <1>1, <1>7 DEF Return
  <2>3. OutputType'
    BY <1>1, <1>2, <1>3, <1>7, <2>1, <2>2 DEF OutputInv, OutputType
  <2>4. Writing'
    BY <2>2, Zenon DEF Writing
  <2>5. Ending'
    BY <2>2 DEF Ending
  <2> QED
    BY <2>3, <2>4, <2>5 DEF OutputInv
<1> QED
  BY <1>5, <1>6, <1>7, Zenon DEF Encode

\* The failed inputs are named one after the other.
LEMMA Naming == OutputInv /\ Name => OutputInv'
<1> SUFFICES ASSUME OutputInv, Name
             PROVE  OutputInv'
  OBVIOUS
<1>1. /\ stage = "diagnose" /\ NextFailed # 0 /\ returned = ""
      /\ UNCHANGED <<output, quiet, batch, todo, err, buffer, stdout>>
      /\ stdout = Whole /\ stderr = NamedUpto(at)
  BY DEF Name, OutputInv, Ending
<1>2. /\ Reported /\ Reported' /\ Whole' = Whole /\ Names' = Names /\ at \in 0..Len(batch)
  BY <1>1, ReportStays DEF OutputInv, OutputType
<1>3. (quiet \/ output \in Streamed) /\ NextFailed = NextOf(FailedInputs)
  BY <1>1, Zenon DEF NextFailed
<1>4. PICK next : next = NextFailed
  OBVIOUS
<1>5. next \in 0..Len(batch) /\ Upto(Names, next) = Append(Upto(Names, at), next)
  BY <1>1, <1>2, <1>3, <1>4, NextName
<1>6. CASE stage' = "returned"
  <2>1. returned' = "error" /\ UNCHANGED <<at, stderr>>
    BY <1>1, <1>6 DEF Name, Return
  <2>2. IsCut(stdout', Whole')
    BY <1>1, <1>2, WholeType, WholeIsCut
  <2>3. OutputType'
    BY <1>1, <1>2, <1>6, <2>1 DEF OutputInv, OutputType
  <2>4. Writing'
    BY <1>6, Zenon DEF Writing
  <2>5. Ending'
    BY <1>6, <2>1, <2>2 DEF Ending
  <2> QED
    BY <2>3, <2>4, <2>5 DEF OutputInv
<1>7. CASE stage' # "returned"
  <2>1. at' = next /\ stderr' = Append(stderr, next) /\ UNCHANGED <<stage, returned>>
    BY <1>4, <1>7 DEF Name, Return
  <2>2. stderr' = NamedUpto(at)'
    BY <1>1, <1>2, <1>3, <1>5, <2>1 DEF NamedUpto
  <2>3. OutputType'
    <3>1. at' \in 0..Len(batch')
      BY <1>1, <1>5, <2>1
    <3> QED
      BY <1>1, <1>2, <2>1, <3>1 DEF OutputInv, OutputType
  <2>4. Writing'
    BY <1>1, <2>1, Zenon DEF Writing
  <2>5. Ending'
    BY <1>1, <1>2, <2>1, <2>2 DEF Ending
  <2> QED
    BY <2>3, <2>4, <2>5 DEF OutputInv
<1> QED
  BY <1>6, <1>7

\* When no failed input is left, all have been named.
LEMMA Finishing == OutputInv /\ Finish => OutputInv'
<1> SUFFICES ASSUME OutputInv, Finish
             PROVE  OutputInv'
  OBVIOUS
<1>1. /\ stage = "diagnose" /\ NextFailed = 0 /\ stage' = "returned" /\ returned' = "nil"
      /\ UNCHANGED <<output, quiet, batch, at, todo, err, buffer, stdout, stderr>>
      /\ stdout = Whole /\ stderr = NamedUpto(at)
  BY DEF Finish, Return, OutputInv, Ending
<1>2. /\ Reported /\ Reported' /\ Whole' = Whole /\ Names' = Names /\ at \in 0..Len(batch)
  BY <1>1, ReportStays DEF OutputInv, OutputType
<1>3. NamedUpto(at) = NamedUpto(Len(batch))
  <2>1. CASE quiet \/ output \in Streamed
    <3>1. NextOf(FailedInputs) = 0
      BY <1>1, <2>1, Zenon DEF NextFailed
    <3>2. Upto(Names, at) = Upto(Names, Len(batch))
      BY <1>2, <3>1, NextName
    <3> QED
      BY <3>2 DEF NamedUpto
  <2>2. CASE ~(quiet \/ output \in Streamed)
    BY <2>2, Zenon DEF NamedUpto
  <2> QED
    BY <2>1, <2>2
<1>4. OutputType'
  BY <1>1, <1>2 DEF OutputInv, OutputType
<1>5. Writing'
  BY <1>1, Zenon DEF Writing
<1>6. Ending'
  <2>1. NamedUpto(Len(batch))' = NamedUpto(Len(batch))
    BY <1>1, <1>2 DEF NamedUpto
  <2>2. stderr' = NamedUpto(Len(batch))'
    BY <1>1, <1>3, <2>1
  <2> QED
    BY <1>1, <1>2, <2>2 DEF Ending
<1> QED
  BY <1>4, <1>5, <1>6 DEF OutputInv

\* A stuttering step changes nothing.
LEMMA Standing == OutputInv /\ UNCHANGED outputVars => OutputInv'
<1> SUFFICES ASSUME OutputInv, UNCHANGED outputVars
             PROVE  OutputInv'
  OBVIOUS
<1>1. /\ UNCHANGED <<output, quiet, batch>>
      /\ UNCHANGED <<at, todo, err, buffer, stdout, stderr, stage, returned>>
  BY DEF outputVars
<1>2. /\ Reported' = Reported /\ FailedInputs' = FailedInputs /\ Parts' = Parts /\ Names' = Names
      /\ Records' = Records /\ Envelope' = Envelope /\ Whole' = Whole
  BY <1>1, ReportStays
<1>3. OutputType'
  BY <1>1, <1>2 DEF OutputInv, OutputType
<1>4. Writing'
  BY <1>1, <1>2, Zenon DEF OutputInv, Writing, Rendering
<1>5. NamedUpto(at)' = NamedUpto(at) /\ NamedUpto(Len(batch))' = NamedUpto(Len(batch))
  BY <1>1, <1>2 DEF NamedUpto
<1>6. Ending'
  BY <1>1, <1>2, <1>5, Zenon DEF OutputInv, Ending
<1> QED
  BY <1>3, <1>4, <1>6 DEF OutputInv

\* Every step keeps the invariant.
LEMMA OutputStep == OutputInv /\ [OutputNext]_outputVars => OutputInv'
  BY Starting, BeginningChain, EndingChains, WritingLine, EndingLines, Recording, Flushing,
     Encoding, Naming, Finishing, Standing, Zenon DEF OutputNext, Returned

\* It holds before the report is written.
LEMMA OutputBegins == OutputInit => OutputInv
<1> SUFFICES ASSUME OutputInit
             PROVE  OutputInv
  OBVIOUS
<1>1. Reported
  BY OutputAssumption DEF OutputInit, Reported
<1>2. OutputType
  <2>1. << >> \in Seq(Piece)
    OBVIOUS
  <2>2. at \in 0..Len(batch)
    BY <1>1, NothingYet DEF OutputInit
  <2> QED
    BY <1>1, <2>1, <2>2 DEF OutputInit, OutputType
<1>3. Writing
  BY Zenon DEF OutputInit, Writing
<1>4. Ending
  BY DEF OutputInit, Ending
<1> QED
  BY <1>2, <1>3, <1>4 DEF OutputInv

\* What OutputInv says of finishResults holds throughout: what has been written, what is
\* held back and what is still to write make up the report, until a call of Write is refused.
THEOREM OutputInvariance == OutputSpec => []OutputInv
<1>1. OutputInit => OutputInv
  BY OutputBegins
<1>2. OutputInv /\ [OutputNext]_outputVars => OutputInv'
  BY OutputStep
<1> QED
  BY <1>1, <1>2, PTL DEF OutputSpec

-----------------------------------------------------------------------------
\* README, Errors: finishResults returns nil only after every piece of the report was
\* taken and every failed input named, once and in input order.
THEOREM NilIsWhole == OutputSpec => []NilMeansWhole
<1>1. ASSUME OutputInv
      PROVE  NilMeansWhole
  <2> SUFFICES ASSUME returned = "nil"
               PROVE  NilMeansWhole
    BY Zenon DEF NilMeansWhole
  <2>1. stdout = Whole /\ stderr = NamedUpto(Len(batch))
    BY <1>1 DEF OutputInv, Ending
  <2>2. Only([i \in 1..Len(batch) |-> i], FailedInputs) = Upto(Names, Len(batch))
    BY <1>1, Joining DEF OutputInv, OutputType
  <2>3. stderr = IF quiet \/ output \in Streamed
                 THEN Only([i \in 1..Len(batch) |-> i], FailedInputs)
                 ELSE <<>>
    BY <2>1, <2>2, Zenon DEF NamedUpto
  <2> QED
    BY <2>1, <2>3, Zenon DEF NilMeansWhole
<1> QED
  BY <1>1, OutputInvariance, PTL

\* What is written is always a beginning of the report, perhaps with a piece that was cut.
LEMMA AlwaysABeginning == OutputInv /\ output # "yaml" => IsCut(stdout, Whole)
<1> SUFFICES ASSUME OutputInv, output # "yaml"
             PROVE  IsCut(stdout, Whole)
  OBVIOUS
<1>1. Reported /\ Whole \in Seq(Piece) /\ stdout \in Seq(Piece) /\ todo \in Seq(Piece)
      /\ buffer \in Seq(Piece) /\ at \in 0..Len(batch)
  BY WholeType DEF OutputInv, OutputType
<1>2. ASSUME stdout = << >>
      PROVE  IsCut(stdout, Whole)
  <2>1. 0 \in 0..Len(Whole) /\ SubSeq(Whole, 1, 0) = << >>
    BY <1>1
  <2> QED
    BY <1>2, <2>1, Zenon DEF IsCut
<1>3. IsCut(stdout, stdout)
  BY <1>1, WholeIsCut
<1>4. CASE stage \in {"start", "encode"}
  BY <1>2, <1>4 DEF OutputInv, Writing
<1>5. CASE stage = "chains"
  <2>1. Rendering /\ stdout = Upto(Parts, at)
    BY <1>5 DEF OutputInv, Writing
  <2> QED
    BY <1>1, <1>3, <2>1, CutOfReport
<1>6. CASE stage = "lines"
  <2>1. Rendering /\ IF err THEN IsCut(stdout, Whole) ELSE stdout \o todo = Upto(Parts, at)
    BY <1>6 DEF OutputInv, Writing
  <2>2. CASE ~err
    <3>1. IsCut(stdout, stdout \o todo)
      BY <1>1, <1>3, CutOfMore
    <3> QED
      BY <1>1, <2>1, <2>2, <3>1, CutOfReport
  <2> QED
    BY <2>1, <2>2
<1>7. CASE stage = "records"
  <2>1. ~quiet /\ output \in {"csv", "csv-full"} /\ stdout \o (buffer \o todo) = Records
    BY <1>7 DEF OutputInv, Writing
  <2>2. Whole = Records
    BY <2>1, Zenon DEF Whole
  <2>3. buffer \o todo \in Seq(Piece)
    BY <1>1, Concatenation, Zenon
  <2>4. IsCut(stdout, stdout \o (buffer \o todo))
    BY <1>1, <1>3, <2>3, CutOfMore
  <2> QED
    BY <2>1, <2>2, <2>4
<1>8. CASE stage \in {"diagnose", "returned"}
  <2>1. stdout = Whole \/ IsCut(stdout, Whole)
    BY <1>8 DEF OutputInv, Ending
  <2> QED
    BY <1>3, <2>1
<1> QED
  BY <1>4, <1>5, <1>6, <1>7, <1>8 DEF OutputInv, OutputType

\* That is what NoHole says of it.
LEMMA CutIsPrefix ==
    ASSUME NEW w \in Seq(Piece), NEW s, IsCut(s, w)
    PROVE  \/ IsPrefix(s, w)
           \/ s # <<>> /\ Last(s) = Torn /\ IsPrefix(Front(s), w)
<1>1. PICK n \in 0..Len(w) : s = SubSeq(w, 1, n) \/ s = SubSeq(w, 1, n) \o <<Torn>>
  BY DEF IsCut
<1>2. PICK part \in Seq(Piece) : part = SubSeq(w, 1, n)
  <2>1. SubSeq(w, 1, n) \in Seq(Piece)
    OBVIOUS
  <2> QED
    BY <2>1
<1>3. Len(part) = n /\ SubSeq(part, 1, n) = part
  BY <1>2
<1>4. IsPrefix(part, w)
  BY <1>2, <1>3 DEF IsPrefix
<1>5. CASE s = part
  BY <1>4, <1>5
<1>6. CASE s = part \o <<Torn>>
  <2>1. Len(s) = n + 1 /\ s[n + 1] = Torn /\ s # << >>
    BY <1>3, <1>6
  <2>2. SubSeq(s, 1, n) = part
    <3>1. \A i \in 1..n : s[i] = part[i]
      BY <1>3, <1>6
    <3>2. Torn \in Piece
      BY SayType, OtherWords DEF OtherNames, Torn
    <3>3. s \in Seq(Piece)
      BY <1>6, <3>2
    <3> QED
      BY <1>3, <2>1, <3>1, <3>3
  <2>3. Last(s) = Torn /\ Front(s) = part
    BY <2>1, <2>2 DEF Last, Front
  <2> QED
    BY <1>4, <2>1, <2>3
<1> QED
  BY <1>1, <1>2, <1>5, <1>6

\* checkedWriter, csv.Writer and the JSON encoder write nothing after a piece that was
\* lost: standard output is always a beginning of the report.
THEOREM NothingIsMissing == OutputSpec => []NoHole
<1>1. ASSUME OutputInv
      PROVE  NoHole
  <2> SUFFICES ASSUME output # "yaml"
               PROVE  \/ IsPrefix(stdout, Whole)
                      \/ stdout # <<>> /\ Last(stdout) = Torn /\ IsPrefix(Front(stdout), Whole)
    BY Zenon DEF NoHole
  <2>1. IsCut(stdout, Whole)
    BY <1>1, AlwaysABeginning
  <2>2. Whole \in Seq(Piece)
    BY <1>1, WholeType DEF OutputInv, OutputType
  <2> QED
    BY <2>1, <2>2, CutIsPrefix
<1> QED
  BY <1>1, OutputInvariance, PTL

-----------------------------------------------------------------------------
\* The names of columns, and the value of one that is left empty.
ColumnNames ==
    {"target", "status", "tls_status", "error", "certificate_index", "certificate_type", "chain",
     "verified", "verification_error", "tls_version", "cipher_suite", "alpn", "version",
     "serial_number", "signature_algorithm", "issuer", "subject", "common_name", "not_before",
     "not_after", "public_key_algorithm", "key_length", "key_usage", "extended_key_usage",
     "basic_constraints_is_ca", "basic_constraints_max_path_len", "subject_key_id",
     "authority_key_id", "subject_alternative_names", "email_addresses", "ip_addresses",
     "ocsp_servers", "issuing_cert_url", "crl_distribution_points", "fingerprint_sha1",
     "fingerprint_sha256", "tls_versions", "secure_cipher_suites", "insecure_cipher_suites",
     "revocation_status", "revocation_checked_at", "days_remaining", "sha256", ""}

Fits(row, header, empty) ==
    Len(row) = Len(header) /\ \A c \in 1..Len(row) : row[c] \in {header[c], empty}

\* The same columns before a row and its header.
LEMMA RowFits ==
    ASSUME NEW S, NEW empty, NEW prefix \in Seq(S), NEW X \in Seq(S), NEW y \in Seq(S),
           Fits(y, X, empty)
    PROVE  Fits(prefix \o y, prefix \o X, empty)
<1>1. Len(prefix \o X) = Len(prefix) + Len(X) /\ Len(prefix \o y) = Len(prefix) + Len(X)
  BY DEF Fits
<1>2. ASSUME NEW c \in 1..(Len(prefix) + Len(X))
      PROVE  (prefix \o y)[c] \in {(prefix \o X)[c], empty}
  <2>1. CASE c <= Len(prefix)
    <3>1. (prefix \o y)[c] = prefix[c] /\ (prefix \o X)[c] = prefix[c]
      BY <2>1
    <3> QED
      BY <3>1
  <2>2. CASE ~(c <= Len(prefix))
    <3>1. PICK d \in 1..Len(X) : c = Len(prefix) + d
      <4>1. c - Len(prefix) \in 1..Len(X) /\ c = Len(prefix) + (c - Len(prefix))
        BY <2>2
      <4> QED
        BY <4>1
    <3>2. (prefix \o y)[c] = y[d] /\ (prefix \o X)[c] = X[d]
      BY <2>2, <3>1 DEF Fits
    <3> QED
      BY <3>1, <3>2 DEF Fits
  <2> QED
    BY <2>1, <2>2
<1> QED
  BY <1>1, <1>2 DEF Fits

\* The names over the columns, and the fields a row takes its values from.
LEMMA Headers ==
    /\ PrefixHeaders \in Seq(ColumnNames)
    /\ Tail(FullHeaders) = FullFieldsRow /\ FullFieldsRow \in Seq(ColumnNames)
    /\ Tail(SummaryRow) \in Seq(ColumnNames) /\ Len(Tail(SummaryRow)) = 10
    /\ SummaryHeaders = PrefixHeaders \o Tail(SummaryRow)
<1>1. PrefixHeaders \in Seq(ColumnNames)
  BY DEF PrefixHeaders, ColumnNames
<1>2. Tail(FullHeaders) = FullFieldsRow
  BY DEF FullHeaders, FullFieldsRow
<1>3. FullFieldsRow \in Seq(ColumnNames)
  BY DEF FullFieldsRow, ColumnNames
<1>4. Tail(SummaryRow) = <<"tls_version", "cipher_suite", "alpn", "common_name", "issuer",
                           "not_before", "not_after", "days_remaining", "sha256",
                           "subject_alternative_names">>
  BY DEF SummaryRow
<1>5. Tail(SummaryRow) \in Seq(ColumnNames) /\ Len(Tail(SummaryRow)) = 10
  <2> DEFINE names == <<"tls_version", "cipher_suite", "alpn", "common_name", "issuer",
                        "not_before", "not_after", "days_remaining", "sha256",
                        "subject_alternative_names">>
  <2>1. names \in Seq(ColumnNames) /\ Len(names) = 10
    BY DEF ColumnNames
  <2> QED
    BY <1>4, <2>1, Zenon
<1>6. SummaryHeaders = PrefixHeaders \o Tail(SummaryRow)
  BY <1>4, Zenon DEF SummaryHeaders
<1> QED
  BY <1>1, <1>2, <1>3, <1>5, <1>6

\* A header, the row of a certificate and the row of a failed target.
LEMMA KindsFit ==
    ASSUME output \in {"csv", "csv-full"}, NEW h \in Piece, h[2] = "header",
           NEW r \in Piece, r[2] \in {"header", "row", "failed"}
    PROVE  Fits(Columns(r), Columns(h), "")
<1> DEFINE names == IF output = "csv" THEN Tail(SummaryRow) ELSE FullFieldsRow
           blanks == [k \in 1..Len(names) |-> ""]
<1>1. names \in Seq(ColumnNames) /\ PrefixHeaders \in Seq(ColumnNames)
  BY Headers
<1>2. blanks \in Seq(ColumnNames)
  <2>1. PICK blank \in ColumnNames : blank = ""
    BY Zenon DEF ColumnNames
  <2> HIDE DEF names
  <2>2. PICK n \in Nat : n = Len(names)
    BY <1>1
  <2>3. [k \in 1..n |-> blank] \in Seq(ColumnNames)
    OBVIOUS
  <2> QED
    BY <2>1, <2>2, <2>3, Zenon
<1>3. Columns(h) = PrefixHeaders \o names
  BY Headers, Zenon DEF Columns
<1>4. r[2] = "header" => Columns(r) = PrefixHeaders \o names
  BY Headers, Zenon DEF Columns
<1>5. r[2] = "row" => Columns(r) = PrefixHeaders \o names
  <2>1. "row" # "header"
    OBVIOUS
  <2> QED
    BY <2>1, Zenon DEF Columns
<1>6. r[2] = "failed" => Columns(r) = PrefixHeaders \o blanks
  <2>1. "failed" \notin {"header", "row"}
    OBVIOUS
  <2>2. Len(PrefixHeaders \o FullFieldsRow) - Len(PrefixHeaders) = Len(FullFieldsRow)
    BY Headers
  <2>3. (IF output = "csv" THEN 10
         ELSE Len(IF output = "csv" THEN SummaryHeaders ELSE PrefixHeaders \o Tail(FullHeaders))
              - Len(PrefixHeaders)) = Len(names)
    BY <2>2, Headers, Zenon
  <2> QED
    BY <2>1, <2>3, Zenon DEF Columns
<1> HIDE DEF names
<1>7. Fits(names, names, "") /\ Fits(blanks, names, "")
  <2>1. Len(blanks) = Len(names)
    BY <1>1
  <2> QED
    BY <1>1, <2>1 DEF Fits
<1> HIDE DEF blanks
<1>8. Fits(PrefixHeaders \o names, PrefixHeaders \o names, "")
  BY <1>1, <1>7, RowFits
<1>9. Fits(PrefixHeaders \o blanks, PrefixHeaders \o names, "")
  BY <1>1, <1>2, <1>7, RowFits
<1> QED
  BY <1>3, <1>4, <1>5, <1>6, <1>8, <1>9

\* Every row of both CSV formats has a value, or none, of the right name in every column.
THEOREM ColumnsAreFit == OutputSpec => []ColumnsFit
<1>1. ASSUME OutputInv
      PROVE  ColumnsFit
  <2> SUFFICES ASSUME output \in {"csv", "csv-full"},
                      NEW k \in 1..Len(stdout), stdout[k] # Torn
               PROVE  Fits(Columns(stdout[k]), Columns(stdout[1]), "")
    BY Zenon DEF ColumnsFit, Fits
  <2>1. Reported /\ IsCut(stdout, Whole)
    BY <1>1, AlwaysABeginning DEF OutputInv, OutputType
  <2>2. Whole = IF quiet THEN << >> ELSE Records
    BY Zenon DEF Whole
  <2>3. PICK n \in 0..Len(Whole) :
           stdout = SubSeq(Whole, 1, n) \/ stdout = SubSeq(Whole, 1, n) \o <<Torn>>
    BY <2>1 DEF IsCut
  <2>4. PICK w \in Seq(Piece) : w = Whole
    BY <2>1, WholeType
  <2>5. k \in 1..n /\ stdout[k] = w[k] /\ stdout[1] = w[1] /\ n <= Len(w)
    <3>1. /\ SubSeq(w, 1, n) \in Seq(Piece) /\ Len(SubSeq(w, 1, n)) = n
          /\ \A i \in 1..n : SubSeq(w, 1, n)[i] = w[i]
      BY <2>3, <2>4
    <3>2. CASE stdout = SubSeq(w, 1, n)
      BY <2>3, <2>4, <3>1, <3>2
    <3>3. CASE stdout = SubSeq(w, 1, n) \o <<Torn>>
      <4> DEFINE part == SubSeq(w, 1, n)
      <4>1. /\ part \in Seq(Piece) /\ Len(part) = n /\ \A i \in 1..n : part[i] = w[i]
            /\ stdout = part \o <<Torn>>
        BY <3>1, <3>3
      <4> HIDE DEF part
      <4>2. Len(stdout) = n + 1 /\ stdout[n + 1] = Torn /\ \A i \in 1..n : stdout[i] = w[i]
        BY <4>1
      <4>3. k # n + 1
        BY <4>2
      <4> QED
        BY <2>3, <2>4, <4>2, <4>3
    <3> QED
      BY <2>3, <2>4, <3>2, <3>3
  <2>6. ~quiet
    BY <2>2, <2>4, <2>5
  <2>7. w = Records
    BY <2>2, <2>4, <2>6
  <2>8. k \in 1..Len(w) /\ 1 \in 1..Len(w)
    BY <2>4, <2>5
  <2>9. stdout[1] \in Piece /\ stdout[1][2] = "header" /\ stdout[k] \in Piece
    BY <2>1, <2>5, <2>7, <2>8, RecordsType
  <2>10. stdout[k][2] \in {"header", "row", "failed"}
    <3>1. CASE k = 1
      BY <2>9, <3>1
    <3>2. CASE k # 1
      <4>1. stdout[k] \in Row
        BY <2>1, <2>5, <2>7, <2>8, <3>2, RecordsType
      <4> QED
        BY <4>1 DEF Row
    <3> QED
      BY <3>1, <3>2
  <2> QED
    BY <2>9, <2>10, KindsFit
<1> QED
  BY <1>1, OutputInvariance, PTL
=============================================================================
