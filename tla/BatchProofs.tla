----------------------------- MODULE BatchProofs -----------------------------
(***************************************************************************)
(* Proofs about Batch, for every number of targets and every concurrency.  *)
(***************************************************************************)
EXTENDS Batch, TLAPS

Reporting == {"tally", "render", "diagnose", "done"}

-----------------------------------------------------------------------------
(* The inductive invariant, in named parts.                                *)

\* Every input below `next` is in exactly one place: its slot or the hands of
\* one worker; those from `next` on are untouched.
JobsAccounted ==
    /\ Closed => next = NTargets + 1
    /\ main \in Reporting => \A w \in Workers : pc[w] = "exited"
    /\ \A w \in Workers : pc[w] = "exited" => Closed
    /\ \A w \in Workers : Busy(w) => job[w] \in 1..(next - 1)
    /\ \A i \in Targets :
          /\ results[i] # NoResult => results[i].endpoint = i /\ i < next
          /\ i < next /\ results[i] = NoResult =>
                \E w \in Workers : Busy(w) /\ job[w] = i

\* A chain with something left undone is only ever held under a done context,
\* which the late check sees.
TruncationSeen ==
    /\ \A w \in Workers :
          /\ pc[w] \in {"receive", "start", "query", "revoke"} => ~err[w]
          /\ pc[w] \in {"revoke", "check"} /\ ~err[w] =>
                /\ chain[w] \in Chain
                /\ ctx[w] = "done" \/ chain[w].whole
          /\ pc[w] = "store" /\ ~err[w] => chain[w] \in Chain /\ chain[w].whole
    /\ \A i \in Targets :
          results[i] # NoResult /\ ~results[i].err =>
             results[i].chain \in Chain /\ results[i].chain.whole

\* The inputs the first loop of finishResults has been through.
Tallied(i) ==
    \/ main \in {"render", "diagnose", "done"}
    \/ main = "tally" /\ i < cursor

\* The tracker holds the highest code among them.
TrackerIsWorst ==
    /\ main \notin Reporting => cursor = 1
    /\ \A i \in Targets :
          Tallied(i) => exitPriority[ResultCode(results[i])] <= exitPriority[exit]
    /\ exit # ExitOK =>
          \E i \in Targets : Tallied(i) /\ ResultCode(results[i]) = exit

\* What the second and third loop have written at their cursor.
ReportSoFar ==
    /\ Increasing(stdout) /\ Increasing(stderr)
    /\ main \notin {"render", "diagnose", "done"} => stdout = << >> /\ stderr = << >>
    /\ main = "render" =>
          /\ ~opts.quiet
          /\ stderr = << >>
          /\ Elements(stdout) = IF opts.structured THEN {} ELSE {i \in Shown : i < cursor}
    /\ main = "diagnose" =>
          /\ Elements(stdout) = Shown
          /\ Elements(stderr) = {i \in Failed \ Shown : i < cursor}
          /\ Shown \cap Failed = {}
    /\ main = "done" /\ ~runErr =>
          Elements(stdout) = Shown /\ Elements(stderr) = Failed \ Shown

IInv ==
    /\ TypeOK /\ JobsAccounted /\ SlotOwnership
    /\ TruncationSeen /\ TrackerIsWorst /\ ReportSoFar

-----------------------------------------------------------------------------
(* Lemmas about the operators.                                             *)

\* The priorities are distinct and defined for every code.
LEMMA PriorityFact ==
    /\ exitPriority \in [ExitCode -> 0..4]
    /\ \A c, d \in ExitCode : exitPriority[c] = exitPriority[d] => c = d
    /\ \A c \in ExitCode : exitPriority[c] = 0 <=> c = ExitOK
BY DEF exitPriority, ExitCode, ExitOK, ExitRuntimeError, ExitInsecure,
       ExitRevocationError, ExitExpiring

LEMMA ResultCodeFact ==
    ASSUME NEW r PROVE ResultCode(r) \in ExitCode
BY DEF ResultCode, HealthCode, ExitCode

LEMMA ChainFact ==
    ASSUME NEW h \in HealthStatus, NEW b \in BOOLEAN
    PROVE  [health |-> h, whole |-> b] \in Chain
BY DEF Chain

\* ExitTracker.Set keeps the higher of the two codes.
LEMMA TrackerSetFact ==
    ASSUME NEW c \in ExitCode, NEW d \in ExitCode
    PROVE  /\ TrackerSet(c, d) \in {c, d}
           /\ exitPriority[c] <= exitPriority[TrackerSet(c, d)]
           /\ exitPriority[d] <= exitPriority[TrackerSet(c, d)]
BY PriorityFact DEF TrackerSet

\* Writing one more input, later than all before it.
LEMMA AppendFact ==
    ASSUME NEW s \in Seq(Targets), NEW e \in Targets
    PROVE  /\ Append(s, e) \in Seq(Targets)
           /\ Elements(Append(s, e)) = Elements(s) \cup {e}
           /\ Increasing(s) /\ (\A x \in Elements(s) : x < e) => Increasing(Append(s, e))
<1> DEFINE t == Append(s, e)
<1>1. /\ t \in Seq(Targets)
      /\ Len(t) = Len(s) + 1
      /\ t[Len(s) + 1] = e
      /\ \A k \in 1..Len(s) : t[k] = s[k]
  OBVIOUS
<1>2. Len(s) \in Nat
  OBVIOUS
<1>3. Elements(t) = Elements(s) \cup {e}
  <2> HIDE DEF t
  <2>1. \A k \in 1..Len(t) : k \in 1..Len(s) \/ k = Len(s) + 1
    BY <1>1, <1>2
  <2>2. (1..Len(s)) \cup {Len(s) + 1} \subseteq 1..Len(t)
    BY <1>1, <1>2
  <2> QED BY <1>1, <2>1, <2>2 DEF Elements
<1>4. Increasing(s) /\ (\A x \in Elements(s) : x < e) => Increasing(t)
  <2> HIDE DEF t
  <2> SUFFICES ASSUME Increasing(s), \A x \in Elements(s) : x < e,
                      NEW j \in 1..Len(t), NEW k \in 1..Len(t), j < k
               PROVE  t[j] < t[k]
    BY DEF Increasing
  <2>1. j \in 1..Len(s)
    BY <1>1, <1>2
  <2>2. CASE k \in 1..Len(s)
    BY <2>1, <2>2, <1>1 DEF Increasing
  <2>3. CASE k = Len(s) + 1
    BY <2>1, <2>3, <1>1 DEF Elements
  <2> QED BY <1>1, <1>2, <2>2, <2>3
<1> QED BY <1>1, <1>3, <1>4

-----------------------------------------------------------------------------
(* Type correctness.                                                       *)

LEMMA InitTypeOK == Init => TypeOK
<1> SUFFICES ASSUME Init PROVE TypeOK
  OBVIOUS
<1>1. << >> \in Seq(Targets)
  OBVIOUS
<1>2. next \in 1..(NTargets + 1) /\ cursor \in 1..(NTargets + 1)
  BY BatchAssumption DEF Init
<1>3. results \in [Targets -> Result \cup {NoResult}]
  BY DEF Init
<1> QED
  BY <1>1, <1>2, <1>3 DEF Init, TypeOK, MainPC, WorkerPC, ExitCode

\* Every step keeps the types; the slot a worker stores to is a slot because
\* JobsAccounted says so.
LEMMA NextTypeOK == TypeOK /\ JobsAccounted /\ [Next]_vars => TypeOK'
<1> SUFFICES ASSUME TypeOK, JobsAccounted, [Next]_vars PROVE TypeOK'
  OBVIOUS
<1> USE BatchAssumption DEF MainPC, WorkerPC
<1>1. ASSUME NEW w \in Workers, Dispatch(w) PROVE TypeOK'
  <2>1. next \in Targets
    BY <1>1 DEF Dispatch, TypeOK, Targets
  <2> QED BY <1>1, <2>1 DEF Dispatch, TypeOK, reportVars
<1>2. ASSUME NEW w \in Workers, StartTimer(w) PROVE TypeOK'
  BY <1>2 DEF StartTimer, TypeOK, reportVars
<1>3. ASSUME NEW w \in Workers, QuerySucceeds(w) PROVE TypeOK'
  <2>1. PICK h \in HealthStatus \ {"revocation_error"} :
           chain' = [chain EXCEPT ![w] = [health |-> h, whole |-> TRUE]]
    BY <1>3 DEF QuerySucceeds
  <2>2. [health |-> h, whole |-> TRUE] \in Chain
    BY ChainFact
  <2>3. chain' \in [Workers -> Chain \cup {NilChain}]
    BY <2>1, <2>2 DEF TypeOK
  <2> QED BY <1>3, <2>3 DEF QuerySucceeds, TypeOK, reportVars
<1>4. ASSUME NEW w \in Workers, QueryFails(w) PROVE TypeOK'
  BY <1>4 DEF QueryFails, TypeOK, reportVars
<1>5. ASSUME NEW w \in Workers, Revoke(w) PROVE TypeOK'
  <2>1. PICK h \in {chain[w].health, "insecure", "revocation_error"},
             whole \in MayBeWhole(w) :
           chain' = [chain EXCEPT ![w] =
                       [health |-> h, whole |-> chain[w].whole /\ whole]]
    BY <1>5 DEF Revoke
  <2>2. [health |-> h, whole |-> chain[w].whole /\ whole] \in Chain \cup {NilChain}
    <3>1. chain[w] \in Chain \cup {NilChain}
      BY DEF TypeOK
    <3>2. CASE chain[w] = NilChain
      <4>1. (chain[w].whole /\ whole) = FALSE /\ chain[w].health = "none"
        BY <3>2 DEF NilChain
      <4>2. CASE h \in HealthStatus
        BY <4>1, <4>2, ChainFact
      <4>3. CASE h = "none"
        BY <4>1, <4>3 DEF NilChain
      <4> QED BY <4>1, <4>2, <4>3 DEF HealthStatus
    <3>3. CASE chain[w] \in Chain
      <4>1. h \in HealthStatus
        BY <3>3 DEF Chain, HealthStatus
      <4> QED BY <4>1, ChainFact
    <3> QED BY <3>1, <3>2, <3>3
  <2>3. chain' \in [Workers -> Chain \cup {NilChain}]
    BY <2>1, <2>2 DEF TypeOK
  <2> QED BY <1>5, <2>3 DEF Revoke, TypeOK, reportVars
<1>6. ASSUME NEW w \in Workers, LateCheck(w) PROVE TypeOK'
  BY <1>6 DEF LateCheck, TypeOK, reportVars
<1>7. ASSUME NEW w \in Workers, Store(w) PROVE TypeOK'
  <2>1. job[w] \in Targets
    BY <1>7 DEF Store, JobsAccounted, Busy, TypeOK, Targets
  <2>2. [endpoint |-> job[w], chain |-> chain[w], err |-> err[w]] \in Result
    BY <2>1 DEF TypeOK, Result
  <2> QED BY <1>7, <2>2 DEF Store, TypeOK, reportVars
<1>8. ASSUME NEW w \in Workers, WorkerExits(w) PROVE TypeOK'
  BY <1>8 DEF WorkerExits, TypeOK, reportVars
<1>9. ASSUME NEW w \in Workers, Expire(w) PROVE TypeOK'
  BY <1>9 DEF Expire, TypeOK, reportVars
<1>10. CASE CloseJobs
  BY <1>10 DEF CloseJobs, TypeOK, workerVars, reportVars
<1>11. CASE AllExited
  BY <1>11 DEF AllExited, TypeOK, workerVars, reportVars
<1>12. CASE Interrupt
  BY <1>12 DEF Interrupt, TypeOK, reportVars
<1>13. CASE Tally
  <2>1. exit' \in ExitCode
    BY <1>13, ResultCodeFact, TrackerSetFact DEF Tally, TypeOK
  <2> QED BY <1>13, <2>1 DEF Tally, TypeOK, workerVars
<1>14. CASE TallyDone
  BY <1>14 DEF TallyDone, TypeOK, workerVars
<1>15. CASE RenderBatch
  <2>1. [i \in Targets |-> i] \in Seq(Targets)
    BY DEF Targets
  <2> QED BY <1>15, <2>1 DEF RenderBatch, TypeOK, workerVars
<1>16. CASE RenderNext
  <2>1. cursor \in Targets
    BY <1>16 DEF RenderNext, TypeOK, Targets
  <2>2. stdout' \in Seq(Targets)
    BY <1>16, <2>1, AppendFact DEF RenderNext, TypeOK
  <2> QED BY <1>16, <2>2 DEF RenderNext, TypeOK, workerVars
<1>17. CASE RenderDone
  BY <1>17 DEF RenderDone, TypeOK, workerVars
<1>18. CASE Diagnose
  <2>1. cursor \in Targets
    BY <1>18 DEF Diagnose, TypeOK, Targets
  <2>2. stderr' \in Seq(Targets)
    BY <1>18, <2>1, AppendFact DEF Diagnose, TypeOK
  <2> QED BY <1>18, <2>2 DEF Diagnose, TypeOK, workerVars
<1>19. CASE DiagnoseDone
  BY <1>19 DEF DiagnoseDone, TypeOK, workerVars, reportVars
<1>20. CASE WriteFails
  BY <1>20 DEF WriteFails, TypeOK, workerVars
<1>21. CASE UNCHANGED vars
  BY <1>21 DEF vars, TypeOK
<1> QED
  BY <1>1, <1>2, <1>3, <1>4, <1>5, <1>6, <1>7, <1>8, <1>9, <1>10, <1>11, <1>12,
     <1>13, <1>14, <1>15, <1>16, <1>17, <1>18, <1>19, <1>20, <1>21
     DEF Next, WorkerStep, Report, Terminated

-----------------------------------------------------------------------------
(* Every input is in one place.                                            *)

LEMMA InitJobs == Init => JobsAccounted /\ SlotOwnership
BY DEF Init, JobsAccounted, SlotOwnership, Closed, Busy, Reporting, Targets

\* The actions that move no job leave it as it is.
NoJobMoves ==
    /\ UNCHANGED <<next, job, results>>
    /\ \A w \in Workers : Busy(w)' <=> Busy(w)

LEMMA QuietJobs ==
    ASSUME JobsAccounted, SlotOwnership, NoJobMoves,
           UNCHANGED main, \A w \in Workers : pc'[w] = "exited" <=> pc[w] = "exited"
    PROVE  JobsAccounted' /\ SlotOwnership'
BY DEF NoJobMoves, JobsAccounted, SlotOwnership, Closed

LEMMA NextJobs ==
    TypeOK /\ JobsAccounted /\ SlotOwnership /\ [Next]_vars
        => JobsAccounted' /\ SlotOwnership'
<1> SUFFICES ASSUME TypeOK, JobsAccounted, SlotOwnership, [Next]_vars
             PROVE  JobsAccounted' /\ SlotOwnership'
  OBVIOUS
<1> USE BatchAssumption
<1>1. ASSUME NEW w \in Workers, Dispatch(w) PROVE JobsAccounted' /\ SlotOwnership'
  <2>1. /\ next \in Targets /\ next' = next + 1
        /\ results' = results /\ main' = main /\ main = "feeding"
        /\ pc[w] = "receive" /\ pc'[w] = "start" /\ job'[w] = next
        /\ \A v \in Workers \ {w} : pc'[v] = pc[v] /\ job'[v] = job[v]
    BY <1>1 DEF Dispatch, TypeOK, Targets
  <2>2. \A v \in Workers : Busy(v)' <=> Busy(v) \/ v = w
    BY <2>1 DEF Busy
  <2>3. results[next] = NoResult
    BY <2>1 DEF JobsAccounted, Targets
  <2>4. JobsAccounted'
    <3>1. \A i \in Targets : i < next' /\ results'[i] = NoResult =>
             \E v \in Workers : Busy(v)' /\ job'[v] = i
      <4> SUFFICES ASSUME NEW i \in Targets, i < next', results'[i] = NoResult
                   PROVE  \E v \in Workers : Busy(v)' /\ job'[v] = i
        OBVIOUS
      <4>1. CASE i = next
        BY <4>1, <2>1, <2>2
      <4>2. CASE i < next
        <5>1. PICK v \in Workers : Busy(v) /\ job[v] = i
          BY <4>2, <2>1 DEF JobsAccounted
        <5>2. v # w
          BY <5>1, <2>1 DEF Busy
        <5> QED BY <5>1, <5>2, <2>1, <2>2
      <4> QED BY <4>1, <4>2, <2>1 DEF Targets
    <3>2. \A v \in Workers : Busy(v)' => job'[v] \in 1..(next' - 1)
      BY <2>1, <2>2 DEF JobsAccounted, Targets
    <3>3. \A i \in Targets : results'[i] # NoResult => results'[i].endpoint = i /\ i < next'
      BY <2>1 DEF JobsAccounted, Targets
    <3> QED BY <3>1, <3>2, <3>3, <2>1 DEF JobsAccounted, Closed, Reporting
  <2>5. SlotOwnership'
    <3>1. \A v \in Workers : Busy(v) => job[v] # next
      BY <2>1 DEF JobsAccounted, Targets
    <3> QED BY <3>1, <2>1, <2>2, <2>3 DEF SlotOwnership
  <2> QED BY <2>4, <2>5
<1>2. ASSUME NEW w \in Workers,
             \/ StartTimer(w) \/ QuerySucceeds(w) \/ QueryFails(w)
             \/ Revoke(w) \/ LateCheck(w)
      PROVE  JobsAccounted' /\ SlotOwnership'
  <2>1. UNCHANGED <<next, job, results, main>>
    BY <1>2 DEF StartTimer, QuerySucceeds, QueryFails, Revoke, LateCheck
  <2>2. /\ pc[w] \notin {"receive", "exited"}
        /\ pc' = [pc EXCEPT ![w] = pc'[w]]
        /\ pc'[w] \notin {"receive", "exited"}
    BY <1>2 DEF StartTimer, QuerySucceeds, QueryFails, Revoke, LateCheck, TypeOK
  <2>3. /\ \A v \in Workers : Busy(v)' <=> Busy(v)
        /\ \A v \in Workers : pc'[v] = "exited" <=> pc[v] = "exited"
    BY <2>2 DEF Busy, TypeOK
  <2> QED BY <2>1, <2>3, QuietJobs DEF NoJobMoves
<1>3. ASSUME NEW w \in Workers, Store(w) PROVE JobsAccounted' /\ SlotOwnership'
  <2>1. /\ next' = next /\ main' = main
        /\ pc[w] = "store" /\ pc'[w] = "receive"
        /\ \A v \in Workers \ {w} : pc'[v] = pc[v] /\ job'[v] = job[v]
    BY <1>3 DEF Store, TypeOK
  <2>2. /\ Busy(w) /\ ~Busy(w)'
        /\ \A v \in Workers \ {w} : Busy(v)' <=> Busy(v)
    BY <2>1 DEF Busy
  <2>3. job[w] \in Targets /\ job[w] < next
    BY <2>2 DEF JobsAccounted, TypeOK, Targets
  <2>4. /\ results'[job[w]].endpoint = job[w]
        /\ results'[job[w]] # NoResult
        /\ \A i \in Targets \ {job[w]} : results'[i] = results[i]
    BY <1>3, <2>3 DEF Store, TypeOK, NoResult, Targets
  <2>5. SlotOwnership'
    <3>1. \A v \in Workers \ {w} : Busy(v) => job[v] # job[w] /\ job[v] \in Targets
      BY <2>2 DEF SlotOwnership, JobsAccounted, TypeOK, Targets
    <3> QED BY <2>1, <2>2, <2>4, <3>1 DEF SlotOwnership
  <2>6. JobsAccounted'
    <3>1. \A i \in Targets : i < next' /\ results'[i] = NoResult =>
             \E v \in Workers : Busy(v)' /\ job'[v] = i
      <4> SUFFICES ASSUME NEW i \in Targets, i < next', results'[i] = NoResult
                   PROVE  \E v \in Workers : Busy(v)' /\ job'[v] = i
        OBVIOUS
      <4>1. i # job[w] /\ results[i] = NoResult
        BY <2>4
      <4>2. PICK v \in Workers : Busy(v) /\ job[v] = i
        BY <4>1, <2>1 DEF JobsAccounted
      <4> QED BY <4>1, <4>2, <2>1, <2>2
    <3>2. \A i \in Targets : results'[i] # NoResult => results'[i].endpoint = i /\ i < next'
      BY <2>1, <2>3, <2>4 DEF JobsAccounted
    <3>3. \A v \in Workers : Busy(v)' => job'[v] \in 1..(next' - 1)
      BY <2>1, <2>2 DEF JobsAccounted
    <3>4. (\A v \in Workers : pc'[v] = "exited" => Closed') /\ main \notin Reporting
      BY <2>1 DEF JobsAccounted, Closed
    <3> QED BY <3>1, <3>2, <3>3, <3>4, <2>1 DEF JobsAccounted, Closed
  <2> QED BY <2>5, <2>6
<1>4. ASSUME NEW w \in Workers, WorkerExits(w) PROVE JobsAccounted' /\ SlotOwnership'
  <2>1. /\ UNCHANGED <<next, job, results, main>> /\ Closed
        /\ pc[w] = "receive" /\ pc'[w] = "exited"
        /\ \A v \in Workers \ {w} : pc'[v] = pc[v]
    BY <1>4 DEF WorkerExits, TypeOK
  <2>2. \A v \in Workers : Busy(v)' <=> Busy(v)
    BY <2>1 DEF Busy
  <2> QED BY <2>1, <2>2 DEF JobsAccounted, SlotOwnership, Closed
<1>5. CASE CloseJobs
  BY <1>5 DEF CloseJobs, workerVars, JobsAccounted, SlotOwnership, Busy, Closed,
              Reporting, TypeOK
<1>6. CASE AllExited
  BY <1>6 DEF AllExited, workerVars, JobsAccounted, SlotOwnership, Busy, Closed, Reporting
<1>7. CASE Interrupt \/ \E w \in Workers : Expire(w)
  BY <1>7 DEF Interrupt, Expire, JobsAccounted, SlotOwnership, Busy, Closed
<1>8. CASE Report
  <2>1. UNCHANGED <<next, workerVars, results>> /\ main \in Reporting /\ main' \in Reporting
    BY <1>8 DEF Report, Tally, TallyDone, RenderBatch, RenderNext, RenderDone, Diagnose,
                DiagnoseDone, WriteFails, Reporting
  <2> QED BY <2>1 DEF workerVars, JobsAccounted, SlotOwnership, Busy, Closed, Reporting
<1>9. CASE UNCHANGED vars
  BY <1>9 DEF vars, JobsAccounted, SlotOwnership, Busy, Closed
<1> QED
  BY <1>1, <1>2, <1>3, <1>4, <1>5, <1>6, <1>7, <1>8, <1>9
     DEF Next, WorkerStep, Terminated

-----------------------------------------------------------------------------
(* No truncated chain is recorded as a success.                            *)

LEMMA InitTruncation == Init => TruncationSeen
BY DEF Init, TruncationSeen

LEMMA NextTruncation ==
    TypeOK /\ JobsAccounted /\ TruncationSeen /\ [Next]_vars => TruncationSeen'
<1> SUFFICES ASSUME TypeOK, JobsAccounted, TruncationSeen, [Next]_vars
             PROVE  TruncationSeen'
  OBVIOUS
<1>1. ASSUME NEW w \in Workers, Dispatch(w) \/ StartTimer(w) \/ WorkerExits(w)
      PROVE  TruncationSeen'
  <2>1. /\ UNCHANGED <<chain, err, results>>
        /\ pc[w] \in {"receive", "start"}
        /\ pc'[w] \in {"start", "query", "exited"}
        /\ \A v \in Workers \ {w} : pc'[v] = pc[v] /\ ctx'[v] = ctx[v]
    BY <1>1 DEF Dispatch, StartTimer, WorkerExits, TypeOK
  <2> QED BY <2>1 DEF TruncationSeen
<1>2. ASSUME NEW w \in Workers, QuerySucceeds(w) PROVE TruncationSeen'
  <2>1. PICK h \in HealthStatus \ {"revocation_error"} :
           chain' = [chain EXCEPT ![w] = [health |-> h, whole |-> TRUE]]
    BY <1>2 DEF QuerySucceeds
  <2>2. chain'[w] \in Chain /\ chain'[w].whole
    BY <2>1, ChainFact DEF TypeOK
  <2>3. /\ pc'[w] \in {"revoke", "check"}
        /\ pc'[w] = "revoke" => ~err[w]
        /\ UNCHANGED <<err, ctx, results>>
        /\ \A v \in Workers \ {w} : pc'[v] = pc[v] /\ chain'[v] = chain[v]
    BY <1>2, <2>1 DEF QuerySucceeds, TypeOK, TruncationSeen
  <2> QED BY <2>2, <2>3 DEF TruncationSeen
<1>3. ASSUME NEW w \in Workers, QueryFails(w) PROVE TruncationSeen'
  BY <1>3 DEF QueryFails, TypeOK, TruncationSeen
<1>4. ASSUME NEW w \in Workers, Revoke(w) PROVE TruncationSeen'
  <2>1. PICK h \in {chain[w].health, "insecure", "revocation_error"},
             whole \in MayBeWhole(w) :
           chain' = [chain EXCEPT ![w] =
                       [health |-> h, whole |-> chain[w].whole /\ whole]]
    BY <1>4 DEF Revoke
  <2>2. pc[w] = "revoke" /\ ~err[w] /\ chain[w] \in Chain
    BY <1>4 DEF Revoke, TruncationSeen
  <2>3. h \in HealthStatus /\ (chain[w].whole /\ whole) \in BOOLEAN
    BY <2>2 DEF Chain, HealthStatus
  <2>4. /\ chain'[w] = [health |-> h, whole |-> chain[w].whole /\ whole]
        /\ chain'[w].whole = (chain[w].whole /\ whole)
    BY <2>1 DEF TypeOK
  <2>5. chain'[w] \in Chain
    BY <2>3, <2>4, ChainFact
  <2>6. ctx[w] = "done" \/ chain'[w].whole
    <3>1. CASE ctx[w] = "done"
      BY <3>1
    <3>2. CASE ctx[w] # "done"
      <4>1. chain[w].whole /\ whole
        BY <2>2, <3>2 DEF TruncationSeen, MayBeWhole
      <4> QED BY <4>1, <2>4
    <3> QED BY <3>1, <3>2
  <2>7. /\ pc'[w] = "check"
        /\ UNCHANGED <<err, ctx, results>>
        /\ \A v \in Workers \ {w} : pc'[v] = pc[v] /\ chain'[v] = chain[v]
    BY <1>4, <2>1 DEF Revoke, TypeOK
  <2> QED BY <2>5, <2>6, <2>7 DEF TruncationSeen
<1>5. ASSUME NEW w \in Workers, LateCheck(w) PROVE TruncationSeen'
  <2>1. /\ pc[w] = "check" /\ pc'[w] = "store"
        /\ err'[w] = (err[w] \/ ctx[w] = "done")
        /\ UNCHANGED <<chain, ctx, results>>
        /\ \A v \in Workers \ {w} : pc'[v] = pc[v] /\ err'[v] = err[v]
    BY <1>5 DEF LateCheck, TypeOK
  <2>2. ~err'[w] => chain[w] \in Chain /\ chain[w].whole
    BY <2>1 DEF TruncationSeen
  <2> QED BY <2>1, <2>2 DEF TruncationSeen
<1>6. ASSUME NEW w \in Workers, Store(w) PROVE TruncationSeen'
  <2>1. /\ pc[w] = "store" /\ pc'[w] = "receive"
        /\ \A v \in Workers \ {w} :
              pc'[v] = pc[v] /\ chain'[v] = chain[v] /\ err'[v] = err[v] /\ ctx'[v] = ctx[v]
    BY <1>6 DEF Store, TypeOK
  <2>2. job[w] \in Targets
    BY <2>1 DEF JobsAccounted, Busy, TypeOK, Targets
  <2>3. /\ results'[job[w]].chain = chain[w]
        /\ results'[job[w]].err = err[w]
        /\ ~err'[w]
        /\ \A i \in Targets \ {job[w]} : results'[i] = results[i]
    BY <1>6, <2>2 DEF Store, TypeOK
  <2>4. ~err[w] => chain[w] \in Chain /\ chain[w].whole
    BY <2>1 DEF TruncationSeen
  <2> QED BY <2>1, <2>3, <2>4 DEF TruncationSeen
<1>7. ASSUME NEW w \in Workers, Expire(w) PROVE TruncationSeen'
  BY <1>7 DEF Expire, TypeOK, TruncationSeen
<1>8. CASE Interrupt
  BY <1>8 DEF Interrupt, TypeOK, TruncationSeen
<1>9. CASE CloseJobs \/ AllExited \/ Report \/ UNCHANGED vars
  <2>1. UNCHANGED <<pc, chain, err, ctx, results>>
    BY <1>9 DEF CloseJobs, AllExited, Report, Tally, TallyDone, RenderBatch, RenderNext,
                RenderDone, Diagnose, DiagnoseDone, WriteFails, workerVars, vars
  <2> QED BY <2>1 DEF TruncationSeen
<1> QED
  BY <1>1, <1>2, <1>3, <1>4, <1>5, <1>6, <1>7, <1>8, <1>9 DEF Next, WorkerStep, Terminated

-----------------------------------------------------------------------------
(* The exit code and the report.                                           *)

\* While the pool is running the report's variables do not move, and once it is
\* not, only the report moves.
LEMMA PoolSteps ==
    ASSUME TypeOK, JobsAccounted, [Next]_vars, ~Report
    PROVE  /\ UNCHANGED <<opts, cursor, exit, stdout, stderr, runErr>>
           /\ main \notin Reporting => main' \in {"feeding", "waiting", "tally"}
           /\ main \in Reporting => UNCHANGED <<main, results>>
<1>1. ASSUME NEW w \in Workers, Dispatch(w) \/ WorkerStep(w) \/ Expire(w)
      PROVE  /\ UNCHANGED <<opts, main, cursor, exit, stdout, stderr, runErr>>
             /\ main \in Reporting => UNCHANGED results
  BY <1>1 DEF Dispatch, WorkerStep, StartTimer, QuerySucceeds, QueryFails, Revoke, LateCheck,
              Store, WorkerExits, Expire, reportVars, JobsAccounted
<1>2. CASE CloseJobs \/ AllExited \/ Interrupt \/ UNCHANGED vars
  BY <1>2 DEF CloseJobs, AllExited, Interrupt, vars, reportVars, Reporting, TypeOK, MainPC
<1> QED
  BY <1>1, <1>2 DEF Next, Terminated, TypeOK, MainPC, Reporting

LEMMA InitTracker == Init => TrackerIsWorst
BY DEF Init, TrackerIsWorst, Tallied, Reporting

LEMMA NextTracker ==
    TypeOK /\ JobsAccounted /\ TrackerIsWorst /\ [Next]_vars => TrackerIsWorst'
<1> SUFFICES ASSUME TypeOK, JobsAccounted, TrackerIsWorst, [Next]_vars
             PROVE  TrackerIsWorst'
  OBVIOUS
<1>0. \A i \in Targets : i \in Nat /\ 1 <= i /\ i <= NTargets
  BY BatchAssumption DEF Targets
<1>1. CASE ~Report /\ main \notin Reporting
  <2>1. \A i : ~Tallied(i)
    BY <1>1 DEF Tallied, Reporting
  <2>2. exit = ExitOK /\ cursor = 1
    BY <1>1, <2>1 DEF TrackerIsWorst
  <2>3. exit' = ExitOK /\ cursor' = 1 /\ main' \in {"feeding", "waiting", "tally"}
    BY <1>1, <2>2, PoolSteps
  <2>4. \A i \in Targets : ~Tallied(i)'
    BY <1>0, <2>3 DEF Tallied
  <2> QED BY <2>3, <2>4 DEF TrackerIsWorst
<1>2. CASE ~Report /\ main \in Reporting
  BY <1>2, PoolSteps DEF TrackerIsWorst, Tallied
<1>3. CASE Tally
  <2>1. /\ cursor \in Targets /\ cursor' = cursor + 1
        /\ main = "tally" /\ main' = "tally" /\ UNCHANGED results
        /\ exit' = TrackerSet(exit, ResultCode(results[cursor]))
    BY <1>3, BatchAssumption DEF Tally, TypeOK, Targets
  <2>2. /\ exit' \in {exit, ResultCode(results[cursor])}
        /\ exit \in ExitCode /\ exit' \in ExitCode
        /\ exitPriority[exit] <= exitPriority[exit']
        /\ exitPriority[ResultCode(results[cursor])] <= exitPriority[exit']
    BY <2>1, ResultCodeFact, TrackerSetFact DEF TypeOK
  <2>3. \A i \in Targets : Tallied(i)' <=> Tallied(i) \/ i = cursor
    BY <1>0, <2>1 DEF Tallied
  <2>4. \A i \in Targets :
           Tallied(i)' => exitPriority[ResultCode(results[i])] <= exitPriority[exit']
    <3> SUFFICES ASSUME NEW i \in Targets, Tallied(i)
                 PROVE  exitPriority[ResultCode(results[i])] <= exitPriority[exit']
      BY <2>2, <2>3
    <3>1. exitPriority[ResultCode(results[i])] <= exitPriority[exit]
      BY DEF TrackerIsWorst
    <3> QED BY <3>1, <2>2, ResultCodeFact, PriorityFact
  <2>5. exit' # ExitOK =>
           \E i \in Targets : Tallied(i)' /\ ResultCode(results[i]) = exit'
    BY <2>1, <2>2, <2>3 DEF TrackerIsWorst
  <2> QED BY <2>1, <2>4, <2>5 DEF TrackerIsWorst, ResultCode, Reporting
<1>4. CASE TallyDone
  <2>1. \A i \in Targets : Tallied(i) /\ Tallied(i)'
    BY <1>0, <1>4, BatchAssumption DEF TallyDone, Tallied, TypeOK
  <2> QED BY <1>4, <2>1 DEF TallyDone, TrackerIsWorst, Reporting
<1>5. CASE RenderBatch \/ RenderNext \/ RenderDone \/ Diagnose \/ DiagnoseDone \/ WriteFails
  <2>1. /\ main \in {"render", "diagnose"} /\ main' \in {"render", "diagnose", "done"}
        /\ UNCHANGED <<exit, results>>
    BY <1>5 DEF RenderBatch, RenderNext, RenderDone, Diagnose, DiagnoseDone, WriteFails,
                reportVars
  <2> QED BY <2>1 DEF TrackerIsWorst, Tallied, Reporting
<1> QED
  BY <1>1, <1>2, <1>3, <1>4, <1>5 DEF Report

LEMMA InitReport == Init => ReportSoFar
BY DEF Init, ReportSoFar, Increasing

LEMMA NextReport ==
    TypeOK /\ JobsAccounted /\ TrackerIsWorst /\ ReportSoFar /\ [Next]_vars => ReportSoFar'
<1> SUFFICES ASSUME TypeOK, JobsAccounted, TrackerIsWorst, ReportSoFar, [Next]_vars
             PROVE  ReportSoFar'
  OBVIOUS
<1>0. /\ NTargets \in Nat
      /\ \A i \in Targets : i \in Nat /\ 1 <= i /\ i <= NTargets
      /\ Failed \subseteq Targets /\ Shown \subseteq Targets
  BY BatchAssumption DEF Targets, Failed, Shown
<1>1. CASE ~Report /\ main \notin Reporting
  BY <1>1, PoolSteps DEF ReportSoFar, Increasing, Reporting
<1>2. CASE ~Report /\ main \in Reporting
  BY <1>2, PoolSteps DEF ReportSoFar, Increasing, Failed, Shown, Elements
<1>3. CASE Tally
  BY <1>3 DEF Tally, ReportSoFar, Increasing
<1>4. CASE TallyDone
  <2>1. /\ stdout = << >> /\ stderr = << >> /\ cursor' = 1
        /\ UNCHANGED <<opts, results, stdout, stderr>>
        /\ main' = IF opts.quiet THEN "diagnose" ELSE "render"
    BY <1>4 DEF TallyDone, ReportSoFar
  <2>2. Elements(stdout) = {} /\ Elements(stderr) = {}
    BY <2>1 DEF Elements
  <2>3. \A i \in Targets : ~(i < cursor')
    BY <1>0, <2>1
  <2>4. CASE opts.quiet
    BY <1>0, <2>1, <2>2, <2>3, <2>4 DEF ReportSoFar, Shown, Failed, Increasing, Elements
  <2>5. CASE ~opts.quiet
    BY <1>0, <2>1, <2>2, <2>3, <2>5 DEF ReportSoFar, Shown, Failed, Increasing, Elements
  <2> QED BY <2>4, <2>5
<1>5. CASE RenderBatch
  <2>1. /\ stdout' = [i \in Targets |-> i] /\ stderr' = stderr /\ stderr = << >>
        /\ main' = "done" /\ UNCHANGED <<opts, results>>
        /\ ~opts.quiet /\ opts.structured
    BY <1>5 DEF RenderBatch, ReportSoFar
  <2>2. Len(stdout') = NTargets /\ \A k \in 1..NTargets : stdout'[k] = k
    BY <2>1, BatchAssumption DEF Targets
  <2>3. Elements(stdout') = Targets /\ Elements(stderr') = {}
    <3>1. Elements(stdout') = 1..NTargets
      BY <2>2, <1>0 DEF Elements
    <3>2. Elements(stderr') = {}
      BY <2>1 DEF Elements
    <3> QED BY <3>1, <3>2 DEF Targets
  <2>4. Increasing(stdout') /\ Increasing(stderr')
    BY <2>1, <2>2 DEF Increasing
  <2> QED BY <1>0, <2>1, <2>3, <2>4 DEF ReportSoFar, Shown, Failed
<1>6. CASE RenderNext
  <2>1. /\ cursor \in Targets /\ cursor' = cursor + 1 /\ main = "render" /\ main' = "render"
        /\ ~opts.quiet /\ ~opts.structured
        /\ stdout' = IF results[cursor].err THEN stdout ELSE Append(stdout, cursor)
        /\ UNCHANGED <<opts, results, stderr>>
    BY <1>6, BatchAssumption DEF RenderNext, ReportSoFar, TypeOK, Targets
  <2>2. Elements(stdout) = {i \in Shown : i < cursor}
    BY <2>1 DEF ReportSoFar
  <2>3. {i \in Shown : i < cursor + 1} =
           {i \in Shown : i < cursor} \cup (IF results[cursor].err THEN {} ELSE {cursor})
    BY <1>0, <2>1 DEF Shown, Failed
  <2>4. Elements(stdout)' = {i \in Shown : i < cursor'} /\ Increasing(stdout)'
    <3>1. CASE results[cursor].err
      BY <2>1, <2>2, <2>3, <3>1 DEF ReportSoFar, Elements, Increasing
    <3>2. CASE ~results[cursor].err
      <4>1. stdout' = Append(stdout, cursor) /\ stdout \in Seq(Targets) /\ Increasing(stdout)
        BY <2>1, <3>2 DEF TypeOK, ReportSoFar
      <4>2. /\ Elements(Append(stdout, cursor)) = Elements(stdout) \cup {cursor}
            /\ Increasing(Append(stdout, cursor))
        BY <4>1, <2>1, <2>2, AppendFact
      <4> QED BY <4>1, <4>2, <2>1, <2>2, <2>3, <3>2 DEF Elements, Increasing
    <3> QED BY <3>1, <3>2
  <2>5. Shown' = Shown
    BY <2>1 DEF Shown, Failed
  <2> QED BY <2>1, <2>4, <2>5 DEF ReportSoFar, Increasing
<1>7. CASE RenderDone
  <2>1. /\ cursor = NTargets + 1 /\ cursor' = 1 /\ main = "render" /\ main' = "diagnose"
        /\ ~opts.quiet /\ ~opts.structured /\ stderr = << >>
        /\ UNCHANGED <<opts, results, stdout, stderr>>
    BY <1>7, BatchAssumption DEF RenderDone, ReportSoFar, TypeOK
  <2>2. Elements(stdout) = Shown /\ Elements(stderr) = {}
    BY <1>0, <2>1 DEF ReportSoFar, Elements
  <2>3. \A i \in Targets : ~(i < cursor')
    BY <1>0, <2>1
  <2> QED BY <1>0, <2>1, <2>2, <2>3 DEF ReportSoFar, Shown, Failed, Increasing, Elements
<1>8. CASE Diagnose
  <2>1. /\ cursor \in Targets /\ cursor' = cursor + 1
        /\ main = "diagnose" /\ main' = "diagnose"
        /\ stderr' = IF results[cursor].err THEN Append(stderr, cursor) ELSE stderr
        /\ UNCHANGED <<opts, results, stdout>>
    BY <1>8, BatchAssumption DEF Diagnose, TypeOK, Targets
  <2>2. /\ Elements(stderr) = {i \in Failed \ Shown : i < cursor}
        /\ Elements(stdout) = Shown /\ Shown \cap Failed = {}
    BY <2>1 DEF ReportSoFar
  <2>3. {i \in Failed \ Shown : i < cursor + 1} =
           {i \in Failed \ Shown : i < cursor}
              \cup (IF results[cursor].err THEN {cursor} ELSE {})
    BY <1>0, <2>1, <2>2 DEF Failed
  <2>4. Elements(stderr)' = {i \in Failed \ Shown : i < cursor'} /\ Increasing(stderr)'
    <3>1. CASE ~results[cursor].err
      BY <2>1, <2>2, <2>3, <3>1 DEF ReportSoFar, Elements, Increasing
    <3>2. CASE results[cursor].err
      <4>1. stderr' = Append(stderr, cursor) /\ stderr \in Seq(Targets) /\ Increasing(stderr)
        BY <2>1, <3>2 DEF TypeOK, ReportSoFar
      <4>2. /\ Elements(Append(stderr, cursor)) = Elements(stderr) \cup {cursor}
            /\ Increasing(Append(stderr, cursor))
        BY <4>1, <2>1, <2>2, AppendFact
      <4> QED BY <4>1, <4>2, <2>1, <2>2, <2>3, <3>2 DEF Elements, Increasing
    <3> QED BY <3>1, <3>2
  <2>5. Shown' = Shown /\ Failed' = Failed
    BY <2>1 DEF Shown, Failed
  <2>6. Elements(stdout)' = Elements(stdout) /\ Increasing(stdout)'
    BY <2>1 DEF ReportSoFar, Elements, Increasing
  <2> QED BY <2>1, <2>2, <2>4, <2>5, <2>6 DEF ReportSoFar
<1>9. CASE DiagnoseDone
  <2>1. /\ cursor = NTargets + 1 /\ main = "diagnose" /\ main' = "done"
        /\ UNCHANGED <<opts, results, stdout, stderr>>
    BY <1>9, BatchAssumption DEF DiagnoseDone, TypeOK, reportVars
  <2>2. Elements(stdout) = Shown /\ Elements(stderr) = Failed \ Shown
    BY <1>0, <2>1 DEF ReportSoFar
  <2> QED BY <2>1, <2>2 DEF ReportSoFar, Shown, Failed, Increasing, Elements
<1>10. CASE WriteFails
  BY <1>10 DEF WriteFails, ReportSoFar, Increasing
<1> QED
  BY <1>1, <1>2, <1>3, <1>4, <1>5, <1>6, <1>7, <1>8, <1>9, <1>10 DEF Report

-----------------------------------------------------------------------------
(* The theorems.                                                           *)

LEMMA InvariantHolds == Spec => []IInv
<1>1. Init => IInv
  BY InitTypeOK, InitJobs, InitTruncation, InitTracker, InitReport DEF IInv
<1>2. IInv /\ [Next]_vars => IInv'
  BY NextTypeOK, NextJobs, NextTruncation, NextTracker, NextReport DEF IInv
<1> QED BY <1>1, <1>2, PTL DEF Spec

\* Every variable keeps its type.
THEOREM TypeCorrect == Spec => []TypeOK
<1>1. IInv => TypeOK
  BY DEF IInv
<1> QED BY <1>1, InvariantHolds, PTL

\* The comment on queryTargets (client.go:161): each worker owns a distinct
\* slot, and the slot of a job in hand has not been written.
THEOREM SlotsAreOwned == Spec => []SlotOwnership
<1>1. IInv => SlotOwnership
  BY DEF IInv
<1> QED BY <1>1, InvariantHolds, PTL

\* wg.Wait is reached with every job stored, each in the slot of its input.
LEMMA SlotsComplete == IInv => ReportIsComplete
<1> SUFFICES ASSUME IInv, main \in Reporting, NEW i \in Targets
             PROVE  results[i].endpoint = i
  BY DEF ReportIsComplete, Reporting
<1>1. next = NTargets + 1 /\ \A w \in Workers : ~Busy(w)
  BY DEF IInv, JobsAccounted, Closed, Reporting, Busy
<1>2. i < next
  BY <1>1, BatchAssumption DEF Targets
<1> QED BY <1>1, <1>2 DEF IInv, JobsAccounted

\* finishResults reads a complete slice, whatever the number of targets and workers.
THEOREM NothingIsLost == Spec => []ReportIsComplete
  BY SlotsComplete, InvariantHolds, PTL

\* A chain cut short by the deadline or by Ctrl-C is never a success.
THEOREM TruncationIsFailure == Spec => []NoTruncatedSuccess
<1>1. IInv => NoTruncatedSuccess
  BY DEF IInv, TruncationSeen, NoTruncatedSuccess
<1> QED BY <1>1, InvariantHolds, PTL

\* The tracker's code after the first loop of finishResults is the documented
\* worst of all inputs.
LEMMA ExitIsWorst == IInv /\ main = "done" => exit = WorstCode
<1> SUFFICES ASSUME IInv, main = "done" PROVE exit = WorstCode
  OBVIOUS
<1>1. /\ \A i \in Targets : exitPriority[ResultCode(results[i])] <= exitPriority[exit]
      /\ exit # ExitOK => \E i \in Targets : ResultCode(results[i]) = exit
      /\ exit \in ExitCode
  BY DEF IInv, TypeOK, TrackerIsWorst, Tallied
<1>2. /\ exitPriority[0] = 0 /\ exitPriority[1] = 4 /\ exitPriority[2] = 2
      /\ exitPriority[3] = 3 /\ exitPriority[4] = 1
      /\ exit \in {0, 1, 2, 3, 4}
  BY <1>1 DEF exitPriority, ExitCode, ExitOK, ExitRuntimeError, ExitInsecure,
              ExitRevocationError, ExitExpiring
<1> DEFINE Some(s) == \E i \in Targets : ~results[i].err /\ results[i].chain.health = s
<1> DEFINE SomeError == \E i \in Targets : results[i].err
<1>3. /\ SomeError => exit = 1
      /\ Some("revocation_error") => exit \in {1, 3}
      /\ Some("insecure") => exit \in {1, 2, 3}
      /\ Some("expiring") => exit # 0
  BY <1>1, <1>2 DEF ResultCode, HealthCode, ExitOK, ExitRuntimeError, ExitInsecure,
                    ExitRevocationError, ExitExpiring
<1>4. /\ exit = 1 => SomeError
      /\ exit = 3 => Some("revocation_error")
      /\ exit = 2 => Some("insecure")
      /\ exit = 4 => Some("expiring")
  BY <1>1 DEF ResultCode, HealthCode, ExitOK, ExitRuntimeError, ExitInsecure,
                    ExitRevocationError, ExitExpiring
<1> HIDE DEF Some, SomeError
<1>5. exit = IF SomeError THEN 1 ELSE IF Some("revocation_error") THEN 3
             ELSE IF Some("insecure") THEN 2 ELSE IF Some("expiring") THEN 4 ELSE 0
  BY <1>2, <1>3, <1>4
<1> QED BY <1>5 DEF WorstCode, Some, SomeError

\* The exit status follows the documented precedence 1 > 3 > 2 > 4 > 0.
THEOREM ExitStatusIsWorst == Spec => []ExitPrecedence
<1>1. IInv => ExitPrecedence
  BY ExitIsWorst DEF ExitPrecedence, ProcessStatus, ExitRuntimeError
<1> QED BY <1>1, InvariantHolds, PTL

\* Every failure is named once and on the right stream, every success shown, in
\* input order and each with its own input's result.
THEOREM EveryInputIsReported == Spec => []EveryInputReported
<1>1. IInv => EveryInputReported
  <2> SUFFICES ASSUME IInv, main = "done", ~runErr
               PROVE  EveryInputReported
    BY DEF EveryInputReported
  <2>1. /\ Elements(stdout) = Shown /\ Elements(stderr) = Failed \ Shown
        /\ Increasing(stdout) /\ Increasing(stderr)
    BY DEF IInv, ReportSoFar
  <2>2. \A i \in Targets : results[i].endpoint = i
    BY SlotsComplete DEF ReportIsComplete
  <2>3. Elements(stdout) \cup Elements(stderr) \subseteq Targets
    BY <2>1 DEF Shown, Failed
  <2> QED
    BY <2>1, <2>2, <2>3 DEF EveryInputReported
<1> QED BY <1>1, InvariantHolds, PTL

\* No step replaces a recorded result.
THEOREM ResultsStay == Spec => ResultsAreFinal
<1>1. IInv /\ [Next]_vars =>
         [\A i \in Targets : results[i] # NoResult => results'[i] = results[i]]_vars
  <2> SUFFICES ASSUME IInv, [Next]_vars, NEW i \in Targets, results[i] # NoResult
               PROVE  results'[i] = results[i]
    OBVIOUS
  <2>1. ASSUME NEW w \in Workers, Store(w) PROVE results'[i] = results[i]
    <3>1. results[job[w]] = NoResult /\ results \in [Targets -> Result \cup {NoResult}]
      BY <2>1 DEF IInv, TypeOK, SlotOwnership, Store, Busy
    <3> QED BY <3>1, <2>1 DEF Store
  <2>2. ASSUME NEW w \in Workers,
               Dispatch(w) \/ Expire(w) \/ (WorkerStep(w) /\ ~Store(w))
        PROVE  results'[i] = results[i]
    BY <2>2 DEF Dispatch, WorkerStep, StartTimer, QuerySucceeds, QueryFails, Revoke,
                LateCheck, WorkerExits, Expire
  <2>3. CASE CloseJobs \/ AllExited \/ Interrupt \/ Report \/ UNCHANGED vars
    BY <2>3 DEF CloseJobs, AllExited, Interrupt, Report, Tally, TallyDone, RenderBatch,
                RenderNext, RenderDone, Diagnose, DiagnoseDone, WriteFails, vars
  <2> QED BY <2>1, <2>2, <2>3 DEF Next, Terminated
<1> QED BY <1>1, InvariantHolds, PTL DEF Spec, ResultsAreFinal

-----------------------------------------------------------------------------
(* The batch implements BatchPromise.                                      *)

\* The outcome of an input, as the mapping shows it.
Outcome == [i \in Targets |-> OutcomeOf(results[i])]

\* The two statements of the precedence agree once every input is settled.
LEMMA WorstAgree ==
    IInv /\ main = "done" => Promise!Worst = WorstCode
<1> SUFFICES ASSUME IInv, main = "done" PROVE Promise!Worst = WorstCode
  OBVIOUS
<1> DEFINE Some(s) == \E i \in Targets : ~results[i].err /\ results[i].chain.health = s
<1> DEFINE SomeError == \E i \in Targets : results[i].err
<1>1. \A i \in Targets : results[i] # NoResult
  <2> SUFFICES ASSUME NEW i \in Targets PROVE results[i] # NoResult
    OBVIOUS
  <2>1. next = NTargets + 1 /\ \A w \in Workers : ~Busy(w)
    BY DEF IInv, JobsAccounted, Closed, Reporting, Busy
  <2> QED BY <2>1, BatchAssumption DEF IInv, JobsAccounted, Targets
<1>2. \A i \in Targets :
         Outcome[i] = IF results[i].err THEN "error" ELSE results[i].chain.health
  BY <1>1 DEF Outcome, OutcomeOf
<1>3. \A i \in Targets : ~results[i].err => results[i].chain.health # "error"
  BY <1>1 DEF IInv, TruncationSeen, Chain, HealthStatus
<1>4. /\ Promise!Seen(1) <=> SomeError
      /\ Promise!Seen(2) <=> Some("revocation_error")
      /\ Promise!Seen(3) <=> Some("insecure")
      /\ Promise!Seen(4) <=> Some("expiring")
  BY <1>2, <1>3 DEF Promise!Seen, Promise!Inputs, Promise!Precedence, Targets, Outcome
<1> DEFINE First(k) == Promise!Seen(k) /\ \A j \in 1..4 : j < k => ~Promise!Seen(j)
<1>5. \A k, l \in 1..4 : First(k) /\ First(l) => k = l
  BY DEF First
<1>6. ASSUME NEW k \in 1..4, First(k) PROVE Promise!Worst = Promise!CodeAt[k]
  <2>1. (CHOOSE l \in 1..4 : First(l)) = k
    BY <1>5, <1>6
  <2>2. ~(\A l \in 1..4 : ~Promise!Seen(l))
    BY <1>6
  <2> QED BY <2>1, <2>2 DEF Promise!Worst
<1>7. (\A k \in 1..4 : ~Promise!Seen(k)) => Promise!Worst = 0
  BY DEF Promise!Worst
<1> HIDE DEF Some, SomeError
<1>8. WorstCode = IF SomeError THEN 1 ELSE IF Some("revocation_error") THEN 3
             ELSE IF Some("insecure") THEN 2 ELSE IF Some("expiring") THEN 4 ELSE 0
  BY DEF WorstCode, Some, SomeError
<1>9. CASE SomeError
  BY <1>4, <1>6, <1>8, <1>9 DEF Promise!CodeAt
<1>10. CASE ~SomeError /\ Some("revocation_error")
  BY <1>4, <1>6, <1>8, <1>10 DEF Promise!CodeAt
<1>11. CASE ~SomeError /\ ~Some("revocation_error") /\ Some("insecure")
  BY <1>4, <1>6, <1>8, <1>11 DEF Promise!CodeAt
<1>12. CASE /\ ~SomeError /\ ~Some("revocation_error") /\ ~Some("insecure")
            /\ Some("expiring")
  BY <1>4, <1>6, <1>8, <1>12 DEF Promise!CodeAt
<1>13. CASE /\ ~SomeError /\ ~Some("revocation_error") /\ ~Some("insecure")
            /\ ~Some("expiring")
  BY <1>4, <1>7, <1>8, <1>13
<1> QED BY <1>9, <1>10, <1>11, <1>12, <1>13

\* Every behaviour of the batch is one BatchPromise allows: storing a result
\* settles its input, the last step of finishResults is the exit, and nothing
\* else shows.
THEOREM BatchKeepsPromise == Spec => Promise!SafetySpec
<1>0. ((IInv /\ main = "done" => exit = WorstCode) /\
       (IInv /\ main = "done" => Promise!Worst = WorstCode))'
  BY ExitIsWorst, WorstAgree, PTL
<1>1. Init => Promise!Init
  <2> SUFFICES ASSUME Init PROVE Promise!Init
    OBVIOUS
  <2>1. \A i \in Targets : OutcomeOf(results[i]) = "pending"
    BY DEF Init, OutcomeOf
  <2>2. Promise!Inputs = Targets
    BY DEF Promise!Inputs, Targets
  <2>3. main # "done"
    BY DEF Init
  <2> QED BY <2>1, <2>2, <2>3 DEF Promise!Init, ExitOK
<1>2. IInv /\ IInv' /\ [Next]_vars => [Promise!Next]_(Promise!vars)
  <2> SUFFICES ASSUME IInv, IInv', [Next]_vars PROVE [Promise!Next]_(Promise!vars)
    OBVIOUS
  <2> DEFINE Status == IF main = "done" THEN ProcessStatus ELSE ExitOK
  <2>1. ASSUME NEW w \in Workers, Store(w) PROVE Promise!Next
    <3>1. /\ job[w] \in Targets /\ results[job[w]] = NoResult /\ main # "done"
          /\ pc[w] = "store"
      BY <2>1 DEF Store, IInv, TypeOK, JobsAccounted, SlotOwnership, Busy, Targets, Reporting
    <3> DEFINE r == [endpoint |-> job[w], chain |-> chain[w], err |-> err[w]]
    <3>2. r # NoResult /\ OutcomeOf(r) \in Promise!Settled
      <4>1. r # NoResult
        BY <3>1 DEF NoResult, Targets
      <4>2. ~err[w] => chain[w].health \in HealthStatus
        BY <3>1 DEF IInv, TruncationSeen, Chain
      <4>3. OutcomeOf(r) = IF err[w] THEN "error" ELSE chain[w].health
        BY <4>1 DEF OutcomeOf
      <4> HIDE DEF r
      <4> QED BY <4>1, <4>2, <4>3 DEF Promise!Settled, Promise!HealthStatus, HealthStatus
    <3>3. results' = [results EXCEPT ![job[w]] = r] /\ UNCHANGED <<main, exit, runErr>>
      BY <2>1 DEF Store, reportVars
    <3> HIDE DEF r
    <3>4. Outcome' = [Outcome EXCEPT ![job[w]] = OutcomeOf(r)]
      BY <3>1, <3>3 DEF Outcome, IInv, TypeOK
    <3>5. Outcome[job[w]] = "pending"
      BY <3>1 DEF Outcome, OutcomeOf
    <3>6. Promise!Settle(job[w])
      BY <3>1, <3>2, <3>3, <3>4, <3>5 DEF Promise!Settle, Outcome, ProcessStatus
    <3> QED BY <3>1, <3>6 DEF Promise!Next, Promise!Inputs, Targets
  <2>2. ASSUME main # "done", main' = "done", UNCHANGED results, main \in Reporting
        PROVE  Promise!Next
    <3>1. \A i \in Targets : Outcome[i] # "pending"
      <4> SUFFICES ASSUME NEW i \in Targets PROVE Outcome[i] # "pending"
        OBVIOUS
      <4>1. next = NTargets + 1 /\ \A w \in Workers : ~Busy(w)
        BY <2>2 DEF IInv, JobsAccounted, Closed, Reporting, Busy
      <4>2. results[i] # NoResult
        BY <4>1, BatchAssumption DEF IInv, JobsAccounted, Targets
      <4>3. ~results[i].err => results[i].chain.health \in HealthStatus
        BY <4>2 DEF IInv, TruncationSeen, Chain
      <4> QED BY <4>2, <4>3 DEF Outcome, OutcomeOf, HealthStatus
    <3>2. ProcessStatus' \in {WorstCode', 1}
      BY <1>0, <2>2 DEF ProcessStatus, ExitRuntimeError
    <3>3. Promise!Worst' = WorstCode'
      BY <1>0, <2>2
    <3>4. Promise!Worst' = Promise!Worst
      BY <2>2 DEF Promise!Worst, Promise!Seen
    <3>5. Promise!Exit
      BY <2>2, <3>1, <3>2, <3>3, <3>4
         DEF Promise!Exit, Outcome, Promise!Inputs, Targets
    <3> QED BY <3>5 DEF Promise!Next
  <2>3. ASSUME UNCHANGED <<results, exit, runErr>>, main' = "done" <=> main = "done"
        PROVE  UNCHANGED Promise!vars
    BY <2>3 DEF Promise!vars, ProcessStatus
  <2>4. CASE Tally \/ TallyDone \/ RenderNext \/ RenderDone \/ Diagnose
    BY <2>4 DEF Tally, TallyDone, RenderNext, RenderDone, Diagnose, Promise!vars
  <2>5. CASE RenderBatch \/ DiagnoseDone \/ WriteFails
    <3>1. /\ main \in {"render", "diagnose"} /\ main' = "done" /\ UNCHANGED results
      BY <2>5 DEF RenderBatch, DiagnoseDone, WriteFails
    <3> QED BY <3>1, <2>2 DEF Reporting
  <2>6. ASSUME NEW w \in Workers, Dispatch(w) \/ Expire(w) \/ (WorkerStep(w) /\ ~Store(w))
        PROVE  UNCHANGED <<results, exit, runErr, main>>
    BY <2>6 DEF Dispatch, WorkerStep, StartTimer, QuerySucceeds, QueryFails, Revoke,
                LateCheck, WorkerExits, Expire, reportVars
  <2>7. CASE CloseJobs \/ AllExited \/ Interrupt \/ UNCHANGED vars
    BY <2>7, <2>3 DEF CloseJobs, AllExited, Interrupt, reportVars, vars
  <2> QED BY <2>1, <2>3, <2>4, <2>5, <2>6, <2>7 DEF Next, Report, Terminated
<1>3. []IInv /\ [][Next]_vars => [][Promise!Next]_(Promise!vars)
  BY <1>2, PTL
<1> QED BY <1>1, <1>3, InvariantHolds, PTL DEF Spec, Promise!SafetySpec
=============================================================================
