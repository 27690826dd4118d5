---------------------------- MODULE CommandProofs ----------------------------
(***************************************************************************)
(* Proofs about Command, for inputs of any length.                         *)
(***************************************************************************)
EXTENDS Command, TLAPS

-----------------------------------------------------------------------------
(* The inductive invariant, in named parts.                                *)

\* The input has been read to its end and consists of what it should.
Sound == ended /\ got = sent /\ got > 0 /\ 1..got \cap run.bad = {}

\* What has been checked when RunE has come to a point of its course; the two
\* commands come by the CA file at different points.
Checked ==
    /\ run.source = "args" => ended
    /\ pc \notin {"flags", "exited"} => run.flags
    /\ pc = "terminal" => run.command = "pem"
    /\ pc = "parse" => ended /\ got = sent
    /\ run.command = "client" /\ pc \in {"ca"} \cup Working => Sound
    /\ run.command = "client" /\ pc \in Working => run.ca # "bad"
    /\ run.command = "pem" /\ pc \in {"read", "blocked", "parse"} \cup Working =>
          run.ca # "bad"
    /\ run.command = "pem" /\ (pc = "work" \/ (pc = "report" /\ results[1] # "error")) =>
          Sound

\* Before the work nothing is settled and nobody has been talked to, and the
\* report comes when everything is.
Settled ==
    /\ pc \notin Working \cup {"exited"} =>
          traffic = {} /\ \A i \in Pieces \cup {1} : results[i] = "pending"
    /\ pc = "report" => \A i \in Items : results[i] # "pending"

\* The context that ended early is still done, so that nothing began.
Interrupted ==
    early => /\ ContextDone
             /\ traffic = {}
             /\ \A i \in Pieces \cup {1} : results[i] # "ok"

\* At the end the status says how the inputs fared.
Concluded ==
    pc = "exited" =>
        \/ status = ExitRuntimeError
        \/ /\ run.flags /\ run.ca # "bad" /\ Sound
           /\ \A i \in Items : results[i] = "ok"

Inv ==
    /\ TypeOK /\ Checked /\ Settled /\ Interrupted /\ Concluded
    /\ ValidBeforeTraffic

USE CommandAssumption DEF Pieces, Items, Working, PC, ContextDone, StdinClosed, Interrupt,
    ExitCode, ExitOK, ExitRuntimeError, ExitInsecure, ExitRevocationError, ExitExpiring

-----------------------------------------------------------------------------
\* No input, no connection, no result and no Ctrl-C at the start.
LEMMA InvInit == Init => Inv
<1> SUFFICES ASSUME Init PROVE Inv
  OBVIOUS
<1>1. run \in Runs /\ sent \in 0..MaxPieces /\ ended \in BOOLEAN
  BY DEF Init
<1>2. pc \in PC /\ interrupt \in Interrupt /\ traffic \subseteq Items /\ early \in BOOLEAN
  BY DEF Init
<1>2c. status \in ExitCode /\ got \in 0..sent
  BY <1>1 DEF Init
<1>2a. results \in [Pieces \cup {1} -> {"pending", "ok", "error"}]
  BY DEF Init
<1>2b. TypeOK
  BY <1>1, <1>2, <1>2a, <1>2c DEF TypeOK
<1>3. Checked /\ Settled
  BY <1>1 DEF Init, Checked, Settled
<1>4. Interrupted /\ Concluded /\ ValidBeforeTraffic
  BY DEF Init, Interrupted, Concluded, ValidBeforeTraffic
<1> QED
  BY <1>2b, <1>3, <1>4 DEF Inv

\* Every action of RunE, of Ctrl-C and of the writer preserves the invariant.
LEMMA InvNext == Inv /\ [Next]_vars => Inv'
<1> SUFFICES ASSUME Inv, [Next]_vars PROVE Inv'
  OBVIOUS
<1> USE DEF Inv, TypeOK, Checked, Settled, Interrupted, Concluded, ValidBeforeTraffic, Sound,
            Goto, Refuse, Proceed
<1>1. CASE CheckFlags
  <2>1. TypeOK'
    <3>1. UNCHANGED <<run, sent, ended, interrupt, results, traffic, early>> /\ traffic = {}
      BY <1>1 DEF CheckFlags
    <3>2. pc' \in PC /\ status' \in ExitCode
      BY <1>1 DEF CheckFlags
    <3>3. got' \in 0..sent
      BY <1>1 DEF CheckFlags
    <3> QED
      BY <3>1, <3>2, <3>3
  <2>2. Checked'
    BY <1>1 DEF CheckFlags, Runs
  <2>3. Settled'
    BY <1>1 DEF CheckFlags, Runs
  <2>4. Interrupted'
    BY <1>1 DEF CheckFlags, Runs
  <2>5. Concluded'
    BY <1>1 DEF CheckFlags, Runs
  <2>6. ValidBeforeTraffic'
    BY <1>1 DEF CheckFlags, Runs
  <2> QED
    BY <2>1, <2>2, <2>3, <2>4, <2>5, <2>6
<1>2. CASE CheckTerminal
  <2>1. TypeOK'
    BY <1>2 DEF CheckTerminal
  <2>2. Checked'
    BY <1>2 DEF CheckTerminal
  <2>3. Settled'
    BY <1>2 DEF CheckTerminal
  <2>4. Interrupted'
    BY <1>2 DEF CheckTerminal
  <2>5. Concluded'
    BY <1>2 DEF CheckTerminal
  <2>6. ValidBeforeTraffic'
    BY <1>2 DEF CheckTerminal
  <2> QED
    BY <2>1, <2>2, <2>3, <2>4, <2>5, <2>6
<1>3. CASE LoadCA
  <2>1. TypeOK'
    BY <1>3 DEF LoadCA, Runs
  <2>2. Checked'
    BY <1>3 DEF LoadCA, Runs
  <2>3. Settled'
    BY <1>3 DEF LoadCA, Runs
  <2>4. Interrupted'
    BY <1>3 DEF LoadCA, Runs
  <2>5. Concluded'
    BY <1>3 DEF LoadCA, Runs
  <2>6. ValidBeforeTraffic'
    BY <1>3 DEF LoadCA, Runs
  <2> QED
    BY <2>1, <2>2, <2>3, <2>4, <2>5, <2>6
<1>4. CASE EnterRead
  <2>1. TypeOK'
    BY <1>4 DEF EnterRead, ReadFails, Runs
  <2>2. Checked'
    BY <1>4 DEF EnterRead, ReadFails, Runs
  <2>3. Settled'
    BY <1>4 DEF EnterRead, ReadFails, Runs
  <2>4. Interrupted'
    BY <1>4 DEF EnterRead, ReadFails, Runs
  <2>5. Concluded'
    BY <1>4 DEF EnterRead, ReadFails, Runs
  <2>6. ValidBeforeTraffic'
    BY <1>4 DEF EnterRead, ReadFails, Runs
  <2> QED
    BY <2>1, <2>2, <2>3, <2>4, <2>5, <2>6
<1>5. CASE ReadData
  BY <1>5 DEF ReadData
<1>6. CASE ReadEOF
  BY <1>6 DEF ReadEOF
<1>7. CASE ReadAborted
  BY <1>7 DEF ReadAborted, ReadFails, Runs
<1>8. CASE Parse
  <2>1. TypeOK'
    BY <1>8 DEF Parse, ReadFails, Runs
  <2>2. Checked'
    <3>1. run.command \in {"client", "pem"} /\ got \in Nat /\ 1 \in DOMAIN results
      BY DEF Runs
    <3>2. CASE got = 0 \/ 1..got \cap run.bad # {}
      BY <1>8, <3>1, <3>2 DEF Parse, ReadFails
    <3>3. CASE got # 0 /\ 1..got \cap run.bad = {}
      <4>1. Sound
        BY <1>8, <3>1, <3>3 DEF Parse
      <4>2. Sound' /\ run' = run /\ ended' = ended /\ run.flags
        BY <1>8, <4>1, <3>3 DEF Parse
      <4>3. pc' = IF run.command = "client" THEN "ca" ELSE "work"
        BY <1>8, <3>3 DEF Parse
      <4>4. run.command = "pem" => run.ca # "bad"
        BY <1>8 DEF Parse
      <4>5. run.source = "args" => ended
        OBVIOUS
      <4> QED
        BY <4>2, <4>3, <4>4, <4>5, <3>1
    <3> QED
      BY <3>2, <3>3
  <2>3. Settled'
    BY <1>8 DEF Parse, ReadFails, Runs
  <2>4. Interrupted'
    BY <1>8 DEF Parse, ReadFails, Runs
  <2>5. Concluded'
    BY <1>8 DEF Parse, ReadFails, Runs
  <2>6. ValidBeforeTraffic'
    BY <1>8 DEF Parse, ReadFails, Runs
  <2> QED
    BY <2>1, <2>2, <2>3, <2>4, <2>5, <2>6
<1>9. CASE AllSettled
  BY <1>9 DEF AllSettled
<1>10. CASE Report
  <2>1. TypeOK'
    BY <1>10 DEF Report, Runs
  <2>2. Checked'
    BY <1>10 DEF Report, Runs
  <2>3. Settled'
    BY <1>10 DEF Report, Runs
  <2>4. Interrupted'
    BY <1>10 DEF Report, Runs
  <2>5. Concluded'
    BY <1>10 DEF Report, Runs
  <2>6. ValidBeforeTraffic'
    BY <1>10 DEF Report, Runs
  <2> QED
    BY <2>1, <2>2, <2>3, <2>4, <2>5, <2>6
<1>11. ASSUME NEW i \in Pieces \cup {1}, Connect(i) PROVE Inv'
  <2>1. TypeOK'
    BY <1>11 DEF Connect, Runs
  <2>2. Checked'
    BY <1>11 DEF Connect, Runs
  <2>3. Settled'
    BY <1>11 DEF Connect, Runs
  <2>4. Interrupted'
    BY <1>11 DEF Connect, Runs
  <2>5. Concluded'
    BY <1>11 DEF Connect, Runs
  <2>6. ValidBeforeTraffic'
    BY <1>11 DEF Connect, Runs
  <2> QED
    BY <2>1, <2>2, <2>3, <2>4, <2>5, <2>6
<1>12. ASSUME NEW i \in Pieces \cup {1}, Settle(i) PROVE Inv'
  <2>1. TypeOK'
    BY <1>12 DEF Settle, Runs
  <2>2. Checked'
    BY <1>12 DEF Settle, Runs
  <2>3. Settled'
    BY <1>12 DEF Settle, Runs
  <2>4. Interrupted'
    BY <1>12 DEF Settle, Runs
  <2>5. Concluded'
    BY <1>12 DEF Settle, Runs
  <2>6. ValidBeforeTraffic'
    BY <1>12 DEF Settle, Runs
  <2> QED
    BY <2>1, <2>2, <2>3, <2>4, <2>5, <2>6
<1>13. CASE Press \/ Cancel \/ CloseStdin
  <2>1. TypeOK'
    BY <1>13 DEF Press, Cancel, CloseStdin
  <2>2. Checked'
    BY <1>13 DEF Press, Cancel, CloseStdin
  <2>3. Settled'
    BY <1>13 DEF Press, Cancel, CloseStdin
  <2>4. Interrupted'
    BY <1>13 DEF Press, Cancel, CloseStdin
  <2>5. Concluded'
    BY <1>13 DEF Press, Cancel, CloseStdin
  <2>6. ValidBeforeTraffic'
    BY <1>13 DEF Press, Cancel, CloseStdin
  <2> QED
    BY <2>1, <2>2, <2>3, <2>4, <2>5, <2>6
<1>14. CASE WriterWrites \/ WriterEnds
  <2>1. TypeOK'
    <3>1. CASE WriterWrites
      <4>1. sent' = sent + 1 /\ sent < MaxPieces /\ ended' = ended
        BY <3>1 DEF WriterWrites
      <4> QED
        BY <3>1, <4>1 DEF WriterWrites
    <3>2. CASE WriterEnds
      <4>1. sent' = sent /\ ended' = TRUE
        BY <3>2 DEF WriterEnds
      <4> QED
        BY <3>2, <4>1 DEF WriterEnds
    <3> QED
      BY <1>14, <3>1, <3>2
  <2>2. Checked'
    BY <1>14 DEF WriterWrites, WriterEnds
  <2>3. Settled'
    BY <1>14 DEF WriterWrites, WriterEnds
  <2>4. Interrupted'
    BY <1>14 DEF WriterWrites, WriterEnds
  <2>5. Concluded'
    BY <1>14 DEF WriterWrites, WriterEnds
  <2>6. ValidBeforeTraffic'
    BY <1>14 DEF WriterWrites, WriterEnds
  <2> QED
    BY <2>1, <2>2, <2>3, <2>4, <2>5, <2>6
<1>15. CASE Exited \/ UNCHANGED vars
  <2>1. TypeOK'
    BY <1>15 DEF Exited, vars
  <2>2. Checked'
    BY <1>15 DEF Exited, vars
  <2>3. Settled'
    BY <1>15 DEF Exited, vars
  <2>4. Interrupted'
    BY <1>15 DEF Exited, vars
  <2>5. Concluded'
    BY <1>15 DEF Exited, vars
  <2>6. ValidBeforeTraffic'
    BY <1>15 DEF Exited, vars
  <2> QED
    BY <2>1, <2>2, <2>3, <2>4, <2>5, <2>6
<1> QED
  BY <1>1, <1>2, <1>3, <1>4, <1>5, <1>6, <1>7, <1>8, <1>9, <1>10, <1>11, <1>12,
     <1>13, <1>14, <1>15 DEF Next, Step

\* The invariant holds of every run of a command.
THEOREM Invariance == Spec => []Inv
<1>1. Init => Inv
  BY InvInit
<1>2. Inv /\ [Next]_vars => Inv'
  BY InvNext
<1> QED
  BY <1>1, <1>2, PTL DEF Spec

\* The command and its reading are type correct.
THEOREM TypeCorrect == Spec => []TypeOK
  BY Invariance, PTL DEF Inv

\* Nothing is sent on behalf of an invocation that turns out to be invalid,
\* however long its input (client.go:79-114, pem.go:22-46).
THEOREM NoTrafficBeforeValid == Spec => []ValidBeforeTraffic
  BY Invariance, PTL DEF Inv

\* A run that is interrupted before its work fails and has touched no network
\* (root.go:74, client.go:174, pem.go:59).
THEOREM InterruptionFails == Spec => []InterruptedReadFails
<1>1. Inv => InterruptedReadFails
  BY DEF Inv, TypeOK, Interrupted, Concluded, Checked, Sound, InterruptedReadFails, Runs
<1> QED
  BY <1>1, Invariance, PTL

\* Every other exit code than 1 follows a complete inspection of every input.
THEOREM CodesMeanInspected == Spec => []OtherCodesMeanInspected
<1>1. Inv => OtherCodesMeanInspected
  BY DEF Inv, Concluded, Sound, OtherCodesMeanInspected
<1> QED
  BY <1>1, Invariance, PTL
=============================================================================
