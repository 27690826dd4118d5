---------------------------- MODULE ReleaseProofs ----------------------------
(***************************************************************************)
(* Proofs about Release, for every history of main, every set of broken    *)
(* commits and any number of failures and re-runs.                         *)
(***************************************************************************)
EXTENDS Release, TLAPS

Steps == {"", "checkout", "test", "tag", "view", "publish", "upload", "complete", "undraft"}

-----------------------------------------------------------------------------
(* The inductive invariant, in named parts.                                *)

RunType == run \in [sha : 0..Last, step : Steps, seen : BOOLEAN, publish : BOOLEAN]

Waiting == pending \in 0..Last /\ (pending # NoCommit => Running)

CountersOK ==
    /\ main \in 0..Last /\ failed \subseteq Commits
    /\ faults \in 0..MaxFaults /\ dispatches \in 0..MaxDispatches

RemoteOK ==
    /\ tag \in [Versions -> 0..Last]
    /\ image \in [Versions -> 0..Last] /\ assets \in [Versions -> 0..Last]
    /\ release \in [Versions -> {"none", "draft", "published"}]
    /\ whole \subseteq Versions /\ blindly \subseteq Versions /\ latest \in 0..Last

\* A tag of a version names a commit that has it.
TagsOfVersion == \A v \in Versions : tag[v] = NoCommit \/ VersionOf[tag[v]] = v

\* What the run knows of the tag is still true when it uses it: there is no
\* other run that could have moved it.
TagKnown ==
    Running =>
        /\ run.step \in {"test", "tag"} =>
              tag[V] = IF run.seen THEN run.sha ELSE NoCommit
        /\ run.step \in {"view", "publish", "upload", "complete", "undraft"} =>
              tag[V] = run.sha
        /\ run.step = "tag" => run.sha \notin Broken

\* A run only publishes over a published release if gh failed to mention it, and
\* by then it has pushed its image.
Guarded ==
    Running =>
        /\ run.step = "publish" /\ run.publish => release[V] # "published" \/ V \in blindly
        /\ run.step \in {"upload", "complete", "undraft"} =>
              /\ release[V] # "published" \/ V \in blindly
              /\ image[V] # NoCommit
        /\ run.step = "undraft" => V \in whole

Inv ==
    /\ RunType /\ Waiting /\ CountersOK /\ RemoteOK /\ TagsOfVersion
    /\ TagKnown /\ OneTestedCommit /\ Guarded /\ PublishedStaysWhole

USE DEF NoCommit, Running

-----------------------------------------------------------------------------
\* A run has a commit of main and with it a version.
LEMMA VersionOfRun ==
    ASSUME RunType, Running
    PROVE  run.sha \in Commits /\ V \in Versions /\ V = VersionOf[run.sha]
<1>1. run.sha \in 1..Last
  BY ReleaseAssumption DEF RunType
<1> QED
  BY <1>1, ReleaseAssumption DEF V, Commits

\* The next step belongs to the same run.
LEMMA GotoKeeps ==
    ASSUME RunType, NEW s \in Steps, Goto(s)
    PROVE  /\ RunType' /\ run'.sha = run.sha /\ run'.step = s
           /\ run'.seen = run.seen /\ run'.publish = run.publish
           /\ V' = V /\ pending' = pending /\ failed' = failed
  BY DEF RunType, Goto, V

\* A run begins at its checkout.
LEMMA Begins ==
    ASSUME NEW c \in Commits, run' = [NoRun EXCEPT !.sha = c, !.step = "checkout"]
    PROVE  RunType' /\ run'.sha = c /\ run'.step = "checkout"
<1>1. c \in 0..Last
  BY ReleaseAssumption DEF Commits
<1>2. "checkout" \in Steps
  BY DEF Steps
<1> QED
  BY <1>1, <1>2 DEF RunType, NoRun

\* There is a run, without a commit, when there is none.
LEMMA Rests ==
    ASSUME run' = NoRun
    PROVE  RunType' /\ run'.sha = 0
<1>1. 0 \in 0..Last
  BY ReleaseAssumption
<1>2. "" \in Steps
  BY DEF Steps
<1> QED
  BY <1>1, <1>2 DEF RunType, NoRun

\* Nothing is tagged and nothing runs at the start.
LEMMA InvInit == Init => Inv
<1> SUFFICES ASSUME Init PROVE Inv
  OBVIOUS
<1> USE ReleaseAssumption DEF Init
<1>1. RunType
  <2>1. 0 \in 0..Last /\ "" \in Steps
    BY DEF Steps
  <2> QED
    BY <2>1 DEF RunType, NoRun
<1>2. Waiting
  BY DEF Waiting
<1>3. CountersOK
  BY DEF CountersOK, Commits
<1>4. RemoteOK
  BY DEF RemoteOK
<1>5. TagsOfVersion
  BY DEF TagsOfVersion
<1>6. run.sha = 0
  BY DEF NoRun
<1>7. TagKnown
  BY <1>6, Zenon DEF TagKnown
<1>8. OneTestedCommit
  <2>1. 0 \notin Broken
    BY DEF Commits
  <2> QED
    BY <2>1, Zenon DEF OneTestedCommit
<1>9. Guarded
  BY <1>6, Zenon DEF Guarded
<1>10. PublishedStaysWhole
  BY DEF PublishedStaysWhole
<1> QED
  BY <1>1, <1>2, <1>3, <1>4, <1>5, <1>7, <1>8, <1>9, <1>10 DEF Inv

\* What is out there stays as it is while a run begins or ends.
LEMMA RemoteKeeps ==
    ASSUME Inv, UNCHANGED <<remote, blindly>>
    PROVE  RemoteOK' /\ TagsOfVersion' /\ OneTestedCommit' /\ PublishedStaysWhole'
  BY DEF Inv, remote, RemoteOK, TagsOfVersion, OneTestedCommit, PublishedStaysWhole

\* A run that begins, or waits, knows nothing yet.
LEMMA QueueKeeps ==
    ASSUME Inv, NEW c \in Commits, Queue(c), main' \in 0..Last, dispatches' \in 0..MaxDispatches,
           UNCHANGED <<remote, faults, blindly>>
    PROVE  Inv'
<1>1. RemoteOK' /\ TagsOfVersion' /\ OneTestedCommit' /\ PublishedStaysWhole'
  BY RemoteKeeps
<1>2. failed' \subseteq Commits
  <2>1. {pending} \ {0, c} \subseteq Commits
    BY ReleaseAssumption DEF Inv, Waiting, Commits
  <2> QED
    BY <2>1 DEF Queue, Inv, CountersOK
<1>3. CountersOK'
  BY <1>2 DEF Inv, CountersOK
<1>4. c \in 0..Last /\ c # 0
  BY ReleaseAssumption DEF Commits
<1>5. CASE ~Running
  <2>1. RunType' /\ run'.sha = c /\ run'.step = "checkout" /\ pending' = pending
    BY <1>5, Begins DEF Queue
  <2>2. Waiting'
    BY <1>4, <2>1, <1>5 DEF Inv, Waiting
  <2>3. TagKnown' /\ Guarded'
    BY <2>1 DEF TagKnown, Guarded
  <2> QED
    BY <1>1, <1>3, <2>1, <2>2, <2>3 DEF Inv
<1>6. CASE Running
  <2>1. run' = run /\ pending' = c
    BY <1>6 DEF Queue
  <2>2. RunType' /\ Waiting'
    BY <1>4, <1>6, <2>1 DEF Inv, RunType, Waiting
  <2>3. TagKnown'
    BY <2>1 DEF Inv, TagKnown, V, remote
  <2>4. Guarded'
    BY <2>1 DEF Inv, Guarded, V, remote
  <2> QED
    BY <1>1, <1>3, <2>2, <2>3, <2>4 DEF Inv
<1> QED
  BY <1>5, <1>6

\* Nor does the one that begins because another has ended.
LEMMA EndFacts ==
    ASSUME Inv, Running, NEW ok \in BOOLEAN, End(ok)
    PROVE  RunType' /\ Waiting' /\ TagKnown' /\ Guarded' /\ failed' \subseteq Commits
<1>1. failed' \subseteq Commits
  BY VersionOfRun DEF End, Inv, CountersOK
<1>2. CASE pending = 0
  <2>1. run' = NoRun /\ pending' = 0
    BY <1>2 DEF End
  <2>2. RunType' /\ run'.sha = 0
    BY <2>1, Rests
  <2>3. Waiting'
    BY <2>1, ReleaseAssumption DEF Waiting
  <2>4. TagKnown' /\ Guarded'
    BY <2>2, Zenon DEF TagKnown, Guarded
  <2> QED
    BY <1>1, <2>2, <2>3, <2>4
<1>3. CASE pending # 0
  <2>1. pending \in Commits
    BY <1>3, ReleaseAssumption DEF Inv, Waiting, Commits
  <2>2. run' = [NoRun EXCEPT !.sha = pending, !.step = "checkout"] /\ pending' = 0
    BY <1>3 DEF End
  <2>3. RunType' /\ run'.sha = pending /\ run'.step = "checkout"
    BY <2>1, <2>2, Begins
  <2>4. Waiting'
    BY <2>2, ReleaseAssumption DEF Waiting
  <2>5. TagKnown' /\ Guarded'
    BY <2>3 DEF TagKnown, Guarded
  <2> QED
    BY <1>1, <2>3, <2>4, <2>5
<1> QED
  BY <1>2, <1>3

\* The end of a run by itself.
LEMMA EndKeeps ==
    ASSUME Inv, Running, NEW ok \in BOOLEAN, End(ok), faults' \in 0..MaxFaults,
           UNCHANGED <<main, remote, blindly, dispatches>>
    PROVE  Inv'
<1>1. RemoteOK' /\ TagsOfVersion' /\ OneTestedCommit' /\ PublishedStaysWhole'
  BY RemoteKeeps
<1>2. RunType' /\ Waiting' /\ TagKnown' /\ Guarded' /\ failed' \subseteq Commits
  BY EndFacts
<1>3. CountersOK'
  BY <1>2 DEF Inv, CountersOK
<1> QED
  BY <1>1, <1>2, <1>3 DEF Inv

\* Every event and every step of the workflow preserves the invariant.
LEMMA InvNext == Inv /\ [Next]_vars => Inv'
<1> SUFFICES ASSUME Inv, [Next]_vars PROVE Inv'
  OBVIOUS
<1>1. CASE Push
  <2>1. main' \in Commits /\ main' \in 0..Last
    BY <1>1, ReleaseAssumption DEF Push, Inv, CountersOK, Commits
  <2>2. CASE Queue(main')
    BY <1>1, <2>1, <2>2, QueueKeeps DEF Push, Inv, CountersOK
  <2>3. CASE UNCHANGED <<run, pending, failed>>
    <3>1. RemoteOK' /\ TagsOfVersion' /\ OneTestedCommit' /\ PublishedStaysWhole'
      BY <1>1, RemoteKeeps DEF Push
    <3>2. RunType' /\ Waiting' /\ CountersOK'
      BY <1>1, <2>1, <2>3 DEF Push, Inv, RunType, Waiting, CountersOK
    <3>3. TagKnown' /\ Guarded'
      BY <1>1, <2>3 DEF Push, Inv, TagKnown, Guarded, V, remote
    <3> QED
      BY <3>1, <3>2, <3>3 DEF Inv
  <2> QED
    BY <1>1, <2>2, <2>3 DEF Push
<1>2. CASE Dispatch
  <2>1. main \in Commits /\ dispatches' \in 0..MaxDispatches
    BY <1>2, ReleaseAssumption DEF Dispatch, Inv, CountersOK, Commits
  <2> QED
    BY <1>2, <2>1, QueueKeeps DEF Dispatch, Inv, CountersOK
<1>3. ASSUME NEW c \in Commits, Rerun(c) PROVE Inv'
  BY <1>3, QueueKeeps DEF Rerun, Inv, CountersOK
<1>4. CASE Fault
  <2>1. faults' \in 0..MaxFaults
    BY <1>4, ReleaseAssumption DEF Fault, Inv, CountersOK
  <2> QED
    BY <1>4, <2>1, EndKeeps DEF Fault
<1>5. CASE Validate
  <2> USE <1>5 DEF Validate, At
  <2>1. Running /\ V \in Versions /\ run.sha \in Commits /\ V = VersionOf[run.sha]
    BY VersionOfRun DEF Inv
  <2>2. CASE tag[V] \in {0, run.sha}
    <3>1. /\ RunType' /\ run'.sha = run.sha /\ run'.step = "test"
          /\ run'.seen = (tag[V] # 0) /\ V' = V
      <4>1. run' = [run EXCEPT !.step = "test", !.seen = tag[V] # 0]
        BY <2>2
      <4>2. "test" \in Steps /\ (tag[V] # 0) \in BOOLEAN
        BY DEF Steps
      <4> QED
        BY <4>1, <4>2 DEF Inv, RunType, V
    <3>2. pending' = pending /\ failed' = failed
      BY <2>2
    <3>3. Waiting' /\ CountersOK'
      BY <3>1, <3>2 DEF Inv, Waiting, CountersOK
    <3>4. RemoteOK' /\ TagsOfVersion' /\ OneTestedCommit' /\ PublishedStaysWhole'
      BY RemoteKeeps
    <3>5. TagKnown'
      BY <2>2, <3>1 DEF TagKnown, remote
    <3>6. Guarded'
      BY <3>1 DEF Guarded
    <3> QED
      BY <3>1, <3>3, <3>4, <3>5, <3>6 DEF Inv
  <2>3. CASE tag[V] \notin {0, run.sha}
    BY <2>1, <2>3, EndKeeps DEF Inv, CountersOK
  <2> QED
    BY <2>2, <2>3
<1>6. CASE Test
  <2> USE <1>6 DEF Test, At
  <2>1. CASE run.sha \in Broken
    BY <2>1, EndKeeps DEF Inv, CountersOK
  <2>2. CASE run.sha \notin Broken
    <3>1. "tag" \in Steps /\ Goto("tag")
      BY <2>2 DEF Steps
    <3>2. /\ RunType' /\ run'.sha = run.sha /\ run'.step = "tag" /\ run'.seen = run.seen
          /\ V' = V /\ pending' = pending /\ failed' = failed
      BY <3>1, GotoKeeps DEF Inv
    <3>3. Waiting' /\ CountersOK'
      BY <3>2 DEF Inv, Waiting, CountersOK
    <3>4. RemoteOK' /\ TagsOfVersion' /\ OneTestedCommit' /\ PublishedStaysWhole'
      BY RemoteKeeps
    <3>5. TagKnown'
      BY <2>2, <3>2 DEF Inv, TagKnown, remote
    <3>6. Guarded'
      BY <3>2 DEF Guarded
    <3> QED
      BY <3>2, <3>3, <3>4, <3>5, <3>6 DEF Inv
  <2> QED
    BY <2>1, <2>2
<1>7. CASE Tag
  <2> USE <1>7 DEF Tag, At
  <2>1. Running /\ V \in Versions /\ run.sha \in Commits /\ V = VersionOf[run.sha]
    BY VersionOfRun DEF Inv
  <2>2. "view" \in Steps
    BY DEF Steps
  <2>3. /\ RunType' /\ run'.sha = run.sha /\ run'.step = "view" /\ run'.seen = run.seen
        /\ run'.publish = run.publish /\ V' = V /\ pending' = pending /\ failed' = failed
    BY <2>2, GotoKeeps DEF Inv
  <2>4. Waiting' /\ CountersOK'
    BY <2>3 DEF Inv, Waiting, CountersOK
  <2>5. RemoteOK'
    <3>1. run.sha \in 0..Last
      BY <2>1, ReleaseAssumption DEF Commits
    <3>2. tag' \in [Versions -> 0..Last]
      BY <2>1, <3>1 DEF Inv, RemoteOK
    <3> QED
      BY <3>2 DEF Inv, RemoteOK
  <2>6. TagsOfVersion'
    BY <2>1, <2>3 DEF Inv, TagsOfVersion, RemoteOK
  <2>7. TagKnown'
    BY <2>1, <2>3 DEF Inv, TagKnown, RemoteOK
  <2>8. OneTestedCommit'
    <3>1. CASE run.seen
      BY <3>1 DEF Inv, OneTestedCommit
    <3>2. CASE ~run.seen
      <4>1. tag[V] = 0 /\ run.sha \notin Broken
        BY <2>1, <3>2 DEF Inv, TagKnown
      <4>2. tag' = [tag EXCEPT ![V] = run.sha] /\ assets' = assets /\ image' = image
        BY <3>2
      <4>3. ASSUME NEW v \in Versions
            PROVE  /\ assets[v] \in {0, tag'[v]} /\ image[v] \in {0, tag'[v]}
                   /\ tag'[v] \notin Broken
        <5>1. CASE v = V
          BY <4>1, <4>2, <5>1 DEF Inv, OneTestedCommit, RemoteOK
        <5>2. CASE v # V
          BY <4>2, <5>2 DEF Inv, OneTestedCommit, RemoteOK
        <5> QED
          BY <5>1, <5>2
      <4>4. (latest # NoCommit => latest = image[VersionOf[latest]])'
        BY <3>2 DEF Inv, OneTestedCommit
      <4> QED
        BY <4>3, <4>4 DEF OneTestedCommit
    <3> QED
      BY <3>1, <3>2
  <2>9. Guarded'
    BY <2>1, <2>3 DEF Inv, Guarded, RemoteOK
  <2>10. PublishedStaysWhole'
    BY <2>1, <2>3 DEF Inv, PublishedStaysWhole, RemoteOK
  <2> QED
    BY <2>3, <2>4, <2>5, <2>6, <2>7, <2>8, <2>9, <2>10 DEF Inv
<1>8. CASE View
  <2> USE <1>8 DEF View, At
  <2>1. Running /\ V \in Versions /\ run.sha \in Commits /\ V = VersionOf[run.sha]
    BY VersionOfRun DEF Inv
  <2>2. /\ RunType' /\ run'.sha = run.sha /\ run'.step = "publish"
        /\ run'.seen = run.seen /\ V' = V
    <3>1. "publish" \in Steps /\ TRUE \in BOOLEAN /\ (release[V] # "published") \in BOOLEAN
      BY DEF Steps
    <3> QED
      BY <3>1 DEF Inv, RunType, V
  <2>3. run'.publish => release[V] # "published" \/ V \in blindly'
    BY DEF Inv, RunType
  <2>4. Waiting'
    BY <2>2 DEF Inv, Waiting
  <2>5. CountersOK'
    BY ReleaseAssumption DEF Inv, CountersOK
  <2>6. blindly \subseteq blindly' /\ blindly' \subseteq Versions
    BY <2>1 DEF Inv, RemoteOK
  <2>7. RemoteOK' /\ TagsOfVersion' /\ OneTestedCommit' /\ PublishedStaysWhole'
    BY <2>6 DEF Inv, remote, RemoteOK, TagsOfVersion, OneTestedCommit, PublishedStaysWhole
  <2>8. TagKnown'
    BY <2>2 DEF Inv, TagKnown, remote
  <2>9. Guarded'
    BY <2>2, <2>3 DEF Guarded, remote
  <2> QED
    BY <2>2, <2>4, <2>5, <2>7, <2>8, <2>9 DEF Inv
<1>9. CASE PushImage
  <2> USE <1>9 DEF PushImage, At
  <2>1. Running /\ V \in Versions /\ run.sha \in Commits /\ V = VersionOf[run.sha]
    BY VersionOfRun DEF Inv
  <2>2. "upload" \in Steps
    BY DEF Steps
  <2>3. /\ RunType' /\ run'.sha = run.sha /\ run'.step = "upload" /\ run'.seen = run.seen
        /\ run'.publish = run.publish /\ V' = V /\ pending' = pending /\ failed' = failed
    BY <2>2, GotoKeeps DEF Inv
  <2>4. Waiting' /\ CountersOK'
    BY <2>3 DEF Inv, Waiting, CountersOK
  <2>5. RemoteOK'
    BY <2>1, <2>3 DEF Inv, RemoteOK, TagKnown
  <2>6. TagsOfVersion'
    BY <2>1, <2>3 DEF Inv, TagsOfVersion, RemoteOK, TagKnown
  <2>7. TagKnown'
    BY <2>1, <2>3 DEF Inv, TagKnown, RemoteOK, TagKnown
  <2>8. OneTestedCommit'
    BY <2>1, <2>3 DEF Inv, OneTestedCommit, RemoteOK, TagKnown
  <2>9. Guarded'
    BY <2>1, <2>3 DEF Inv, Guarded, RemoteOK, TagKnown
  <2>10. PublishedStaysWhole'
    BY <2>1, <2>3 DEF Inv, PublishedStaysWhole, RemoteOK, TagKnown
  <2> QED
    BY <2>3, <2>4, <2>5, <2>6, <2>7, <2>8, <2>9, <2>10 DEF Inv
<1>10. CASE Upload
  <2> USE <1>10 DEF Upload, At
  <2>1. Running /\ V \in Versions /\ run.sha \in Commits /\ V = VersionOf[run.sha]
    BY VersionOfRun DEF Inv
  <2>2. "complete" \in Steps
    BY DEF Steps
  <2>3. /\ RunType' /\ run'.sha = run.sha /\ run'.step = "complete" /\ run'.seen = run.seen
        /\ run'.publish = run.publish /\ V' = V /\ pending' = pending /\ failed' = failed
    BY <2>2, GotoKeeps DEF Inv
  <2>4. Waiting' /\ CountersOK'
    BY <2>3 DEF Inv, Waiting, CountersOK
  <2>5. RemoteOK'
    BY <2>1, <2>3 DEF Inv, RemoteOK, TagKnown, Guarded
  <2>6. TagsOfVersion'
    BY <2>1, <2>3 DEF Inv, TagsOfVersion, RemoteOK, TagKnown, Guarded
  <2>7. TagKnown'
    BY <2>1, <2>3 DEF Inv, TagKnown, RemoteOK, TagKnown, Guarded
  <2>8. OneTestedCommit'
    BY <2>1, <2>3 DEF Inv, OneTestedCommit, RemoteOK, TagKnown, Guarded
  <2>9. Guarded'
    BY <2>1, <2>3 DEF Inv, Guarded, RemoteOK, TagKnown, Guarded
  <2>10. PublishedStaysWhole'
    BY <2>1, <2>3 DEF Inv, PublishedStaysWhole, RemoteOK, TagKnown, Guarded
  <2> QED
    BY <2>3, <2>4, <2>5, <2>6, <2>7, <2>8, <2>9, <2>10 DEF Inv
<1>11. CASE Complete
  <2> USE <1>11 DEF Complete, At
  <2>1. Running /\ V \in Versions /\ run.sha \in Commits /\ V = VersionOf[run.sha]
    BY VersionOfRun DEF Inv
  <2>2. "undraft" \in Steps
    BY DEF Steps
  <2>3. /\ RunType' /\ run'.sha = run.sha /\ run'.step = "undraft" /\ run'.seen = run.seen
        /\ run'.publish = run.publish /\ V' = V /\ pending' = pending /\ failed' = failed
    BY <2>2, GotoKeeps DEF Inv
  <2>4. Waiting' /\ CountersOK'
    BY <2>3 DEF Inv, Waiting, CountersOK
  <2>5. RemoteOK'
    BY <2>1, <2>3 DEF Inv, RemoteOK
  <2>6. TagsOfVersion'
    BY <2>1, <2>3 DEF Inv, TagsOfVersion, RemoteOK
  <2>7. TagKnown'
    BY <2>1, <2>3 DEF Inv, TagKnown, RemoteOK
  <2>8. OneTestedCommit'
    BY <2>1, <2>3 DEF Inv, OneTestedCommit, RemoteOK
  <2>9. Guarded'
    BY <2>1, <2>3 DEF Inv, Guarded, RemoteOK
  <2>10. PublishedStaysWhole'
    BY <2>1, <2>3 DEF Inv, PublishedStaysWhole, RemoteOK
  <2> QED
    BY <2>3, <2>4, <2>5, <2>6, <2>7, <2>8, <2>9, <2>10 DEF Inv
<1>12. CASE Undraft
  <2> USE <1>12 DEF Undraft, At
  <2>1. Running /\ V \in Versions /\ run.sha \in Commits
    BY VersionOfRun DEF Inv
  <2>2. RunType' /\ Waiting' /\ TagKnown' /\ Guarded' /\ failed' \subseteq Commits
    BY EndFacts
  <2>3. CountersOK'
    BY <2>2 DEF Inv, CountersOK
  <2>4. RemoteOK'
    BY <2>1 DEF Inv, RemoteOK
  <2>5. TagsOfVersion' /\ OneTestedCommit'
    BY DEF Inv, TagsOfVersion, OneTestedCommit
  <2>6. image[V] # 0 /\ V \in whole
    BY DEF Inv, Guarded
  <2>7. PublishedStaysWhole'
    BY <2>1, <2>6 DEF Inv, RemoteOK, PublishedStaysWhole
  <2> QED
    BY <2>2, <2>3, <2>4, <2>5, <2>7 DEF Inv
<1>13. CASE Skip
  BY <1>13, EndKeeps DEF Skip, At, Inv, CountersOK
<1>14. CASE UNCHANGED vars
  <2>1. RemoteOK' /\ TagsOfVersion' /\ OneTestedCommit' /\ PublishedStaysWhole'
    BY <1>14, RemoteKeeps DEF vars
  <2>2. RunType' /\ Waiting' /\ CountersOK'
    BY <1>14 DEF vars, Inv, RunType, Waiting, CountersOK
  <2>3. TagKnown' /\ Guarded'
    BY <1>14 DEF vars, Inv, TagKnown, Guarded, V, remote
  <2> QED
    BY <2>1, <2>2, <2>3 DEF Inv
<1> QED
  BY <1>1, <1>2, <1>3, <1>4, <1>5, <1>6, <1>7, <1>8, <1>9, <1>10, <1>11, <1>12, <1>13, <1>14
     DEF Next, Step

\* The invariant holds of every history of the workflow.
THEOREM Invariance == Spec => []Inv
<1>1. Init => Inv
  BY InvInit
<1>2. Inv /\ [Next]_vars => Inv'
  BY InvNext
<1> QED
  BY <1>1, <1>2, PTL DEF Spec

\* The state of the workflow is type correct.
THEOREM TypeCorrect == Spec => []TypeOK
<1>1. Inv => TypeOK
  BY DEF Inv, RunType, Waiting, CountersOK, RemoteOK, TagsOfVersion, TypeOK
<1> QED
  BY <1>1, Invariance, PTL

\* Whatever is published under a version is built from the one tested commit its
\* tag names (release.yaml:28-43, 75-86), for any number of faults and re-runs.
THEOREM OneCommitPerVersion == Spec => []OneTestedCommit
  BY Invariance, PTL DEF Inv

\* A published release keeps its files and its image (release.yaml:87-93) unless
\* gh failed to say that it is there.
THEOREM PublishedIsKept == Spec => []PublishedStaysWhole
  BY Invariance, PTL DEF Inv
=============================================================================
