------------------------------- MODULE Release ------------------------------
(***************************************************************************)
(* .github/workflows/release.yaml: the runs of the release workflow, one   *)
(* at a time (its concurrency group), each of which may fail after any of  *)
(* its steps and be run again for the commit it began with, while other    *)
(* commits arrive.  What a run does lives in three places that fail apart: *)
(* the tags of the repository, its releases, and the images of the         *)
(* registry.                                                               *)
(***************************************************************************)
EXTENDS Integers

CONSTANTS
    Versions,     \* what VERSION may say
    Last,         \* the commits of main are 1..Last
    VersionOf,    \* VERSION at each of them
    Broken,       \* the commits whose tests fail
    MaxFaults,    \* steps that fail for reasons of their own
    MaxDispatches \* runs started by hand on the head of main

Commits == 1..Last
NoCommit == 0

ASSUME ReleaseAssumption ==
    /\ Last \in Nat \ {0} /\ MaxFaults \in Nat /\ MaxDispatches \in Nat
    /\ VersionOf \in [Commits -> Versions] /\ Broken \subseteq Commits

VARIABLES
    main,         \* the head of main
    run,          \* the run in progress: sha (NoCommit: none), step, seen, publish
    pending,      \* the run that waits for it, or NoCommit
    failed,       \* the commits whose last run did not succeed
    tag,          \* of each version: the commit its tag names
    release,      \* of each version: "none", "draft" or "published"
    assets,       \* of each version: the commit its release's files are built from
    whole,        \* the versions all of whose files are there
    image,        \* of each version: the commit its image is built from
    latest,       \* the commit the image called `latest` is built from
    blindly,      \* the versions of which gh failed to say what is there
    faults, dispatches

remote == <<tag, release, assets, whole, image, latest>>
vars == <<main, run, pending, failed, remote, blindly, faults, dispatches>>

-----------------------------------------------------------------------------
NoRun == [sha |-> NoCommit, step |-> "", seen |-> FALSE, publish |-> FALSE]
Running == run.sha # NoCommit

\* The version in the VERSION file of the commit of the run.
V == VersionOf[run.sha]

Init ==
    /\ main = NoCommit /\ run = NoRun /\ pending = NoCommit /\ failed = {}
    /\ tag = [v \in Versions |-> NoCommit] /\ release = [v \in Versions |-> "none"]
    /\ assets = [v \in Versions |-> NoCommit] /\ whole = {}
    /\ image = [v \in Versions |-> NoCommit] /\ latest = NoCommit
    /\ blindly = {} /\ faults = 0 /\ dispatches = 0

\* The concurrency group: a run starts, or waits in the place of another, which
\* is cancelled.
Queue(c) ==
    IF ~Running
    THEN /\ run' = [NoRun EXCEPT !.sha = c, !.step = "checkout"] /\ UNCHANGED pending
         /\ failed' = failed \ {c}
    ELSE /\ pending' = c /\ UNCHANGED run
         /\ failed' = (failed \ {c}) \cup ({pending} \ {NoCommit, c})

\* A push to main starts a run if it changes VERSION.
Push ==
    /\ main < Last /\ main' = main + 1
    /\ IF main = NoCommit \/ VersionOf[main'] # VersionOf[main]
       THEN Queue(main') ELSE UNCHANGED <<run, pending, failed>>
    /\ UNCHANGED <<remote, faults, blindly, dispatches>>

Dispatch ==
    /\ main # NoCommit /\ dispatches < MaxDispatches /\ dispatches' = dispatches + 1
    /\ Queue(main)
    /\ UNCHANGED <<main, remote, blindly, faults>>

\* A maintainer runs a failed or cancelled run again, for the same commit.
Rerun(c) ==
    /\ c \in failed /\ ~Running /\ pending = NoCommit
    /\ Queue(c)
    /\ UNCHANGED <<main, remote, faults, blindly, dispatches>>

\* The run is over, and the one that waits begins.
End(ok) ==
    /\ failed' = IF ok THEN failed \ {pending} ELSE (failed \cup {run.sha}) \ {pending}
    /\ run' = IF pending = NoCommit THEN NoRun
              ELSE [NoRun EXCEPT !.sha = pending, !.step = "checkout"]
    /\ pending' = NoCommit

\* A step fails for a reason that has nothing to do with the commit.
Fault ==
    /\ Running /\ faults < MaxFaults /\ faults' = faults + 1
    /\ End(FALSE)
    /\ UNCHANGED <<main, remote, blindly, dispatches>>

-----------------------------------------------------------------------------
(* The steps.                                                              *)
At(step) == Running /\ run.step = step
Goto(step) == run' = [run EXCEPT !.step = step] /\ UNCHANGED <<pending, failed>>

\* Mutant: an existing tag is taken for this run's own.
ValidateAnyTag ==
    /\ At("checkout")
    /\ run' = [run EXCEPT !.step = "test", !.seen = tag[V] # NoCommit]
    /\ UNCHANGED <<main, pending, failed, remote, faults, blindly, dispatches>>

\* Mutant: a version that has a tag is refused.
ValidateNew ==
    /\ At("checkout")
    /\ IF tag[V] = NoCommit
       THEN run' = [run EXCEPT !.step = "test"] /\ UNCHANGED <<pending, failed>>
       ELSE End(FALSE)
    /\ UNCHANGED <<main, remote, blindly, faults, dispatches>>

\* Checkout, with the tags of that moment, and "Validate version and existing tag".
Validate ==
    /\ At("checkout")
    /\ IF tag[V] \in {NoCommit, run.sha}
       THEN /\ run' = [run EXCEPT !.step = "test", !.seen = tag[V] # NoCommit]
            /\ UNCHANGED <<pending, failed>>
       ELSE End(FALSE)
    /\ UNCHANGED <<main, remote, faults, blindly, dispatches>>

\* Formatting, lint, tests, the scan, and the artifacts and images without publishing.
Test ==
    /\ At("test")
    /\ IF run.sha \in Broken THEN End(FALSE) ELSE Goto("tag")
    /\ UNCHANGED <<main, remote, faults, blindly, dispatches>>

\* The tag is pushed unless the checkout had it.
Tag ==
    /\ At("tag")
    /\ tag' = IF run.seen THEN tag ELSE [tag EXCEPT ![V] = run.sha]
    /\ Goto("view")
    /\ UNCHANGED <<main, release, assets, whole, image, latest, faults, blindly, dispatches>>

\* Mutant: whatever the answer, it publishes.
ViewIgnored ==
    /\ At("view")
    /\ run' = [run EXCEPT !.step = "publish", !.publish = TRUE]
    /\ UNCHANGED <<main, pending, failed, remote, faults, blindly, dispatches>>

\* gh release view ... || true: a failure of gh reads like a missing release.
View ==
    /\ At("view")
    /\ \/ /\ run' = [run EXCEPT !.step = "publish", !.publish = (release[V] # "published")]
          /\ UNCHANGED <<faults, blindly>>
       \/ /\ faults < MaxFaults /\ faults' = faults + 1
          /\ run' = [run EXCEPT !.step = "publish", !.publish = TRUE]
          /\ blindly' = blindly \cup {V}
    /\ UNCHANGED <<main, pending, failed, remote, dispatches>>

\* "Log in" and "Publish release": goreleaser builds everything from the commit
\* again, pushes the image under its version and as `latest`, and replaces the files
\* of the draft (of a release that is there, use_existing_draft and
\* replace_existing_artifacts), in this order; between the two the run may fail.
PushImage ==
    /\ At("publish") /\ run.publish
    /\ image' = [image EXCEPT ![V] = run.sha] /\ latest' = run.sha
    /\ Goto("upload")
    /\ UNCHANGED <<main, tag, release, assets, whole, faults, blindly, dispatches>>

\* The first file: what was there is being replaced.
Upload ==
    /\ At("upload")
    /\ release' = [release EXCEPT ![V] = IF @ = "none" THEN "draft" ELSE @]
    /\ assets' = [assets EXCEPT ![V] = run.sha] /\ whole' = whole \ {V}
    /\ Goto("complete")
    /\ UNCHANGED <<main, tag, image, latest, faults, blindly, dispatches>>

\* The last.
Complete ==
    /\ At("complete")
    /\ whole' = whole \cup {V}
    /\ Goto("undraft")
    /\ UNCHANGED <<main, tag, release, assets, image, latest, faults, blindly, dispatches>>

\* "Publish completed draft"
Undraft ==
    /\ At("undraft")
    /\ release' = [release EXCEPT ![V] = "published"]
    /\ End(TRUE)
    /\ UNCHANGED <<main, tag, assets, whole, image, latest, faults, blindly, dispatches>>

\* The three last steps are skipped.
Skip ==
    /\ At("publish") /\ ~run.publish
    /\ End(TRUE)
    /\ UNCHANGED <<main, remote, faults, blindly, dispatches>>

Step ==
    \/ Validate \/ Test \/ Tag \/ View \/ PushImage \/ Upload \/ Complete \/ Undraft \/ Skip

Next == Push \/ Dispatch \/ (\E c \in Commits : Rerun(c)) \/ Fault \/ Step

Spec == Init /\ [][Next]_vars

\* A run that has begun goes on, and maintainers come back to a run that failed
\* for as long as it has not succeeded.
FairSpec == Spec /\ WF_vars(Step) /\ \A c \in Commits : SF_vars(Rerun(c))

-----------------------------------------------------------------------------
TypeOK ==
    /\ main \in 0..Last /\ pending \in 0..Last /\ failed \subseteq Commits
    /\ tag \in [Versions -> 0..Last] /\ \A v \in Versions : tag[v] = NoCommit \/ VersionOf[tag[v]] = v
    /\ image \in [Versions -> 0..Last] /\ assets \in [Versions -> 0..Last] /\ latest \in 0..Last
    /\ whole \subseteq Versions
    /\ release \in [Versions -> {"none", "draft", "published"}]
    /\ blindly \subseteq Versions /\ run.sha \in 0..Last /\ (pending # NoCommit => Running)
    /\ faults \in 0..MaxFaults /\ dispatches \in 0..MaxDispatches

\* README, Development: "Release workflows validate before tagging".  Whatever
\* was published under a version, files or image, by however many runs, is built
\* from the one commit its tag names, and its tests passed.  `latest` is always the
\* image of a version, too.
OneTestedCommit ==
    /\ latest # NoCommit => latest = image[VersionOf[latest]]
    /\ \A v \in Versions :
          /\ assets[v] \in {NoCommit, tag[v]} /\ image[v] \in {NoCommit, tag[v]}
          /\ tag[v] \notin Broken

\* A release that has been published has all its files, with the image beside
\* them, and no later run takes them away: unless gh could not say so.
PublishedStaysWhole ==
    \A v \in Versions :
        release[v] = "published" =>
            image[v] # NoCommit /\ (v \in whole \/ v \in blindly)

\* README, Development: workflows "can resume publication for a tag pointing at
\* the same commit".  A run that failed after it had tagged its commit does not
\* leave the version tagged and unpublished for ever.
Resumes ==
    \A c \in Commits :
        c \in failed /\ tag[VersionOf[c]] = c ~> release[VersionOf[c]] = "published"
=============================================================================
