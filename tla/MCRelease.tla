------------------------------ MODULE MCRelease -----------------------------
(* Four commits: a version whose tests fail, the repaired commit of the same   *)
(* version (started by hand, for VERSION has not changed), a new version, and  *)
(* the first one named again by mistake.                                       *)
EXTENDS Release

MCVersions == {"v1", "v2"}
MCVersionOf == <<"v1", "v1", "v2", "v1">>
MCBroken == {1}
=============================================================================
