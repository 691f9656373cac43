----------------------------- MODULE MCJobQueue -----------------------------
(***************************************************************************)
(* Three host jobs and a device job, posted in any pattern of              *)
(* dependencies; a later job may depend on earlier ones alone.             *)
(***************************************************************************)
EXTENDS JobQueue

CONSTANTS d1, h1

DepsMaxAttempts == [j \in Jobs |-> 1]
DepsSuits == [j \in Jobs |-> IF j \in HostJobs THEN {h1} ELSE {d1}]
DepsReporters == [j \in Jobs |-> IF j <= 2 THEN {h1} ELSE {}]
DepsDependsOn == {{}, {1}, {1, 2}, {2, 3}}
DepsLockSets == {{}}

=============================================================================
