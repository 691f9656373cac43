------------------------------- MODULE MCFleet -------------------------------
(***************************************************************************)
(* One device, one or two hosts, an exclusive host job that drives the     *)
(* device, and a device job, which may depend on it.                       *)
(***************************************************************************)
EXTENDS Fleet, TLC

CONSTANTS d1, h1, h2

MCMaxAttempts == [j \in Jobs |-> IF j = 1 THEN 2 ELSE 1]
MCSuits == [j \in Jobs |-> IF j \in HostJobs THEN Hosts ELSE {d1}]
MCReporters == [j \in Jobs |-> IF j \in HostJobs THEN Claimants ELSE {d1}]
MCDependsOn == {{}, {1}}
MCLockSets == {{d1}}

=============================================================================
