---------------------------- MODULE MCMultiHome ----------------------------
(***************************************************************************)
(* A runner in two fleets, each with a job for it; one job may be started  *)
(* twice, the other once.                                                  *)
(***************************************************************************)
EXTENDS MultiHome

CONSTANTS c1, c2, j1, j2, runner

MCHome == [j \in Jobs |-> IF j = j1 THEN c1 ELSE c2]
MCStarts == [j \in Jobs |-> IF j = j1 THEN 2 ELSE 1]

=============================================================================
