------------------------------ MODULE MCDevice ------------------------------
(***************************************************************************)
(* A phone to be taken off the network, with or without cellular data of   *)
(* its owner's, and a target with two settings that jobs change.           *)
(***************************************************************************)
EXTENDS DeviceExecutor

CONSTANTS p1, t1, locale, scale

MCOwn == [t \in Targets |-> [n \in Names |-> "own"]]
MCWanted == [n \in Names |-> "wanted"]

=============================================================================
