----------------------------- MODULE MCNightly -----------------------------
(***************************************************************************)
(* Five minutes, the last of them the next day's first; a nightly in the   *)
(* second and in the fourth, that may fan out to one device; a missed one  *)
(* looked for a minute back only; a digest from the second on; under a     *)
(* supervisor that gives up at the second quick death in a row.            *)
(***************************************************************************)
EXTENDS Nightly

CONSTANTS collector, d1

=============================================================================
