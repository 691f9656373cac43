----------------------------- MODULE MCFindings -----------------------------
(***************************************************************************)
(* Three findings, two of which may become issues with room for one in a   *)
(* day, one with a flow to keep, and two nightly jobs.                     *)
(***************************************************************************)
EXTENDS Findings, TLC

CONSTANTS f1, f2, f3, j1, j2

JobSymmetry == Permutations({j1, j2})

=============================================================================
