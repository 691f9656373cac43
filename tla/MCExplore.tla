----------------------------- MODULE MCExplore -----------------------------
(***************************************************************************)
(* A night of two cards, with a build to test and one to compare it with:  *)
(* missions of two steps, in the second of which the app is sent to the    *)
(* background, and two replays of each of two candidates.                  *)
(***************************************************************************)
EXTENDS Explore

=============================================================================
