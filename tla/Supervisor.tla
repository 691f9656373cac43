----------------------------- MODULE Supervisor -----------------------------
(***************************************************************************)
(* The processes of one machine, kept running by fleet up                  *)
(* (fleet/src/supervisor.ts): a child that dies is started again after a   *)
(* while, given up when it keeps dying soon after it starts, and asked to  *)
(* stop, then killed, when the machine stands down.                        *)
(***************************************************************************)
EXTENDS Naturals, FiniteSets

CONSTANTS
    Child,        \* the components this machine runs
    GiveUpAfter   \* how many deaths in quick succession are too many

ASSUME SupervisorAssumption == GiveUpAfter \in Nat

VARIABLES
    process,    \* what each child's process is
    restarts,   \* restarts since it last stayed up
    waiting,    \* the children whose restart timer is armed
    gaveUp,     \* the children given up
    stopping,   \* whether stop was called
    soon        \* history: deaths in a row of children that had just started

supervisorVars == <<process, restarts, waiting, gaveUp, stopping, soon>>

\* A child without a process; one that started a moment ago; one that has been up
\* for long; and one that could not be spawned, which emits error and no exit.
Process == {"none", "young", "healthy", "unspawned"}
Alive(c) == process[c] \in {"young", "healthy"}

\* The types; no child is counted past the restart that makes it given up.
SupervisorTypeOK ==
    /\ process \in [Child -> Process]
    /\ restarts \in [Child -> 0..(GiveUpAfter + 1)]
    /\ waiting \in SUBSET Child
    /\ gaveUp \in SUBSET Child
    /\ stopping \in BOOLEAN
    /\ soon \in [Child -> 0..(GiveUpAfter + 1)]

SupervisorInit ==
    /\ process \in [Child -> {"young", "unspawned"}]
    /\ restarts = [c \in Child |-> 0]
    /\ waiting = {}
    /\ gaveUp = {}
    /\ stopping = FALSE
    /\ soon = [c \in Child |-> 0]

\* healthyAfterMs pass.
StaysUp(c) ==
    /\ process[c] = "young"
    /\ process' = [process EXCEPT ![c] = "healthy"]
    /\ soon' = [soon EXCEPT ![c] = 0]
    /\ UNCHANGED <<restarts, waiting, gaveUp, stopping>>

\* Slip: the count is kept for the life of the supervisor.
CountKept(c) == restarts[c] + 1

\* What restarts becomes when c dies.
Count(c) == IF process[c] = "healthy" THEN 1 ELSE restarts[c] + 1

\* The exit handler, for a death, a SIGTERM or a SIGKILL: the child is to be
\* restarted or given up, unless it was asked to stop.
Exits(c) ==
    /\ Alive(c)
    /\ process' = [process EXCEPT ![c] = "none"]
    /\ soon' = [soon EXCEPT ![c] = IF process[c] = "young" /\ @ <= GiveUpAfter THEN @ + 1 ELSE @]
    /\ IF stopping THEN UNCHANGED <<restarts, waiting, gaveUp>>
       ELSE /\ restarts' = [restarts EXCEPT ![c] = Count(c)]
            /\ IF Count(c) > GiveUpAfter
               THEN gaveUp' = gaveUp \union {c} /\ UNCHANGED waiting
               ELSE waiting' = waiting \union {c} /\ UNCHANGED gaveUp
    /\ UNCHANGED stopping

\* The restart timer fires.
StartsAgain(c) ==
    /\ c \in waiting
    /\ waiting' = waiting \ {c}
    /\ \E there \in {"young", "unspawned"} : process' = [process EXCEPT ![c] = there]
    /\ UNCHANGED <<restarts, gaveUp, stopping, soon>>

\* stop: no restart comes any more, and every child with a process is signalled.
Stop ==
    /\ ~stopping
    /\ stopping' = TRUE
    /\ waiting' = {}
    /\ UNCHANGED <<process, restarts, gaveUp, soon>>

\* A child that ran and died is to be started again, or given up for dying at
\* least GiveUpAfter times in a row just after it was started; what ran for long
\* before is not held against it.  A child that could not be spawned is another
\* matter: it is neither running nor to be started nor given up, for good.
NobodyForgotten ==
    /\ ~stopping =>
          \A c \in Child : Alive(c) \/ process[c] = "unspawned" \/ c \in waiting \union gaveUp
    /\ \A c \in Child :
          /\ c \in waiting => process[c] = "none" /\ c \notin gaveUp
          /\ c \in gaveUp => process[c] = "none" /\ soon[c] >= GiveUpAfter

=============================================================================
