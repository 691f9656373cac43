---------------------------- MODULE JobLifecycle ----------------------------
(***************************************************************************)
(* What a client of the queue may rely on about the jobs it posts, with    *)
(* nothing said of leases, locks, rows, priorities or dependencies:        *)
(* a job is worked on by at most one claimant at a time, is started only   *)
(* from the queue and only while it has starts left, and once closed stays *)
(* closed.                                                                 *)
(***************************************************************************)
EXTENDS Naturals

CONSTANTS
    Jobs,       \* the jobs clients may post
    Workers,    \* whoever works them
    Starts,     \* Starts[j]: how often j may be started in vain
    Nobody      \* no worker

VARIABLES
    stage,      \* absent, waiting, ready, running or closed
    worker,     \* worker[j]: who runs j
    left        \* left[j]: how many starts j has left

life == <<stage, worker, left>>

Begin ==
    /\ stage = [j \in Jobs |-> "absent"]
    /\ worker = [j \in Jobs |-> Nobody]
    /\ left = Starts

\* Jobs are posted; what they depend on may close them at once.
Post(S) ==
    /\ \A j \in S : stage[j] = "absent"
    /\ \E f \in [S -> {"waiting", "ready", "closed"}] :
          stage' = [j \in Jobs |-> IF j \in S THEN f[j] ELSE stage[j]]
    /\ UNCHANGED <<worker, left>>

\* w starts a job that is ready and may still be started.
Start(j, w) ==
    /\ stage[j] = "ready"
    /\ left[j] > 0
    /\ stage' = [stage EXCEPT ![j] = "running"]
    /\ worker' = [worker EXCEPT ![j] = w]
    /\ left' = [left EXCEPT ![j] = @ - 1]

\* The runs of S came to nothing: a job with starts left is ready again, one
\* without is closed.
Return(S) ==
    /\ \A j \in S : stage[j] = "running"
    /\ stage' = [j \in Jobs |-> IF j \notin S THEN stage[j]
                                ELSE IF left[j] > 0 THEN "ready" ELSE "closed"]
    /\ worker' = [j \in Jobs |-> IF j \in S THEN Nobody ELSE worker[j]]
    /\ UNCHANGED left

\* The worker of j hands it back untouched, or steps aside: the start does not
\* count.
HandBack(j) ==
    /\ stage[j] = "running"
    /\ stage' = [stage EXCEPT ![j] = "ready"]
    /\ worker' = [worker EXCEPT ![j] = Nobody]
    /\ left' = [left EXCEPT ![j] = @ + 1]

\* A posted job is closed, and jobs that were waiting are settled with it.
Close(j, W) ==
    /\ stage[j] # "absent"
    /\ \A w \in W : stage[w] = "waiting"
    /\ \E f \in [W -> {"ready", "closed"}] :
          stage' = [k \in Jobs |-> IF k = j THEN "closed"
                                   ELSE IF k \in W THEN f[k] ELSE stage[k]]
    /\ worker' = [worker EXCEPT ![j] = Nobody]
    /\ UNCHANGED left

Move ==
    \/ \E S \in SUBSET Jobs : Post(S)
    \/ \E j \in Jobs, w \in Workers : Start(j, w)
    \/ \E S \in SUBSET Jobs : Return(S)
    \/ \E j \in Jobs : HandBack(j)
    \/ \E j \in Jobs, W \in SUBSET Jobs : Close(j, W)

LifeSpec == Begin /\ [][Move]_life

=============================================================================
