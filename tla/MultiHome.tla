----------------------------- MODULE MultiHome -----------------------------
(***************************************************************************)
(* A runner that belongs to several fleets (runner-machine/src/agent.ts):  *)
(* one claim loop and one beacon loop per collector, all in one process,   *)
(* and the gate through which every claim must pass, because the machine   *)
(* runs one job at a time whoever asked.                                   *)
(*                                                                         *)
(* Each collector's queue appears here as what JobLifecycle says of it,    *)
(* which module JobQueue is shown to implement; what the collectors add    *)
(* below is the long poll, the release, the beacon and its `busy` field    *)
(* (collector/src/server.ts).  Steps are the stretches of code between two *)
(* awaits.                                                                 *)
(***************************************************************************)
EXTENDS JobLifecycle, FiniteSets

CONSTANTS
    Collectors,   \* the collectors the runner registers with
    Home,         \* Home[j]: the collector whose job j is
    Runner,       \* the runner's device id
    NoOne,        \* gate.heldBy is null
    NoJob         \* no job id

ASSUME MultiHomeAssumption ==
    /\ Home \in [Jobs -> Collectors]
    /\ Starts \in [Jobs -> Nat \ {0}]
    /\ Runner \in Workers
    /\ Nobody \notin Workers
    /\ NoOne \notin Collectors
    /\ NoJob \notin Jobs

VARIABLES
    heldBy,      \* gate.heldBy
    jobId,       \* gate.jobId
    loop,        \* where each collector's claim loop is
    got,         \* the job its last answered poll brought
    beat,        \* where each collector's beacon loop is
    mine,        \* the job that beacon renews, read when the beacon began
    told,        \* the busy job that beacon names
    busy,        \* what each collector last heard, while it still trusts it
    cancelled,   \* JobCancellation: the job told to stop
    disturbed,   \* history: jobs that lost a message, a lease, their runner or
                 \* their operator's favour
    late         \* history: jobs handed out while a refusal of an earlier claim of
                 \* theirs was on its way or had set the cancellation flag

gate == <<heldBy, jobId>>
beacons == <<beat, mine, told, busy>>
history == <<disturbed, late>>
homeVars == <<life, gate, loop, got, beacons, cancelled, history>>

\* Where a claim loop is: about to ask, polling, answered with a job, handing it
\* back, running it, or done with it but for the answer to the final row, of a run
\* or of a refusal to run.  Where a beacon loop is: asleep, taking its sample,
\* waiting for the answer, or answered that the lease is gone.
LoopAt == {"idle", "asking", "handed", "releasing", "running", "reported", "rejected"}
Filed == {"reported", "rejected"}
BeatAt == {"asleep", "sampling", "posted", "refused"}

Init ==
    /\ Begin
    /\ heldBy = NoOne
    /\ jobId = NoJob
    /\ loop = [c \in Collectors |-> "idle"]
    /\ got = [c \in Collectors |-> NoJob]
    /\ beat = [c \in Collectors |-> "asleep"]
    /\ mine = [c \in Collectors |-> NoJob]
    /\ told = [c \in Collectors |-> NoJob]
    /\ busy = [c \in Collectors |-> NoJob]
    /\ cancelled = NoJob
    /\ disturbed = {}
    /\ late = {}

\* The gate and the collectors' books keep their types, and the gate names a
\* job exactly while a collector holds it.
MultiHomeTypeOK ==
    /\ stage \in [Jobs -> {"absent", "waiting", "ready", "running", "closed"}]
    /\ worker \in [Jobs -> Workers \union {Nobody}]
    /\ left \in [Jobs -> Nat]
    /\ heldBy \in Collectors \union {NoOne}
    /\ jobId \in Jobs \union {NoJob}
    /\ heldBy = NoOne <=> jobId = NoJob
    /\ loop \in [Collectors -> LoopAt]
    /\ got \in [Collectors -> Jobs \union {NoJob}]
    /\ beat \in [Collectors -> BeatAt]
    /\ mine \in [Collectors -> Jobs \union {NoJob}]
    /\ told \in [Collectors -> Jobs \union {NoJob}]
    /\ busy \in [Collectors -> Jobs \union {NoJob}]
    /\ cancelled \in Jobs \union {NoJob}
    /\ disturbed \in SUBSET Jobs
    /\ late \in SUBSET Jobs

-----------------------------------------------------------------------------
(***************************************************************************)
(* The collectors                                                          *)
(***************************************************************************)

\* A client posts a job to its collector.
Submit(j) ==
    /\ Post({j})
    /\ stage'[j] = "ready"
    /\ UNCHANGED <<gate, loop, got, beacons, cancelled, history>>

\* claimTx would hand j to the runner's poll at c: the device has no lock there
\* and is not known to work for another collector.
MayHand(c, j) ==
    /\ loop[c] = "asking"
    /\ Home[j] = c
    /\ stage[j] = "ready"
    /\ busy[c] = NoJob
    /\ \A k \in Jobs : ~(Home[k] = c /\ stage[k] = "running" /\ worker[k] = Runner)

\* c's poll is answered with j.  The claim is committed; the answer travels.
Hands(c, j) ==
    /\ MayHand(c, j)
    /\ Start(j, Runner)
    /\ loop' = [loop EXCEPT ![c] = "handed"]
    /\ got' = [got EXCEPT ![c] = j]
    /\ late' = IF cancelled = j \/ (beat[c] = "refused" /\ mine[c] = j)
               THEN late \union {j} ELSE late \ {j}
    /\ UNCHANGED <<gate, beacons, cancelled, disturbed>>

\* An operator cancels a job.
OperatorCancels(j) ==
    /\ stage[j] \in {"ready", "running"}
    /\ Close(j, {})
    /\ disturbed' = disturbed \union {j}
    /\ UNCHANGED <<gate, loop, got, beacons, cancelled, late>>

\* A lease runs out and the sweep takes the job back: the runner is gone, has
\* lost the job, or could not get a beacon through for so long.
Lapses(j) ==
    /\ stage[j] = "running"
    /\ Return({j})
    /\ disturbed' = disturbed \union {j}
    /\ UNCHANGED <<gate, loop, got, beacons, cancelled, late>>

\* The last beacon c heard is too old to be trusted (BEACON_TRUST_S), so its
\* busy claim no longer counts.
Ages(c) ==
    /\ busy[c] # NoJob
    /\ busy' = [busy EXCEPT ![c] = NoJob]
    /\ UNCHANGED <<life, gate, loop, got, beat, mine, told, cancelled, history>>

-----------------------------------------------------------------------------
(***************************************************************************)
(* The claim loops                                                         *)
(***************************************************************************)

GoTo(c, where) == loop' = [loop EXCEPT ![c] = where]
Forget(c) == got' = [got EXCEPT ![c] = NoJob]

\* releaseGate
LetGo == heldBy' = NoOne /\ jobId' = NoJob

\* With the gate free, c's loop asks c for work.
Asks(c) ==
    /\ loop[c] = "idle"
    /\ heldBy = NoOne
    /\ GoTo(c, "asking")
    /\ UNCHANGED <<life, gate, got, beacons, cancelled, history>>

\* The long poll ends with nothing to hand out.
PollEmpty(c) ==
    /\ loop[c] = "asking"
    /\ \A j \in Jobs : ~MayHand(c, j)
    /\ GoTo(c, "idle")
    /\ UNCHANGED <<life, gate, got, beacons, cancelled, history>>

\* The poll fails, or its answer is lost with the job in it: the loop backs off,
\* registers again and asks again.
PollBreaks(c) ==
    /\ loop[c] \in {"asking", "handed"}
    /\ GoTo(c, "idle")
    /\ Forget(c)
    /\ disturbed' = disturbed \union ({got[c]} \ {NoJob})
    /\ UNCHANGED <<life, gate, beacons, cancelled, late>>

\* Slip: the gate is taken whoever holds it.
TakesBlindly(c) ==
    /\ loop[c] = "handed"
    /\ heldBy' = c
    /\ jobId' = got[c]
    /\ GoTo(c, "running")
    /\ UNCHANGED <<life, got, beacons, cancelled, history>>

\* Slip: taking the gate aborts the other polls, answered ones too.
TakesAborting(c) ==
    /\ loop[c] = "handed"
    /\ heldBy = NoOne
    /\ heldBy' = c
    /\ jobId' = got[c]
    /\ loop' = [e \in Collectors |-> IF e = c THEN "running" ELSE "idle"]
    /\ got' = [e \in Collectors |-> IF e = c THEN got[c] ELSE NoJob]
    /\ UNCHANGED <<life, beacons, cancelled, history>>

\* takeOrRelease, the gate free: check and set in one stretch.
Takes(c) ==
    /\ loop[c] = "handed"
    /\ heldBy = NoOne
    /\ heldBy' = c
    /\ jobId' = got[c]
    /\ GoTo(c, "running")
    /\ UNCHANGED <<life, got, beacons, cancelled, history>>

\* takeOrRelease, the gate held: the job is to go back.
Bounces(c) ==
    /\ loop[c] = "handed"
    /\ heldBy # NoOne
    /\ GoTo(c, "releasing")
    /\ UNCHANGED <<life, gate, got, beacons, cancelled, history>>

\* Slip: the collector requeues a released job as a sweep would, attempt spent.
ReleasesSpent(c) ==
    /\ loop[c] = "releasing"
    /\ IF stage[got[c]] = "running" THEN Return({got[c]}) ELSE UNCHANGED life
    /\ GoTo(c, "idle")
    /\ Forget(c)
    /\ UNCHANGED <<gate, beacons, cancelled, history>>

\* The release reaches the collector, which takes the job back if it is still
\* claimed.  Its answer is not looked at.
Releases(c) ==
    /\ loop[c] = "releasing"
    /\ IF stage[got[c]] = "running" THEN HandBack(got[c]) ELSE UNCHANGED life
    /\ GoTo(c, "idle")
    /\ Forget(c)
    /\ UNCHANGED <<gate, beacons, cancelled, history>>

\* The release is lost, which releaseJob swallows.
ReleaseLost(c) ==
    /\ loop[c] = "releasing"
    /\ GoTo(c, "idle")
    /\ Forget(c)
    /\ disturbed' = disturbed \union {got[c]}
    /\ UNCHANGED <<life, gate, beacons, cancelled, late>>

\* The way out of a run: both finally blocks, or the inner one alone.
Ends(c) ==
    /\ GoTo(c, "idle")
    /\ Forget(c)
    /\ LetGo
    /\ UNCHANGED beacons

\* JobCancellation.clear
Clear(j) == cancelled' = IF cancelled = j THEN NoJob ELSE cancelled

\* The run ends, or is told to stop and does, and its final row closes the job; or a
\* constraint of the job is not met, and the row that says so closes it.  The gate
\* is held until the answer is there.
Reports(c) ==
    /\ loop[c] = "running"
    /\ Close(got[c], {})
    /\ \E where \in Filed : GoTo(c, where)
    /\ UNCHANGED <<gate, got, beacons, cancelled, history>>

\* The final row of a run is answered, or its answer is lost, which the workload
\* takes for a failure, reports and leaves with.
Finishes(c) ==
    /\ loop[c] = "reported"
    /\ Ends(c)
    /\ Clear(got[c])
    /\ UNCHANGED <<life, history>>

\* The row of a refusal is answered or not: the run is skipped, the cancellation
\* flag not looked at.
Rejects(c) ==
    /\ loop[c] = "rejected"
    /\ Ends(c)
    /\ UNCHANGED <<life, cancelled, history>>

\* Slip: a run that throws leaves the gate held.
ThrowsHeld(c) ==
    /\ loop[c] = "running"
    /\ GoTo(c, "idle")
    /\ Forget(c)
    /\ Clear(got[c])
    /\ disturbed' = disturbed \union {got[c]}
    /\ UNCHANGED <<life, gate, beacons, late>>

\* The final row is lost and the loop throws, backs off and registers again; the
\* flag is looked at unless the row was that of a refusal.
Throws(c) ==
    /\ loop[c] = "running"
    /\ Ends(c)
    /\ Clear(got[c]) \/ UNCHANGED cancelled
    /\ disturbed' = disturbed \union {got[c]}
    /\ UNCHANGED <<life, late>>

\* The process dies and is started again.  A SIGTERM is this too: the handler
\* calls process.exit at once.
Crash ==
    /\ \E c \in Collectors : loop[c] # "idle" \/ beat[c] # "asleep"
    /\ loop' = [c \in Collectors |-> "idle"]
    /\ got' = [c \in Collectors |-> NoJob]
    /\ LetGo
    /\ beat' = [c \in Collectors |-> "asleep"]
    /\ mine' = [c \in Collectors |-> NoJob]
    /\ told' = [c \in Collectors |-> NoJob]
    /\ cancelled' = NoJob
    /\ disturbed' = disturbed \union ({got[c] : c \in Collectors} \ {NoJob})
    /\ UNCHANGED <<life, busy, late>>

-----------------------------------------------------------------------------
(***************************************************************************)
(* The beacon loops                                                        *)
(***************************************************************************)

\* Slip: every collector is asked to renew the running job.
SamplesForAll(c) ==
    /\ beat[c] = "asleep"
    /\ beat' = [beat EXCEPT ![c] = "sampling"]
    /\ mine' = [mine EXCEPT ![c] = jobId]
    /\ UNCHANGED <<life, gate, loop, got, told, busy, cancelled, history>>

\* A beacon to c begins: which of c's jobs is running is read now, and the
\* sample is awaited.
Samples(c) ==
    /\ beat[c] = "asleep"
    /\ beat' = [beat EXCEPT ![c] = "sampling"]
    /\ mine' = [mine EXCEPT ![c] = IF heldBy = c THEN jobId ELSE NoJob]
    /\ UNCHANGED <<life, gate, loop, got, told, busy, cancelled, history>>

\* The beacon is sent, naming what runs by now for another collector.
Posts(c) ==
    /\ beat[c] = "sampling"
    /\ beat' = [beat EXCEPT ![c] = "posted"]
    /\ told' = [told EXCEPT ![c] = IF heldBy # c THEN jobId ELSE NoJob]
    /\ UNCHANGED <<life, gate, loop, got, mine, busy, cancelled, history>>

\* c still has the job the beacon renews, claimed.
Renewed(c) == Home[mine[c]] = c /\ stage[mine[c]] = "running"

\* The beacon arrives: c stores what it says and answers whether it renewed the
\* lease.
Hears(c) ==
    /\ beat[c] = "posted"
    /\ busy' = [busy EXCEPT ![c] = told[c]]
    /\ told' = [told EXCEPT ![c] = NoJob]
    /\ IF mine[c] # NoJob /\ ~Renewed(c)
       THEN /\ beat' = [beat EXCEPT ![c] = "refused"]
            /\ UNCHANGED mine
       ELSE /\ beat' = [beat EXCEPT ![c] = "asleep"]
            /\ mine' = [mine EXCEPT ![c] = NoJob]
    /\ UNCHANGED <<life, gate, loop, got, cancelled, history>>

\* The refusal arrives: the job read when the beacon began is told to stop,
\* whatever runs by now.
Refused(c) ==
    /\ beat[c] = "refused"
    /\ cancelled' = mine[c]
    /\ beat' = [beat EXCEPT ![c] = "asleep"]
    /\ mine' = [mine EXCEPT ![c] = NoJob]
    /\ UNCHANGED <<life, gate, loop, got, told, busy, history>>

\* The beacon or its answer is lost, which the loop ignores.
BeaconLost(c) ==
    /\ beat[c] \in {"posted", "refused"}
    /\ beat' = [beat EXCEPT ![c] = "asleep"]
    /\ mine' = [mine EXCEPT ![c] = NoJob]
    /\ told' = [told EXCEPT ![c] = NoJob]
    /\ UNCHANGED <<life, gate, loop, got, busy, cancelled, history>>

-----------------------------------------------------------------------------

Claiming(c) ==
    \/ Asks(c) \/ PollEmpty(c) \/ PollBreaks(c)
    \/ Takes(c) \/ Bounces(c) \/ Releases(c) \/ ReleaseLost(c)
    \/ Reports(c) \/ Finishes(c) \/ Rejects(c) \/ Throws(c)

Beaconing(c) == Samples(c) \/ Posts(c) \/ Hears(c) \/ Refused(c) \/ BeaconLost(c)

Next ==
    \/ \E j \in Jobs : Submit(j) \/ OperatorCancels(j) \/ Lapses(j)
    \/ \E c \in Collectors, j \in Jobs : Hands(c, j)
    \/ \E c \in Collectors : Ages(c) \/ Claiming(c) \/ Beaconing(c)
    \/ Crash

Spec == Init /\ [][Next]_homeVars

\* The loops go on, runs end, old beacons are distrusted and lost claims swept;
\* polls and crashes may break off any number of attempts, but a poll that can
\* be answered again and again is answered.
Fairness ==
    /\ \A c \in Collectors :
          /\ WF_homeVars(Asks(c))
          /\ WF_homeVars(Takes(c) \/ Bounces(c))
          /\ WF_homeVars(Releases(c))
          /\ WF_homeVars(Reports(c))
          /\ WF_homeVars(Finishes(c) \/ Rejects(c))
          /\ WF_homeVars(Ages(c))
          /\ \A j \in Jobs : SF_homeVars(Hands(c, j))
    /\ \A j \in Jobs : WF_homeVars(Lapses(j) /\ got[Home[j]] # j)

FairSpec == Spec /\ Fairness

-----------------------------------------------------------------------------
(***************************************************************************)
(* Properties                                                              *)
(***************************************************************************)

\* The machine runs one job at a time, the gate's: whichever collectors answer
\* at once and in whatever order their loops resume, only the loop that took
\* the gate runs, and the gate is free as soon as that run has ended and reported.
OneRunAtATime ==
    \A c \in Collectors : /\ loop[c] \in {"running"} \union Filed <=> heldBy = c
                          /\ heldBy = c => jobId = got[c]

\* Every claim is somebody's business: a job a collector believes claimed, and
\* whose messages came through, is on its way to the runner, being run, or on
\* its way back.  Aborting an answered poll breaks this, as an earlier version
\* of the agent did.
NoClaimForgotten ==
    \A j \in Jobs : stage[j] = "running" /\ j \notin disturbed => got[Home[j]] = j

\* Losing the race for the machine costs a job nothing: however often it is
\* handed out and handed back, it is back on its queue with all its starts.
BouncesAreFree ==
    \A j \in Jobs : stage[j] = "ready" /\ j \notin disturbed => left[j] = Starts[j]

\* A run whose claim stands is told to stop only by what came of an earlier claim of
\* the very same job: beacons to several collectors, refusals that arrive after their
\* job ended and the next began, and the one cancellation slot they share never stop
\* it, however often it was requeued before, unless a refusal of that earlier claim
\* had not arrived, or its flag had not been cleared, when the job was handed out.
\* That case is real: JobCancellation knows the job's name and not its claim, so a
\* late refusal does stop such a run (agent.ts:269-273).
GoodRunsGoOn ==
    heldBy # NoOne /\ stage[jobId] = "running" /\ jobId \notin late => cancelled # jobId

\* No fleet is starved and no job forgotten: whatever is lost, however the other
\* collectors' jobs come in between, a queued job closes in the end.
EveryJobCloses == \A j \in Jobs : stage[j] = "ready" ~> stage[j] = "closed"

=============================================================================
