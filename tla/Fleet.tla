-------------------------------- MODULE Fleet --------------------------------
(***************************************************************************)
(* The queue with the programs that work it: one runner per device         *)
(* (runner-machine/src/agent.ts: claim, run, report) and one executor per  *)
(* host (collector/src/executor.ts: claim, lock the devices of an          *)
(* exclusive job, drive them, unlock, report).  Nothing tells a runner or  *)
(* an executor that its claim is gone except the answer to a beacon, which *)
(* it may act on later or never, so its run and the collector's record of  *)
(* it come apart whenever a lease lapses or an operator intervenes.        *)
(*                                                                         *)
(* Requests and replies may be lost; a program that dies or cannot report  *)
(* abandons its job, and comes back polling for another.                   *)
(***************************************************************************)
EXTENDS JobQueue

ASSUME ReportersAssumption ==
    \A j \in Jobs :
        /\ Suits[j] \subseteq Reporters[j]
        /\ j \in HostJobs => Devices \subseteq Reporters[j]

VARIABLES
    held,       \* the job a runner or an executor is running
    phase,      \* how far it is with it
    driving,    \* the devices an executor drives, having been granted their locks
    disturbed,  \* history: jobs whose run did not go undisturbed, see Disturb
    orphaned    \* history: host jobs abandoned by an executor that ran them

runners == <<held, phase, driving>>
history == <<disturbed, orphaned>>
fleetVars == <<vars, runners, history>>

Phase == {"idle", "preparing", "driving", "reporting", "failing"}

\* The programs' state keeps its types, a program holds a job exactly while it is
\* not idle, and an executor drives devices only between locking and unlocking.
FleetTypeOK ==
    /\ held \in [Claimants -> Jobs \union {NoJob}]
    /\ phase \in [Claimants -> Phase]
    /\ driving \in [Hosts -> SUBSET Devices]
    /\ \A c \in Claimants : phase[c] = "idle" <=> held[c] = NoJob
    /\ \A h \in Hosts : driving[h] # {} => phase[h] = "driving"
    /\ disturbed \subseteq Jobs
    /\ orphaned \subseteq HostJobs

FleetInit ==
    /\ Init
    /\ held = [c \in Claimants |-> NoJob]
    /\ phase = [c \in Claimants |-> "idle"]
    /\ driving = [h \in Hosts |-> {}]
    /\ disturbed = {}
    /\ orphaned = {}

\* The collector has ended the claim on these jobs, or dropped a lock of theirs,
\* in a way their run does not know of: the claim was swept or cancelled, the
\* operator dropped the lock, or the reply to the final row was lost.
Disturb(S) == disturbed' = disturbed \union S

-----------------------------------------------------------------------------
(***************************************************************************)
(* Clients, operators and the collector's timer                            *)
(***************************************************************************)

Client ==
    /\ \/ \E new \in SUBSET Jobs, deps \in DependsOn, p \in Priorities : Enqueue(new, deps, p)
       \/ \E j \in Jobs, p \in Priorities : SetPriority(j, p)
    /\ UNCHANGED <<runners, history>>

OperatorCancels(j) ==
    /\ Cancel(j)
    /\ Disturb({j})
    /\ UNCHANGED <<runners, orphaned>>

OperatorUnlocks(d) ==
    /\ BreakLock(d)
    /\ Disturb({device_locks[d]})
    /\ UNCHANGED <<runners, orphaned>>

\* A lease is renewed by beacons only, and nothing obliges a run to send one in
\* time: no executor beacons while a device's suite runs.
Lapses(j) ==
    /\ LeaseLapse(j)
    /\ UNCHANGED <<runners, history>>

Sweeps ==
    /\ Sweep
    /\ Disturb(Lapsed)
    /\ UNCHANGED <<runners, orphaned>>

-----------------------------------------------------------------------------
(***************************************************************************)
(* Both programs                                                           *)
(***************************************************************************)

At(c, p) == phase[c] = p
Goto(c, p) == phase' = [phase EXCEPT ![c] = p]

\* The answer to a long poll; lost, it leaves a job claimed that nobody runs.
Take(j, c, p, delivered) ==
    IF delivered
    THEN held' = [held EXCEPT ![c] = j] /\ Goto(c, p)
    ELSE UNCHANGED <<held, phase>>

LetGo(c) == held' = [held EXCEPT ![c] = NoJob] /\ Goto(c, "idle")

\* The workload's final row.  When the reply is lost the workload throws, and
\* what catches the error takes the job for failed and posts a second one.
Report(c, v, heard) ==
    /\ Final(held[c], c, v)
    /\ IF heard
       THEN LetGo(c) /\ Disturb({})
       ELSE Goto(c, "failing") /\ UNCHANGED held /\ Disturb({held[c]})

Beacons(c) ==
    /\ held[c] # NoJob
    /\ Beacon(held[c])
    /\ UNCHANGED <<runners, history>>

\* c dies, or cannot reach the collector to report.
Abandon(c) ==
    /\ held[c] # NoJob
    /\ LetGo(c)
    /\ driving' = [h \in Hosts |-> IF h = c THEN {} ELSE driving[h]]
    /\ orphaned' = orphaned \union ({held[c]} \intersect HostJobs)
    /\ UNCHANGED <<vars, disturbed>>

-----------------------------------------------------------------------------
(***************************************************************************)
(* A device's runner                                                       *)
(***************************************************************************)

RunnerClaims(j, d, delivered) ==
    /\ At(d, "idle")
    /\ ClaimDevice(j, d)
    /\ Take(j, d, "driving", delivered)
    /\ UNCHANGED <<driving, history>>

\* The row of one iteration.
RunnerRow(d) ==
    /\ At(d, "driving")
    /\ Row(held[d], d, "pass")
    /\ UNCHANGED <<runners, history>>

\* An iteration throws, or the post of its row does.
RunnerThrows(d) ==
    /\ At(d, "driving")
    /\ Goto(d, "failing")
    /\ UNCHANGED <<vars, held, driving, history>>

\* Slip: the runner goes on after its final row.
RunnerGoesOn(d, v, heard) ==
    /\ At(d, "driving")
    /\ Final(held[d], d, v)
    /\ UNCHANGED <<runners, history>>

\* The run ends: it finished, was refused, or stopped at an iteration boundary
\* because a beacon was answered that its claim is gone.
RunnerReports(d, v, heard) ==
    /\ At(d, "driving")
    /\ Report(d, v, heard)
    /\ UNCHANGED <<driving, orphaned>>

\* The failing row the workload's catch block posts.
RunnerFails(d) ==
    /\ At(d, "failing")
    /\ Final(held[d], d, "fail")
    /\ LetGo(d)
    /\ UNCHANGED <<driving, history>>

-----------------------------------------------------------------------------
(***************************************************************************)
(* A host's executor                                                       *)
(***************************************************************************)

ExecutorClaims(j, h, delivered) ==
    /\ At(h, "idle")
    /\ ClaimHost(j, h)
    /\ Take(j, h, "preparing", delivered)
    /\ UNCHANGED <<driving, history>>

\* Ask for the locks of every target, long after the claim when a build was
\* downloaded first.  An unheard grant throws outside the try that releases it.
ExecutorLocks(h, D, heard) ==
    /\ At(h, "preparing")
    /\ AcquireLocks(held[h], D)
    /\ IF heard
       THEN Goto(h, "driving") /\ driving' = [driving EXCEPT ![h] = Granted(held[h], D)]
       ELSE Goto(h, "failing") /\ UNCHANGED driving
    /\ UNCHANGED <<held, history>>

\* A target's row: how the suite went on a device it was granted, or a skip.
ExecutorRow(h, d, v) ==
    /\ At(h, "driving")
    /\ d \in driving[h] \/ v = "skip"
    /\ Row(held[h], d, v)
    /\ UNCHANGED <<runners, history>>

\* The finally block, when the targets are done or one of them threw: release
\* every lock of the job; a lost request is ignored.
ExecutorUnlocks(h, p, arrives) ==
    /\ At(h, "driving") /\ p \in {"reporting", "failing"}
    /\ IF arrives THEN ReleaseLocks(held[h]) ELSE UNCHANGED vars
    /\ driving' = [driving EXCEPT ![h] = {}]
    /\ Goto(h, p)
    /\ UNCHANGED <<held, history>>

\* The workload's final row: the verdict over its targets, or a failure before
\* it locked any.
ExecutorReports(h, v, heard) ==
    /\ \/ At(h, "reporting") /\ v \in {"pass", "fail"}
       \/ At(h, "preparing") /\ v = "fail"
    /\ Report(h, v, heard)
    /\ UNCHANGED <<driving, orphaned>>

\* The poll loop's final row for a workload that threw, found no target, or was
\* not started because the host is under pressure.  Nothing catches a lost
\* reply here: it ends the program, which is done with the job either way.
ExecutorExcuses(h, v) ==
    /\ \/ At(h, "failing") /\ v = "fail"
       \/ At(h, "preparing") /\ v \in {"skip", "fail"}
    /\ Final(held[h], h, v)
    /\ LetGo(h)
    /\ UNCHANGED <<driving, history>>

-----------------------------------------------------------------------------

FleetNext ==
    \/ Client
    \/ \E j \in Jobs : OperatorCancels(j)
    \/ \E d \in Devices : OperatorUnlocks(d)
    \/ \E j \in Jobs : Lapses(j)
    \/ Sweeps
    \/ \E c \in Claimants : Beacons(c)
    \/ \E c \in Claimants : Abandon(c)
    \/ \E j \in Jobs, d \in Devices, b \in BOOLEAN : RunnerClaims(j, d, b)
    \/ \E d \in Devices : RunnerRow(d)
    \/ \E d \in Devices : RunnerThrows(d)
    \/ \E d \in Devices, v \in Verdict, b \in BOOLEAN : RunnerReports(d, v, b)
    \/ \E d \in Devices : RunnerFails(d)
    \/ \E j \in Jobs, h \in Hosts, b \in BOOLEAN : ExecutorClaims(j, h, b)
    \/ \E h \in Hosts, D \in LockSets, b \in BOOLEAN : ExecutorLocks(h, D, b)
    \/ \E h \in Hosts, d \in Devices, v \in Verdict : ExecutorRow(h, d, v)
    \/ \E h \in Hosts, p \in Phase, b \in BOOLEAN : ExecutorUnlocks(h, p, b)
    \/ \E h \in Hosts, v \in Verdict, b \in BOOLEAN : ExecutorReports(h, v, b)
    \/ \E h \in Hosts, v \in Verdict : ExecutorExcuses(h, v)

FleetSpec == FleetInit /\ [][FleetNext]_fleetVars

\* Runners and executors poll again and again and every run they hold comes to
\* an end; the clock runs, and the collector sweeps every few seconds.
Fairness ==
    /\ \A j \in Jobs : WF_fleetVars(Lapses(j))
    /\ WF_fleetVars(Sweeps)
    /\ \A d \in Devices :
          /\ WF_fleetVars(\E j \in Jobs, b \in BOOLEAN : RunnerClaims(j, d, b))
          /\ WF_fleetVars(\/ \E v \in Verdict, b \in BOOLEAN : RunnerReports(d, v, b)
                          \/ RunnerFails(d))
    /\ \A h \in Hosts :
          /\ WF_fleetVars(\E j \in Jobs, b \in BOOLEAN : ExecutorClaims(j, h, b))
          /\ WF_fleetVars(\/ \E D \in LockSets, b \in BOOLEAN : ExecutorLocks(h, D, b)
                          \/ \E p \in Phase, b \in BOOLEAN : ExecutorUnlocks(h, p, b)
                          \/ \E v \in Verdict, b \in BOOLEAN : ExecutorReports(h, v, b)
                          \/ \E v \in Verdict : ExecutorExcuses(h, v))

FairFleetSpec == FleetSpec /\ Fairness

-----------------------------------------------------------------------------
(***************************************************************************)
(* Properties                                                              *)
(***************************************************************************)

Runs(c, d) == IF c \in Hosts THEN d \in driving[c] ELSE c = d /\ held[d] # NoJob

\* Two programs work one device at the same time only when the run of one of
\* them has been disturbed: locks, claims and the order in which an executor
\* locks, unlocks and reports keep everything else apart.
OneDriverPerDevice ==
    \A d \in Devices, b, c \in Claimants :
        b # c /\ Runs(b, d) /\ Runs(c, d) => {held[b], held[c]} \intersect disturbed # {}

\* Every step of the fleet is a step of the queue or leaves it alone: the queue's
\* properties, which suppose nothing about its clients, hold of the fleet.
ImplementsJobQueue == Spec

\* While an undisturbed job runs, the collector's record agrees with its
\* runner's: claimed by it (so no two programs run it), and, while it drives
\* devices, holding their locks.
RunMatchesRecord ==
    \A c \in Claimants : held[c] # NoJob /\ held[c] \notin disturbed =>
        /\ status[held[c]] = "claimed" /\ claimed_by[held[c]] = c
        /\ \A d \in Devices : Runs(c, d) => device_locks[d] = held[c]

\* A lock belongs to a claimed job, or to one an executor still runs, unless an
\* executor abandoned it: only a crash or a lost report leaves a lock for an
\* operator to drop, although executors lock without having their claim checked.
LockHasOwner ==
    \A d \in Devices : device_locks[d] # NoJob =>
        \/ status[device_locks[d]] = "claimed"
        \/ \E c \in Claimants : held[c] = device_locks[d]
        \/ device_locks[d] \in orphaned

\* An undisturbed job is closed once and for all: no straggler reopens it or
\* changes its verdict.
VerdictStands ==
    [][\A j \in Jobs : status[j] \in Closed /\ j \notin disturbed' => status'[j] = status[j]]_fleetVars

StuckLock(d) ==
    /\ device_locks[d] \in orphaned
    /\ status[device_locks[d]] # "claimed"
    /\ \A c \in Claimants : held[c] # device_locks[d]

\* A queued job eventually closes, through any number of lapsed leases, lost
\* replies and crashes, unless some device is stuck with the lock of a job
\* whose executor died and that nobody runs any more.
QueuedJobsClose ==
    \A j \in Jobs : status[j] = "queued" ~>
        status[j] \in Closed \/ \E d \in Devices : StuckLock(d)

-----------------------------------------------------------------------------
(***************************************************************************)
(* What the documentation says and the code does not do.                   *)
(***************************************************************************)

\* docs/concepts.md:342-345: "When a dependency fails or is cancelled, the
\* waiter fails ... A broken build must not leave an install and a ui-test
\* sitting in waiting."  The sweep fails jobs and settles nobody.
NoWaiterBehindFailure ==
    \A w \in Jobs : status[w] = "waiting" => \A d \in depends_on[w] : status[d] # "failed"

\* docs/concepts.md:465-466 lists among the guarantees that "a cancelled job
\* stays cancelled".  The final row of the run that was cancelled closes it again.
CancelledStaysCancelled ==
    [][\A j \in Jobs : status[j] = "cancelled" => status'[j] = "cancelled"]_fleetVars

\* executor.ts:126-127: "Exclusive jobs hold the collector's device locks while
\* they run, so a device-executor agent never gets handed work mid-UI-test."  A
\* sweep, a cancellation or another executor's release drops the locks of a run
\* that goes on.
NeverHandedWorkMidTest ==
    [][\A h \in Hosts, d \in Devices :
            d \in driving[h] /\ held[d] = NoJob => held'[d] = NoJob]_fleetVars

=============================================================================
