------------------------------ MODULE JobQueue ------------------------------
(***************************************************************************)
(* The collector's queue: the tables `jobs`, `device_locks` and `results`  *)
(* and the transactions that change them (collector/src/server.ts,         *)
(* queue.ts, api/mutations.ts).                                            *)
(*                                                                         *)
(* Every handler of the collector runs its reads and writes in one         *)
(* synchronous stretch of a single Node process over SQLite, so a handler  *)
(* is one atomic action here.  The clients are not modelled: any of them   *)
(* may send any request the API accepts, about any job, in any order.      *)
(* What holds here holds whatever the runners, executors and operators do. *)
(* Module Fleet adds the runners.                                          *)
(***************************************************************************)
EXTENDS Integers, FiniteSets

CONSTANTS
    Jobs,         \* job ids, numbered in the order of their creation
    HostJobs,     \* the jobs whose spec says executor: "host"
    Devices,      \* device ids, claimants of device jobs
    Hosts,        \* executor names, claimants of host jobs
    Suits,        \* Suits[j]: the claimants job j's targets allow
    Reporters,    \* Reporters[j]: who posts rows about j, its claimants and the
                  \* devices an executor drives for it
    MaxAttempts,  \* MaxAttempts[j]: lease.max_attempts of job j
    Priorities,   \* the priorities clients use
    DependsOn,    \* the depends_on lists clients post
    LockSets,     \* the sets of devices executors ask for together
    NoJob,        \* no row in device_locks
    Nobody        \* claimed_by is NULL

Claimants == Devices \union Hosts

ASSUME ConstantsAssumption ==
    /\ Jobs \subseteq Nat
    /\ HostJobs \subseteq Jobs
    /\ Devices \intersect Hosts = {}
    /\ Suits \in [Jobs -> SUBSET Claimants]
    /\ Reporters \in [Jobs -> SUBSET Claimants]
    /\ MaxAttempts \in [Jobs -> Nat \ {0}]
    /\ Priorities \subseteq Int
    /\ DependsOn \subseteq SUBSET Jobs
    /\ LockSets \subseteq SUBSET Devices
    /\ NoJob \notin Jobs
    /\ Nobody \notin Claimants

(***************************************************************************)
(* "absent" is a job id nobody has posted; the others are the values of    *)
(* jobs.status.  A lease is "none" when lease_deadline is NULL, "lapsed"   *)
(* once the deadline is in the past.                                       *)
(***************************************************************************)
Open    == {"waiting", "queued", "claimed"}
Broken  == {"failed", "cancelled"}
Closed  == Broken \union {"done", "skipped"}
Status  == {"absent"} \union Open \union Closed
Lease   == {"none", "live", "lapsed"}
Verdict == {"pass", "fail", "skip"}

VARIABLES
    status,        \* jobs.status
    claimed_by,    \* jobs.claimed_by
    attempts,      \* jobs.attempts
    lease,         \* jobs.lease_deadline, against the clock
    depends_on,    \* jobs.depends_on
    priority,      \* jobs.priority
    device_locks,  \* device_locks: the job that holds each device
    rows,          \* results: whether the row that stands for each reporter is a skip
    unlocked,      \* history: claimed device jobs whose lock an operator dropped
    swept          \* history: jobs the sweep failed, and no row has closed since

vars == <<status, claimed_by, attempts, lease, depends_on, priority,
          device_locks, rows, unlocked, swept>>

\* The tables keep their types: a lock names a job, a claim a claimant.
TypeOK ==
    /\ status \in [Jobs -> Status]
    /\ claimed_by \in [Jobs -> Claimants \union {Nobody}]
    /\ attempts \in [Jobs -> Nat]
    /\ lease \in [Jobs -> Lease]
    /\ depends_on \in [Jobs -> SUBSET Jobs]
    /\ priority \in [Jobs -> Int]
    /\ device_locks \in [Devices -> Jobs \union {NoJob}]
    /\ rows \in [Jobs -> [Claimants -> {"none", "ran", "skipped"}]]
    /\ unlocked \in SUBSET Jobs
    /\ swept \in SUBSET Jobs

Init ==
    /\ status = [j \in Jobs |-> "absent"]
    /\ claimed_by = [j \in Jobs |-> Nobody]
    /\ attempts = [j \in Jobs |-> 0]
    /\ lease = [j \in Jobs |-> "none"]
    /\ depends_on = [j \in Jobs |-> {}]
    /\ priority = [j \in Jobs |-> 0]
    /\ device_locks = [d \in Devices |-> NoJob]
    /\ rows = [j \in Jobs |-> [r \in Claimants |-> "none"]]
    /\ unlocked = {}
    /\ swept = {}

Posted == {j \in Jobs : status[j] # "absent"}

\* Slip: nothing is deleted.
LocksKept(S) == device_locks

\* device_locks without the rows of the jobs in S.
LocksWithout(S) ==
    [d \in Devices |-> IF device_locks[d] \in S THEN NoJob ELSE device_locks[d]]

-----------------------------------------------------------------------------
(***************************************************************************)
(* Dependencies                                                            *)
(***************************************************************************)

\* Slip: a dependency that ended is taken for one that passed.
DependencyEnded(deps) ==
    IF \A d \in deps : status[d] \in Closed THEN "queued" ELSE "waiting"

\* The status a job posted now with these dependencies is inserted with: a
\* broken dependency outranks a skipped one.
DependencyState(deps) ==
    IF \E d \in deps : status[d] \in Broken THEN "failed"
    ELSE IF \E d \in deps : status[d] = "skipped" THEN "skipped"
    ELSE IF \A d \in deps : status[d] = "done" THEN "queued"
    ELSE "waiting"

\* Slip: the settlement does not cascade.
ReachedDirectly(st, new, c, w) == st[w] = "waiting" /\ c \in depends_on[w]

\* w was waiting before job c closed, and some dependency of w closed without
\* passing in this settlement, or is c itself.
Reached(st, new, c, w) ==
    /\ st[w] = "waiting"
    /\ \/ c \in depends_on[w]
       \/ \E d \in depends_on[w] : st[d] = "waiting" /\ new[d] \in {"failed", "skipped"}

\* What settleWaiters makes of one waiter.  The cascade visits waiters in an
\* order SQLite chooses and may visit one twice: a waiter with a skipped
\* dependency and one that fails in the same settlement may be settled on either,
\* and one skipped behind a dependency stays skipped when that dependency is
\* visited again and failed.  A waiter whose dependencies are all done is failed
\* when a ${jobs...} reference of its spec does not resolve, which depends on
\* data the model leaves out.
Settled(st, new, c, w) ==
    LET deps == depends_on[w]
        Is(s) == \E d \in deps : new[d] \in s
        WasSkipped(d) == new[d] = "skipped" \/ (st[c] = "skipped" /\ st[d] = "waiting" /\ new[d] = "failed")
    IN  \/ new[w] = "failed" /\ Is(Broken)
        \/ /\ new[w] = "skipped"
           /\ \E d \in deps : WasSkipped(d)
           /\ \A d \in deps : st[d] \notin Broken
        \/ new[w] \in {"queued", "failed"} /\ \A d \in deps : new[d] = "done"
        \/ /\ new[w] = "waiting"
           /\ ~Is(Broken \union {"skipped"})
           /\ \E d \in deps : new[d] # "done"

\* new is what settleWaiters(c) leaves of the statuses st, in which c has just
\* closed: the whole cascade, transitively, and nothing else.
IsSettlement(st, new, c) ==
    \A w \in Jobs :
        IF Reached(st, new, c, w) THEN Settled(st, new, c, w) ELSE new[w] = st[w]

Settlements(st, c) ==
    LET W == {w \in Jobs : st[w] = "waiting"}
        With(f) == [j \in Jobs |-> IF j \in W THEN f[j] ELSE st[j]]
    IN  {new \in {With(f) : f \in [W -> {"waiting", "queued", "failed", "skipped"}]} :
            IsSettlement(st, new, c)}

-----------------------------------------------------------------------------
(***************************************************************************)
(* Posting                                                                 *)
(***************************************************************************)

\* POST /jobs: the next ids in creation order.  One id is a plain job, more
\* are the children of a fan-out, which share dependencies and priority.
\* Refusals (an unknown dependency, a duplicate id, a bad spec) change nothing.
Enqueue(new, deps, p) ==
    /\ new # {}
    /\ \A j \in new : status[j] = "absent"
    /\ \A j \in new, k \in Jobs \ new : status[k] = "absent" => j < k
    /\ deps \subseteq Posted
    /\ status' = [j \in Jobs |-> IF j \in new THEN DependencyState(deps) ELSE status[j]]
    /\ depends_on' = [j \in Jobs |-> IF j \in new THEN deps ELSE depends_on[j]]
    /\ priority' = [j \in Jobs |-> IF j \in new THEN p ELSE priority[j]]
    /\ UNCHANGED <<claimed_by, attempts, lease, device_locks, rows, unlocked, swept>>

\* PATCH /api/jobs/:id, allowed in any status.
SetPriority(j, p) ==
    /\ j \in Posted
    /\ priority' = [priority EXCEPT ![j] = p]
    /\ UNCHANGED <<status, claimed_by, attempts, lease, depends_on,
                   device_locks, rows, unlocked, swept>>

-----------------------------------------------------------------------------
(***************************************************************************)
(* Claims                                                                  *)
(***************************************************************************)

\* The queued jobs c may be handed.
Claimable(c) ==
    {j \in Jobs : status[j] = "queued" /\ c \in Suits[j] /\ (j \in HostJobs <=> c \in Hosts)}

\* ORDER BY priority DESC, created_at
ClaimedBefore(j, k) ==
    \/ priority[j] > priority[k]
    \/ priority[j] = priority[k] /\ j < k

Give(j, c) ==
    /\ j \in Claimable(c)
    /\ \A k \in Claimable(c) \ {j} : ClaimedBefore(j, k)
    /\ status' = [status EXCEPT ![j] = "claimed"]
    /\ claimed_by' = [claimed_by EXCEPT ![j] = c]
    /\ attempts' = [attempts EXCEPT ![j] = @ + 1]
    /\ lease' = [lease EXCEPT ![j] = "live"]
    /\ unlocked' = unlocked \ {j}
    /\ UNCHANGED <<depends_on, priority, rows, swept>>

\* GET /devices/:id/next-job: a locked device is handed nothing.
ClaimDevice(j, d) ==
    /\ device_locks[d] = NoJob
    /\ Give(j, d)
    /\ device_locks' = [device_locks EXCEPT ![d] = j]

\* GET /executor/next-job
ClaimHost(j, h) ==
    /\ Give(j, h)
    /\ UNCHANGED device_locks

\* Put j back on the queue with the attempt it burned handed back.
HandBack(j) ==
    /\ status' = [status EXCEPT ![j] = "queued"]
    /\ claimed_by' = [claimed_by EXCEPT ![j] = Nobody]
    /\ attempts' = [attempts EXCEPT ![j] = IF @ > 0 THEN @ - 1 ELSE 0]
    /\ lease' = [lease EXCEPT ![j] = "none"]
    /\ device_locks' = LocksWithout({j})

\* POST /jobs/:id/release by c, or by a caller that names no claimant.
MayRelease(j, c) ==
    /\ status[j] = "claimed"
    /\ c \in {claimed_by[j], Nobody}
    /\ \A r \in Claimants : rows[j][r] = "none"

Release(j, c) ==
    /\ MayRelease(j, c)
    /\ HandBack(j)
    /\ UNCHANGED <<depends_on, priority, rows, unlocked, swept>>

\* POST /results, kind "beacon": whoever sends it, a claimed job's lease is
\* pushed out, a lapsed one the sweep has not seen yet included.
Beacon(j) ==
    /\ status[j] = "claimed"
    /\ lease' = [lease EXCEPT ![j] = "live"]
    /\ UNCHANGED <<status, claimed_by, attempts, depends_on, priority,
                   device_locks, rows, unlocked, swept>>

\* Time passes a claim's deadline.
LeaseLapse(j) ==
    /\ lease[j] = "live"
    /\ lease' = [lease EXCEPT ![j] = "lapsed"]
    /\ UNCHANGED <<status, claimed_by, attempts, depends_on, priority,
                   device_locks, rows, unlocked, swept>>

\* The sweep: every lapsed claim is requeued, or failed once its attempts are
\* spent.  It settles nobody who waits on what it fails.
Lapsed == {j \in Jobs : status[j] = "claimed" /\ lease[j] = "lapsed"}

\* Slip: one attempt too many.
SpentLate == {j \in Lapsed : attempts[j] > MaxAttempts[j]}

Spent == {j \in Lapsed : attempts[j] >= MaxAttempts[j]}

Sweep ==
    /\ Lapsed # {}
    /\ status' = [j \in Jobs |-> IF j \in Spent THEN "failed"
                                 ELSE IF j \in Lapsed THEN "queued"
                                 ELSE status[j]]
    /\ claimed_by' = [j \in Jobs |-> IF j \in Lapsed \ Spent THEN Nobody ELSE claimed_by[j]]
    /\ lease' = [j \in Jobs |-> IF j \in Lapsed THEN "none" ELSE lease[j]]
    /\ device_locks' = LocksWithout(Lapsed)
    /\ swept' = swept \union Spent
    /\ UNCHANGED <<attempts, depends_on, priority, rows, unlocked>>

-----------------------------------------------------------------------------
(***************************************************************************)
(* Results                                                                 *)
(***************************************************************************)

\* The results table after r posts a row of verdict v about j.  What r says is
\* its newest row by iteration, final rows before the others, so a row it has
\* posted already may go on standing for it.
WithRow(j, r, v) ==
    LET said == IF v = "skip" THEN "skipped" ELSE "ran"
    IN  {[rows EXCEPT ![j][r] = s] : s \in {said, rows[j][r]} \ {"none"}}

\* The status a passing, failing or skipping final row closes a job with, given
\* what everybody who posted rows about it says: a passing one still closes the
\* job as skipped when every device skipped, or every host if no device reported.
ClosingStatus(told, v) ==
    LET reported == {d \in Devices : told[d] # "none"}
        entries == IF reported # {} THEN reported ELSE {h \in Hosts : told[h] # "none"}
    IN  IF v = "fail" THEN "failed"
        ELSE IF v = "skip" \/ \A e \in entries : told[e] = "skipped" THEN "skipped"
        ELSE "done"

\* closeJobTx, and cancelTx after its guard: whatever status j has, it closes
\* as s, its locks go, and its waiters are settled in the same transaction.
Close(j, s) ==
    /\ status' \in Settlements([status EXCEPT ![j] = s], j)
    /\ lease' = [lease EXCEPT ![j] = "none"]
    /\ device_locks' = LocksWithout({j})
    /\ swept' = swept \ {j}

\* POST /results, kind "result", not final.  It is also what a collector that
\* is killed between storing a final row and closing the job leaves behind.
Row(j, r, v) ==
    /\ j \in Posted
    /\ rows' \in WithRow(j, r, v)
    /\ UNCHANGED <<status, claimed_by, attempts, lease, depends_on, priority,
                   device_locks, unlocked, swept>>

\* POST /results, final: true.  Neither the job's status nor who sends the row
\* is looked at.
Final(j, r, v) ==
    /\ j \in Posted
    /\ rows' \in WithRow(j, r, v)
    /\ Close(j, ClosingStatus(rows'[j], v))
    /\ UNCHANGED <<claimed_by, attempts, depends_on, priority, unlocked>>

\* Slip: a job that is no longer claimed is put back on the queue too.
PreemptedAnyway(j, r) ==
    /\ j \in Posted
    /\ rows' \in WithRow(j, r, "pass")
    /\ HandBack(j)
    /\ UNCHANGED <<depends_on, priority, unlocked, swept>>

\* POST /results, final: true, preempted: true on a job still claimed; on any
\* other job it is an ordinary final row.
PreemptedFinal(j, r) ==
    /\ status[j] = "claimed"
    /\ rows' \in WithRow(j, r, "pass")
    /\ HandBack(j)
    /\ UNCHANGED <<depends_on, priority, unlocked, swept>>

\* POST /api/jobs/:id/cancel
Cancel(j) ==
    /\ status[j] \in Open
    /\ Close(j, "cancelled")
    /\ UNCHANGED <<claimed_by, attempts, depends_on, priority, rows, unlocked>>

-----------------------------------------------------------------------------
(***************************************************************************)
(* Device locks                                                            *)
(***************************************************************************)

\* Slip: every lock asked for is granted.
GrantedAll(j, D) == D

Granted(j, D) == {d \in D : device_locks[d] \in {NoJob, j}}

\* POST /locks/acquire, by the executor of host job j.  Nothing asks whether j
\* is still claimed, or still open.
AcquireLocks(j, D) ==
    /\ j \in HostJobs \intersect Posted
    /\ device_locks' = [d \in Devices |-> IF d \in Granted(j, D) THEN j ELSE device_locks[d]]
    /\ UNCHANGED <<status, claimed_by, attempts, lease, depends_on, priority, rows, unlocked, swept>>

\* Slip: the locks of every job are released.
ReleaseEveryLock(j) ==
    /\ j \in HostJobs \intersect Posted
    /\ device_locks' = [d \in Devices |-> NoJob]
    /\ UNCHANGED <<status, claimed_by, attempts, lease, depends_on, priority, rows, unlocked, swept>>

\* POST /locks/release: by job, whoever asks.
ReleaseLocks(j) ==
    /\ j \in HostJobs \intersect Posted
    /\ device_locks' = LocksWithout({j})
    /\ UNCHANGED <<status, claimed_by, attempts, lease, depends_on, priority, rows, unlocked, swept>>

\* POST /api/devices/:id/release-lock, the operator's button for a stuck lock.
BreakLock(d) ==
    /\ device_locks[d] # NoJob
    /\ unlocked' = unlocked \union ({device_locks[d]} \ HostJobs)
    /\ device_locks' = [device_locks EXCEPT ![d] = NoJob]
    /\ UNCHANGED <<status, claimed_by, attempts, lease, depends_on, priority, rows, swept>>

-----------------------------------------------------------------------------

Next ==
    \/ \E new \in SUBSET Jobs, deps \in DependsOn, p \in Priorities : Enqueue(new, deps, p)
    \/ \E j \in Jobs, p \in Priorities : SetPriority(j, p)
    \/ \E j \in Jobs, d \in Devices : ClaimDevice(j, d)
    \/ \E j \in Jobs, h \in Hosts : ClaimHost(j, h)
    \/ \E j \in Jobs, c \in Claimants \union {Nobody} : Release(j, c)
    \/ \E j \in Jobs : Beacon(j)
    \/ \E j \in Jobs : LeaseLapse(j)
    \/ Sweep
    \/ \E j \in Jobs : \E r \in Reporters[j], v \in Verdict : Row(j, r, v)
    \/ \E j \in Jobs : \E r \in Reporters[j], v \in Verdict : Final(j, r, v)
    \/ \E j \in Jobs : \E r \in Reporters[j] : PreemptedFinal(j, r)
    \/ \E j \in Jobs : Cancel(j)
    \/ \E j \in Jobs, D \in LockSets : AcquireLocks(j, D)
    \/ \E j \in Jobs : ReleaseLocks(j)
    \/ \E d \in Devices : BreakLock(d)

Spec == Init /\ [][Next]_vars

-----------------------------------------------------------------------------
(***************************************************************************)
(* Properties                                                              *)
(***************************************************************************)

\* A job carries a lease deadline exactly while it is claimed, by somebody its
\* targets allow.  A claimed job without a deadline would never be swept, and a
\* deadline left on any other job is one the sweep's query relies on its status
\* to ignore.
LeaseIffClaimed ==
    \A j \in Jobs :
        /\ status[j] = "claimed" <=> lease[j] # "none"
        /\ status[j] = "claimed" => claimed_by[j] \in Suits[j]

\* A job is handed out at most max_attempts times without the attempt being
\* handed back: it never waits on the queue with its attempts spent, however
\* claims, sweeps, releases and preemptions alternate.
WithinAttempts ==
    \A j \in Jobs :
        /\ attempts[j] <= MaxAttempts[j]
        /\ status[j] \in {"waiting", "queued"} => attempts[j] < MaxAttempts[j]
        /\ status[j] = "claimed" => attempts[j] > 0

\* The lock a device claim takes lives exactly as long as the claim, unless an
\* operator drops it: no close, sweep, release, preemption or cancellation
\* leaves it behind, and no executor's request takes it away.
LockFollowsClaim ==
    \A j \in Jobs \ HostJobs :
        /\ status[j] = "claimed" /\ j \notin unlocked => device_locks[claimed_by[j]] = j
        /\ \A d \in Devices :
              device_locks[d] = j => status[j] = "claimed" /\ claimed_by[j] = d

\* A device holds at most one device job at a time, the jobs whose lock an
\* operator dropped aside: a claim looks only at the lock, so this is what
\* keeps a device whose claim reply was lost from being handed a second job.
OneJobPerDevice ==
    \A j, k \in Jobs \ (HostJobs \union unlocked) :
        status[j] = "claimed" /\ status[k] = "claimed" /\ claimed_by[j] = claimed_by[k] => j = k

\* A job that waits still has a reason to: some dependency is not done, and none
\* closed without passing, unless it is one the sweep failed and no row has closed
\* since.  So whatever closes by a row or a cancellation settles every job behind
\* it, directly and through however long a chain, a job the sweep failed that a
\* straggler's row closes again included.  Only the sweep settles nobody, which
\* docs/concepts.md:342-345 does not say: see NoWaiterBehindFailure in Fleet.
WaiterHasReason ==
    \A w \in Jobs : status[w] = "waiting" =>
        /\ \E d \in depends_on[w] : status[d] # "done"
        /\ \A d \in depends_on[w] :
              /\ status[d] \notin {"absent", "cancelled", "skipped"}
              /\ status[d] = "failed" => d \in swept

\* A closed job is never handed out again: its status may change, but only to
\* another closed one, whatever late rows, releases or sweeps still arrive.
ClosedStaysClosed ==
    [][\A j \in Jobs : status[j] \in Closed => status'[j] \in Closed]_vars

\* A job first becomes claimable, on arrival or by promotion, only in a step
\* that leaves all its dependencies done.
QueuedWhenReady ==
    [][\A j \in Jobs : status[j] \in {"absent", "waiting"} /\ status'[j] = "queued" =>
            \A d \in depends_on'[j] : status'[d] = "done"]_vars

-----------------------------------------------------------------------------
(***************************************************************************)
(* What a client sees of a job                                             *)
(***************************************************************************)

\* Where a job is in its life, whatever it was closed as.
Stage ==
    [j \in Jobs |-> CASE status[j] = "queued" -> "ready"
                      [] status[j] = "claimed" -> "running"
                      [] status[j] \in Closed -> "closed"
                      [] OTHER -> status[j]]

\* Who runs it: claimed_by outlives the claim of a closed job, as a record.
Worker == [j \in Jobs |-> IF status[j] = "claimed" THEN claimed_by[j] ELSE Nobody]

Left == [j \in Jobs |-> MaxAttempts[j] - attempts[j]]

Life == INSTANCE JobLifecycle
            WITH Workers <- Claimants, Starts <- MaxAttempts,
                 stage <- Stage, worker <- Worker, left <- Left

\* The queue keeps its promise to clients: seen through stage, worker and starts
\* left, every claim, release, sweep, row and cancellation is a step in the life
\* of jobs, so no order of requests runs a job twice at a time, restarts a closed
\* one, or starts one whose attempts are spent.
ImplementsLifecycle == Life!LifeSpec

=============================================================================
