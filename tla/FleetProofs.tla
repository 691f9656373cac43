----------------------------- MODULE FleetProofs -----------------------------
(***************************************************************************)
(* The fleet implements the queue, so all that JobQueueProofs shows of the *)
(* queue under arbitrary clients holds of the runners and executors too.   *)
(* With that, what the programs believe and what the tables say agree as   *)
(* long as a job is undisturbed.                                           *)
(***************************************************************************)
EXTENDS Fleet, JobQueueProofs

-----------------------------------------------------------------------------
(***************************************************************************)
(* What programs hold                                                      *)
(***************************************************************************)

\* Programs hold jobs that suit them, runners device jobs and executors host
\* jobs, exactly while they are not idle, and drive devices in one phase only.
HeldSuits ==
    /\ held \in [Claimants -> Jobs \union {NoJob}]
    /\ phase \in [Claimants -> Phase]
    /\ driving \in [Hosts -> SUBSET Devices]
    /\ \A c \in Claimants : held[c] # NoJob =>
          /\ c \in Suits[held[c]]
          /\ held[c] \in HostJobs <=> c \in Hosts
    /\ \A c \in Claimants : phase[c] = "idle" <=> held[c] = NoJob
    /\ \A h \in Hosts : driving[h] # {} => phase[h] = "driving"
    /\ disturbed \subseteq Jobs
    /\ orphaned \subseteq HostJobs

\* A device's runner is no host.
LEMMA Kinds == \A c \in Claimants : c \in Hosts <=> c \notin Devices
BY ConstantsAssumption DEF Claimants

\* Nobody holds anything at first.
LEMMA InitHeld == FleetInit => HeldSuits
BY ConstantsAssumption DEF FleetInit, HeldSuits, Phase, Claimants

\* The answer to a poll, heard or lost, gives a program a job that suits it.
LEMMA TakeHeld ==
    ASSUME HeldSuits, NEW j \in Jobs, NEW c \in Claimants, NEW b \in BOOLEAN,
           NEW p \in Phase \ {"idle"}, phase[c] = "idle",
           Give(j, c), Take(j, c, p, b), UNCHANGED <<driving, history>>
    PROVE  HeldSuits'
<1> USE ConstantsAssumption
<1>1. c \in Suits[j] /\ (j \in HostJobs <=> c \in Hosts) /\ j # NoJob
  BY DEF Give, Claimable
<1>2. disturbed' \subseteq Jobs /\ UNCHANGED orphaned
  BY DEF history, HeldSuits
<1>3. c \in Hosts => driving[c] = {}
  BY DEF HeldSuits
<1>4. CASE b
  <2>1. held' = [held EXCEPT ![c] = j] /\ phase' = [phase EXCEPT ![c] = p]
    BY <1>4 DEF Take, Goto
  <2> QED
    BY <1>1, <1>2, <1>3, <2>1 DEF HeldSuits, Claimants
<1>5. CASE ~b
  BY <1>2, <1>5 DEF Take, HeldSuits
<1> QED
  BY <1>4, <1>5

\* A program that lets go of its job drives nothing from then on.
LEMMA LetGoHeld ==
    ASSUME HeldSuits, NEW c \in Claimants, LetGo(c),
           \/ driving' = [h \in Hosts |-> IF h = c THEN {} ELSE driving[h]]
           \/ UNCHANGED driving /\ phase[c] # "driving"
           \/ UNCHANGED driving /\ c \in Devices,
           disturbed' \subseteq Jobs, orphaned' \subseteq HostJobs
    PROVE  HeldSuits'
<1> USE ConstantsAssumption, Kinds
<1>1. held' = [held EXCEPT ![c] = NoJob] /\ phase' = [phase EXCEPT ![c] = "idle"]
  BY DEF LetGo, Goto
<1>2. /\ held' \in [Claimants -> Jobs \union {NoJob}]
      /\ phase' \in [Claimants -> Phase]
      /\ driving' \in [Hosts -> SUBSET Devices]
      /\ \A e \in Claimants : phase'[e] = "idle" <=> held'[e] = NoJob
      /\ \A e \in Claimants : held'[e] # NoJob => held'[e] = held[e]
  BY <1>1 DEF HeldSuits, Phase
<1>3. \A h \in Hosts : driving'[h] # {} => phase'[h] = "driving"
  BY <1>1, <1>2 DEF HeldSuits, Claimants
<1> QED
  BY <1>2, <1>3 DEF HeldSuits

\* A program that goes on with its job drives devices only in one phase.
LEMMA GotoHeld ==
    ASSUME HeldSuits, NEW c \in Claimants, NEW p \in Phase \ {"idle"},
           phase[c] # "idle", Goto(c, p), UNCHANGED held,
           driving' \in [Hosts -> SUBSET Devices],
           \A h \in Hosts \ {c} : driving'[h] = driving[h],
           c \in Hosts /\ driving'[c] # {} => p = "driving",
           disturbed' \subseteq Jobs, UNCHANGED orphaned
    PROVE  HeldSuits'
<1>1. phase' = [phase EXCEPT ![c] = p]
  BY DEF Goto
<1>2. \A h \in Hosts : driving'[h] # {} => phase'[h] = "driving"
  BY <1>1 DEF HeldSuits, Claimants
<1> QED
  BY <1>1, <1>2 DEF HeldSuits

\* The lemmas above cover every step of the fleet.
LEMMA NextHeld ==
    ASSUME TypeOK, HeldSuits, [FleetNext]_fleetVars
    PROVE  HeldSuits'
<1> USE ConstantsAssumption
<1>1. Devices \subseteq Claimants /\ Hosts \subseteq Claimants
  BY DEF Claimants
<1>2. ASSUME NEW c \in Claimants, phase[c] # "idle"
      PROVE  held[c] \in Jobs
  BY <1>2 DEF HeldSuits
<1>3. \A S \in SUBSET Jobs : Disturb(S) => disturbed' \subseteq Jobs
  BY DEF Disturb, HeldSuits
<1>4. ASSUME UNCHANGED <<runners, orphaned>>, disturbed' \subseteq Jobs
      PROVE  HeldSuits'
  BY <1>4 DEF HeldSuits, runners
<1>5. ASSUME NEW c \in Claimants, phase[c] # "idle", NEW v, NEW heard, Report(c, v, heard),
             c \in Devices \/ phase[c] # "driving", UNCHANGED <<driving, orphaned>>
      PROVE  HeldSuits'
  <2>1. {} \in SUBSET Jobs /\ {held[c]} \in SUBSET Jobs
    BY <1>2, <1>5
  <2>2. CASE heard
    BY <1>3, <1>5, <2>1, <2>2, LetGoHeld DEF Report, HeldSuits
  <2>3. CASE ~heard
    <3>1. /\ Goto(c, "failing") /\ UNCHANGED held /\ disturbed' \subseteq Jobs
          /\ "failing" \in Phase \ {"idle"}
      BY <1>3, <1>5, <2>1, <2>3 DEF Report, Phase
    <3>2. c \in Hosts => driving[c] = {}
      BY <1>5, Kinds DEF HeldSuits
    <3>3. driving' \in [Hosts -> SUBSET Devices]
      BY <1>5 DEF HeldSuits
    <3> QED
      BY <1>5, <3>1, <3>2, <3>3, GotoHeld
  <2> QED
    BY <2>2, <2>3
<1>6. CASE Client \/ (\E j \in Jobs : Lapses(j)) \/ (\E c \in Claimants : Beacons(c))
           \/ (\E d \in Devices : RunnerRow(d))
           \/ (\E h \in Hosts, d \in Devices, v \in Verdict : ExecutorRow(h, d, v))
           \/ UNCHANGED fleetVars
  BY <1>4, <1>6
     DEF Client, Lapses, Beacons, RunnerRow, ExecutorRow, fleetVars, history, HeldSuits
<1>7. CASE \E j \in Jobs : OperatorCancels(j)
  BY <1>3, <1>4, <1>7 DEF OperatorCancels
<1>8. CASE \E d \in Devices : OperatorUnlocks(d)
  BY <1>3, <1>4, <1>8 DEF OperatorUnlocks, BreakLock, TypeOK
<1>9. CASE Sweeps
  BY <1>3, <1>4, <1>9 DEF Sweeps, Lapsed
<1>10. CASE \E c \in Claimants : Abandon(c)
  <2>1. PICK c \in Claimants : Abandon(c)
    BY <1>10
  <2>2. orphaned' = orphaned \union ({held[c]} \intersect HostJobs) /\ orphaned \subseteq HostJobs
    BY <2>1 DEF Abandon, HeldSuits
  <2>3. LetGo(c) /\ driving' = [h \in Hosts |-> IF h = c THEN {} ELSE driving[h]]
    BY <2>1 DEF Abandon
  <2>4. disturbed' \subseteq Jobs
    BY <2>1 DEF Abandon, HeldSuits
  <2>5. orphaned' \subseteq HostJobs
    BY <2>2
  <2> QED
    BY <2>3, <2>4, <2>5, LetGoHeld
<1>11. CASE \E j \in Jobs, d \in Devices, b \in BOOLEAN : RunnerClaims(j, d, b)
  BY <1>1, <1>11, TakeHeld DEF RunnerClaims, ClaimDevice, At, Phase
<1>12. CASE \E d \in Devices : RunnerThrows(d)
  BY <1>1, <1>12, GotoHeld, Kinds DEF RunnerThrows, At, Phase, history, HeldSuits
<1>13. CASE \E d \in Devices, v \in Verdict, b \in BOOLEAN : RunnerReports(d, v, b)
  BY <1>1, <1>5, <1>13 DEF RunnerReports, At
<1>14. CASE \E d \in Devices : RunnerFails(d)
  BY <1>1, <1>14, LetGoHeld DEF RunnerFails, At, history, HeldSuits
<1>15. CASE \E j \in Jobs, h \in Hosts, b \in BOOLEAN : ExecutorClaims(j, h, b)
  BY <1>1, <1>15, TakeHeld DEF ExecutorClaims, ClaimHost, At, Phase
<1>16. ASSUME NEW h \in Hosts, NEW D \in LockSets, NEW b \in BOOLEAN, ExecutorLocks(h, D, b)
       PROVE  HeldSuits'
  <2>1. driving[h] = {} /\ phase[h] # "idle"
    BY <1>16 DEF ExecutorLocks, At, HeldSuits
  <2>2. Granted(held[h], D) \subseteq Devices
    BY DEF Granted
  <2>3. driving' \in [Hosts -> SUBSET Devices] /\ \A g \in Hosts \ {h} : driving'[g] = driving[g]
    BY <1>16, <2>2 DEF ExecutorLocks, HeldSuits
  <2>4. /\ UNCHANGED <<held, orphaned>> /\ disturbed' \subseteq Jobs
        /\ \/ Goto(h, "driving")
           \/ Goto(h, "failing") /\ driving'[h] = {}
    BY <1>16, <2>1 DEF ExecutorLocks, history, HeldSuits
  <2> QED
    BY <1>1, <2>1, <2>3, <2>4, GotoHeld DEF Phase
<1>17. ASSUME NEW h \in Hosts, NEW p \in Phase, NEW b \in BOOLEAN, ExecutorUnlocks(h, p, b)
       PROVE  HeldSuits'
  <2>1. /\ driving' \in [Hosts -> SUBSET Devices] /\ driving'[h] = {}
        /\ \A g \in Hosts \ {h} : driving'[g] = driving[g]
    BY <1>17 DEF ExecutorUnlocks, HeldSuits
  <2>2. /\ UNCHANGED <<held, orphaned>> /\ disturbed' \subseteq Jobs
        /\ phase[h] # "idle" /\ p \in Phase \ {"idle"} /\ Goto(h, p)
    BY <1>17 DEF ExecutorUnlocks, history, HeldSuits, At
  <2> QED
    BY <1>1, <2>1, <2>2, GotoHeld
<1>18. CASE \E h \in Hosts, v \in Verdict, b \in BOOLEAN : ExecutorReports(h, v, b)
  BY <1>1, <1>5, <1>18 DEF ExecutorReports, At
<1>19. CASE \E h \in Hosts, v \in Verdict : ExecutorExcuses(h, v)
  BY <1>1, <1>19, LetGoHeld DEF ExecutorExcuses, At, history, HeldSuits
<1> QED
  BY <1>6, <1>7, <1>8, <1>9, <1>10, <1>11, <1>12, <1>13, <1>14, <1>15, <1>16, <1>17,
     <1>18, <1>19 DEF FleetNext

-----------------------------------------------------------------------------
(***************************************************************************)
(* The fleet implements the queue                                          *)
(***************************************************************************)

\* Each request of a runner or an executor is one the queue allows.
LEMMA StepIsQueueStep ==
    ASSUME HeldSuits, [FleetNext]_fleetVars
    PROVE  [Next]_vars
<1> USE ConstantsAssumption
<1>1. ASSUME NEW c \in Claimants, held[c] # NoJob
      PROVE  /\ held[c] \in Jobs /\ c \in Reporters[held[c]]
             /\ c \in Hosts => Devices \subseteq Reporters[held[c]]
  BY <1>1, ReportersAssumption DEF HeldSuits
<1>2. ASSUME NEW c \in Claimants, phase[c] # "idle"
      PROVE  held[c] # NoJob
  BY <1>2 DEF HeldSuits
<1>3. Devices \subseteq Claimants /\ Hosts \subseteq Claimants
  BY DEF Claimants
<1>4. ASSUME NEW c \in Claimants, phase[c] # "idle", NEW v \in Verdict, Final(held[c], c, v)
      PROVE  Next
  BY <1>1, <1>2, <1>4 DEF Next
<1>5. CASE UNCHANGED vars
  BY <1>5
<1>6. CASE Client
  BY <1>6 DEF Client, Next
<1>7. CASE \E j \in Jobs : OperatorCancels(j) \/ Lapses(j)
  BY <1>7 DEF OperatorCancels, Lapses, Next
<1>8. CASE \E d \in Devices : OperatorUnlocks(d)
  BY <1>8 DEF OperatorUnlocks, Next
<1>9. CASE Sweeps
  BY <1>9 DEF Sweeps, Next
<1>10. CASE \E c \in Claimants : Beacons(c)
  BY <1>1, <1>10 DEF Beacons, Next
<1>11. CASE (\E c \in Claimants : Abandon(c)) \/ (\E d \in Devices : RunnerThrows(d))
  BY <1>5, <1>11 DEF Abandon, RunnerThrows
<1>12. CASE \E j \in Jobs, d \in Devices, b \in BOOLEAN : RunnerClaims(j, d, b)
  BY <1>12 DEF RunnerClaims, Next
<1>13. CASE \E d \in Devices : RunnerRow(d)
  <2>1. PICK d \in Devices : phase[d] # "idle" /\ Row(held[d], d, "pass")
    BY <1>13 DEF RunnerRow, At
  <2>2. held[d] \in Jobs /\ d \in Reporters[held[d]]
    BY <1>1, <1>2, <1>3, <2>1
  <2> QED
    BY <2>1, <2>2 DEF Next, Verdict
<1>14. CASE \E d \in Devices, v \in Verdict, b \in BOOLEAN : RunnerReports(d, v, b)
  BY <1>3, <1>4, <1>14 DEF RunnerReports, Report, At
<1>15. CASE \E d \in Devices : RunnerFails(d)
  BY <1>3, <1>4, <1>15 DEF RunnerFails, At, Verdict
<1>16. CASE \E j \in Jobs, h \in Hosts, b \in BOOLEAN : ExecutorClaims(j, h, b)
  BY <1>16 DEF ExecutorClaims, Next
<1>17. CASE \E h \in Hosts, D \in LockSets, b \in BOOLEAN : ExecutorLocks(h, D, b)
  BY <1>1, <1>2, <1>3, <1>17 DEF ExecutorLocks, At, Next
<1>18. CASE \E h \in Hosts, d \in Devices, v \in Verdict : ExecutorRow(h, d, v)
  <2>1. PICK h \in Hosts, d \in Devices, v \in Verdict :
           phase[h] # "idle" /\ Row(held[h], d, v)
    BY <1>18 DEF ExecutorRow, At
  <2>2. held[h] \in Jobs /\ d \in Reporters[held[h]]
    BY <1>1, <1>2, <1>3, <2>1
  <2> QED
    BY <2>1, <2>2 DEF Next
<1>19. CASE \E h \in Hosts, p \in Phase, b \in BOOLEAN : ExecutorUnlocks(h, p, b)
  BY <1>1, <1>2, <1>3, <1>5, <1>19 DEF ExecutorUnlocks, At, Next
<1>20. CASE \E h \in Hosts, v \in Verdict, b \in BOOLEAN : ExecutorReports(h, v, b)
  BY <1>3, <1>4, <1>20 DEF ExecutorReports, Report, At
<1>21. CASE \E h \in Hosts, v \in Verdict : ExecutorExcuses(h, v)
  BY <1>3, <1>4, <1>21 DEF ExecutorExcuses, At
<1> QED
  BY <1>5, <1>6, <1>7, <1>8, <1>9, <1>10, <1>11, <1>12, <1>13, <1>14, <1>15, <1>16,
     <1>17, <1>18, <1>19, <1>20, <1>21 DEF FleetNext, fleetVars

\* What programs hold suits them at all times, and the tables keep their types.
LEMMA FleetHeld == FleetSpec => [](TypeOK /\ HeldSuits)
<1>1. FleetInit => TypeOK /\ HeldSuits
  BY InitHeld, InitType DEF FleetInit
<1>2. TypeOK /\ HeldSuits /\ [FleetNext]_fleetVars => TypeOK' /\ HeldSuits'
  BY NextHeld, StepIsQueueStep, NextType
<1> QED
  BY <1>1, <1>2, PTL DEF FleetSpec

\* The programs keep their types.
THEOREM FleetTypeCorrect == FleetSpec => []FleetTypeOK
<1>1. HeldSuits => FleetTypeOK
  BY DEF HeldSuits, FleetTypeOK
<1> QED
  BY <1>1, FleetHeld, PTL

\* The fleet implements the queue: whatever is proved of the queue under any
\* clients holds of the fleet.
THEOREM FleetImplementsQueue == FleetSpec => ImplementsJobQueue
<1>1. FleetInit => Init
  BY DEF FleetInit
<1>2. HeldSuits /\ [FleetNext]_fleetVars => [Next]_vars
  BY StepIsQueueStep
<1> QED
  BY <1>1, <1>2, FleetHeld, PTL DEF FleetSpec, ImplementsJobQueue, Spec

-----------------------------------------------------------------------------
(***************************************************************************)
(* What programs believe and what the tables say.  Agrees is inductive     *)
(* with HeldSuits, which says what is held, and the queue's ClaimInv,      *)
(* which says that only a host job's lock can outlive its claim.           *)
(***************************************************************************)

Agrees == RunMatchesRecord /\ LockHasOwner

\* Only the run of a disturbed job can be shared.
LEMMA SoleHolder ==
    ASSUME RunMatchesRecord, NEW b \in Claimants, NEW c \in Claimants,
           held[b] = held[c], held[b] # NoJob, held[b] \notin disturbed
    PROVE  b = c
BY DEF RunMatchesRecord

\* Nobody holds anything at first.
LEMMA InitAgrees == FleetInit => Agrees
BY ConstantsAssumption DEF FleetInit, Init, Agrees, RunMatchesRecord, LockHasOwner

\* A step that leaves every claim, lock and run as it is.
LEMMA QuietAgrees ==
    ASSUME Agrees, HeldSuits,
           \A j \in Jobs : status[j] = "claimed" => status'[j] = "claimed",
           UNCHANGED <<claimed_by, device_locks, held, driving, orphaned>>,
           disturbed \subseteq disturbed', TypeOK
    PROVE  Agrees'
<1>1. RunMatchesRecord'
  BY DEF Agrees, RunMatchesRecord, Runs, HeldSuits
<1>2. LockHasOwner'
  BY DEF Agrees, LockHasOwner, TypeOK
<1> QED
  BY <1>1, <1>2 DEF Agrees

\* The claims on the jobs in S end and their locks go; some programs let go of
\* them, and the run of any that does not is disturbed.
LEMMA EndOfRuns ==
    ASSUME TypeOK, HeldSuits, Agrees, NEW S \in SUBSET Jobs,
           \A j \in Jobs \ S : /\ status[j] = "claimed" => status'[j] = "claimed"
                               /\ claimed_by'[j] = claimed_by[j],
           device_locks' = LocksWithout(S),
           \A c \in Claimants : held'[c] = held[c] \/ (held'[c] = NoJob /\ held[c] \in S),
           \A c \in Claimants : held'[c] \in S => held'[c] \in disturbed',
           disturbed \subseteq disturbed', UNCHANGED <<driving, orphaned>>
    PROVE  Agrees'
<1> USE ConstantsAssumption
<1>1. \A d \in Devices :
         device_locks'[d] = IF device_locks[d] \in S THEN NoJob ELSE device_locks[d]
  BY LocksWithoutType
<1>2. Devices \subseteq Claimants
  BY DEF Claimants
<1>3. ASSUME NEW c \in Claimants, held'[c] # NoJob, held'[c] \notin disturbed'
      PROVE  /\ status'[held'[c]] = "claimed" /\ claimed_by'[held'[c]] = c
             /\ \A d \in Devices : Runs(c, d)' => device_locks'[d] = held'[c]
  <2>1. held'[c] = held[c] /\ held[c] \in Jobs \ S /\ held[c] \notin disturbed
    BY <1>3 DEF HeldSuits
  <2>2. \A d \in Devices : Runs(c, d)' => Runs(c, d)
    BY <1>2, <2>1 DEF Runs
  <2>3. /\ status[held[c]] = "claimed" /\ claimed_by[held[c]] = c
        /\ \A d \in Devices : Runs(c, d) => device_locks[d] = held[c]
    BY <2>1 DEF Agrees, RunMatchesRecord
  <2> QED
    BY <1>1, <2>1, <2>2, <2>3
<1>4. ASSUME NEW d \in Devices, device_locks'[d] # NoJob
      PROVE  \/ status'[device_locks'[d]] = "claimed"
             \/ \E c \in Claimants : held'[c] = device_locks'[d]
             \/ device_locks'[d] \in orphaned'
  <2>1. device_locks'[d] = device_locks[d] /\ device_locks[d] \in Jobs \ S
    BY <1>1, <1>4 DEF TypeOK
  <2>2. \/ status[device_locks[d]] = "claimed"
        \/ \E c \in Claimants : held[c] = device_locks[d]
        \/ device_locks[d] \in orphaned
    BY <2>1 DEF Agrees, LockHasOwner
  <2> QED
    BY <2>1, <2>2
<1> QED
  BY <1>3, <1>4 DEF Agrees, RunMatchesRecord, LockHasOwner

\* What a close leaves of everybody else's claim.
LEMMA CloseKeepsClaims ==
    ASSUME TypeOK, NEW j \in Jobs, NEW s \in Closed, Close(j, s)
    PROVE  /\ \A k \in Jobs \ {j} : status[k] = "claimed" => status'[k] = "claimed"
           /\ \A k \in Jobs \ {j} : status[k] \in Closed => status'[k] = status[k]
           /\ device_locks' = LocksWithout({j})
<1>1. \A k \in Jobs \ {j} : status[k] # "waiting" => status'[k] = status[k]
  BY CloseMovesWaiters
<1> QED
  BY <1>1 DEF Close, Closed, Broken

\* A final row ends the claim of an undisturbed job, which its sender alone runs.
LEMMA FinalAgrees ==
    ASSUME TypeOK, HeldSuits, Agrees, NEW c \in Claimants, held[c] # NoJob,
           NEW v, Final(held[c], c, v), UNCHANGED <<driving, orphaned>>,
           \/ LetGo(c) /\ disturbed \subseteq disturbed'
           \/ UNCHANGED held /\ Disturb({held[c]})
    PROVE  Agrees'
<1>0. PICK j \in Jobs : j = held[c]
  BY DEF HeldSuits
<1>1. j \in Jobs /\ j # NoJob
  BY ConstantsAssumption
<1>2. PICK s \in Closed : Close(j, s)
  BY <1>0, ClosingStatusIsClosed DEF Final
<1>3. UNCHANGED claimed_by
  BY DEF Final
<1>4. \A k \in Jobs \ {j} : /\ status[k] = "claimed" => status'[k] = "claimed"
                            /\ claimed_by'[k] = claimed_by[k]
  BY <1>1, <1>2, <1>3, CloseKeepsClaims
<1>5. device_locks' = LocksWithout({j})
  BY <1>2 DEF Close
<1>6. CASE LetGo(c) /\ disturbed \subseteq disturbed'
  <2>1. held' = [held EXCEPT ![c] = NoJob]
    BY <1>6 DEF LetGo
  <2>2. \A b \in Claimants : held'[b] = IF b = c THEN NoJob ELSE held[b]
    BY <2>1 DEF HeldSuits
  <2>3. ASSUME NEW b \in Claimants, held'[b] = j PROVE held'[b] \in disturbed'
    <3>1. b # c /\ held[b] = held[c] /\ held[b] # NoJob
      BY <1>0, <1>1, <2>2, <2>3
    <3>2. held[b] \in disturbed
      BY <3>1, SoleHolder DEF Agrees
    <3>3. held'[b] = held[b]
      BY <2>2, <3>1
    <3> QED
      BY <1>6, <3>2, <3>3
  <2>4. \A b \in Claimants : held'[b] = held[b] \/ (held'[b] = NoJob /\ held[b] \in {j})
    BY <1>0, <2>2
  <2> QED
    <3>1. {j} \in SUBSET Jobs /\ disturbed \subseteq disturbed' /\ UNCHANGED <<driving, orphaned>>
      BY <1>1, <1>6
    <3>2. \A b \in Claimants : held'[b] \in {j} => held'[b] \in disturbed'
      BY <2>3
    <3> QED
      BY <1>4, <1>5, <2>4, <3>1, <3>2, EndOfRuns
<1>7. CASE UNCHANGED held /\ Disturb({held[c]})
  <2>1. disturbed' = disturbed \union {j}
    BY <1>0, <1>7 DEF Disturb
  <2>2. /\ disturbed \subseteq disturbed'
        /\ \A b \in Claimants : held'[b] = held[b]
        /\ \A b \in Claimants : held'[b] \in {j} => held'[b] \in disturbed'
    BY <1>7, <2>1
  <2> QED
    <3>1. {j} \in SUBSET Jobs /\ UNCHANGED <<driving, orphaned>>
      BY <1>1
    <3> QED
      BY <1>4, <1>5, <2>2, <3>1, EndOfRuns
<1> QED
  BY <1>6, <1>7

\* A claim gives a queued job, which no undisturbed run has, to an idle program.
LEMMA ClaimAgrees ==
    ASSUME TypeOK, HeldSuits, Agrees, NEW j \in Jobs, NEW c \in Claimants, NEW p,
           NEW delivered \in BOOLEAN, phase[c] = "idle", Give(j, c), Take(j, c, p, delivered),
           \/ c \in Hosts /\ UNCHANGED device_locks
           \/ /\ c \in Devices /\ device_locks[c] = NoJob
              /\ device_locks' = [device_locks EXCEPT ![c] = j],
           UNCHANGED <<driving, history>>
    PROVE  Agrees'
<1> USE ConstantsAssumption
<1>1. /\ status[j] = "queued" /\ j # NoJob
      /\ status' = [status EXCEPT ![j] = "claimed"]
      /\ claimed_by' = [claimed_by EXCEPT ![j] = c]
  BY DEF Give, Claimable
<1>2. /\ status'[j] = "claimed" /\ claimed_by'[j] = c
      /\ \A k \in Jobs \ {j} : status'[k] = status[k] /\ claimed_by'[k] = claimed_by[k]
  BY <1>1 DEF TypeOK
<1>3. held[c] = NoJob /\ (c \in Hosts => driving[c] = {})
  BY DEF HeldSuits
<1>4. /\ disturbed' = disturbed /\ UNCHANGED <<driving, orphaned>>
      /\ \A b \in Claimants \ {c} : held'[b] = held[b]
      /\ \/ held'[c] = j
         \/ held'[c] = NoJob
  BY <1>3 DEF Take, history, HeldSuits
<1>5. \A d \in Devices : device_locks'[d] = device_locks[d]
                        \/ (device_locks[d] = NoJob /\ d = c /\ device_locks'[d] = j)
  BY DEF TypeOK
<1>6. ASSUME NEW b \in Claimants, held'[b] # NoJob, held'[b] \notin disturbed'
      PROVE  /\ status'[held'[b]] = "claimed" /\ claimed_by'[held'[b]] = b
             /\ \A d \in Devices : Runs(b, d)' => device_locks'[d] = held'[b]
  <2>1. CASE b = c
    <3>1. held'[c] = j
      BY <1>4, <1>6, <2>1
    <3>2. \A d \in Devices : Runs(c, d)' => d = c /\ c \notin Hosts
      BY <1>3, <1>4 DEF Runs
    <3>3. c \notin Hosts => device_locks'[c] = j
      BY DEF TypeOK
    <3> QED
      BY <1>2, <2>1, <3>1, <3>2, <3>3
  <2>2. CASE b # c
    <3>1. held'[b] = held[b] /\ held[b] \in Jobs /\ held[b] \notin disturbed
      BY <1>4, <1>6, <2>2 DEF HeldSuits
    <3>2. /\ status[held[b]] = "claimed" /\ claimed_by[held[b]] = b
          /\ \A d \in Devices : Runs(b, d) => device_locks[d] = held[b]
      BY <1>6, <3>1 DEF Agrees, RunMatchesRecord
    <3>3. held[b] # j
      BY <1>1, <3>2
    <3>4. \A d \in Devices : Runs(b, d)' => Runs(b, d)
      BY <1>4, <3>1 DEF Runs
    <3> QED
      BY <1>2, <1>5, <1>6, <3>1, <3>2, <3>3, <3>4
  <2> QED
    BY <2>1, <2>2
<1>7. ASSUME NEW d \in Devices, device_locks'[d] # NoJob
      PROVE  \/ status'[device_locks'[d]] = "claimed"
             \/ \E b \in Claimants : held'[b] = device_locks'[d]
             \/ device_locks'[d] \in orphaned'
  <2>1. CASE device_locks'[d] = j
    BY <1>2, <2>1
  <2>2. CASE device_locks'[d] # j
    <3>1. device_locks'[d] = device_locks[d] /\ device_locks[d] \in Jobs \ {j}
      BY <1>5, <1>7, <2>2 DEF TypeOK
    <3>2. \/ status[device_locks[d]] = "claimed"
          \/ \E b \in Claimants \ {c} : held[b] = device_locks[d]
          \/ device_locks[d] \in orphaned
      BY <1>3, <1>7, <3>1 DEF Agrees, LockHasOwner
    <3> QED
      BY <1>2, <1>4, <3>1, <3>2
  <2> QED
    BY <2>1, <2>2
<1> QED
  BY <1>6, <1>7 DEF Agrees, RunMatchesRecord, LockHasOwner

\* An executor is granted only free locks and its own job's.
LEMMA LocksAgrees ==
    ASSUME TypeOK, HeldSuits, Agrees, NEW h \in Hosts, NEW D \in LockSets, NEW b \in BOOLEAN,
           ExecutorLocks(h, D, b)
    PROVE  Agrees'
<1> USE ConstantsAssumption
<1>1. /\ \A d \in Devices : device_locks'[d] =
             IF d \in Granted(held[h], D) THEN held[h] ELSE device_locks[d]
      /\ UNCHANGED <<status, claimed_by, held, disturbed, orphaned>>
  BY DEF ExecutorLocks, AcquireLocks, history
<1>2. /\ \A g \in Hosts \ {h} : driving'[g] = driving[g]
      /\ driving'[h] = Granted(held[h], D) \/ driving'[h] = driving[h]
  BY DEF ExecutorLocks, HeldSuits
<1>3. driving[h] = {}
  BY DEF ExecutorLocks, At, HeldSuits
<1>4. Granted(held[h], D) = {d \in D : device_locks[d] \in {NoJob, held[h]}}
  BY DEF Granted
<1>5. h \in Claimants
  BY DEF Claimants
<1>6. ASSUME NEW c \in Claimants, held[c] # NoJob, held[c] \notin disturbed
      PROVE  /\ status[held[c]] = "claimed" /\ claimed_by[held[c]] = c
             /\ \A d \in Devices : Runs(c, d)' => device_locks'[d] = held[c]
  <2>1. /\ status[held[c]] = "claimed" /\ claimed_by[held[c]] = c
        /\ \A d \in Devices : Runs(c, d) => device_locks[d] = held[c]
    BY <1>6 DEF Agrees, RunMatchesRecord
  <2>2. ASSUME NEW d \in Devices, Runs(c, d)'
        PROVE  device_locks'[d] = held[c]
    <3>1. CASE c = h
      <4>1. d \in driving'[h]
        BY <2>2, <3>1 DEF Runs
      <4>2. d \in Granted(held[h], D)
        BY <1>2, <1>3, <4>1
      <4> QED
        BY <1>1, <3>1, <4>2
    <3>2. CASE c # h
      <4>1. Runs(c, d)
        BY <1>1, <1>2, <2>2, <3>2 DEF Runs
      <4>2. device_locks[d] = held[c]
        BY <2>1, <4>1
      <4> QED
        BY <1>1, <1>4, <1>6, <4>2
    <3> QED
      BY <3>1, <3>2
  <2> QED
    BY <2>1, <2>2
<1>7. LockHasOwner'
  BY <1>1, <1>5 DEF Agrees, LockHasOwner
<1>8. RunMatchesRecord'
  BY <1>1, <1>6 DEF RunMatchesRecord
<1> QED
  BY <1>7, <1>8 DEF Agrees

\* An executor releases locks of its own job only, after it stopped driving.
LEMMA UnlocksAgrees ==
    ASSUME TypeOK, HeldSuits, Agrees, NEW h \in Hosts, NEW p, NEW b \in BOOLEAN,
           ExecutorUnlocks(h, p, b)
    PROVE  Agrees'
<1> USE ConstantsAssumption
<1>1. \A d \in Devices : \/ device_locks'[d] = device_locks[d]
                         \/ device_locks[d] = held[h] /\ device_locks'[d] = NoJob
  BY LocksWithoutType DEF ExecutorUnlocks, ReleaseLocks, vars
<1>2. UNCHANGED <<status, claimed_by, held, disturbed, orphaned>>
  BY DEF ExecutorUnlocks, ReleaseLocks, vars, history
<1>3. driving'[h] = {} /\ \A g \in Hosts \ {h} : driving'[g] = driving[g]
  BY DEF ExecutorUnlocks, HeldSuits
<1>4. h \in Claimants
  BY DEF Claimants
<1>5. ASSUME NEW c \in Claimants, held[c] # NoJob, held[c] \notin disturbed,
             NEW d \in Devices, Runs(c, d)'
      PROVE  device_locks'[d] = held[c]
  <2>1. c # h /\ Runs(c, d)
    BY <1>2, <1>3, <1>5 DEF Runs
  <2>2. device_locks[d] = held[c]
    BY <1>5, <2>1 DEF Agrees, RunMatchesRecord
  <2>3. held[c] # held[h]
    BY <1>4, <1>5, <2>1, SoleHolder DEF Agrees
  <2> QED
    BY <1>1, <2>2, <2>3
<1>6. RunMatchesRecord'
  BY <1>2, <1>5 DEF Agrees, RunMatchesRecord
<1>7. LockHasOwner'
  BY <1>1, <1>2 DEF Agrees, LockHasOwner
<1> QED
  BY <1>6, <1>7 DEF Agrees

\* A program that dies leaves its device's lock to the sweep and, if it is an
\* executor, its locks to nobody.
LEMMA AbandonAgrees ==
    ASSUME TypeOK, HeldSuits, Agrees, ClaimInv, NEW c \in Claimants, Abandon(c)
    PROVE  Agrees'
<1> USE ConstantsAssumption
<1>1. /\ UNCHANGED <<status, claimed_by, device_locks>>
      /\ UNCHANGED disturbed
      /\ orphaned' = orphaned \union ({held[c]} \intersect HostJobs)
  BY DEF Abandon, vars
<1>2. held'[c] = NoJob /\ \A b \in Claimants \ {c} : held'[b] = held[b]
  BY DEF Abandon, LetGo, HeldSuits
<1>3. ASSUME NEW b \in Claimants, held'[b] # NoJob, held'[b] \notin disturbed'
      PROVE  /\ status'[held'[b]] = "claimed" /\ claimed_by'[held'[b]] = b
             /\ \A d \in Devices : Runs(b, d)' => device_locks'[d] = held'[b]
  <2>1. b # c /\ held'[b] = held[b] /\ held[b] \notin disturbed
    BY <1>1, <1>2, <1>3
  <2>2. \A d \in Devices : Runs(b, d)' => Runs(b, d)
    BY <2>1 DEF Abandon, Runs
  <2>3. /\ status[held[b]] = "claimed" /\ claimed_by[held[b]] = b
        /\ \A d \in Devices : Runs(b, d) => device_locks[d] = held[b]
    BY <1>3, <2>1 DEF Agrees, RunMatchesRecord
  <2> QED
    BY <1>1, <2>1, <2>2, <2>3
<1>4. ASSUME NEW d \in Devices, device_locks[d] # NoJob
      PROVE  \/ status[device_locks[d]] = "claimed"
             \/ \E b \in Claimants : held'[b] = device_locks[d]
             \/ device_locks[d] \in orphaned'
  <2>1. device_locks[d] \in Jobs
    BY <1>4 DEF TypeOK
  <2>2. CASE device_locks[d] = held[c]
    <3>1. CASE device_locks[d] \in HostJobs
      BY <1>1, <2>2, <3>1
    <3>2. CASE device_locks[d] \notin HostJobs
      BY <2>1, <3>2 DEF ClaimInv, LockFollowsClaim
    <3> QED
      BY <3>1, <3>2
  <2>3. CASE device_locks[d] # held[c]
    <3>1. \/ status[device_locks[d]] = "claimed"
          \/ \E b \in Claimants \ {c} : held[b] = device_locks[d]
          \/ device_locks[d] \in orphaned
      BY <1>4, <2>3 DEF Agrees, LockHasOwner
    <3> QED
      BY <1>1, <1>2, <3>1
  <2> QED
    BY <2>2, <2>3
<1> QED
  BY <1>1, <1>3, <1>4 DEF Agrees, RunMatchesRecord, LockHasOwner

\* Every step keeps the programs' view and the tables in agreement.
LEMMA NextAgrees ==
    ASSUME TypeOK, HeldSuits, ClaimInv, Agrees, [FleetNext]_fleetVars
    PROVE  Agrees'
<1> USE ConstantsAssumption
<1>1. Devices \subseteq Claimants /\ Hosts \subseteq Claimants
  BY DEF Claimants
<1>2. ASSUME NEW c \in Claimants, phase[c] # "idle"
      PROVE  held[c] \in Jobs /\ held[c] # NoJob
  BY <1>2 DEF HeldSuits
<1>3. ASSUME UNCHANGED <<status, claimed_by, device_locks, held, driving, history>>
      PROVE  Agrees'
  BY <1>3, QuietAgrees DEF history
<1>4. ASSUME NEW c \in Claimants, phase[c] # "idle", NEW v, NEW heard, Report(c, v, heard),
             UNCHANGED <<driving, orphaned>>
      PROVE  Agrees'
  BY <1>2, <1>4, FinalAgrees DEF Report, Disturb
<1>5. ASSUME NEW c \in Claimants, phase[c] # "idle", NEW v, Final(held[c], c, v), LetGo(c),
             UNCHANGED <<driving, history>>
      PROVE  Agrees'
  BY <1>2, <1>5, FinalAgrees DEF history
<1>6. CASE Client
  <2>1. \A j \in Jobs : status[j] = "claimed" => status'[j] = "claimed"
    BY <1>6 DEF Client, Enqueue, SetPriority
  <2>2. UNCHANGED <<claimed_by, device_locks, held, driving, history>>
    BY <1>6 DEF Client, Enqueue, SetPriority, runners
  <2> QED
    BY <2>1, <2>2, QuietAgrees DEF history
<1>7. ASSUME NEW j \in Jobs, OperatorCancels(j)
      PROVE  Agrees'
  <2>1. Close(j, "cancelled") /\ "cancelled" \in Closed
    BY <1>7 DEF OperatorCancels, Cancel, Closed, Broken
  <2>2. \A k \in Jobs \ {j} : /\ status[k] = "claimed" => status'[k] = "claimed"
                              /\ claimed_by'[k] = claimed_by[k]
    BY <1>7, <2>1, CloseKeepsClaims DEF OperatorCancels, Cancel
  <2>3. device_locks' = LocksWithout({j}) /\ {j} \in SUBSET Jobs
    BY <2>1 DEF Close
  <2>4. disturbed' = disturbed \union {j} /\ UNCHANGED <<held, driving, orphaned>>
    BY <1>7 DEF OperatorCancels, Disturb, runners
  <2>5. /\ \A c \in Claimants : held'[c] = held[c]
        /\ \A c \in Claimants : held'[c] \in {j} => held'[c] \in disturbed'
        /\ disturbed \subseteq disturbed'
    BY <2>4
  <2> QED
    BY <2>2, <2>3, <2>4, <2>5, EndOfRuns
<1>8. ASSUME NEW d \in Devices, OperatorUnlocks(d)
      PROVE  Agrees'
  <2>1. /\ device_locks[d] # NoJob
        /\ \A e \in Devices : device_locks'[e] = IF e = d THEN NoJob ELSE device_locks[e]
        /\ disturbed' = disturbed \union {device_locks[d]}
        /\ UNCHANGED <<status, claimed_by, held, driving, orphaned>>
    BY <1>8 DEF OperatorUnlocks, BreakLock, Disturb, runners, TypeOK
  <2>2. \A c \in Claimants, e \in Devices : Runs(c, e)' <=> Runs(c, e)
    BY <2>1 DEF Runs
  <2>3. RunMatchesRecord'
    BY <2>1, <2>2 DEF Agrees, RunMatchesRecord
  <2>4. LockHasOwner'
    BY <2>1 DEF Agrees, LockHasOwner
  <2> QED
    BY <2>3, <2>4 DEF Agrees
<1>9. CASE Sweeps
  <2>1. /\ Lapsed \in SUBSET Jobs /\ device_locks' = LocksWithout(Lapsed)
        /\ \A j \in Jobs \ Lapsed : /\ status[j] = "claimed" => status'[j] = "claimed"
                                    /\ claimed_by'[j] = claimed_by[j]
    BY <1>9 DEF Sweeps, Sweep, Lapsed, Spent
  <2>2. disturbed' = disturbed \union Lapsed /\ UNCHANGED <<held, driving, orphaned>>
    BY <1>9 DEF Sweeps, Disturb, runners
  <2>3. /\ \A c \in Claimants : held'[c] = held[c]
        /\ \A c \in Claimants : held'[c] \in Lapsed => held'[c] \in disturbed'
        /\ disturbed \subseteq disturbed'
    BY <2>2
  <2> QED
    BY <2>1, <2>2, <2>3, EndOfRuns
<1>10. CASE \/ \E j \in Jobs : Lapses(j)
            \/ \E c \in Claimants : Beacons(c)
            \/ \E d \in Devices : RunnerRow(d) \/ RunnerThrows(d)
            \/ \E h \in Hosts, d \in Devices, v \in Verdict : ExecutorRow(h, d, v)
            \/ UNCHANGED fleetVars
  BY <1>3, <1>10 DEF Lapses, LeaseLapse, Beacons, Beacon, RunnerRow, RunnerThrows, ExecutorRow,
                     Row, fleetVars, runners, vars
<1>11. CASE \E c \in Claimants : Abandon(c)
  BY <1>11, AbandonAgrees
<1>12. ASSUME NEW j \in Jobs, NEW d \in Devices, NEW b \in BOOLEAN, RunnerClaims(j, d, b)
       PROVE  Agrees'
  <2>1. Give(j, d) /\ Take(j, d, "driving", b) /\ phase[d] = "idle" /\ d \in Claimants
    BY <1>1, <1>12 DEF RunnerClaims, ClaimDevice, At
  <2>2. \/ d \in Hosts /\ UNCHANGED device_locks
        \/ /\ d \in Devices /\ device_locks[d] = NoJob
           /\ device_locks' = [device_locks EXCEPT ![d] = j]
    BY <1>12 DEF RunnerClaims, ClaimDevice
  <2>3. UNCHANGED <<driving, history>>
    BY <1>12 DEF RunnerClaims
  <2> QED
    BY <2>1, <2>2, <2>3, ClaimAgrees
<1>13. ASSUME NEW j \in Jobs, NEW h \in Hosts, NEW b \in BOOLEAN, ExecutorClaims(j, h, b)
       PROVE  Agrees'
  <2>1. Give(j, h) /\ Take(j, h, "preparing", b) /\ phase[h] = "idle" /\ h \in Claimants
    BY <1>1, <1>13 DEF ExecutorClaims, ClaimHost, At
  <2>2. UNCHANGED device_locks /\ UNCHANGED <<driving, history>>
    BY <1>13 DEF ExecutorClaims, ClaimHost
  <2> QED
    BY <2>1, <2>2, ClaimAgrees
<1>14. CASE \E d \in Devices, v \in Verdict, b \in BOOLEAN : RunnerReports(d, v, b)
  BY <1>1, <1>4, <1>14 DEF RunnerReports, At
<1>15. CASE \E d \in Devices : RunnerFails(d)
  BY <1>1, <1>5, <1>15 DEF RunnerFails, At
<1>16. CASE \E h \in Hosts, D \in LockSets, b \in BOOLEAN : ExecutorLocks(h, D, b)
  BY <1>16, LocksAgrees
<1>17. CASE \E h \in Hosts, p \in Phase, b \in BOOLEAN : ExecutorUnlocks(h, p, b)
  BY <1>17, UnlocksAgrees
<1>18. CASE \E h \in Hosts, v \in Verdict, b \in BOOLEAN : ExecutorReports(h, v, b)
  BY <1>1, <1>4, <1>18 DEF ExecutorReports, At
<1>19. CASE \E h \in Hosts, v \in Verdict : ExecutorExcuses(h, v)
  BY <1>1, <1>5, <1>19 DEF ExecutorExcuses, At
<1> QED
  BY <1>6, <1>7, <1>8, <1>9, <1>10, <1>11, <1>12, <1>13, <1>14, <1>15, <1>16, <1>17,
     <1>18, <1>19 DEF FleetNext

\* The queue's invariants hold of the fleet, and the programs agree with them.
LEMMA FleetInv == FleetSpec => [](TypeOK /\ HeldSuits /\ ClaimInv /\ Agrees)
<1>1. FleetInit => Agrees
  BY InitAgrees
<1>2. FleetSpec => []ClaimInv
  BY FleetImplementsQueue, ClaimsAreSound, PTL DEF ImplementsJobQueue
<1>3. TypeOK /\ HeldSuits /\ ClaimInv /\ Agrees /\ [FleetNext]_fleetVars => Agrees'
  BY NextAgrees
<1> QED
  BY <1>1, <1>2, <1>3, FleetHeld, PTL DEF FleetSpec

\* What a program believes about an undisturbed job is what the collector has on
\* record: it claimed the job, and holds the locks of the devices it drives.
THEOREM RunsMatchRecords == FleetSpec => []RunMatchesRecord
BY FleetInv, PTL DEF Agrees

\* Only an executor that died or could not report leaves a lock behind.
THEOREM LocksHaveOwners == FleetSpec => []LockHasOwner
BY FleetInv, PTL DEF Agrees

\* Two programs drive one device only after something disturbed one of them: both
\* hold the device's one lock, hence the same job, which one of them claimed.
THEOREM DevicesHaveOneDriver == FleetSpec => []OneDriverPerDevice
<1>1. HeldSuits /\ Agrees => OneDriverPerDevice
  <2> SUFFICES ASSUME HeldSuits, Agrees, NEW d \in Devices,
                      NEW b \in Claimants, NEW c \in Claimants, b # c, Runs(b, d), Runs(c, d),
                      held[b] \notin disturbed, held[c] \notin disturbed
               PROVE  FALSE
    BY DEF OneDriverPerDevice
  <2>1. ASSUME NEW e \in Claimants, Runs(e, d) PROVE held[e] # NoJob
    BY <2>1 DEF Runs, HeldSuits
  <2>2. device_locks[d] = held[b] /\ device_locks[d] = held[c]
    BY <2>1 DEF Agrees, RunMatchesRecord
  <2> QED
    BY <2>1, <2>2, SoleHolder DEF Agrees
<1> QED
  BY <1>1, FleetInv, PTL

\* No step of the fleet changes the verdict of a job whose run was undisturbed: a
\* final row's sender believes it holds the job, and then the job is claimed.
LEMMA StepKeepsVerdicts ==
    ASSUME TypeOK, HeldSuits, Agrees, [FleetNext]_fleetVars
    PROVE  \A j \in Jobs : status[j] \in Closed /\ j \notin disturbed' => status'[j] = status[j]
<1> USE ConstantsAssumption
<1> SUFFICES ASSUME NEW j \in Jobs, status[j] \in Closed, j \notin disturbed'
             PROVE  status'[j] = status[j]
  OBVIOUS
<1>1. Devices \subseteq Claimants /\ Hosts \subseteq Claimants
  BY DEF Claimants
<1>2. status[j] \notin {"absent", "waiting", "queued", "claimed"}
  BY DEF Closed, Broken
<1>3. ASSUME NEW c \in Claimants, phase[c] # "idle", NEW v, Final(held[c], c, v),
             disturbed \subseteq disturbed'
      PROVE  status'[j] = status[j]
  <2>1. held[c] \in Jobs /\ held[c] # NoJob
    BY <1>3 DEF HeldSuits
  <2>2. held[c] # j
    BY <1>2, <1>3, <2>1 DEF Agrees, RunMatchesRecord
  <2>3. PICK s \in Closed : Close(held[c], s)
    BY <1>3, ClosingStatusIsClosed DEF Final
  <2> QED
    BY <2>1, <2>2, <2>3, CloseKeepsClaims
<1>4. CASE Client
  BY <1>2, <1>4 DEF Client, Enqueue, SetPriority
<1>5. CASE \E k \in Jobs : OperatorCancels(k)
  <2>1. PICK k \in Jobs : status[k] \in Open /\ Close(k, "cancelled")
    BY <1>5 DEF OperatorCancels, Cancel
  <2>2. j \in Jobs \ {k} /\ "cancelled" \in Closed
    BY <1>2, <2>1 DEF Open, Closed, Broken
  <2> QED
    BY <2>1, <2>2, CloseKeepsClaims
<1>6. CASE Sweeps
  BY <1>2, <1>6 DEF Sweeps, Sweep, Lapsed, Spent
<1>7. CASE \/ \E k \in Jobs, d \in Devices, b \in BOOLEAN : RunnerClaims(k, d, b)
           \/ \E k \in Jobs, h \in Hosts, b \in BOOLEAN : ExecutorClaims(k, h, b)
  BY <1>2, <1>7 DEF RunnerClaims, ClaimDevice, ExecutorClaims, ClaimHost, Give, Claimable, TypeOK
<1>8. CASE \/ \E d \in Devices, v \in Verdict, b \in BOOLEAN : RunnerReports(d, v, b)
           \/ \E h \in Hosts, v \in Verdict, b \in BOOLEAN : ExecutorReports(h, v, b)
  BY <1>1, <1>3, <1>8 DEF RunnerReports, ExecutorReports, Report, Disturb, At
<1>9. CASE \/ \E d \in Devices : RunnerFails(d)
           \/ \E h \in Hosts, v \in Verdict : ExecutorExcuses(h, v)
  BY <1>1, <1>3, <1>9 DEF RunnerFails, ExecutorExcuses, At, history
<1>10. CASE \/ \E d \in Devices : OperatorUnlocks(d)
            \/ \E k \in Jobs : Lapses(k)
            \/ \E c \in Claimants : Beacons(c) \/ Abandon(c)
            \/ \E d \in Devices : RunnerRow(d) \/ RunnerThrows(d)
            \/ \E h \in Hosts, D \in LockSets, b \in BOOLEAN : ExecutorLocks(h, D, b)
            \/ \E h \in Hosts, d \in Devices, v \in Verdict : ExecutorRow(h, d, v)
            \/ \E h \in Hosts, p \in Phase, b \in BOOLEAN : ExecutorUnlocks(h, p, b)
            \/ UNCHANGED fleetVars
  BY <1>10 DEF OperatorUnlocks, BreakLock, Lapses, LeaseLapse, Beacons, Beacon, Abandon, RunnerRow,
               RunnerThrows, Row, ExecutorLocks, AcquireLocks, ExecutorRow, ExecutorUnlocks,
               ReleaseLocks, fleetVars, vars
<1> QED
  BY <1>4, <1>5, <1>6, <1>7, <1>8, <1>9, <1>10 DEF FleetNext

\* A job whose claim was run and reported once keeps its verdict for ever.
THEOREM VerdictsStand == FleetSpec => VerdictStands
<1>1. TypeOK /\ HeldSuits /\ ClaimInv /\ Agrees /\ [FleetNext]_fleetVars =>
        [\A j \in Jobs : status[j] \in Closed /\ j \notin disturbed' =>
            status'[j] = status[j]]_fleetVars
  BY StepKeepsVerdicts
<1> QED
  BY <1>1, FleetInv, PTL DEF FleetSpec, VerdictStands

\* What is proved of the queue whatever its clients do holds of it among runners
\* and executors: leases, attempts, locks and waiters are in order in the fleet.
THEOREM FleetKeepsQueue ==
    FleetSpec => [](/\ LeaseIffClaimed /\ WithinAttempts
                    /\ LockFollowsClaim /\ OneJobPerDevice
                    /\ WaiterHasReason /\ WaitersWaitOnWork)
BY FleetImplementsQueue, LeasesFollowClaims, AttemptsAreBounded, LocksFollowClaims,
   DevicesWorkOneJob, WaitersHaveReasons, NobodyWaitsInACircle, PTL DEF ImplementsJobQueue

\* The two refinements compose: a client that sees the queue through stage,
\* worker and starts left sees nothing else of the fleet that works it.
THEOREM FleetImplementsLifecycle == FleetSpec => ImplementsLifecycle
BY FleetImplementsQueue, QueueImplementsLifecycle, PTL DEF ImplementsJobQueue

=============================================================================
