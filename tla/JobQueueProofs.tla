--------------------------- MODULE JobQueueProofs ---------------------------
(***************************************************************************)
(* The invariants of the queue, for any number of jobs and claimants and   *)
(* any pattern of targets, dependencies, attempts and priorities.          *)
(***************************************************************************)
EXTENDS Settling, FiniteSetTheorems, WellFoundedInduction, TLAPS

-----------------------------------------------------------------------------
(***************************************************************************)
(* Induction, from the library's well-founded order on the naturals        *)
(***************************************************************************)

\* Every non-empty set of naturals has a least element.
LEMMA NatMinimum ==
    ASSUME NEW T \in SUBSET Nat, T # {}
    PROVE  \E x \in T : \A y \in T : x <= y
  <1>1. PICK x \in T : \A y \in T : ~(<<y, x>> \in OpToRel(<, Nat))
    BY NatLessThanWellFounded, WFMin
  <1>2. ASSUME NEW y \in T PROVE x <= y
    <2>1. ~(y < x)
      BY <1>1 DEF OpToRel
    <2> QED
      BY <2>1
  <1> QED
    BY <1>2

\* A set that holds 0 and the successor of each natural in it holds them all.
LEMMA SetInduction ==
    ASSUME NEW E, 0 \in E, \A n \in Nat : n \in E => n + 1 \in E
    PROVE  Nat \subseteq E
  <1> DEFINE T == Nat \ E
  <1>1. SUFFICES ASSUME T # {} PROVE FALSE
    OBVIOUS
  <1>2. PICK x \in T : \A y \in T : x <= y
    BY <1>1, NatMinimum
  <1>3. x # 0 /\ x - 1 \in Nat
    OBVIOUS
  <1>4. x - 1 \notin T
    BY <1>2, <1>3
  <1> QED
    BY <1>3, <1>4

-----------------------------------------------------------------------------
(***************************************************************************)
(* What a settlement does                                                  *)
(***************************************************************************)

\* A settlement moves only jobs that wait, and never to claimed, done or
\* cancelled.
LEMMA SettlementMovesWaiters ==
    ASSUME NEW st \in [Jobs -> Status], NEW c \in Jobs, NEW new \in Settlements(st, c)
    PROVE  /\ new \in [Jobs -> Status]
           /\ \A w \in Jobs :
                 IF st[w] = "waiting" THEN new[w] \in {"waiting", "queued", "failed", "skipped"}
                                      ELSE new[w] = st[w]
           /\ IsSettlement(st, new, c)
<1> DEFINE W == {w \in Jobs : st[w] = "waiting"}
           With(f) == [j \in Jobs |-> IF j \in W THEN f[j] ELSE st[j]]
<1>1. PICK f \in [W -> {"waiting", "queued", "failed", "skipped"}] : new = With(f)
  BY DEF Settlements
<1>2. IsSettlement(st, new, c)
  BY DEF Settlements
<1>3. \A w \in Jobs :
         IF st[w] = "waiting" THEN new[w] \in {"waiting", "queued", "failed", "skipped"}
                              ELSE new[w] = st[w]
  BY <1>1
<1>4. new \in [Jobs -> Status]
  BY <1>1 DEF Status, Open, Closed, Broken
<1> QED
  BY <1>2, <1>3, <1>4

\* What closing a job leaves of the statuses.
LEMMA CloseMovesWaiters ==
    ASSUME TypeOK, NEW j \in Jobs, NEW s \in Closed, Close(j, s)
    PROVE  /\ status' \in [Jobs -> Status]
           /\ status'[j] = s
           /\ \A w \in Jobs \ {j} :
                 IF status[w] = "waiting" THEN status'[w] \in {"waiting", "queued", "failed", "skipped"}
                                          ELSE status'[w] = status[w]
           /\ IsSettlement([status EXCEPT ![j] = s], status', j)
<1> DEFINE st == [status EXCEPT ![j] = s]
<1>1. st \in [Jobs -> Status]
  BY DEF TypeOK, Status, Closed, Broken
<1>2. status' \in Settlements(st, j)
  BY DEF Close
<1>3. /\ status' \in [Jobs -> Status]
      /\ \A w \in Jobs :
            IF st[w] = "waiting" THEN status'[w] \in {"waiting", "queued", "failed", "skipped"}
                                 ELSE status'[w] = st[w]
      /\ IsSettlement(st, status', j)
  BY <1>1, <1>2, SettlementMovesWaiters
<1>4. st[j] = s /\ s # "waiting"
  BY DEF TypeOK, Closed, Broken
<1>5. \A w \in Jobs \ {j} : st[w] = status[w]
  BY DEF TypeOK
<1> QED
  BY <1>3, <1>4, <1>5

\* Whatever rows a job has, a final row closes it.
LEMMA ClosingStatusIsClosed ==
    ASSUME NEW told, NEW v
    PROVE  ClosingStatus(told, v) \in Closed
BY DEF ClosingStatus, Closed, Broken

\* What deleting the locks of some jobs leaves of the table.
LEMMA LocksWithoutType ==
    ASSUME TypeOK, NEW S
    PROVE  /\ LocksWithout(S) \in [Devices -> Jobs \union {NoJob}]
           /\ \A d \in Devices :
                 LocksWithout(S)[d] = IF device_locks[d] \in S THEN NoJob ELSE device_locks[d]
BY DEF LocksWithout, TypeOK

-----------------------------------------------------------------------------
(***************************************************************************)
(* Types                                                                   *)
(***************************************************************************)

\* A fresh database has the right types.
LEMMA InitType == Init => TypeOK
BY ConstantsAssumption DEF Init, TypeOK, Status, Lease

\* A job that is handed back leaves well-typed rows.
LEMMA HandBackType ==
    ASSUME TypeOK, NEW j \in Jobs, HandBack(j)
    PROVE  /\ status' \in [Jobs -> Status]
           /\ claimed_by' \in [Jobs -> Claimants \union {Nobody}]
           /\ attempts' \in [Jobs -> Nat]
           /\ lease' \in [Jobs -> Lease]
           /\ device_locks' \in [Devices -> Jobs \union {NoJob}]
<1>1. attempts' \in [Jobs -> Nat]
  BY DEF HandBack, TypeOK
<1>2. device_locks' \in [Devices -> Jobs \union {NoJob}]
  BY LocksWithoutType DEF HandBack
<1> QED
  BY <1>1, <1>2 DEF HandBack, TypeOK, Status, Open, Lease

\* So does a claim.
LEMMA GiveType ==
    ASSUME TypeOK, NEW j \in Jobs, NEW c \in Claimants, Give(j, c)
    PROVE  /\ status' \in [Jobs -> Status]
           /\ claimed_by' \in [Jobs -> Claimants \union {Nobody}]
           /\ attempts' \in [Jobs -> Nat]
           /\ lease' \in [Jobs -> Lease]
           /\ unlocked' \subseteq Jobs
           /\ UNCHANGED <<depends_on, priority, rows, swept>>
<1>1. status' \in [Jobs -> Status]
  BY DEF Give, TypeOK, Status, Open
<1>2. attempts' \in [Jobs -> Nat]
  BY DEF Give, TypeOK
<1>3. lease' \in [Jobs -> Lease]
  BY DEF Give, TypeOK, Lease
<1>4. claimed_by' \in [Jobs -> Claimants \union {Nobody}]
  BY DEF Give, TypeOK
<1> QED
  BY <1>1, <1>2, <1>3, <1>4 DEF Give, TypeOK

\* Whichever row stands for a reporter, the results keep their type.
LEMMA WithRowType ==
    ASSUME TypeOK, NEW j \in Jobs, NEW r \in Claimants, NEW v
    PROVE  WithRow(j, r, v) \subseteq [Jobs -> [Claimants -> {"none", "ran", "skipped"}]]
<1> SUFFICES ASSUME NEW s \in {"ran", "skipped", rows[j][r]}
             PROVE  [rows EXCEPT ![j][r] = s] \in [Jobs -> [Claimants -> {"none", "ran", "skipped"}]]
  BY DEF WithRow
<1>1. s \in {"none", "ran", "skipped"} /\ rows[j] \in [Claimants -> {"none", "ran", "skipped"}]
  BY DEF TypeOK
<1>2. [rows[j] EXCEPT ![r] = s] \in [Claimants -> {"none", "ran", "skipped"}]
  BY <1>1
<1> QED
  BY <1>2 DEF TypeOK

\* No request, and no passage of time, spoils the types.
LEMMA NextType == TypeOK /\ [Next]_vars => TypeOK'
<1> SUFFICES ASSUME TypeOK, [Next]_vars PROVE TypeOK'
  OBVIOUS
<1> USE ConstantsAssumption
<1>1. ASSUME NEW new \in SUBSET Jobs, NEW deps \in DependsOn, NEW p \in Priorities,
             Enqueue(new, deps, p)
      PROVE  TypeOK'
  <2>1. DependencyState(deps) \in Status
    BY DEF DependencyState, Status, Open, Closed, Broken
  <2>2. status' \in [Jobs -> Status]
    BY <1>1, <2>1 DEF Enqueue, TypeOK
  <2>3. depends_on' \in [Jobs -> SUBSET Jobs] /\ priority' \in [Jobs -> Int]
    BY <1>1 DEF Enqueue, TypeOK
  <2> QED
    BY <1>1, <2>2, <2>3 DEF Enqueue, TypeOK
<1>2. ASSUME NEW j \in Jobs, NEW p \in Priorities, SetPriority(j, p)
      PROVE  TypeOK'
  BY <1>2 DEF SetPriority, TypeOK
<1>3. ASSUME NEW j \in Jobs, NEW d \in Devices, ClaimDevice(j, d)
      PROVE  TypeOK'
  <2>1. Give(j, d) /\ d \in Claimants
    BY <1>3 DEF ClaimDevice, Claimants
  <2> QED
    BY <1>3, <2>1, GiveType DEF ClaimDevice, TypeOK
<1>4. ASSUME NEW j \in Jobs, NEW h \in Hosts, ClaimHost(j, h)
      PROVE  TypeOK'
  <2>1. Give(j, h) /\ h \in Claimants
    BY <1>4 DEF ClaimHost, Claimants
  <2> QED
    BY <1>4, <2>1, GiveType DEF ClaimHost, TypeOK
<1>5. ASSUME NEW j \in Jobs, NEW c \in Claimants \union {Nobody}, Release(j, c)
      PROVE  TypeOK'
  BY <1>5, HandBackType DEF Release, TypeOK
<1>6. ASSUME NEW j \in Jobs, Beacon(j)
      PROVE  TypeOK'
  BY <1>6 DEF Beacon, TypeOK, Lease
<1>7. ASSUME NEW j \in Jobs, LeaseLapse(j)
      PROVE  TypeOK'
  BY <1>7 DEF LeaseLapse, TypeOK, Lease
<1>8. ASSUME Sweep
      PROVE  TypeOK'
  <2>1. device_locks' \in [Devices -> Jobs \union {NoJob}]
    BY <1>8, LocksWithoutType DEF Sweep
  <2>2. status' \in [Jobs -> Status]
    BY <1>8 DEF Sweep, TypeOK, Status, Open, Closed, Broken
  <2>3. /\ claimed_by' \in [Jobs -> Claimants \union {Nobody}]
        /\ lease' \in [Jobs -> Lease]
    BY <1>8 DEF Sweep, TypeOK, Lease
  <2>4. swept' \subseteq Jobs
    BY <1>8 DEF Sweep, Spent, Lapsed, TypeOK
  <2> QED
    BY <1>8, <2>1, <2>2, <2>3, <2>4 DEF Sweep, TypeOK
<1>9. ASSUME NEW j \in Jobs, NEW r \in Reporters[j], NEW v \in Verdict, Row(j, r, v)
      PROVE  TypeOK'
  BY <1>9, WithRowType DEF Row, TypeOK
<1>10. ASSUME NEW j \in Jobs, NEW s \in Closed, Close(j, s)
       PROVE  /\ status' \in [Jobs -> Status]
              /\ lease' \in [Jobs -> Lease]
              /\ device_locks' \in [Devices -> Jobs \union {NoJob}]
              /\ swept' \subseteq Jobs
  <2>1. status' \in [Jobs -> Status]
    BY <1>10, CloseMovesWaiters
  <2>2. device_locks' \in [Devices -> Jobs \union {NoJob}]
    BY <1>10, LocksWithoutType DEF Close
  <2> QED
    BY <1>10, <2>1, <2>2 DEF Close, TypeOK, Lease
<1>11. ASSUME NEW j \in Jobs, NEW r \in Reporters[j], NEW v \in Verdict, Final(j, r, v)
       PROVE  TypeOK'
  BY <1>10, <1>11, ClosingStatusIsClosed, WithRowType DEF Final, TypeOK
<1>12. ASSUME NEW j \in Jobs, NEW r \in Reporters[j], PreemptedFinal(j, r)
       PROVE  TypeOK'
  BY <1>12, HandBackType, WithRowType DEF PreemptedFinal, TypeOK
<1>13. ASSUME NEW j \in Jobs, Cancel(j)
       PROVE  TypeOK'
  BY <1>10, <1>13 DEF Cancel, TypeOK, Closed, Broken
<1>14. ASSUME NEW j \in Jobs, NEW D \in LockSets, AcquireLocks(j, D)
       PROVE  TypeOK'
  BY <1>14 DEF AcquireLocks, TypeOK
<1>15. ASSUME NEW j \in Jobs, ReleaseLocks(j)
       PROVE  TypeOK'
  BY <1>15, LocksWithoutType DEF ReleaseLocks, TypeOK
<1>16. ASSUME NEW d \in Devices, BreakLock(d)
       PROVE  TypeOK'
  <2>1. device_locks[d] \in Jobs
    BY <1>16 DEF BreakLock, TypeOK
  <2>2. unlocked' \subseteq Jobs
    BY <1>16, <2>1 DEF BreakLock, TypeOK
  <2>3. device_locks' \in [Devices -> Jobs \union {NoJob}]
    BY <1>16 DEF BreakLock, TypeOK
  <2> QED
    BY <1>16, <2>2, <2>3 DEF BreakLock, TypeOK
<1>17. CASE UNCHANGED vars
  BY <1>17 DEF vars, TypeOK
<1> QED
  BY <1>1, <1>2, <1>3, <1>4, <1>5, <1>6, <1>7, <1>8, <1>9, <1>11, <1>12, <1>13,
     <1>14, <1>15, <1>16, <1>17 DEF Next

\* The tables keep their types whatever clients send.
THEOREM TypeCorrect == Spec => []TypeOK
BY InitType, NextType, PTL DEF Spec

-----------------------------------------------------------------------------
(***************************************************************************)
(* Dependencies.  As far as statuses go a step posts jobs, or closes one   *)
(* and settles who waits on it, or moves jobs between queued and claimed   *)
(* and, in a sweep, fails claimed ones.                                    *)
(***************************************************************************)

WorkMoves ==
    /\ UNCHANGED depends_on
    /\ swept \subseteq swept'
    /\ \A j \in Jobs :
          \/ status'[j] = status[j]
          \/ status[j] = "queued" /\ status'[j] = "claimed"
          \/ status[j] = "claimed" /\ status'[j] = "queued"
          \/ status[j] = "claimed" /\ status'[j] = "failed" /\ j \in swept'

\* Every step is one of these three kinds.
LEMMA StatusMoves ==
    ASSUME TypeOK, [Next]_vars
    PROVE  \/ \E new \in SUBSET Jobs, deps \in DependsOn, p \in Priorities : Enqueue(new, deps, p)
           \/ \E j \in Jobs, s \in Closed : j \in Posted /\ Close(j, s) /\ UNCHANGED depends_on
           \/ WorkMoves
<1> DEFINE Goal == \/ \E new \in SUBSET Jobs, deps \in DependsOn, p \in Priorities :
                          Enqueue(new, deps, p)
                   \/ \E j \in Jobs, s \in Closed : j \in Posted /\ Close(j, s) /\ UNCHANGED depends_on
                   \/ WorkMoves
<1>1. ASSUME NEW j \in Jobs, NEW c \in Claimants, Give(j, c)
      PROVE  WorkMoves
  BY <1>1 DEF Give, Claimable, WorkMoves, TypeOK
<1>2. ASSUME NEW j \in Jobs, status[j] = "claimed", HandBack(j), UNCHANGED <<depends_on, swept>>
      PROVE  WorkMoves
  BY <1>2 DEF HandBack, WorkMoves, TypeOK
<1>3. ASSUME Sweep
      PROVE  WorkMoves
  BY <1>3 DEF Sweep, Lapsed, Spent, WorkMoves, TypeOK
<1>4. ASSUME UNCHANGED <<status, depends_on, swept>>
      PROVE  WorkMoves
  BY <1>4 DEF WorkMoves
<1>5. CASE \E j \in Jobs, p \in Priorities : SetPriority(j, p)
  BY <1>4, <1>5 DEF SetPriority
<1>6. CASE \E j \in Jobs, d \in Devices : ClaimDevice(j, d)
  BY <1>1, <1>6 DEF ClaimDevice, Claimants
<1>7. CASE \E j \in Jobs, h \in Hosts : ClaimHost(j, h)
  BY <1>1, <1>7 DEF ClaimHost, Claimants
<1>8. CASE \E j \in Jobs, c \in Claimants \union {Nobody} : Release(j, c)
  BY <1>2, <1>8 DEF Release, MayRelease
<1>9. CASE \E j \in Jobs : Beacon(j) \/ LeaseLapse(j)
  BY <1>4, <1>9 DEF Beacon, LeaseLapse
<1>10. CASE \E j \in Jobs : \E r \in Reporters[j], v \in Verdict : Row(j, r, v)
  BY <1>4, <1>10 DEF Row
<1>11. CASE \E j \in Jobs : \E r \in Reporters[j], v \in Verdict : Final(j, r, v)
  BY <1>11, ClosingStatusIsClosed DEF Final
<1>12. CASE \E j \in Jobs : \E r \in Reporters[j] : PreemptedFinal(j, r)
  BY <1>2, <1>12 DEF PreemptedFinal
<1>13. CASE \E j \in Jobs : Cancel(j)
  BY <1>13 DEF Cancel, Closed, Broken, Open, Posted
<1>14. CASE \/ \E j \in Jobs, D \in LockSets : AcquireLocks(j, D)
            \/ \E j \in Jobs : ReleaseLocks(j)
            \/ \E d \in Devices : BreakLock(d)
  BY <1>4, <1>14 DEF AcquireLocks, ReleaseLocks, BreakLock
<1>15. CASE UNCHANGED vars
  BY <1>4, <1>15 DEF vars
<1> QED
  BY <1>3, <1>5, <1>6, <1>7, <1>8, <1>9, <1>10, <1>11, <1>12, <1>13, <1>14, <1>15 DEF Next

\* A settlement reaches every waiter that lost its reason to wait, however long
\* the chain: one it does not reach depends on nothing that changed for the worse.
LEMMA NextReason ==
    ASSUME TypeOK, WaiterHasReason, [Next]_vars
    PROVE  WaiterHasReason'
<1>1. ASSUME NEW new \in SUBSET Jobs, NEW deps \in DependsOn, NEW p \in Priorities,
             Enqueue(new, deps, p)
      PROVE  WaiterHasReason'
  <2> SUFFICES ASSUME NEW w \in Jobs, status'[w] = "waiting"
               PROVE  /\ \E d \in depends_on'[w] : status'[d] # "done"
                      /\ \A d \in depends_on'[w] :
                            /\ status'[d] \notin {"absent", "cancelled", "skipped"}
                            /\ status'[d] = "failed" => d \in swept'
    BY DEF WaiterHasReason
  <2>1. /\ \A d \in Jobs : status[d] # "absent" => status'[d] = status[d]
        /\ swept' = swept
    BY <1>1 DEF Enqueue, TypeOK
  <2>2. CASE w \in new
    <3>1. depends_on'[w] = deps /\ DependencyState(deps) = "waiting"
      BY <1>1, <2>2 DEF Enqueue, TypeOK
    <3>2. \A d \in deps : d \in Jobs /\ status[d] # "absent"
      BY <1>1 DEF Enqueue, Posted
    <3> QED
      BY <2>1, <3>1, <3>2 DEF DependencyState, Broken
  <2>3. CASE w \notin new
    <3>1. status[w] = "waiting" /\ depends_on'[w] = depends_on[w]
      BY <1>1, <2>3 DEF Enqueue, TypeOK
    <3>2. \A d \in depends_on[w] : d \in Jobs
      BY DEF TypeOK
    <3> QED
      BY <2>1, <3>1, <3>2 DEF WaiterHasReason
  <2> QED
    BY <2>2, <2>3
<1>2. ASSUME NEW j \in Jobs, NEW s \in Closed, Close(j, s), UNCHANGED depends_on
      PROVE  WaiterHasReason'
  <2> DEFINE st == [status EXCEPT ![j] = s]
  <2> SUFFICES ASSUME NEW w \in Jobs, status'[w] = "waiting"
               PROVE  /\ \E d \in depends_on[w] : status'[d] # "done"
                      /\ \A d \in depends_on[w] :
                            /\ status'[d] \notin {"absent", "cancelled", "skipped"}
                            /\ status'[d] = "failed" => d \in swept'
    BY <1>2 DEF WaiterHasReason
  <2>1. /\ status'[j] = s
        /\ \A d \in Jobs \ {j} :
              IF status[d] = "waiting" THEN status'[d] \in {"waiting", "queued", "failed", "skipped"}
                                       ELSE status'[d] = status[d]
        /\ IsSettlement(st, status', j)
    BY <1>2, CloseMovesWaiters
  <2>2. w # j /\ status[w] = "waiting"
    BY <2>1 DEF Closed, Broken
  <2>3. /\ \E d \in depends_on[w] : status[d] # "done"
        /\ \A d \in depends_on[w] :
              /\ d \in Jobs /\ status[d] \notin {"absent", "cancelled", "skipped"}
              /\ status[d] = "failed" => d \in swept
    BY <2>2 DEF WaiterHasReason, TypeOK
  <2>4. CASE Reached(st, status', j, w)
    <3>1. Settled(st, status', j, w)
      BY <2>1, <2>4 DEF IsSettlement
    <3>2. /\ ~\E d \in depends_on[w] : status'[d] \in Broken \union {"skipped"}
          /\ \E d \in depends_on[w] : status'[d] # "done"
      BY <3>1 DEF Settled
    <3>3. \A d \in depends_on[w] : status'[d] # "absent"
      BY <2>1, <2>3 DEF Closed, Broken
    <3> QED
      BY <3>2, <3>3 DEF Broken
  <2>5. CASE ~Reached(st, status', j, w)
    <3>1. st[w] = "waiting"
      BY <2>2 DEF TypeOK
    <3>2. j \notin depends_on[w]
      BY <2>5, <3>1 DEF Reached
    <3>3. \A d \in depends_on[w] : st[d] = "waiting" => status'[d] \notin {"failed", "skipped"}
      BY <2>5, <3>1 DEF Reached
    <3>4. \A d \in depends_on[w] : d \in Jobs \ {j} /\ st[d] = status[d]
      BY <2>3, <3>2 DEF TypeOK
    <3>5. swept' = swept \ {j}
      BY <1>2 DEF Close
    <3>6. \A d \in depends_on[w] : status'[d] = status[d] \/ status'[d] \in {"waiting", "queued"}
      BY <2>1, <3>3, <3>4
    <3> QED
      BY <2>1, <2>3, <3>4, <3>5, <3>6
  <2> QED
    BY <2>4, <2>5
<1>3. ASSUME WorkMoves
      PROVE  WaiterHasReason'
  BY <1>3 DEF WorkMoves, WaiterHasReason, TypeOK
<1> QED
  BY <1>1, <1>2, <1>3, StatusMoves

\* A row or a cancellation settles every job behind what it closes, however long the
\* chain; a job may only wait on behind one that the sweep failed, which settles
\* nobody.
THEOREM WaitersHaveReasons == Spec => []WaiterHasReason
<1>1. Init => WaiterHasReason
  BY DEF Init, WaiterHasReason
<1>2. TypeOK /\ WaiterHasReason /\ [Next]_vars => WaiterHasReason'
  BY NextReason
<1> QED
  BY <1>1, <1>2, TypeCorrect, PTL DEF Spec

\* No step takes a closed job anywhere but to another closed status.
LEMMA StepKeepsClosed ==
    ASSUME TypeOK, [Next]_vars, NEW j \in Jobs, status[j] \in Closed
    PROVE  status'[j] \in Closed
<1>1. ASSUME NEW new \in SUBSET Jobs, NEW deps \in DependsOn, NEW p \in Priorities,
             Enqueue(new, deps, p)
      PROVE  status'[j] = status[j]
  BY <1>1 DEF Enqueue, TypeOK, Closed, Broken
<1>2. ASSUME NEW k \in Jobs, NEW s \in Closed, Close(k, s)
      PROVE  status'[j] \in Closed
  BY <1>2, CloseMovesWaiters DEF Closed, Broken
<1>3. ASSUME WorkMoves
      PROVE  status'[j] = status[j]
  BY <1>3 DEF WorkMoves, Closed, Broken
<1> QED
  BY <1>1, <1>2, <1>3, StatusMoves

\* No late row, release, sweep or preemption puts a closed job back to work.
THEOREM ClosedJobsStayClosed == Spec => ClosedStaysClosed
<1>1. TypeOK /\ [Next]_vars =>
        [\A j \in Jobs : status[j] \in Closed => status'[j] \in Closed]_vars
  BY StepKeepsClosed
<1> QED
  BY <1>1, TypeCorrect, PTL DEF Spec, ClosedStaysClosed

\* A job becomes claimable on arrival, with all its dependencies done, or in a
\* settlement that finds them done.
LEMMA StepQueuesReady ==
    ASSUME TypeOK, [Next]_vars, NEW j \in Jobs,
           status[j] \in {"absent", "waiting"}, status'[j] = "queued"
    PROVE  \A d \in depends_on'[j] : status'[d] = "done"
<1>1. ASSUME NEW new \in SUBSET Jobs, NEW deps \in DependsOn, NEW p \in Priorities,
             Enqueue(new, deps, p)
      PROVE  \A d \in depends_on'[j] : status'[d] = "done"
  <2>1. j \in new /\ depends_on'[j] = deps /\ DependencyState(deps) = "queued"
    BY <1>1 DEF Enqueue, TypeOK
  <2>2. \A d \in deps : d \in Jobs /\ status[d] = "done"
    BY <1>1, <2>1 DEF DependencyState, Enqueue, Posted
  <2>3. \A d \in deps : status'[d] = "done"
    BY <1>1, <2>2 DEF Enqueue, TypeOK
  <2> QED
    BY <2>1, <2>3
<1>2. ASSUME NEW k \in Jobs, NEW s \in Closed, Close(k, s), UNCHANGED depends_on
      PROVE  \A d \in depends_on'[j] : status'[d] = "done"
  <2> DEFINE st == [status EXCEPT ![k] = s]
  <2>1. status'[k] = s /\ IsSettlement(st, status', k)
    BY <1>2, CloseMovesWaiters
  <2>2. j # k /\ st[j] = status[j]
    BY <2>1 DEF Closed, Broken, TypeOK
  <2>3. Reached(st, status', k, j)
    BY <2>1, <2>2 DEF IsSettlement
  <2>4. Settled(st, status', k, j)
    BY <2>1, <2>3 DEF IsSettlement
  <2> QED
    BY <1>2, <2>4 DEF Settled
<1>3. ~WorkMoves
  BY DEF WorkMoves
<1> QED
  BY <1>1, <1>2, <1>3, StatusMoves

\* Nothing becomes claimable before all it depends on is done.
THEOREM QueuedJobsAreReady == Spec => QueuedWhenReady
<1>1. TypeOK /\ [Next]_vars =>
        [\A j \in Jobs : status[j] \in {"absent", "waiting"} /\ status'[j] = "queued" =>
            \A d \in depends_on'[j] : status'[d] = "done"]_vars
  BY StepQueuesReady
<1> QED
  BY <1>1, TypeCorrect, PTL DEF Spec, QueuedWhenReady

-----------------------------------------------------------------------------
(***************************************************************************)
(* Jobs depend on jobs posted before them                                  *)
(***************************************************************************)

\* A dependency was posted before the job that names it, and ids go up.
IdsInOrder ==
    /\ \A p \in Posted, a \in Jobs \ Posted : p < a
    /\ \A j \in Jobs : \A d \in depends_on[j] : d \in Posted /\ d < j

\* No request makes a job depend on a later one or on itself.
LEMMA NextIds ==
    ASSUME TypeOK, IdsInOrder, [Next]_vars
    PROVE  IdsInOrder'
<1> USE ConstantsAssumption
<1>1. ASSUME NEW new \in SUBSET Jobs, NEW deps \in DependsOn, NEW p \in Priorities,
             Enqueue(new, deps, p)
      PROVE  IdsInOrder'
  <2>1. DependencyState(deps) # "absent"
    BY DEF DependencyState
  <2>2. Posted' = Posted \union new
    BY <1>1, <2>1 DEF Enqueue, Posted, TypeOK
  <2>3. \A q \in Posted', a \in Jobs \ Posted' : q < a
    BY <1>1, <2>2 DEF Enqueue, Posted, IdsInOrder
  <2>4. ASSUME NEW j \in Jobs, NEW d \in depends_on'[j] PROVE d \in Posted' /\ d < j
    <3>1. CASE j \in new
      <4>1. d \in Posted /\ j \in Jobs \ Posted
        BY <1>1, <2>4, <3>1 DEF Enqueue, Posted
      <4> QED
        BY <2>2, <4>1 DEF IdsInOrder
    <3>2. CASE j \notin new
      <4>1. d \in depends_on[j]
        BY <1>1, <2>4, <3>2 DEF Enqueue
      <4> QED
        BY <2>2, <4>1 DEF IdsInOrder
    <3> QED
      BY <3>1, <3>2
  <2> QED
    BY <2>3, <2>4 DEF IdsInOrder
<1>2. ASSUME Posted' = Posted, UNCHANGED depends_on
      PROVE  IdsInOrder'
  BY <1>2 DEF IdsInOrder
<1>3. ASSUME NEW j \in Jobs, NEW s \in Closed, Close(j, s), j \in Posted, UNCHANGED depends_on
      PROVE  IdsInOrder'
  <2>1. \A k \in Jobs : status'[k] = "absent" <=> status[k] = "absent"
    BY <1>3, CloseMovesWaiters DEF Posted, Closed, Broken
  <2> QED
    BY <1>2, <1>3, <2>1 DEF Posted
<1>4. ASSUME WorkMoves
      PROVE  IdsInOrder'
  <2>1. Posted' = Posted
    BY <1>4 DEF WorkMoves, Posted
  <2> QED
    BY <1>2, <1>4, <2>1 DEF WorkMoves
<1> QED
  BY <1>1, <1>3, <1>4, StatusMoves

\* Dependencies never run in a circle: ids are handed out in the order of
\* posting, and a post that names an unknown dependency is refused.
THEOREM DependenciesComeFirst == Spec => []IdsInOrder
<1>1. Init => IdsInOrder
  BY DEF Init, IdsInOrder, Posted
<1>2. TypeOK /\ IdsInOrder /\ [Next]_vars => IdsInOrder'
  BY NextIds
<1> QED
  BY <1>1, <1>2, TypeCorrect, PTL DEF Spec

\* Whoever waits, waits in the end on work that is queued or being done, or on a
\* job that failed: in every set that holds a waiter and, with each waiter, the
\* waiters it depends on, some waiter depends on such a job.
WaitersWaitOnWork ==
    \A w \in Jobs, S \in SUBSET Jobs :
        /\ status[w] = "waiting" /\ w \in S
        /\ \A v \in S : \A d \in depends_on[v] : status[d] = "waiting" => d \in S
        => \E v \in S, d \in Jobs :
              /\ status[v] = "waiting" /\ d \in depends_on[v]
              /\ status[d] \in {"queued", "claimed", "failed"}

\* No circle of jobs waits on itself, and no chain of waiters ends at a job that
\* is done, skipped or cancelled: only at work, or at a failure that the sweep
\* told nobody of.
THEOREM NobodyWaitsInACircle == Spec => []WaitersWaitOnWork
<1>1. TypeOK /\ IdsInOrder /\ WaiterHasReason => WaitersWaitOnWork
  <2> SUFFICES ASSUME TypeOK, IdsInOrder, WaiterHasReason,
                      NEW w \in Jobs, NEW S \in SUBSET Jobs,
                      status[w] = "waiting", w \in S,
                      \A v \in S : \A d \in depends_on[v] : status[d] = "waiting" => d \in S
               PROVE  \E v \in S, d \in Jobs :
                         /\ status[v] = "waiting" /\ d \in depends_on[v]
                         /\ status[d] \in {"queued", "claimed", "failed"}
    BY DEF WaitersWaitOnWork
  <2> DEFINE T == {v \in S : status[v] = "waiting"}
  <2>1. T \in SUBSET Nat /\ T # {}
    BY ConstantsAssumption
  <2>2. PICK v \in T : \A u \in T : v <= u
    BY <2>1, NatMinimum
  <2>3. PICK d \in depends_on[v] : status[d] # "done"
    BY <2>2 DEF WaiterHasReason
  <2>4. d \in Jobs /\ d < v /\ status[d] \notin {"absent", "cancelled", "skipped"}
    BY <2>2, <2>3 DEF WaiterHasReason, TypeOK, IdsInOrder
  <2>5. d \notin T
    BY <2>1, <2>2, <2>4
  <2>6. status[d] # "waiting"
    BY <2>2, <2>3, <2>5
  <2>7. status[d] \in {"queued", "claimed", "failed"}
    BY <2>3, <2>4, <2>6 DEF TypeOK, Status, Open, Closed, Broken
  <2> QED
    BY <2>2, <2>3, <2>4, <2>7
<1> QED
  BY <1>1, TypeCorrect, DependenciesComeFirst, WaitersHaveReasons, PTL

-----------------------------------------------------------------------------
(***************************************************************************)
(* Closing never blocks.  When every reference resolves, settling the      *)
(* waiters in the order of their ids makes one settlement: the status of   *)
(* each follows from those of the jobs posted before it.                   *)
(***************************************************************************)

\* What becomes of w in the order of ids, f being what became of those before it.
InTurn(st, c, f, w) ==
    IF ~Reached(st, f, c, w) THEN st[w]
    ELSE IF \E d \in depends_on[w] : f[d] \in Broken THEN "failed"
    ELSE IF \E d \in depends_on[w] : f[d] = "skipped" THEN "skipped"
    ELSE IF \A d \in depends_on[w] : f[d] = "done" THEN "queued"
    ELSE "waiting"

\* f settles the jobs below n in turn.
Turns(st, c, f, n) == \A w \in Jobs : w < n => f[w] = InTurn(st, c, f, w)

\* In turn, a job's fate depends on those before it alone.
LEMMA InTurnLooksBack ==
    ASSUME TypeOK, IdsInOrder, NEW st, NEW c \in Jobs, NEW f, NEW g, NEW w \in Jobs,
           \A d \in Jobs : d < w => f[d] = g[d]
    PROVE  InTurn(st, c, f, w) = InTurn(st, c, g, w)
<1>1. \A d \in depends_on[w] : f[d] = g[d]
  BY DEF IdsInOrder, Posted
<1>2. Reached(st, f, c, w) <=> Reached(st, g, c, w)
  BY <1>1 DEF Reached
<1> QED
  BY <1>1, <1>2 DEF InTurn

\* There is one way to settle in turn.
LEMMA TurnsAgree ==
    ASSUME TypeOK, IdsInOrder, NEW st, NEW c \in Jobs, NEW f, NEW g, NEW n \in Nat,
           Turns(st, c, f, n), Turns(st, c, g, n)
    PROVE  \A w \in Jobs : w < n => f[w] = g[w]
<1> DEFINE T == {w \in Jobs : w < n /\ f[w] # g[w]}
<1>1. SUFFICES ASSUME T # {} PROVE FALSE
  OBVIOUS
<1>2. PICK w \in T : \A v \in T : w <= v
  BY <1>1, ConstantsAssumption, NatMinimum
<1>3. \A d \in Jobs : d < w => f[d] = g[d]
  BY <1>2, ConstantsAssumption
<1>4. InTurn(st, c, f, w) = InTurn(st, c, g, w)
  BY <1>3, InTurnLooksBack
<1> QED
  BY <1>2, <1>4 DEF Turns

\* The jobs below any number can be settled in turn.
LEMMA TurnsExist ==
    ASSUME TypeOK, IdsInOrder, NEW st \in [Jobs -> Status], NEW c \in Jobs, NEW n \in Nat
    PROVE  \E f \in [Jobs -> Status] : Turns(st, c, f, n)
<1> USE ConstantsAssumption
<1> DEFINE E == {m \in Nat : \E f \in [Jobs -> Status] : Turns(st, c, f, m)}
<1>1. 0 \in E
  BY DEF Turns
<1>2. ASSUME NEW m \in Nat, m \in E PROVE m + 1 \in E
  <2>1. PICK f \in [Jobs -> Status] : Turns(st, c, f, m)
    BY <1>2
  <2>2. CASE m \notin Jobs
    <3>1. \A w \in Jobs : w < m + 1 => w < m
      BY <2>2
    <3> QED
      BY <2>1, <3>1 DEF Turns
  <2>3. CASE m \in Jobs
    <3> DEFINE g == [f EXCEPT ![m] = InTurn(st, c, f, m)]
    <3>1. InTurn(st, c, f, m) \in Status
      BY <2>3 DEF InTurn, Status, Open, Closed, Broken
    <3>2. g \in [Jobs -> Status] /\ g[m] = InTurn(st, c, f, m)
      BY <2>1, <2>3, <3>1
    <3>3. \A w \in Jobs : w < m => g[w] = f[w]
      BY <2>1
    <3> HIDE DEF g
    <3>4. ASSUME NEW w \in Jobs, w < m + 1 PROVE g[w] = InTurn(st, c, g, w)
      <4>1. \A d \in Jobs : d < w => f[d] = g[d]
        BY <3>3, <3>4
      <4>2. InTurn(st, c, f, w) = InTurn(st, c, g, w)
        BY <4>1, InTurnLooksBack
      <4>3. w = m \/ w < m
        BY <3>4
      <4> QED
        BY <2>1, <3>2, <3>3, <4>2, <4>3 DEF Turns
    <3> QED
      BY <3>2, <3>4 DEF Turns
  <2> QED
    BY <2>2, <2>3
<1> HIDE DEF E
<1>3. n \in E
  BY <1>1, <1>2, SetInduction
<1> QED
  BY <1>3 DEF E

\* All of them can, however many there are.
LEMMA AllTurnsExist ==
    ASSUME TypeOK, IdsInOrder, NEW st \in [Jobs -> Status], NEW c \in Jobs
    PROVE  \E g \in [Jobs -> Status] : \A w \in Jobs : g[w] = InTurn(st, c, g, w)
<1> USE ConstantsAssumption
<1> DEFINE F(n) == CHOOSE f \in [Jobs -> Status] : Turns(st, c, f, n)
           g == [w \in Jobs |-> F(w + 1)[w]]
<1>1. \A n \in Nat : F(n) \in [Jobs -> Status] /\ Turns(st, c, F(n), n)
  BY TurnsExist
<1> HIDE DEF F
<1>2. g \in [Jobs -> Status]
  BY <1>1
<1>3. ASSUME NEW w \in Jobs PROVE g[w] = InTurn(st, c, g, w)
  <2>1. ASSUME NEW d \in Jobs, d < w PROVE F(w + 1)[d] = g[d]
    <3>1. Turns(st, c, F(d + 1), d + 1) /\ Turns(st, c, F(w + 1), d + 1)
      <4>1. Turns(st, c, F(d + 1), d + 1) /\ Turns(st, c, F(w + 1), w + 1)
        BY <1>1
      <4>2. \A v \in Jobs : v < d + 1 => v < w + 1
        BY <2>1
      <4> QED
        BY <4>1, <4>2 DEF Turns
    <3>2. F(d + 1)[d] = F(w + 1)[d]
      BY <3>1, TurnsAgree
    <3> QED
      BY <3>2
  <2>2. g[w] = InTurn(st, c, F(w + 1), w)
    BY <1>1 DEF Turns
  <2> QED
    BY <2>1, <2>2, InTurnLooksBack
<1> QED
  BY <1>2, <1>3

\* Settling in turn is a settlement.
LEMMA SettlementExists ==
    ASSUME TypeOK, IdsInOrder, NEW st \in [Jobs -> Status], NEW c \in Jobs
    PROVE  Settlements(st, c) # {}
<1> DEFINE W == {w \in Jobs : st[w] = "waiting"}
           With(f) == [j \in Jobs |-> IF j \in W THEN f[j] ELSE st[j]]
           Fates == {"waiting", "queued", "failed", "skipped"}
<1>1. PICK g \in [Jobs -> Status] : \A w \in Jobs : g[w] = InTurn(st, c, g, w)
  BY AllTurnsExist
<1>2. \A w \in Jobs : IF w \in W THEN g[w] \in Fates ELSE g[w] = st[w]
  BY <1>1 DEF InTurn, Reached
<1> DEFINE f == [w \in W |-> g[w]]
<1>3. f \in [W -> Fates] /\ With(f) = g
  BY <1>2
<1>4. ASSUME NEW w \in Jobs, Reached(st, g, c, w) PROVE Settled(st, g, c, w)
  <2>1. \A d \in depends_on[w] : d \in Jobs
    BY DEF TypeOK
  <2>2. \A d \in depends_on[w] : st[d] \in Broken => g[d] \in Broken
    BY <1>2, <2>1 DEF Broken
  <2>3. CASE \E d \in depends_on[w] : g[d] \in Broken
    BY <1>1, <1>4, <2>3 DEF InTurn, Settled
  <2>4. CASE /\ ~\E d \in depends_on[w] : g[d] \in Broken
             /\ \E d \in depends_on[w] : g[d] = "skipped"
    <3>1. g[w] = "skipped"
      BY <1>1, <1>4, <2>4 DEF InTurn
    <3> QED
      BY <2>2, <2>4, <3>1 DEF Settled
  <2>5. CASE /\ ~\E d \in depends_on[w] : g[d] \in Broken
             /\ ~\E d \in depends_on[w] : g[d] = "skipped"
    BY <1>1, <1>4, <2>5 DEF InTurn, Settled
  <2> QED
    BY <2>3, <2>4, <2>5
<1>5. IsSettlement(st, g, c)
  BY <1>1, <1>4 DEF IsSettlement, InTurn
<1>6. g \in Settlements(st, c)
  BY <1>3, <1>5 DEF Settlements
<1> QED
  BY <1>6

\* A job that is posted can be closed as anything, whatever waits on it.
ClosingFindsASettlement ==
    \A j \in Posted, s \in Closed : Settlements([status EXCEPT ![j] = s], j) # {}

\* A final row or a cancellation is never stuck in the cascade it starts: the
\* waiters behind a closed job can always be settled, whatever the pattern of
\* dependencies.
THEOREM ClosingNeverBlocks == Spec => []ClosingFindsASettlement
<1>1. TypeOK /\ IdsInOrder => ClosingFindsASettlement
  <2> SUFFICES ASSUME TypeOK, IdsInOrder, NEW j \in Posted, NEW s \in Closed
               PROVE  Settlements([status EXCEPT ![j] = s], j) # {}
    BY DEF ClosingFindsASettlement
  <2>1. [status EXCEPT ![j] = s] \in [Jobs -> Status] /\ j \in Jobs
    BY DEF TypeOK, Status, Posted
  <2> QED
    BY <2>1, SettlementExists
<1> QED
  BY <1>1, TypeCorrect, DependenciesComeFirst, PTL

-----------------------------------------------------------------------------
(***************************************************************************)
(* Claims, leases, attempts and locks.  ClaimInv adds to the invariants of *)
(* the module what makes them inductive: a job nobody has posted has its   *)
(* attempts ahead of it, and device jobs are claimed by devices.           *)
(***************************************************************************)

FreshAttempts == \A j \in Jobs : status[j] = "absent" => attempts[j] < MaxAttempts[j]

ClaimedByKind ==
    \A j \in Jobs : status[j] = "claimed" => (j \in HostJobs <=> claimed_by[j] \in Hosts)

ClaimInv ==
    /\ LeaseIffClaimed
    /\ WithinAttempts
    /\ FreshAttempts
    /\ ClaimedByKind
    /\ LockFollowsClaim

\* Without jobs there is nothing to claim, spend or lock.
LEMMA InitClaims == Init => ClaimInv
BY ConstantsAssumption
   DEF Init, ClaimInv, LeaseIffClaimed, WithinAttempts, FreshAttempts, ClaimedByKind,
       LockFollowsClaim

\* A claimed device job is claimed by a device.
LEMMA DeviceClaimant ==
    ASSUME TypeOK, ClaimInv, NEW j \in Jobs \ HostJobs, status[j] = "claimed"
    PROVE  claimed_by[j] \in Devices
BY ConstantsAssumption DEF TypeOK, ClaimInv, LeaseIffClaimed, ClaimedByKind, Claimants

\* A step that takes no lock away and moves no job into or out of claimed.
LEMMA QuietClaims ==
    ASSUME TypeOK, ClaimInv,
           \A j \in Jobs : status'[j] = "claimed" <=> status[j] = "claimed",
           \A j \in Jobs : status'[j] \in {"absent", "waiting", "queued"} =>
                             status[j] = status'[j] \/ status[j] \in {"absent", "waiting"},
           UNCHANGED <<claimed_by, attempts, lease, device_locks, unlocked>>
    PROVE  ClaimInv'
<1>1. LeaseIffClaimed'
  BY DEF ClaimInv, LeaseIffClaimed
<1>2. WithinAttempts' /\ FreshAttempts'
  BY DEF ClaimInv, WithinAttempts, FreshAttempts
<1>3. ClaimedByKind' /\ LockFollowsClaim'
  BY DEF ClaimInv, ClaimedByKind, LockFollowsClaim
<1> QED
  BY <1>1, <1>2, <1>3 DEF ClaimInv

\* A device claim locks its device, a host claim leaves the locks alone.
LEMMA GiveClaims ==
    ASSUME TypeOK, ClaimInv, NEW j \in Jobs, NEW c \in Claimants, Give(j, c),
           \/ c \in Hosts /\ UNCHANGED device_locks
           \/ /\ c \in Devices /\ device_locks[c] = NoJob
              /\ device_locks' = [device_locks EXCEPT ![c] = j]
    PROVE  ClaimInv'
<1> USE ConstantsAssumption
<1>1. /\ status[j] = "queued" /\ c \in Suits[j] /\ (j \in HostJobs <=> c \in Hosts)
      /\ status' = [status EXCEPT ![j] = "claimed"]
      /\ claimed_by' = [claimed_by EXCEPT ![j] = c]
      /\ attempts' = [attempts EXCEPT ![j] = @ + 1]
      /\ lease' = [lease EXCEPT ![j] = "live"]
      /\ unlocked' = unlocked \ {j}
  BY DEF Give, Claimable
<1>2. LeaseIffClaimed'
  BY <1>1 DEF ClaimInv, LeaseIffClaimed, TypeOK
<1>3. WithinAttempts'
  <2>1. attempts[j] \in Nat /\ attempts[j] < MaxAttempts[j] /\ MaxAttempts[j] \in Nat
    BY <1>1 DEF ClaimInv, WithinAttempts, TypeOK
  <2> QED
    BY <1>1, <2>1 DEF ClaimInv, WithinAttempts, TypeOK
<1>4. FreshAttempts' /\ ClaimedByKind'
  BY <1>1 DEF ClaimInv, FreshAttempts, ClaimedByKind, TypeOK
<1>5. ASSUME NEW k \in Jobs \ HostJobs
      PROVE  /\ status'[k] = "claimed" /\ k \notin unlocked' => device_locks'[claimed_by'[k]] = k
             /\ \A d \in Devices :
                   device_locks'[d] = k => status'[k] = "claimed" /\ claimed_by'[k] = d
  <2>1. \A d \in Devices : device_locks[d] = k => status[k] = "claimed" /\ claimed_by[k] = d
    BY DEF ClaimInv, LockFollowsClaim
  <2>2. CASE k = j
    <3>1. c \in Devices /\ device_locks' = [device_locks EXCEPT ![c] = j]
      BY <1>1, <2>2
    <3> QED
      BY <1>1, <2>1, <2>2, <3>1 DEF TypeOK
  <2>3. CASE k # j
    <3>1. status'[k] = status[k] /\ claimed_by'[k] = claimed_by[k]
          /\ (k \in unlocked' <=> k \in unlocked)
      BY <1>1, <2>3 DEF TypeOK
    <3>2. \A d \in Devices : device_locks'[d] = k <=> device_locks[d] = k
      BY <2>3 DEF TypeOK
    <3>3. status[k] = "claimed" /\ k \notin unlocked =>
              claimed_by[k] \in Devices /\ device_locks[claimed_by[k]] = k
      BY DeviceClaimant DEF ClaimInv, LockFollowsClaim
    <3> QED
      BY <2>1, <3>1, <3>2, <3>3
  <2> QED
    BY <2>2, <2>3
<1>6. LockFollowsClaim'
  BY <1>5 DEF LockFollowsClaim
<1> QED
  BY <1>2, <1>3, <1>4, <1>6 DEF ClaimInv

\* The claims on the jobs in S end, and their locks go with them.
LEMMA EndOfClaims ==
    ASSUME TypeOK, ClaimInv, NEW S \in SUBSET Jobs,
           \A j \in S : status'[j] # "claimed",
           \A j \in Jobs \ S : /\ status'[j] = "claimed" <=> status[j] = "claimed"
                               /\ claimed_by'[j] = claimed_by[j],
           device_locks' = LocksWithout(S), UNCHANGED unlocked
    PROVE  ClaimedByKind' /\ LockFollowsClaim'
<1>1. ClaimedByKind'
  BY DEF ClaimInv, ClaimedByKind
<1>2. \A d \in Devices :
         device_locks'[d] = IF device_locks[d] \in S THEN NoJob ELSE device_locks[d]
  BY LocksWithoutType
<1>3. ASSUME NEW k \in Jobs \ HostJobs
      PROVE  /\ status'[k] = "claimed" /\ k \notin unlocked => device_locks'[claimed_by'[k]] = k
             /\ \A d \in Devices :
                   device_locks'[d] = k => status'[k] = "claimed" /\ claimed_by'[k] = d
  <2>1. \A d \in Devices : device_locks[d] = k => status[k] = "claimed" /\ claimed_by[k] = d
    BY DEF ClaimInv, LockFollowsClaim
  <2>2. status[k] = "claimed" /\ k \notin unlocked =>
            claimed_by[k] \in Devices /\ device_locks[claimed_by[k]] = k
    BY DeviceClaimant DEF ClaimInv, LockFollowsClaim
  <2>3. k # NoJob
    BY ConstantsAssumption
  <2> QED
    BY <1>2, <2>1, <2>2, <2>3
<1>4. LockFollowsClaim'
  BY <1>3 DEF LockFollowsClaim
<1> QED
  BY <1>1, <1>4

\* A release or a preemption returns the lock and the attempt with the job.
LEMMA HandBackClaims ==
    ASSUME TypeOK, ClaimInv, NEW j \in Jobs, status[j] = "claimed", HandBack(j),
           UNCHANGED unlocked
    PROVE  ClaimInv'
<1> USE ConstantsAssumption
<1>1. ClaimedByKind' /\ LockFollowsClaim'
  BY EndOfClaims, {j} \in SUBSET Jobs DEF HandBack, TypeOK
<1>2. LeaseIffClaimed'
  BY DEF HandBack, ClaimInv, LeaseIffClaimed, TypeOK
<1>3. WithinAttempts' /\ FreshAttempts'
  <2>1. /\ attempts[j] \in Nat /\ attempts[j] <= MaxAttempts[j] /\ attempts[j] > 0
        /\ MaxAttempts[j] \in Nat
    BY DEF ClaimInv, WithinAttempts, TypeOK
  <2> QED
    BY <2>1 DEF HandBack, ClaimInv, WithinAttempts, FreshAttempts, TypeOK
<1> QED
  BY <1>1, <1>2, <1>3 DEF ClaimInv

\* Closing a job drops its deadline and its locks, and claims nobody's waiter.
LEMMA CloseClaims ==
    ASSUME TypeOK, ClaimInv, NEW j \in Jobs, NEW s \in Closed, Close(j, s),
           UNCHANGED <<claimed_by, attempts, unlocked>>
    PROVE  ClaimInv'
<1>1. /\ status' \in [Jobs -> Status] /\ status'[j] = s
      /\ \A w \in Jobs \ {j} :
            IF status[w] = "waiting" THEN status'[w] \in {"waiting", "queued", "failed", "skipped"}
                                     ELSE status'[w] = status[w]
  BY CloseMovesWaiters
<1>2. lease' = [lease EXCEPT ![j] = "none"] /\ device_locks' = LocksWithout({j})
  BY DEF Close
<1>3. ClaimedByKind' /\ LockFollowsClaim'
  BY <1>1, <1>2, EndOfClaims, {j} \in SUBSET Jobs DEF Closed, Broken
<1>4. LeaseIffClaimed'
  BY <1>1, <1>2 DEF ClaimInv, LeaseIffClaimed, TypeOK, Closed, Broken
<1>5. WithinAttempts' /\ FreshAttempts'
  BY <1>1 DEF ClaimInv, WithinAttempts, FreshAttempts, Closed, Broken
<1> QED
  BY <1>3, <1>4, <1>5 DEF ClaimInv

\* The sweep requeues a lapsed claim only while it has attempts left, and takes
\* the lapsed claims' locks with them.
LEMMA SweepClaims ==
    ASSUME TypeOK, ClaimInv, Sweep
    PROVE  ClaimInv'
<1> USE ConstantsAssumption
<1>1. Lapsed \in SUBSET Jobs /\ Spent \subseteq Lapsed
  BY DEF Lapsed, Spent
<1>2. \A j \in Lapsed : status[j] = "claimed"
  BY DEF Lapsed
<1>3. /\ \A j \in Lapsed : status'[j] = IF j \in Spent THEN "failed" ELSE "queued"
      /\ \A j \in Jobs \ Lapsed : status'[j] = status[j] /\ claimed_by'[j] = claimed_by[j]
      /\ \A j \in Jobs : lease'[j] = IF j \in Lapsed THEN "none" ELSE lease[j]
      /\ device_locks' = LocksWithout(Lapsed)
      /\ UNCHANGED <<attempts, unlocked>>
  BY <1>1 DEF Sweep
<1>4. ClaimedByKind' /\ LockFollowsClaim'
  BY <1>1, <1>3, EndOfClaims
<1>5. LeaseIffClaimed'
  BY <1>1, <1>3 DEF ClaimInv, LeaseIffClaimed
<1>6. WithinAttempts' /\ FreshAttempts'
  <2>1. \A j \in Lapsed \ Spent : attempts[j] < MaxAttempts[j]
    BY DEF Lapsed, Spent, TypeOK
  <2> QED
    BY <1>1, <1>3, <2>1 DEF ClaimInv, WithinAttempts, FreshAttempts
<1> QED
  BY <1>4, <1>5, <1>6 DEF ClaimInv

\* Executors and operators touch locks only; neither takes a device job's.
LEMMA LockStepClaims ==
    ASSUME TypeOK, ClaimInv, UNCHANGED <<status, claimed_by, attempts, lease>>,
           unlocked \subseteq unlocked',
           \A d \in Devices, k \in Jobs \ HostJobs :
              \/ device_locks'[d] = k <=> device_locks[d] = k
              \/ device_locks[d] = k /\ k \in unlocked' /\ device_locks'[d] = NoJob
    PROVE  ClaimInv'
<1>1. LeaseIffClaimed' /\ WithinAttempts' /\ FreshAttempts' /\ ClaimedByKind'
  BY DEF ClaimInv, LeaseIffClaimed, WithinAttempts, FreshAttempts, ClaimedByKind
<1>2. ASSUME NEW k \in Jobs \ HostJobs
      PROVE  /\ status[k] = "claimed" /\ k \notin unlocked' => device_locks'[claimed_by[k]] = k
             /\ \A d \in Devices :
                   device_locks'[d] = k => status[k] = "claimed" /\ claimed_by[k] = d
  <2>1. \A d \in Devices : device_locks[d] = k => status[k] = "claimed" /\ claimed_by[k] = d
    BY DEF ClaimInv, LockFollowsClaim
  <2>2. status[k] = "claimed" /\ k \notin unlocked' =>
            claimed_by[k] \in Devices /\ device_locks[claimed_by[k]] = k
    BY DeviceClaimant DEF ClaimInv, LockFollowsClaim
  <2>3. k # NoJob
    BY ConstantsAssumption
  <2> QED
    BY <2>1, <2>2, <2>3
<1>3. LockFollowsClaim'
  BY <1>2 DEF LockFollowsClaim
<1> QED
  BY <1>1, <1>3 DEF ClaimInv

\* Every step keeps the inductive invariant.
LEMMA NextClaims ==
    ASSUME TypeOK, ClaimInv, [Next]_vars
    PROVE  ClaimInv'
<1> USE ConstantsAssumption
<1>1. ASSUME NEW new \in SUBSET Jobs, NEW deps \in DependsOn, NEW p \in Priorities,
             Enqueue(new, deps, p)
      PROVE  ClaimInv'
  <2>1. /\ \A j \in new : status[j] = "absent"
        /\ \A j \in Jobs : status'[j] = IF j \in new THEN DependencyState(deps) ELSE status[j]
        /\ UNCHANGED <<claimed_by, attempts, lease, device_locks, unlocked>>
    BY <1>1 DEF Enqueue
  <2>2. DependencyState(deps) \in {"waiting", "queued", "failed", "skipped"}
    BY DEF DependencyState
  <2> QED
    BY <2>1, <2>2, QuietClaims
<1>2. ASSUME UNCHANGED <<status, claimed_by, attempts, lease, device_locks, unlocked>>
      PROVE  ClaimInv'
  BY <1>2, QuietClaims
<1>3. CASE \E j \in Jobs, d \in Devices : ClaimDevice(j, d)
  BY <1>3, GiveClaims DEF ClaimDevice, Claimants
<1>4. CASE \E j \in Jobs, h \in Hosts : ClaimHost(j, h)
  BY <1>4, GiveClaims DEF ClaimHost, Claimants
<1>5. CASE \E j \in Jobs, c \in Claimants \union {Nobody} : Release(j, c)
  BY <1>5, HandBackClaims DEF Release, MayRelease
<1>6. ASSUME NEW j \in Jobs, Beacon(j) \/ LeaseLapse(j)
      PROVE  ClaimInv'
  <2>1. /\ status[j] = "claimed"
        /\ lease' = [lease EXCEPT ![j] = lease'[j]] /\ lease'[j] # "none"
        /\ UNCHANGED <<status, claimed_by, attempts, device_locks, unlocked>>
    BY <1>6 DEF Beacon, LeaseLapse, TypeOK, ClaimInv, LeaseIffClaimed
  <2>2. LeaseIffClaimed'
    BY <2>1 DEF ClaimInv, LeaseIffClaimed, TypeOK
  <2>3. WithinAttempts' /\ FreshAttempts' /\ ClaimedByKind' /\ LockFollowsClaim'
    BY <2>1 DEF ClaimInv, WithinAttempts, FreshAttempts, ClaimedByKind, LockFollowsClaim
  <2> QED
    BY <2>2, <2>3 DEF ClaimInv
<1>7. CASE Sweep
  BY <1>7, SweepClaims
<1>8. CASE \E j \in Jobs : \E r \in Reporters[j], v \in Verdict : Final(j, r, v)
  BY <1>8, CloseClaims, ClosingStatusIsClosed DEF Final
<1>9. CASE \E j \in Jobs : \E r \in Reporters[j] : PreemptedFinal(j, r)
  BY <1>9, HandBackClaims DEF PreemptedFinal
<1>10. CASE \E j \in Jobs : Cancel(j)
  BY <1>10, CloseClaims DEF Cancel, Closed, Broken
<1>11. ASSUME NEW j \in Jobs, NEW D \in LockSets, AcquireLocks(j, D)
       PROVE  ClaimInv'
  <2>1. \A d \in Devices, k \in Jobs \ HostJobs : device_locks'[d] = k <=> device_locks[d] = k
    BY <1>11 DEF AcquireLocks, Granted
  <2> QED
    BY <1>11, <2>1, LockStepClaims DEF AcquireLocks
<1>12. ASSUME NEW j \in Jobs, ReleaseLocks(j)
       PROVE  ClaimInv'
  <2>1. \A d \in Devices, k \in Jobs \ HostJobs : device_locks'[d] = k <=> device_locks[d] = k
    BY <1>12, LocksWithoutType DEF ReleaseLocks
  <2> QED
    BY <1>12, <2>1, LockStepClaims DEF ReleaseLocks
<1>13. ASSUME NEW d \in Devices, BreakLock(d)
       PROVE  ClaimInv'
  <2>1. \A e \in Devices, k \in Jobs \ HostJobs :
           \/ device_locks'[e] = k <=> device_locks[e] = k
           \/ device_locks[e] = k /\ k \in unlocked' /\ device_locks'[e] = NoJob
    BY <1>13 DEF BreakLock, TypeOK
  <2> QED
    BY <1>13, <2>1, LockStepClaims DEF BreakLock
<1>14. CASE \/ \E j \in Jobs, p \in Priorities : SetPriority(j, p)
            \/ \E j \in Jobs : \E r \in Reporters[j], v \in Verdict : Row(j, r, v)
            \/ UNCHANGED vars
  BY <1>2, <1>14 DEF SetPriority, Row, vars
<1> QED
  BY <1>1, <1>3, <1>4, <1>5, <1>6, <1>7, <1>8, <1>9, <1>10, <1>11, <1>12, <1>13, <1>14 DEF Next

\* Claims, leases, attempts and locks agree at all times: the inductive
\* invariant the next four theorems are read off.
THEOREM ClaimsAreSound == Spec => []ClaimInv
<1>1. TypeOK /\ ClaimInv /\ [Next]_vars => ClaimInv'
  BY NextClaims
<1> QED
  BY <1>1, InitClaims, TypeCorrect, PTL DEF Spec

\* Every claim has a deadline the sweep will see, and nothing else has one.
THEOREM LeasesFollowClaims == Spec => []LeaseIffClaimed
BY ClaimsAreSound, PTL DEF ClaimInv

\* max_attempts bounds how often a job is handed out.
THEOREM AttemptsAreBounded == Spec => []WithinAttempts
BY ClaimsAreSound, PTL DEF ClaimInv

\* A device's lock is taken and dropped with its claim.
THEOREM LocksFollowClaims == Spec => []LockFollowsClaim
BY ClaimsAreSound, PTL DEF ClaimInv

\* A device works one device job at a time: two claims would have to hold the
\* same lock.
THEOREM DevicesWorkOneJob == Spec => []OneJobPerDevice
<1>1. TypeOK /\ ClaimInv => OneJobPerDevice
  BY DEF ClaimInv, LockFollowsClaim, OneJobPerDevice
<1> QED
  BY <1>1, TypeCorrect, ClaimsAreSound, PTL

-----------------------------------------------------------------------------
(***************************************************************************)
(* The queue implements the life of jobs.                                  *)
(***************************************************************************)

\* A job's stage, read off its status.
LEMMA StageOf ==
    ASSUME NEW j \in Jobs, status[j] \in Status
    PROVE  /\ Stage[j] = "absent" <=> status[j] = "absent"
           /\ Stage[j] = "waiting" <=> status[j] = "waiting"
           /\ Stage[j] = "ready" <=> status[j] = "queued"
           /\ Stage[j] = "running" <=> status[j] = "claimed"
           /\ Stage[j] = "closed" <=> status[j] \in Closed
BY DEF Stage, Status, Open, Closed, Broken

\* And off the status after a step.
LEMMA NextStageOf ==
    ASSUME NEW j \in Jobs, status'[j] \in Status
    PROVE  /\ Stage'[j] = "absent" <=> status'[j] = "absent"
           /\ Stage'[j] = "waiting" <=> status'[j] = "waiting"
           /\ Stage'[j] = "ready" <=> status'[j] = "queued"
           /\ Stage'[j] = "running" <=> status'[j] = "claimed"
           /\ Stage'[j] = "closed" <=> status'[j] \in Closed
BY DEF Stage, Status, Open, Closed, Broken

\* A fresh database has no life in it.
LEMMA InitLife == Init => Life!Begin
<1> SUFFICES ASSUME Init PROVE Life!Begin
  OBVIOUS
<1>1. Stage = [j \in Jobs |-> "absent"]
  BY DEF Init, Stage, Closed, Broken
<1>2. Worker = [j \in Jobs |-> Nobody]
  BY DEF Init, Worker
<1>3. Left = MaxAttempts
  <2>1. \A j \in Jobs : MaxAttempts[j] - 0 = MaxAttempts[j]
    BY ConstantsAssumption
  <2> QED
    BY <2>1, ConstantsAssumption DEF Init, Left
<1> QED
  BY <1>1, <1>2, <1>3 DEF Life!Begin

\* A claim starts its job.
LEMMA GiveStarts ==
    ASSUME TypeOK, TypeOK', ClaimInv, NEW j \in Jobs, NEW c \in Claimants, Give(j, c)
    PROVE  Life!Start(j, c)
<1>1. /\ status[j] = "queued"
      /\ status' = [status EXCEPT ![j] = "claimed"]
      /\ claimed_by' = [claimed_by EXCEPT ![j] = c]
      /\ attempts' = [attempts EXCEPT ![j] = @ + 1]
  BY DEF Give, Claimable
<1>2. Stage[j] = "ready" /\ Stage' = [Stage EXCEPT ![j] = "running"]
  BY <1>1 DEF Stage, TypeOK, Closed, Broken
<1>3. Worker' = [Worker EXCEPT ![j] = c]
  BY <1>1 DEF Worker, TypeOK
<1>4. attempts[j] \in Nat /\ MaxAttempts[j] \in Nat /\ attempts[j] < MaxAttempts[j]
  <2>1. attempts[j] \in Nat /\ MaxAttempts[j] \in Nat
    BY ConstantsAssumption DEF TypeOK
  <2> QED
    BY <1>1, <2>1 DEF ClaimInv, WithinAttempts
<1>5. MaxAttempts[j] - (attempts[j] + 1) = (MaxAttempts[j] - attempts[j]) - 1
      /\ MaxAttempts[j] - attempts[j] > 0
  BY <1>4
<1>6. \A k \in Jobs : attempts'[k] = IF k = j THEN attempts[j] + 1 ELSE attempts[k]
  BY <1>1 DEF TypeOK
<1>7. Left[j] > 0 /\ Left' = [Left EXCEPT ![j] = @ - 1]
  BY <1>5, <1>6 DEF Left
<1> QED
  BY <1>2, <1>3, <1>7 DEF Life!Start

\* A release or a preemption hands its job back.
LEMMA HandBackReturns ==
    ASSUME TypeOK, ClaimInv, NEW j \in Jobs, status[j] = "claimed", HandBack(j)
    PROVE  Life!HandBack(j)
<1>1. Stage[j] = "running" /\ Stage' = [Stage EXCEPT ![j] = "ready"]
  BY DEF HandBack, Stage, TypeOK, Closed, Broken
<1>2. Worker' = [Worker EXCEPT ![j] = Nobody]
  BY DEF HandBack, Worker, TypeOK
<1>3. attempts[j] \in Nat /\ MaxAttempts[j] \in Nat /\ attempts[j] > 0
  BY ConstantsAssumption DEF TypeOK, ClaimInv, WithinAttempts
<1>4. attempts' = [attempts EXCEPT ![j] = attempts[j] - 1]
  BY <1>3 DEF HandBack
<1>5. MaxAttempts[j] - (attempts[j] - 1) = (MaxAttempts[j] - attempts[j]) + 1
  BY <1>3
<1>6. \A k \in Jobs : attempts'[k] = IF k = j THEN attempts[j] - 1 ELSE attempts[k]
  BY <1>4 DEF TypeOK
<1>7. Left' = [Left EXCEPT ![j] = @ + 1]
  BY <1>5, <1>6 DEF Left
<1> QED
  BY <1>1, <1>2, <1>7 DEF Life!HandBack

\* The sweep returns the lapsed claims.
LEMMA SweepReturns ==
    ASSUME TypeOK, Sweep
    PROVE  Life!Return(Lapsed)
<1>1. Lapsed \subseteq Jobs /\ Spent \subseteq Lapsed /\ \A j \in Lapsed : status[j] = "claimed"
  BY DEF Lapsed, Spent
<1>2. \A j \in Lapsed : j \in Spent <=> ~(Left[j] > 0)
  <2> TAKE j \in Lapsed
  <2>1. attempts[j] \in Nat /\ MaxAttempts[j] \in Nat
    BY <1>1, ConstantsAssumption DEF TypeOK
  <2> QED
    BY <1>1, <2>1 DEF Spent, Left
<1>3. \A j \in Lapsed : Stage[j] = "running"
  BY <1>1 DEF Stage, Closed, Broken
<1>4. Stage' = [j \in Jobs |-> IF j \notin Lapsed THEN Stage[j]
                               ELSE IF Left[j] > 0 THEN "ready" ELSE "closed"]
  BY <1>1, <1>2 DEF Sweep, Stage, Closed, Broken
<1>5. Worker' = [j \in Jobs |-> IF j \in Lapsed THEN Nobody ELSE Worker[j]]
  BY <1>1 DEF Sweep, Worker
<1>6. Left' = Left
  BY DEF Sweep, Left
<1> QED
  BY <1>3, <1>4, <1>5, <1>6 DEF Life!Return

\* A final row or a cancellation closes its job and settles jobs that waited.
LEMMA CloseCloses ==
    ASSUME TypeOK, NEW j \in Posted, NEW s \in Closed, Close(j, s),
           UNCHANGED <<claimed_by, attempts>>
    PROVE  \E W \in SUBSET Jobs : Life!Close(j, W)
<1> DEFINE W == {w \in Jobs \ {j} : status[w] = "waiting" /\ status'[w] # "waiting"}
           f == [w \in W |-> Stage'[w]]
<1>0. j \in Jobs
  BY DEF Posted
<1>1. /\ status' \in [Jobs -> Status] /\ status'[j] = s
      /\ \A w \in Jobs \ {j} :
            IF status[w] = "waiting" THEN status'[w] \in {"waiting", "queued", "failed", "skipped"}
                                     ELSE status'[w] = status[w]
  BY <1>0, CloseMovesWaiters
<1>2. Stage[j] # "absent" /\ \A w \in W : Stage[w] = "waiting"
  <2>1. status[j] # "absent" /\ status \in [Jobs -> Status]
    BY DEF Posted, TypeOK
  <2> QED
    BY <1>0, <2>1, StageOf
<1>3. \A w \in W : Stage'[w] \in {"ready", "closed"}
  <2> TAKE w \in W
  <2>1. status'[w] \in {"queued", "failed", "skipped"}
    BY <1>1
  <2> QED
    BY <2>1 DEF Stage, Closed, Broken
<1>4. f \in [W -> {"ready", "closed"}]
  BY <1>3
<1>5. \A k \in Jobs : Stage'[k] = IF k = j THEN "closed" ELSE IF k \in W THEN f[k] ELSE Stage[k]
  <2> TAKE k \in Jobs
  <2>1. CASE k = j
    BY <1>1, <2>1, NextStageOf
  <2>2. CASE k \in W
    BY <2>2
  <2>3. CASE k # j /\ k \notin W
    <3>1. status'[k] = status[k]
      BY <1>1, <2>3
    <3> QED
      BY <3>1, <2>3 DEF Stage
  <2> QED
    BY <2>1, <2>2, <2>3
<1>6. Stage' = [k \in Jobs |-> IF k = j THEN "closed" ELSE IF k \in W THEN f[k] ELSE Stage[k]]
  BY <1>5 DEF Stage
<1>7. Worker' = [Worker EXCEPT ![j] = Nobody]
  <2>1. \A k \in Jobs \ {j} : status'[k] = "claimed" <=> status[k] = "claimed"
    BY <1>1
  <2>2. status'[j] # "claimed"
    BY <1>1 DEF Closed, Broken
  <2> QED
    BY <1>0, <2>1, <2>2 DEF Worker
<1>8. Left' = Left
  BY DEF Left
<1>9. Life!Close(j, W)
  BY <1>2, <1>4, <1>6, <1>7, <1>8 DEF Life!Close
<1> QED
  BY <1>9

\* Posted jobs begin their lives.
LEMMA EnqueuePosts ==
    ASSUME TypeOK, NEW new \in SUBSET Jobs, NEW deps \in DependsOn, NEW p \in Priorities,
           Enqueue(new, deps, p)
    PROVE  Life!Post(new)
<1> DEFINE f == [j \in new |-> Stage'[j]]
<1>1. /\ \A j \in new : status[j] = "absent"
      /\ \A j \in Jobs : status'[j] = IF j \in new THEN DependencyState(deps) ELSE status[j]
      /\ UNCHANGED <<claimed_by, attempts>>
  BY DEF Enqueue
<1>2. DependencyState(deps) \in {"waiting", "queued", "failed", "skipped"}
  BY DEF DependencyState
<1>3. f \in [new -> {"waiting", "ready", "closed"}]
  BY <1>1, <1>2 DEF Stage, Closed, Broken
<1>4. \A j \in new : Stage[j] = "absent"
  BY <1>1 DEF Stage, Closed, Broken
<1>5. Stage' = [j \in Jobs |-> IF j \in new THEN f[j] ELSE Stage[j]]
  BY <1>1 DEF Stage
<1>6. Worker' = Worker
  BY <1>1, <1>2 DEF Worker
<1>7. Left' = Left
  BY <1>1 DEF Left
<1> QED
  BY <1>3, <1>4, <1>5, <1>6, <1>7 DEF Life!Post

\* Every step of the queue is a move in the life of jobs, or none.
LEMMA NextLife ==
    ASSUME TypeOK, TypeOK', ClaimInv, [Next]_vars
    PROVE  [Life!Move]_(Life!life)
<1>1. ASSUME UNCHANGED <<status, claimed_by, attempts>>
      PROVE  UNCHANGED Life!life
  BY <1>1 DEF Life!life, Stage, Worker, Left
<1>2. CASE \E new \in SUBSET Jobs, deps \in DependsOn, p \in Priorities : Enqueue(new, deps, p)
  BY <1>2, EnqueuePosts DEF Life!Move
<1>3. CASE \/ \E j \in Jobs, d \in Devices : ClaimDevice(j, d)
           \/ \E j \in Jobs, h \in Hosts : ClaimHost(j, h)
  BY <1>3, GiveStarts DEF ClaimDevice, ClaimHost, Claimants, Life!Move
<1>4. CASE \/ \E j \in Jobs, c \in Claimants \union {Nobody} : Release(j, c)
           \/ \E j \in Jobs : \E r \in Reporters[j] : PreemptedFinal(j, r)
  BY <1>4, HandBackReturns DEF Release, MayRelease, PreemptedFinal, Life!Move
<1>5. CASE Sweep
  <2>1. Lapsed \in SUBSET Jobs
    BY DEF Lapsed
  <2> QED
    BY <1>5, <2>1, SweepReturns DEF Life!Move
<1>6. CASE \E j \in Jobs : \E r \in Reporters[j], v \in Verdict : Final(j, r, v)
  <2>1. PICK j \in Jobs : \E r \in Reporters[j], v \in Verdict : Final(j, r, v)
    BY <1>6
  <2>2. PICK r \in Reporters[j], v \in Verdict : Final(j, r, v)
    BY <2>1
  <2>3. /\ j \in Posted /\ Close(j, ClosingStatus(rows'[j], v))
        /\ UNCHANGED <<claimed_by, attempts>>
    BY <2>2 DEF Final
  <2>4. ClosingStatus(rows'[j], v) \in Closed
    BY ClosingStatusIsClosed
  <2> QED
    BY <2>3, <2>4, CloseCloses DEF Life!Move
<1>7. CASE \E j \in Jobs : Cancel(j)
  <2>1. PICK j \in Jobs : Cancel(j)
    BY <1>7
  <2>2. /\ j \in Posted /\ Close(j, "cancelled") /\ "cancelled" \in Closed
        /\ UNCHANGED <<claimed_by, attempts>>
    BY <2>1 DEF Cancel, Posted, Open, Closed, Broken
  <2> QED
    BY <2>2, CloseCloses DEF Life!Move
<1>8. CASE \/ \E j \in Jobs, p \in Priorities : SetPriority(j, p)
           \/ \E j \in Jobs : Beacon(j) \/ LeaseLapse(j)
           \/ \E j \in Jobs : \E r \in Reporters[j], v \in Verdict : Row(j, r, v)
           \/ \E j \in Jobs, D \in LockSets : AcquireLocks(j, D)
           \/ \E j \in Jobs : ReleaseLocks(j)
           \/ \E d \in Devices : BreakLock(d)
           \/ UNCHANGED vars
  BY <1>1, <1>8 DEF SetPriority, Beacon, LeaseLapse, Row, AcquireLocks, ReleaseLocks, BreakLock, vars
<1> QED
  BY <1>2, <1>3, <1>4, <1>5, <1>6, <1>7, <1>8 DEF Next

\* Whatever requests arrive, jobs are run by one worker at a time, started no
\* more often than they may be and never after they closed: claims, releases,
\* sweeps, rows and cancellations are moves in the life of jobs.
THEOREM QueueImplementsLifecycle == Spec => ImplementsLifecycle
<1>1. TypeOK /\ TypeOK' /\ ClaimInv /\ [Next]_vars => [Life!Move]_(Life!life)
  BY NextLife
<1> QED
  BY <1>1, InitLife, TypeCorrect, ClaimsAreSound, PTL DEF Spec, ImplementsLifecycle, Life!LifeSpec


-----------------------------------------------------------------------------
(***************************************************************************)
(* settleWaiters returns, and leaves a settlement, in whatever order it    *)
(* comes to the waiters and however often to the same one.                 *)
(***************************************************************************)

\* c has closed, and everybody else waits for what the queue lets jobs wait for.
JustClosed(st, c) ==
    /\ st \in [Jobs -> Status] /\ c \in Jobs /\ st[c] \in Closed
    /\ \A w \in Jobs : st[w] = "waiting" =>
          \A d \in depends_on[w] : d = c \/ st[d] \notin {"absent", "cancelled", "skipped"}

\* Only jobs that were waiting are touched.
OnlyWaiters(st, x) ==
    \A w \in Jobs : IF st[w] = "waiting" THEN x.now[w] \in {"waiting", "queued", "failed", "skipped"}
                                         ELSE x.now[w] = st[w]

\* Nobody is ahead of the walk, or behind it, whom the cascade does not reach.
OnlyReached(st, c, x) ==
    /\ \A k \in Nat, w \in Jobs : <<k, w>> \in x.ahead =>
          k \in 1..x.depth /\ st[w] = "waiting" /\ Reached(st, x.now, c, w)
    /\ \A w \in Jobs : x.now[w] # st[w] => Reached(st, x.now, c, w)

\* What became of w is still right.
StillRight(U, st, c, x, w) ==
    /\ x.now[w] = "failed" =>
          \/ \E d \in depends_on[w] : x.now[d] \in Broken
          \/ w \in U /\ \A d \in depends_on[w] : x.now[d] = "done"
    /\ x.now[w] = "queued" => w \notin U /\ \A d \in depends_on[w] : x.now[d] = "done"
    /\ x.now[w] = "skipped" =>
          /\ st[c] = "skipped"
          /\ \A d \in depends_on[w] : st[d] \notin Broken
          /\ \E d \in depends_on[w] :
                x.now[d] = "skipped" \/ (st[d] = "waiting" /\ x.now[d] = "failed")

\* A job that still waits although it is reached is ahead of the walk, or may go on
\* waiting.
NobodyMissed(st, c, x) ==
    \A w \in Jobs : Reached(st, x.now, c, w) /\ x.now[w] = "waiting" =>
        \/ \E k \in Nat : <<k, w>> \in x.ahead
        \/ /\ \A d \in depends_on[w] : x.now[d] \notin Broken \union {"skipped"}
           /\ \E d \in depends_on[w] : x.now[d] # "done"

\* The waiters of a job that was closed on the way come before that job comes again.
WaitersFirst(x) ==
    \A k \in Nat, v, w \in Jobs :
        <<k, v>> \in x.ahead /\ x.now[v] \in {"failed", "skipped"} /\ w \in WaitersOn(x.now, v) =>
            \E q \in Nat : q > k /\ <<q, w>> \in x.ahead

WalkInv(U, st, c, x) ==
    /\ x \in Walk
    /\ OnlyWaiters(st, x)
    /\ OnlyReached(st, c, x)
    /\ \A w \in Jobs : st[w] = "waiting" => StillRight(U, st, c, x, w)
    /\ NobodyMissed(st, c, x)
    /\ WaitersFirst(x)

LEMMA WalkInvBegins ==
    ASSUME TypeOK, NEW U, NEW st, NEW c, JustClosed(st, c)
    PROVE  WalkInv(U, st, c, WalkBegins(st, c))
<1> DEFINE x == WalkBegins(st, c)
<1>1. x.now = st /\ x.depth = 1 /\ x.ahead = {1} \X WaitersOn(st, c)
  BY DEF WalkBegins
<1>2. x \in Walk
  BY DEF WalkBegins, Walk, WaitersOn, JustClosed
<1>3. \A k \in Nat, w \in Jobs :
         <<k, w>> \in x.ahead <=> k = 1 /\ st[w] = "waiting" /\ c \in depends_on[w]
  BY <1>1 DEF WaitersOn
<1> HIDE DEF x
<1>4. OnlyWaiters(st, x) /\ OnlyReached(st, c, x)
  BY <1>1, <1>3 DEF OnlyWaiters, OnlyReached, Reached
<1>5. \A w \in Jobs : st[w] = "waiting" => StillRight(U, st, c, x, w)
  BY <1>1 DEF StillRight
<1>6. NobodyMissed(st, c, x)
  BY <1>1, <1>3 DEF NobodyMissed, Reached
<1>7. WaitersFirst(x)
  BY <1>1, <1>3 DEF WaitersFirst
<1> QED
  BY <1>2, <1>4, <1>5, <1>6, <1>7 DEF WalkInv, x

LEMMA ReturnKeepsWalk ==
    ASSUME NEW U, NEW st, NEW c, NEW x, NEW y, WalkInv(U, st, c, x), Returns(x, y)
    PROVE  WalkInv(U, st, c, y)
<1>1. /\ y.now = x.now /\ y.depth = x.depth - 1 /\ y.ahead = x.ahead
      /\ x.depth \in Nat /\ x.depth > 0 /\ \A w \in Jobs : <<x.depth, w>> \notin x.ahead
  BY DEF Returns, WalkInv, Walk
<1>2. y \in Walk
  BY <1>1 DEF Returns, WalkInv, Walk
<1>3. \A k \in Nat, w \in Jobs : <<k, w>> \in x.ahead => k \in 1..y.depth
  <2> SUFFICES ASSUME NEW k \in Nat, NEW w \in Jobs, <<k, w>> \in x.ahead PROVE k \in 1..y.depth
    OBVIOUS
  <2>1. k \in 1..x.depth /\ k # x.depth
    BY <1>1 DEF WalkInv, OnlyReached
  <2> QED
    BY <1>1, <2>1
<1>4. OnlyWaiters(st, y) /\ OnlyReached(st, c, y)
  BY <1>1, <1>3 DEF WalkInv, OnlyWaiters, OnlyReached
<1>5. \A w \in Jobs : st[w] = "waiting" => StillRight(U, st, c, y, w)
  BY <1>1 DEF WalkInv, StillRight
<1>6. NobodyMissed(st, c, y) /\ WaitersFirst(y)
  BY <1>1 DEF WalkInv, NobodyMissed, WaitersFirst
<1> QED
  BY <1>2, <1>4, <1>5, <1>6 DEF WalkInv

\* What waiter w becomes when the walk comes to it follows from its dependencies, and
\* from what it became the time before.
TurnIsRight(U, st, c, x, w) ==
    LET turn == Turn(U, x.now, w)
        deps == depends_on[w]
    IN  /\ turn \in {"failed", "skipped", "left", "queued"}
        /\ turn = "failed" =>
              (\E d \in deps : x.now[d] \in Broken) \/ (w \in U /\ \A d \in deps : x.now[d] = "done")
        /\ turn = "skipped" =>
              /\ \E d \in deps : x.now[d] = "skipped"
              /\ st[c] = "skipped" /\ \A d \in deps : st[d] \notin Broken
        /\ turn = "left" =>
              /\ \A d \in deps : x.now[d] \notin Broken \union {"skipped"}
              /\ \E d \in deps : x.now[d] # "done"
        /\ turn = "queued" => w \notin U /\ \A d \in deps : x.now[d] = "done"
        /\ x.now[w] = "queued" => turn = "queued"
        /\ x.now[w] = "skipped" => turn \in {"failed", "skipped"}
        /\ x.now[w] = "failed" => turn = "failed"

LEMMA TurnFits ==
    ASSUME TypeOK, NEW U, NEW st, NEW c, JustClosed(st, c), NEW x, WalkInv(U, st, c, x),
           NEW w \in Jobs, st[w] = "waiting"
    PROVE  TurnIsRight(U, st, c, x, w)
<1> DEFINE turn == Turn(U, x.now, w)
           deps == depends_on[w]
<1>1. deps \subseteq Jobs /\ x.now \in [Jobs -> Status]
  BY DEF TypeOK, WalkInv, Walk
<1>2. \A d \in deps : x.now[d] # "absent"
  BY <1>1 DEF JustClosed, WalkInv, OnlyWaiters, Closed, Broken
<1>3. \A d \in deps : x.now[d] \in Status
  BY <1>1
<1>4. /\ turn \in {"failed", "skipped", "left", "queued"}
      /\ turn = "failed" =>
            (\E d \in deps : x.now[d] \in Broken) \/ (w \in U /\ \A d \in deps : x.now[d] = "done")
      /\ turn = "skipped" =>
            (\E d \in deps : x.now[d] = "skipped") /\ \A d \in deps : x.now[d] \notin Broken
      /\ turn = "left" =>
            /\ \A d \in deps : x.now[d] \notin Broken \union {"skipped"}
            /\ \E d \in deps : x.now[d] # "done"
      /\ turn = "queued" => w \notin U /\ \A d \in deps : x.now[d] = "done"
      /\ (\E d \in deps : x.now[d] \in Broken) => turn = "failed"
      /\ (\E d \in deps : x.now[d] = "skipped") => turn \in {"failed", "skipped"}
      /\ (\A d \in deps : x.now[d] = "done") => turn = IF w \in U THEN "failed" ELSE "queued"
  BY <1>2, <1>3 DEF Turn, Broken
<1> HIDE DEF turn
<1>5. turn = "skipped" => st[c] = "skipped" /\ \A d \in deps : st[d] \notin Broken
  <2>1. SUFFICES ASSUME turn = "skipped"
                 PROVE  st[c] = "skipped" /\ \A d \in deps : st[d] \notin Broken
    OBVIOUS
  <2>2. \A d \in deps : st[d] \in Broken => x.now[d] \in Broken
    BY <1>1 DEF WalkInv, OnlyWaiters, Broken
  <2>3. PICK d \in deps : x.now[d] = "skipped"
    BY <1>4, <2>1
  <2>4. st[d] = "waiting" => st[c] = "skipped"
    BY <1>1, <2>3 DEF WalkInv, StillRight
  <2>5. st[d] # "waiting" => st[c] = "skipped"
    BY <1>1, <2>3 DEF WalkInv, OnlyWaiters, JustClosed
  <2> QED
    BY <1>4, <2>1, <2>2, <2>4, <2>5
<1>6. x.now[w] = "queued" => turn = "queued"
  BY <1>4 DEF WalkInv, StillRight
<1>7. x.now[w] = "skipped" => turn \in {"failed", "skipped"}
  BY <1>4 DEF WalkInv, StillRight, Broken
<1>8. x.now[w] = "failed" => turn = "failed"
  BY <1>4 DEF WalkInv, StillRight
<1> QED
  BY <1>4, <1>5, <1>6, <1>7, <1>8 DEF turn, TurnIsRight


\* What the walk has done when it came to waiter w.
HasCome(U, st, c, x, w, y) ==
    LET turn == Turn(U, x.now, w)
        down == turn \in {"failed", "skipped"}
    IN  /\ st[w] = "waiting" /\ x.depth \in Nat /\ x.depth > 0 /\ <<x.depth, w>> \in x.ahead
        /\ Reached(st, x.now, c, w)
        /\ y \in Walk
        /\ turn = "left" => y.now = x.now /\ x.now[w] = "waiting"
        /\ turn # "left" => y.now[w] = turn
        /\ \A v \in Jobs : v # w => y.now[v] = x.now[v]
        /\ y.depth = IF down THEN x.depth + 1 ELSE x.depth
        /\ \A k \in Nat, v \in Jobs :
              <<k, v>> \in y.ahead <=>
                 \/ <<k, v>> \in x.ahead /\ (k # x.depth \/ v # w)
                 \/ down /\ k = x.depth + 1 /\ v \in WaitersOn(y.now, w)

LEMMA ComesTo ==
    ASSUME TypeOK, NEW U, NEW st, NEW c, JustClosed(st, c), NEW x, WalkInv(U, st, c, x),
           NEW w \in Jobs, NEW y, Comes(U, x, w, y)
    PROVE  HasCome(U, st, c, x, w, y)
<1> DEFINE turn == Turn(U, x.now, w)
           down == turn \in {"failed", "skipped"}
<1>1. <<x.depth, w>> \in x.ahead /\ x.depth \in Nat /\ x.now \in [Jobs -> Status]
      /\ x.ahead \subseteq Nat \X Jobs
  BY DEF Comes, WalkInv, Walk
<1>2. st[w] = "waiting" /\ x.depth > 0 /\ Reached(st, x.now, c, w)
  BY <1>1 DEF WalkInv, OnlyReached
<1>3. turn \in {"failed", "skipped", "left", "queued"}
  <2>1. TurnIsRight(U, st, c, x, w)
    BY <1>2, TurnFits
  <2> QED
    BY <2>1 DEF TurnIsRight
<1>4. x.now[w] \in {"waiting", "queued", "failed", "skipped"}
  BY <1>2 DEF WalkInv, OnlyWaiters
<1>5. turn = "left" => x.now[w] = "waiting"
  <2>1. TurnIsRight(U, st, c, x, w)
    BY <1>2, TurnFits
  <2> QED
    BY <1>4, <2>1 DEF TurnIsRight
<1>6. /\ turn = "left" => y = [now |-> x.now, depth |-> x.depth, ahead |-> x.ahead \ {<<x.depth, w>>}]
      /\ turn = "queued" => y = [now |-> [x.now EXCEPT ![w] = turn], depth |-> x.depth,
                                 ahead |-> x.ahead \ {<<x.depth, w>>}]
      /\ down => y = [now |-> [x.now EXCEPT ![w] = turn], depth |-> x.depth + 1,
                      ahead |-> (x.ahead \ {<<x.depth, w>>})
                                \union ({x.depth + 1} \X WaitersOn([x.now EXCEPT ![w] = turn], w))]
  BY DEF Comes
<1> HIDE DEF turn
<1>7. \A s : WaitersOn(s, w) \subseteq Jobs
  BY DEF WaitersOn
<1>8. CASE down
  <2>1. /\ y.now = [x.now EXCEPT ![w] = turn] /\ y.depth = x.depth + 1
        /\ y.ahead = (x.ahead \ {<<x.depth, w>>}) \union ({x.depth + 1} \X WaitersOn(y.now, w))
    BY <1>6, <1>8
  <2>2. y.now \in [Jobs -> Status]
    BY <1>1, <1>8, <2>1 DEF Status, Closed, Broken
  <2>3. y \in Walk
    BY <1>1, <1>6, <1>7, <1>8, <2>1, <2>2 DEF Walk
  <2>4. /\ turn # "left" /\ y.now[w] = turn
        /\ \A v \in Jobs : v # w => y.now[v] = x.now[v]
    BY <1>1, <1>8, <2>1
  <2> QED
    BY <1>1, <1>2, <1>8, <2>1, <2>3, <2>4 DEF turn, HasCome
<1>9. CASE turn = "queued"
  <2>1. /\ y.now = [x.now EXCEPT ![w] = turn] /\ y.depth = x.depth
        /\ y.ahead = x.ahead \ {<<x.depth, w>>}
    BY <1>6, <1>9
  <2>2. y.now \in [Jobs -> Status]
    BY <1>1, <1>9, <2>1 DEF Status, Open
  <2>3. y \in Walk
    BY <1>1, <1>6, <1>9, <2>1, <2>2 DEF Walk
  <2>4. ~down /\ y.now[w] = turn /\ \A v \in Jobs : v # w => y.now[v] = x.now[v]
    BY <1>1, <1>9, <2>1
  <2> QED
    BY <1>1, <1>2, <1>9, <2>1, <2>3, <2>4 DEF turn, HasCome
<1>10. CASE turn = "left"
  <2>1. y.now = x.now /\ y.depth = x.depth /\ y.ahead = x.ahead \ {<<x.depth, w>>}
    BY <1>6, <1>10
  <2>2. y \in Walk
    BY <1>1, <1>6, <1>10, <2>1 DEF Walk
  <2> QED
    BY <1>1, <1>2, <1>5, <1>10, <2>1, <2>2 DEF turn, HasCome
<1> QED
  BY <1>3, <1>8, <1>9, <1>10


LEMMA ComeKeepsWalk ==
    ASSUME TypeOK, NEW U, NEW st, NEW c, JustClosed(st, c), NEW x, WalkInv(U, st, c, x),
           NEW w \in Jobs, NEW y, Comes(U, x, w, y)
    PROVE  WalkInv(U, st, c, y)
<1> DEFINE turn == Turn(U, x.now, w)
           down == turn \in {"failed", "skipped"}
<1>1. HasCome(U, st, c, x, w, y)
  BY ComesTo
<1>2. TurnIsRight(U, st, c, x, w)
  BY <1>1, TurnFits DEF HasCome
<1>3. /\ st[w] = "waiting" /\ x.depth \in Nat /\ x.depth > 0 /\ <<x.depth, w>> \in x.ahead
      /\ Reached(st, x.now, c, w) /\ y \in Walk
      /\ turn \in {"failed", "skipped", "left", "queued"}
      /\ turn = "left" => y.now = x.now /\ x.now[w] = "waiting"
      /\ turn # "left" => y.now[w] = turn
      /\ \A v \in Jobs : v # w => y.now[v] = x.now[v]
      /\ y.depth = IF down THEN x.depth + 1 ELSE x.depth
      /\ \A k \in Nat, v \in Jobs :
            <<k, v>> \in y.ahead <=>
               \/ <<k, v>> \in x.ahead /\ (k # x.depth \/ v # w)
               \/ down /\ k = x.depth + 1 /\ v \in WaitersOn(y.now, w)
  BY <1>1, <1>2 DEF HasCome, TurnIsRight
<1>4. \A v \in Jobs : depends_on[v] \subseteq Jobs
  BY DEF TypeOK
<1>5. OnlyWaiters(st, x) /\ OnlyReached(st, c, x) /\ NobodyMissed(st, c, x) /\ WaitersFirst(x)
      /\ \A v \in Jobs : st[v] = "waiting" => StillRight(U, st, c, x, v)
  BY DEF WalkInv
<1>6. /\ turn = "failed" =>
            \/ \E d \in depends_on[w] : x.now[d] \in Broken
            \/ w \in U /\ \A d \in depends_on[w] : x.now[d] = "done"
      /\ turn = "skipped" =>
            /\ \E d \in depends_on[w] : x.now[d] = "skipped"
            /\ st[c] = "skipped" /\ \A d \in depends_on[w] : st[d] \notin Broken
      /\ turn = "left" =>
            /\ \A d \in depends_on[w] : x.now[d] \notin Broken \union {"skipped"}
            /\ \E d \in depends_on[w] : x.now[d] # "done"
      /\ turn = "queued" => w \notin U /\ \A d \in depends_on[w] : x.now[d] = "done"
      /\ x.now[w] = "queued" => turn = "queued"
      /\ x.now[w] = "skipped" => turn \in {"failed", "skipped"}
      /\ x.now[w] = "failed" => turn = "failed"
  BY <1>2 DEF TurnIsRight
<1> HIDE DEF turn
<1>7. x.now[w] \in {"waiting", "queued", "failed", "skipped"}
  BY <1>3, <1>5 DEF OnlyWaiters
<1>8. OnlyWaiters(st, y)
  BY <1>3, <1>5 DEF OnlyWaiters
\* What closed stays closed, and what was done stays done.
<1>9. \A v \in Jobs : /\ x.now[v] \in Broken => y.now[v] \in Broken
                      /\ x.now[v] = "done" <=> y.now[v] = "done"
                      /\ x.now[v] = "skipped" => y.now[v] = "skipped"
                                                 \/ (st[v] = "waiting" /\ y.now[v] = "failed")
                      /\ x.now[v] \in {"failed", "skipped"} => y.now[v] \in {"failed", "skipped"}
                      /\ x.now[v] = "failed" => y.now[v] = "failed"
  BY <1>3, <1>6, <1>7 DEF Broken
<1>10. \A v \in Jobs : Reached(st, x.now, c, v) => Reached(st, y.now, c, v)
  BY <1>4, <1>9 DEF Reached
<1>11. \A v \in WaitersOn(y.now, w) : down => st[v] = "waiting" /\ Reached(st, y.now, c, v)
  <2> SUFFICES ASSUME NEW v \in WaitersOn(y.now, w), down
               PROVE  st[v] = "waiting" /\ Reached(st, y.now, c, v)
    OBVIOUS
  <2>1. v \in Jobs /\ y.now[v] = "waiting" /\ w \in depends_on[v]
    BY DEF WaitersOn
  <2>2. st[v] = "waiting"
    BY <1>8, <2>1 DEF OnlyWaiters
  <2>3. y.now[w] \in {"failed", "skipped"}
    BY <1>3
  <2> QED
    BY <1>3, <2>1, <2>2, <2>3 DEF Reached
<1>12. OnlyReached(st, c, y)
  <2>1. ASSUME NEW k \in Nat, NEW v \in Jobs, <<k, v>> \in y.ahead
        PROVE  k \in 1..y.depth /\ st[v] = "waiting" /\ Reached(st, y.now, c, v)
    <3>1. CASE <<k, v>> \in x.ahead
      <4>1. k \in 1..x.depth /\ st[v] = "waiting" /\ Reached(st, x.now, c, v)
        BY <1>5, <3>1 DEF OnlyReached
      <4> QED
        BY <1>3, <1>10, <4>1
    <3>2. CASE <<k, v>> \notin x.ahead
      <4>1. down /\ k = x.depth + 1 /\ v \in WaitersOn(y.now, w)
        BY <1>3, <2>1, <3>2
      <4> QED
        BY <1>3, <1>11, <4>1
    <3> QED
      BY <3>1, <3>2
  <2>2. ASSUME NEW v \in Jobs, y.now[v] # st[v] PROVE Reached(st, y.now, c, v)
    BY <1>3, <1>5, <1>10, <2>2 DEF OnlyReached
  <2> QED
    BY <2>1, <2>2 DEF OnlyReached
<1>13. ASSUME NEW v \in Jobs, st[v] = "waiting" PROVE StillRight(U, st, c, y, v)
  <2>1. StillRight(U, st, c, x, v)
    BY <1>5, <1>13
  <2>2. CASE v # w \/ turn = "left"
    <3>1. y.now[v] = x.now[v]
      BY <1>3, <2>2
    <3> QED
      BY <1>4, <1>9, <2>1, <3>1 DEF StillRight
  <2>3. CASE v = w /\ turn # "left"
    <3>1. y.now[w] = turn
      BY <1>3, <2>3
    <3> QED
      BY <1>3, <1>4, <1>6, <1>9, <2>3, <3>1 DEF StillRight
  <2> QED
    BY <2>2, <2>3
<1>14. NobodyMissed(st, c, y)
  <2> SUFFICES ASSUME NEW v \in Jobs, Reached(st, y.now, c, v), y.now[v] = "waiting",
                      \A k \in Nat : <<k, v>> \notin y.ahead
               PROVE  /\ \A d \in depends_on[v] : y.now[d] \notin Broken \union {"skipped"}
                      /\ \E d \in depends_on[v] : y.now[d] # "done"
    BY DEF NobodyMissed
  <2>1. CASE turn = "left"
    <3>1. y.now = x.now
      BY <1>3, <2>1
    <3>2. CASE v = w
      BY <1>6, <2>1, <3>1, <3>2
    <3>3. CASE v # w
      <4>1. \A k \in Nat : <<k, v>> \notin x.ahead
        BY <1>3, <3>3
      <4> QED
        BY <1>5, <3>1, <4>1 DEF NobodyMissed
    <3> QED
      BY <3>2, <3>3
  <2>2. CASE turn # "left"
    <3>1. v # w /\ x.now[v] = "waiting"
      BY <1>3, <2>2
    <3>2. \A k \in Nat : <<k, v>> \notin x.ahead
      BY <1>3, <3>1
    <3>3. ~(down /\ w \in depends_on[v])
      <4>1. SUFFICES ASSUME down, w \in depends_on[v] PROVE FALSE
        OBVIOUS
      <4>2. v \in WaitersOn(y.now, w)
        BY <4>1 DEF WaitersOn
      <4>3. x.depth + 1 \in Nat /\ <<x.depth + 1, v>> \in y.ahead
        BY <1>3, <4>1, <4>2
      <4> QED
        BY <4>3
    <3>4. Reached(st, x.now, c, v)
      <4>1. \A d \in depends_on[v] : y.now[d] \in {"failed", "skipped"} => x.now[d] \in {"failed", "skipped"}
        BY <1>3, <1>4, <2>2, <3>3
      <4> QED
        BY <4>1 DEF Reached
    <3>5. /\ \A d \in depends_on[v] : x.now[d] \notin Broken \union {"skipped"}
          /\ \E d \in depends_on[v] : x.now[d] # "done"
      BY <1>5, <3>1, <3>2, <3>4 DEF NobodyMissed
    <3>6. ASSUME NEW d \in depends_on[v] PROVE y.now[d] \notin Broken \union {"skipped"}
      <4>1. d \in Jobs
        BY <1>4
      <4>2. CASE d = w
        <5>1. y.now[d] = "queued"
          BY <1>3, <2>2, <3>3, <4>2
        <5> QED
          BY <5>1 DEF Broken
      <4>3. CASE d # w
        BY <1>3, <3>5, <4>1, <4>3
      <4> QED
        BY <4>2, <4>3
    <3> QED
      BY <1>4, <1>9, <3>5, <3>6
  <2> QED
    BY <2>1, <2>2
<1>15. WaitersFirst(y)
  <2> SUFFICES ASSUME NEW k \in Nat, NEW v \in Jobs, NEW u \in Jobs,
                      <<k, v>> \in y.ahead, y.now[v] \in {"failed", "skipped"},
                      u \in WaitersOn(y.now, v)
               PROVE  \E q \in Nat : q > k /\ <<q, u>> \in y.ahead
    BY DEF WaitersFirst
  <2>1. y.now[u] = "waiting" /\ v \in depends_on[u]
    BY DEF WaitersOn
  <2>2. <<k, v>> \in x.ahead
    <3>1. \A z \in WaitersOn(y.now, w) : y.now[z] = "waiting"
      BY DEF WaitersOn
    <3> QED
      BY <1>3, <3>1
  <2>3. k \in 1..x.depth
    BY <1>5, <2>2 DEF OnlyReached
  <2>4. CASE v = w /\ down
    <3>1. x.depth + 1 \in Nat /\ <<x.depth + 1, u>> \in y.ahead
      BY <1>3, <2>4
    <3> QED
      BY <1>3, <2>3, <3>1
  <2>5. CASE ~(v = w /\ down)
    <3>1. x.now[v] \in {"failed", "skipped"}
      BY <1>3, <2>5
    <3>2. u = w => turn = "left"
      BY <1>3, <2>1
    <3>3. x.now[u] = "waiting"
      BY <1>3, <2>1, <3>2
    <3>4. u \in WaitersOn(x.now, v)
      BY <2>1, <3>3 DEF WaitersOn
    <3>5. PICK q \in Nat : q > k /\ <<q, u>> \in x.ahead
      BY <1>5, <2>2, <3>1, <3>4 DEF WaitersFirst
    <3>6. u # w
      BY <1>4, <1>6, <2>1, <3>1, <3>2 DEF Broken
    <3>7. <<q, u>> \in y.ahead
      BY <1>3, <3>5, <3>6
    <3> QED
      BY <3>5, <3>7
  <2> QED
    BY <2>4, <2>5
<1> QED
  BY <1>3, <1>8, <1>12, <1>13, <1>14, <1>15 DEF WalkInv


LEMMA WalkKeeps ==
    ASSUME TypeOK, NEW U, NEW st, NEW c, JustClosed(st, c), NEW x, WalkInv(U, st, c, x),
           NEW y, WalkStep(U, x, y)
    PROVE  WalkInv(U, st, c, y)
<1>1. CASE Returns(x, y)
  BY <1>1, ReturnKeepsWalk
<1>2. CASE \E w \in Jobs : Comes(U, x, w, y)
  BY <1>2, ComeKeepsWalk
<1> QED
  BY <1>1, <1>2 DEF WalkStep

\* As far as a walk has got, what it has done is right.
LEMMA WalkInvHolds ==
    ASSUME TypeOK, NEW U, NEW st, NEW c, JustClosed(st, c), NEW walk, NEW n \in Nat,
           IsWalkOf(U, st, c, walk, 0..(n - 1))
    PROVE  \A k \in 0..n : WalkInv(U, st, c, walk[k])
<1> DEFINE E == {k \in Nat : k <= n => WalkInv(U, st, c, walk[k])}
<1>1. 0 \in E
  BY WalkInvBegins DEF IsWalkOf
<1>2. ASSUME NEW k \in Nat, k \in E PROVE k + 1 \in E
  <2>1. CASE k + 1 <= n
    <3>1. k \in 0..(n - 1) /\ WalkInv(U, st, c, walk[k])
      BY <1>2, <2>1
    <3>2. WalkStep(U, walk[k], walk[k + 1])
      BY <3>1 DEF IsWalkOf
    <3> QED
      BY <3>1, <3>2, WalkKeeps
  <2>2. CASE ~(k + 1 <= n)
    BY <2>2
  <2> QED
    BY <2>1, <2>2
<1> HIDE DEF E
<1>3. Nat \subseteq E
  BY <1>1, <1>2, SetInduction
<1> QED
  BY <1>3 DEF E

\* A walk that has returned leaves a settlement.
LEMMA ReturnedIsSettled ==
    ASSUME TypeOK, NEW U, NEW st, NEW c, JustClosed(st, c), NEW x, WalkInv(U, st, c, x),
           x.depth = 0
    PROVE  x.now \in Settlements(st, c)
<1>1. /\ x.now \in [Jobs -> Status] /\ x.ahead \subseteq Nat \X Jobs
      /\ OnlyWaiters(st, x) /\ OnlyReached(st, c, x) /\ NobodyMissed(st, c, x)
      /\ \A w \in Jobs : st[w] = "waiting" => StillRight(U, st, c, x, w)
  BY DEF WalkInv, Walk
<1>2. \A k \in Nat, w \in Jobs : <<k, w>> \notin x.ahead
  <2>1. SUFFICES ASSUME NEW k \in Nat, NEW w \in Jobs, <<k, w>> \in x.ahead PROVE FALSE
    OBVIOUS
  <2>2. k \in 1..0
    BY <1>1, <2>1 DEF OnlyReached
  <2> QED
    BY <2>2
<1>3. ASSUME NEW w \in Jobs, Reached(st, x.now, c, w) PROVE Settled(st, x.now, c, w)
  <2>1. st[w] = "waiting" /\ StillRight(U, st, c, x, w)
    BY <1>1, <1>3 DEF Reached
  <2>2. x.now[w] \in {"waiting", "queued", "failed", "skipped"}
    BY <1>1, <2>1 DEF OnlyWaiters
  <2>3. CASE x.now[w] = "waiting"
    <3>1. /\ \A d \in depends_on[w] : x.now[d] \notin Broken \union {"skipped"}
          /\ \E d \in depends_on[w] : x.now[d] # "done"
      BY <1>1, <1>2, <1>3, <2>3 DEF NobodyMissed
    <3> QED
      BY <2>3, <3>1 DEF Settled
  <2>4. CASE x.now[w] = "failed"
    BY <2>1, <2>4 DEF StillRight, Settled
  <2>5. CASE x.now[w] = "queued"
    BY <2>1, <2>5 DEF StillRight, Settled
  <2>6. CASE x.now[w] = "skipped"
    BY <2>1, <2>6 DEF StillRight, Settled
  <2> QED
    BY <2>2, <2>3, <2>4, <2>5, <2>6
<1>4. IsSettlement(st, x.now, c)
  BY <1>1, <1>3 DEF IsSettlement, OnlyReached
<1> DEFINE W == {w \in Jobs : st[w] = "waiting"}
           f == [w \in W |-> x.now[w]]
           With(g) == [j \in Jobs |-> IF j \in W THEN g[j] ELSE st[j]]
<1>5. f \in [W -> {"waiting", "queued", "failed", "skipped"}]
  BY <1>1 DEF OnlyWaiters
<1>6. With(f) = x.now
  BY <1>1 DEF OnlyWaiters
<1> QED
  BY <1>4, <1>5, <1>6 DEF Settlements

\* What the queue lets jobs wait for, when one of them closes.
LEMMA ClosingStarts ==
    ASSUME TypeOK, WaiterHasReason, NEW c \in Posted, NEW s \in Closed
    PROVE  JustClosed([status EXCEPT ![c] = s], c)
<1>1. c \in Jobs /\ s \in Status
  BY DEF Posted, Status
<1> QED
  BY <1>1 DEF JustClosed, WaiterHasReason, TypeOK, Closed, Broken

\* What closing a job and settling its waiters leaves, when settleWaiters returns, is
\* one of the settlements by which Close is defined.
WalksSettle ==
    \A c \in Posted, s \in Closed, U \in SUBSET Jobs, n \in Nat :
        LET st == [status EXCEPT ![c] = s]
        IN  \A walk \in [0..n -> Walk] :
                IsWalkOf(U, st, c, walk, 0..(n - 1)) /\ walk[n].depth = 0 =>
                    walk[n].now \in Settlements(st, c)

\* The recursion of settleWaiters does what Close says it does.
THEOREM RecursionSettles == Spec => []WalksSettle
<1>1. TypeOK /\ WaiterHasReason => WalksSettle
  <2> SUFFICES ASSUME TypeOK, WaiterHasReason, NEW c \in Posted, NEW s \in Closed,
                      NEW U \in SUBSET Jobs, NEW n \in Nat, NEW walk \in [0..n -> Walk],
                      IsWalkOf(U, [status EXCEPT ![c] = s], c, walk, 0..(n - 1)),
                      walk[n].depth = 0
               PROVE  walk[n].now \in Settlements([status EXCEPT ![c] = s], c)
    BY DEF WalksSettle
  <2> DEFINE st == [status EXCEPT ![c] = s]
  <2>1. JustClosed(st, c)
    BY ClosingStarts
  <2> HIDE DEF st
  <2>2. WalkInv(U, st, c, walk[n])
    <3>1. IsWalkOf(U, st, c, walk, 0..(n - 1))
      BY DEF st
    <3> QED
      BY <2>1, <3>1, WalkInvHolds
  <2>3. walk[n].now \in Settlements(st, c)
    BY <2>1, <2>2, ReturnedIsSettled
  <2> QED
    BY <2>3 DEF st
<1> QED
  BY <1>1, TypeCorrect, WaitersHaveReasons, PTL


\* The jobs that still wait.
Waiters(x) == {w \in Jobs : x.now[w] = "waiting"}

\* A step of a walk takes a job off the waiters, or comes to one that was settled or is
\* left, or returns.
Shortens(x, y) ==
    \/ Waiters(y) \subseteq Waiters(x) /\ Waiters(y) # Waiters(x)
    \/ /\ Waiters(y) = Waiters(x)
       /\ \/ \E e \in x.ahead : y.ahead = x.ahead \ {e}
          \/ y.ahead = x.ahead /\ y.depth < x.depth

LEMMA ComeShortens ==
    ASSUME TypeOK, NEW U, NEW st, NEW c, JustClosed(st, c), NEW x, WalkInv(U, st, c, x),
           NEW w \in Jobs, NEW y, Comes(U, x, w, y)
    PROVE  Shortens(x, y)
<1> DEFINE turn == Turn(U, x.now, w)
<1>1. HasCome(U, st, c, x, w, y)
  BY ComesTo
<1>2. TurnIsRight(U, st, c, x, w)
  BY <1>1, TurnFits DEF HasCome
<1>3. /\ st[w] = "waiting" /\ x.depth \in Nat /\ <<x.depth, w>> \in x.ahead
      /\ turn \in {"failed", "skipped", "left", "queued"}
      /\ turn = "left" => y.now = x.now /\ x.now[w] = "waiting"
      /\ turn # "left" => y.now[w] = turn
      /\ \A v \in Jobs : v # w => y.now[v] = x.now[v]
      /\ x.now[w] = "queued" => turn = "queued"
  BY <1>1, <1>2 DEF HasCome, TurnIsRight
<1>4. x.now[w] \in {"waiting", "queued", "failed", "skipped"}
  BY <1>3 DEF WalkInv, OnlyWaiters
<1>5. /\ turn \in {"left", "queued"} => y.ahead = x.ahead \ {<<x.depth, w>>}
      /\ turn \in {"failed", "skipped"} =>
            y.ahead = (x.ahead \ {<<x.depth, w>>}) \union ({x.depth + 1} \X WaitersOn(y.now, w))
  BY DEF Comes
<1> HIDE DEF turn
<1>6. CASE x.now[w] = "waiting" /\ turn # "left"
  <2>1. w \in Waiters(x) /\ w \notin Waiters(y)
    BY <1>3, <1>6 DEF Waiters
  <2>2. Waiters(y) \subseteq Waiters(x)
    BY <1>3, <1>6 DEF Waiters
  <2> QED
    BY <2>1, <2>2 DEF Shortens
<1>7. CASE turn = "left"
  BY <1>3, <1>5, <1>7 DEF Shortens, Waiters
<1>8. CASE x.now[w] # "waiting" /\ turn # "left"
  <2>1. Waiters(y) = Waiters(x)
    BY <1>3, <1>8 DEF Waiters
  <2>2. CASE turn = "queued"
    BY <1>3, <1>5, <2>1, <2>2 DEF Shortens
  <2>3. CASE turn # "queued"
    <3>1. x.now[w] \in {"failed", "skipped"}
      BY <1>3, <1>4, <1>8, <2>3
    <3>2. WaitersOn(y.now, w) \subseteq WaitersOn(x.now, w)
      BY <1>3, <1>8 DEF WaitersOn
    <3>3. WaitersOn(x.now, w) = {}
      <4>1. SUFFICES ASSUME NEW u \in WaitersOn(x.now, w) PROVE FALSE
        OBVIOUS
      <4>2. u \in Jobs
        BY DEF WaitersOn
      <4>3. PICK q \in Nat : q > x.depth /\ <<q, u>> \in x.ahead
        BY <1>3, <3>1, <4>2 DEF WalkInv, WaitersFirst
      <4>4. q \in 1..x.depth
        BY <4>2, <4>3 DEF WalkInv, OnlyReached
      <4> QED
        BY <1>3, <4>3, <4>4
    <3>4. y.ahead = x.ahead \ {<<x.depth, w>>}
      BY <1>3, <1>5, <1>8, <2>3, <3>2, <3>3
    <3> QED
      BY <1>3, <2>1, <3>4 DEF Shortens
  <2> QED
    BY <2>2, <2>3
<1> QED
  BY <1>6, <1>7, <1>8

LEMMA StepShortens ==
    ASSUME TypeOK, NEW U, NEW st, NEW c, JustClosed(st, c), NEW x, WalkInv(U, st, c, x),
           NEW y, WalkStep(U, x, y)
    PROVE  Shortens(x, y)
<1>1. CASE Returns(x, y)
  <2>1. y.now = x.now /\ y.ahead = x.ahead /\ y.depth = x.depth - 1 /\ x.depth \in Nat
    BY <1>1 DEF Returns, WalkInv, Walk
  <2> QED
    BY <2>1 DEF Shortens, Waiters
<1>2. CASE \E w \in Jobs : Comes(U, x, w, y)
  BY <1>2, ComeShortens
<1> QED
  BY <1>1, <1>2 DEF WalkStep

\* Only finitely many waiters are ahead of a walk.
LEMMA AheadIsFinite ==
    ASSUME IsFiniteSet(Jobs), NEW U, NEW st, NEW c, NEW walk, IsWalkOf(U, st, c, walk, Nat),
           NEW n \in Nat
    PROVE  IsFiniteSet(walk[n].ahead)
<1>1. \A s, d : IsFiniteSet(WaitersOn(s, d))
  BY FS_Subset DEF WaitersOn
<1> DEFINE Selected(k, s, d) == {k} \X WaitersOn(s, d)
<1>2. \A k, s, d : IsFiniteSet(Selected(k, s, d))
  BY <1>1, FS_Singleton, FS_Product
<1> DEFINE E == {k \in Nat : IsFiniteSet(walk[k].ahead)}
<1>3. 0 \in E
  <2>1. walk[0].ahead = Selected(1, st, c)
    BY DEF IsWalkOf, WalkBegins
  <2> HIDE DEF Selected
  <2> QED
    BY <1>2, <2>1
<1>4. ASSUME NEW k \in Nat, k \in E PROVE k + 1 \in E
  <2> DEFINE x == walk[k]
             y == walk[k + 1]
  <2>1. WalkStep(U, x, y) /\ IsFiniteSet(x.ahead)
    BY <1>4 DEF IsWalkOf
  <2> HIDE DEF x, y
  <2>2. \A e : IsFiniteSet(x.ahead \ {e})
    BY <2>1, FS_RemoveElement
  <2>3. \/ y.ahead = x.ahead
        \/ \E e : y.ahead = x.ahead \ {e}
        \/ \E e, d, s, v : y.ahead = (x.ahead \ {e}) \union Selected(d, s, v)
    <3>1. CASE Returns(x, y)
      BY <3>1 DEF Returns
    <3>2. ASSUME NEW w \in Jobs, Comes(U, x, w, y)
          PROVE  LET rest == x.ahead \ {<<x.depth, w>>}
                     now == [x.now EXCEPT ![w] = Turn(U, x.now, w)]
                 IN  y.ahead = rest \/ y.ahead = rest \union Selected(x.depth + 1, now, w)
      BY <3>2 DEF Comes
    <3> HIDE DEF Selected
    <3> QED
      BY <2>1, <3>1, <3>2 DEF WalkStep
  <2>4. IsFiniteSet(y.ahead)
    <3> HIDE DEF Selected
    <3> QED
      BY <1>2, <2>1, <2>2, <2>3, FS_Union
  <2> QED
    BY <2>4 DEF x, y
<1> HIDE DEF E
<1>5. Nat \subseteq E
  BY <1>3, <1>4, SetInduction
<1> QED
  BY <1>5 DEF E

\* No walk goes on forever: of its states with the fewest waiters, and of these the ones
\* with the fewest ahead, one with the least depth has no next.
LEMMA NoEndlessWalk ==
    ASSUME IsFiniteSet(Jobs), TypeOK, NEW U, NEW st, NEW c, JustClosed(st, c), NEW walk,
           IsWalkOf(U, st, c, walk, Nat)
    PROVE  FALSE
<1>1. ASSUME NEW k \in Nat
      PROVE  /\ WalkInv(U, st, c, walk[k]) /\ Shortens(walk[k], walk[k + 1])
             /\ IsFiniteSet(Waiters(walk[k])) /\ IsFiniteSet(walk[k].ahead)
             /\ walk[k].depth \in Nat
  <2>1. IsWalkOf(U, st, c, walk, 0..(k - 1)) /\ WalkStep(U, walk[k], walk[k + 1])
    BY DEF IsWalkOf
  <2>2. WalkInv(U, st, c, walk[k])
    BY <2>1, WalkInvHolds
  <2>3. walk[k].depth \in Nat
    BY <2>2 DEF WalkInv, Walk
  <2>4. IsFiniteSet(Waiters(walk[k]))
    BY FS_Subset DEF Waiters
  <2> QED
    BY <2>1, <2>2, <2>3, <2>4, StepShortens, AheadIsFinite
<1> DEFINE wait(k) == Cardinality(Waiters(walk[k]))
           rest(k) == Cardinality(walk[k].ahead)
<1>2. ASSUME NEW k \in Nat
      PROVE  /\ wait(k) \in Nat /\ rest(k) \in Nat /\ walk[k].depth \in Nat
             /\ \/ wait(k + 1) < wait(k)
                \/ wait(k + 1) = wait(k) /\ rest(k + 1) < rest(k)
                \/ /\ wait(k + 1) = wait(k) /\ rest(k + 1) = rest(k)
                   /\ walk[k + 1].depth < walk[k].depth
  <2> DEFINE x == walk[k]
             y == walk[k + 1]
  <2>1. /\ IsFiniteSet(Waiters(x)) /\ IsFiniteSet(x.ahead) /\ IsFiniteSet(Waiters(y))
        /\ IsFiniteSet(y.ahead) /\ Shortens(x, y) /\ x.depth \in Nat
    BY <1>1
  <2> HIDE DEF x, y
  <2>2. /\ Cardinality(Waiters(x)) \in Nat /\ Cardinality(x.ahead) \in Nat
        /\ Cardinality(Waiters(y)) \in Nat /\ Cardinality(y.ahead) \in Nat
    BY <2>1, FS_CardinalityType
  <2>3. CASE Waiters(y) \subseteq Waiters(x) /\ Waiters(y) # Waiters(x)
    <3>1. Cardinality(Waiters(y)) <= Cardinality(Waiters(x))
          /\ Cardinality(Waiters(y)) # Cardinality(Waiters(x))
      BY <2>1, <2>3, FS_Subset
    <3> QED
      BY <2>1, <2>2, <3>1 DEF x, y
  <2>4. CASE Waiters(y) = Waiters(x) /\ \E e \in x.ahead : y.ahead = x.ahead \ {e}
    <3>1. Cardinality(y.ahead) = Cardinality(x.ahead) - 1
      BY <2>1, <2>4, FS_RemoveElement
    <3> QED
      BY <2>1, <2>2, <2>4, <3>1 DEF x, y
  <2>5. CASE Waiters(y) = Waiters(x) /\ y.ahead = x.ahead /\ y.depth < x.depth
    BY <2>1, <2>2, <2>5 DEF x, y
  <2> QED
    BY <2>1, <2>3, <2>4, <2>5 DEF Shortens
<1> HIDE DEF wait, rest
<1> DEFINE Fewest == {k \in Nat : \A m \in Nat : wait(k) <= wait(m)}
           Closest == {k \in Fewest : \A m \in Fewest : rest(k) <= rest(m)}
<1>3. Fewest # {}
  <2> DEFINE S == {wait(k) : k \in Nat}
  <2>1. S \in SUBSET Nat /\ S # {}
    BY <1>2
  <2>2. PICK a \in S : \A b \in S : a <= b
    <3> HIDE DEF S
    <3> QED
      BY <2>1, NatMinimum
  <2> QED
    BY <2>2
<1>4. Closest # {}
  <2> DEFINE S == {rest(k) : k \in Fewest}
  <2>1. S \in SUBSET Nat /\ S # {}
    BY <1>2, <1>3
  <2>2. PICK a \in S : \A b \in S : a <= b
    <3> HIDE DEF S
    <3> QED
      BY <2>1, NatMinimum
  <2> QED
    BY <2>2
<1>5. PICK k \in Closest : \A m \in Closest : walk[k].depth <= walk[m].depth
  <2> DEFINE S == {walk[j].depth : j \in Closest}
  <2>1. S \in SUBSET Nat /\ S # {}
    BY <1>2, <1>4
  <2>2. PICK a \in S : \A b \in S : a <= b
    <3> HIDE DEF S
    <3> QED
      BY <2>1, NatMinimum
  <2> QED
    BY <2>2
<1>6. k \in Nat /\ k + 1 \in Nat /\ wait(k) <= wait(k + 1)
  OBVIOUS
<1>7. wait(k + 1) = wait(k)
  BY <1>2, <1>6
<1>8. k + 1 \in Fewest
  BY <1>6, <1>7
<1>9. rest(k) <= rest(k + 1)
  BY <1>8
<1>10. rest(k + 1) = rest(k) /\ walk[k + 1].depth < walk[k].depth
  BY <1>2, <1>6, <1>7, <1>9
<1>11. k + 1 \in Closest
  BY <1>8, <1>10
<1>12. walk[k].depth <= walk[k + 1].depth
  BY <1>5, <1>11
<1> QED
  BY <1>2, <1>6, <1>10, <1>12


\* settleWaiters returns: no order of coming to the waiters goes on forever, and a walk
\* that has not returned can go on.
SettlingReturns ==
    \A c \in Posted, s \in Closed, U \in SUBSET Jobs :
        LET st == [status EXCEPT ![c] = s]
        IN  /\ \A walk \in [Nat -> Walk] : ~IsWalkOf(U, st, c, walk, Nat)
            /\ \A n \in Nat : \A walk \in [0..n -> Walk] :
                  IsWalkOf(U, st, c, walk, 0..(n - 1)) /\ walk[n].depth > 0 =>
                      \E y \in Walk : WalkStep(U, walk[n], y)

LEMMA WalkGoesOn ==
    ASSUME TypeOK, NEW U, NEW st, NEW c, JustClosed(st, c), NEW x, WalkInv(U, st, c, x),
           x.depth > 0
    PROVE  \E y \in Walk : WalkStep(U, x, y)
<1>1. x.now \in [Jobs -> Status] /\ x.depth \in Nat /\ x.ahead \subseteq Nat \X Jobs
  BY DEF WalkInv, Walk
<1>2. CASE \A w \in Jobs : <<x.depth, w>> \notin x.ahead
  <2> DEFINE y == [now |-> x.now, depth |-> x.depth - 1, ahead |-> x.ahead]
  <2>1. y \in Walk /\ Returns(x, y)
    BY <1>1, <1>2 DEF Walk, Returns
  <2> QED
    BY <2>1 DEF WalkStep
<1>3. CASE \E w \in Jobs : <<x.depth, w>> \in x.ahead
  <2>1. PICK w \in Jobs : <<x.depth, w>> \in x.ahead
    BY <1>3
  <2>2. st[w] = "waiting"
    BY <1>1, <2>1 DEF WalkInv, OnlyReached
  <2>3. Turn(U, x.now, w) \in {"failed", "skipped", "left", "queued"}
    <3>1. TurnIsRight(U, st, c, x, w)
      BY <2>2, TurnFits
    <3> QED
      BY <3>1 DEF TurnIsRight
  <2>4. PICK y : Comes(U, x, w, y)
    BY <2>1, <2>3 DEF Comes
  <2>5. y \in Walk
    <3>1. HasCome(U, st, c, x, w, y)
      BY <2>4, ComesTo
    <3> QED
      BY <3>1 DEF HasCome
  <2> QED
    BY <2>4, <2>5 DEF WalkStep
<1> QED
  BY <1>2, <1>3

\* The recursion of settleWaiters comes to its end, whatever the dependencies between
\* the jobs, each of finitely many.
THEOREM RecursionReturns ==
    ASSUME IsFiniteSet(Jobs)
    PROVE  Spec => []SettlingReturns
<1>1. TypeOK /\ WaiterHasReason => SettlingReturns
  <2> SUFFICES ASSUME TypeOK, WaiterHasReason, NEW c \in Posted, NEW s \in Closed,
                      NEW U \in SUBSET Jobs
               PROVE  LET st == [status EXCEPT ![c] = s]
                      IN  /\ \A walk \in [Nat -> Walk] : ~IsWalkOf(U, st, c, walk, Nat)
                          /\ \A n \in Nat : \A walk \in [0..n -> Walk] :
                                IsWalkOf(U, st, c, walk, 0..(n - 1)) /\ walk[n].depth > 0 =>
                                    \E y \in Walk : WalkStep(U, walk[n], y)
    BY DEF SettlingReturns
  <2> DEFINE st == [status EXCEPT ![c] = s]
  <2>1. JustClosed(st, c)
    BY ClosingStarts
  <2> HIDE DEF st
  <2>2. \A walk \in [Nat -> Walk] : ~IsWalkOf(U, st, c, walk, Nat)
    BY <2>1, NoEndlessWalk
  <2>3. ASSUME NEW n \in Nat, NEW walk \in [0..n -> Walk],
               IsWalkOf(U, st, c, walk, 0..(n - 1)), walk[n].depth > 0
        PROVE  \E y \in Walk : WalkStep(U, walk[n], y)
    <3>1. WalkInv(U, st, c, walk[n])
      BY <2>1, <2>3, WalkInvHolds
    <3> QED
      BY <2>1, <2>3, <3>1, WalkGoesOn
  <2> QED
    BY <2>2, <2>3 DEF st
<1> QED
  BY <1>1, TypeCorrect, WaitersHaveReasons, PTL

=============================================================================
