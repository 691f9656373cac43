-------------------------- MODULE MultiHomeProofs --------------------------
(***************************************************************************)
(* The invariants of the multi-homed runner, for any number of collectors  *)
(* and jobs, any pattern of homes and any number of starts.                *)
(***************************************************************************)
EXTENDS MultiHome, TLAPS

\* A loop past its poll has a job of its collector, and only such a loop has one.
LoopsHold ==
    \A c \in Collectors :
        /\ loop[c] \in {"handed", "releasing", "running"} \union Filed <=> got[c] # NoJob
        /\ got[c] # NoJob => Home[got[c]] = c

\* A job nothing has interfered with is claimed exactly while its loop has it and has
\* not reported, and its starts are all there but for the run in progress.
ClaimsStand ==
    \A j \in Jobs \ disturbed :
        /\ stage[j] # "waiting"
        /\ stage[j] = "running" <=> got[Home[j]] = j /\ loop[Home[j]] \notin Filed
        /\ stage[j] = "running" => left[j] + 1 = Starts[j]
        /\ stage[j] \in {"absent", "ready"} => left[j] = Starts[j]

\* A beacon on its way that renews such a job finds it running or closed, and a
\* refusal or a stop is about a closed one.
BeaconsStand ==
    /\ \A c \in Collectors : mine[c] \in Jobs \ disturbed =>
          \/ stage[mine[c]] = "closed"
          \/ Home[mine[c]] = c /\ loop[c] = "running" /\ got[c] = mine[c] /\ beat[c] # "refused"
    /\ cancelled \in Jobs \ disturbed => stage[cancelled] = "closed"

\* A loop that has filed its final row has closed its job.
FiledIsClosed == \A c \in Collectors : loop[c] \in Filed => stage[got[c]] = "closed"

\* A beacon renews jobs of the collector it goes to alone.
BeaconsAtHome == \A c \in Collectors : mine[c] # NoJob => Home[mine[c]] = c

\* No refusal and no flag is about a claim that stands, those that were there already
\* when the claim was made aside.
RefusalsStand ==
    \A j \in Jobs \ late : stage[j] = "running" =>
        /\ cancelled # j
        /\ \A c \in Collectors : mine[c] = j => beat[c] # "refused"

HomeInv ==
    /\ MultiHomeTypeOK
    /\ LoopsHold
    /\ OneRunAtATime
    /\ ClaimsStand
    /\ BeaconsStand
    /\ FiledIsClosed
    /\ BeaconsAtHome
    /\ RefusalsStand

-----------------------------------------------------------------------------
(***************************************************************************)
(* What the queue's moves do to one job                                    *)
(***************************************************************************)

\* Submitting a job makes it ready and leaves the others alone.
LEMMA SubmitMoves ==
    ASSUME NEW j \in Jobs, Submit(j)
    PROVE  /\ stage[j] = "absent"
           /\ stage' = [k \in Jobs |-> IF k = j THEN "ready" ELSE stage[k]]
           /\ UNCHANGED <<worker, left>>
<1>1. PICK f \in [{j} -> {"waiting", "ready", "closed"}] :
          stage' = [k \in Jobs |-> IF k \in {j} THEN f[k] ELSE stage[k]]
  BY DEF Submit, Post
<1>2. f[j] = "ready"
  BY <1>1 DEF Submit
<1> QED
  BY <1>1, <1>2 DEF Submit, Post

\* Closing a job alone leaves the others alone.
LEMMA CloseMoves ==
    ASSUME NEW j \in Jobs, Close(j, {})
    PROVE  /\ stage[j] # "absent"
           /\ stage' = [k \in Jobs |-> IF k = j THEN "closed" ELSE stage[k]]
           /\ worker' = [worker EXCEPT ![j] = Nobody]
           /\ UNCHANGED left
BY DEF Close

\* A job whose lease ran out is ready again or closed.
LEMMA ReturnMoves ==
    ASSUME NEW j \in Jobs, Return({j})
    PROVE  /\ stage' = [k \in Jobs |-> IF k = j THEN (IF left[j] > 0 THEN "ready" ELSE "closed")
                                       ELSE stage[k]]
           /\ worker' = [k \in Jobs |-> IF k = j THEN Nobody ELSE worker[k]]
           /\ UNCHANGED left
BY DEF Return

-----------------------------------------------------------------------------
(***************************************************************************)
(* Steps of the collectors                                                 *)
(***************************************************************************)

\* Everything is idle at first.
LEMMA InitHome == Init => HomeInv
<1> USE MultiHomeAssumption
<1> SUFFICES ASSUME Init PROVE HomeInv
  OBVIOUS
<1>1. MultiHomeTypeOK
  BY DEF Init, Begin, MultiHomeTypeOK, LoopAt, BeatAt
<1>2. LoopsHold /\ OneRunAtATime
  BY DEF Init, LoopsHold, OneRunAtATime, Filed
<1>3. ClaimsStand
  BY DEF Init, Begin, ClaimsStand
<1>4. BeaconsStand
  BY DEF Init, BeaconsStand
<1>5. FiledIsClosed /\ BeaconsAtHome /\ RefusalsStand
  BY DEF Init, FiledIsClosed, BeaconsAtHome, RefusalsStand, Filed
<1> QED
  BY <1>1, <1>2, <1>3, <1>4, <1>5 DEF HomeInv

\* A step that changes no loop, gate, beacon or flag and moves one job, not to a claim,
\* which it disturbs or which nobody has had yet.
LEMMA JobMoves ==
    ASSUME HomeInv, NEW j \in Jobs,
           UNCHANGED <<gate, loop, got, beacons, cancelled, late>>,
           stage'[j] # "running", stage[j] = "closed" => stage'[j] = "closed",
           stage' \in [Jobs -> {"absent", "ready", "running", "closed", "waiting"}],
           worker' \in [Jobs -> Workers \union {Nobody}],
           UNCHANGED left,
           \A k \in Jobs \ {j} : stage'[k] = stage[k],
           \/ disturbed' = disturbed \union {j}
           \/ disturbed' = disturbed /\ stage[j] = "absent" /\ stage'[j] = "ready"
    PROVE  HomeInv'
<1> USE MultiHomeAssumption
<1>1. MultiHomeTypeOK'
  BY DEF HomeInv, MultiHomeTypeOK, gate, beacons
<1>2. LoopsHold' /\ OneRunAtATime'
  BY DEF HomeInv, LoopsHold, OneRunAtATime, gate
<1>3. ClaimsStand'
  BY DEF HomeInv, ClaimsStand
<1>4. BeaconsStand'
  <2>1. \A k \in Jobs \ disturbed' : k # j => k \in Jobs \ disturbed /\ stage'[k] = stage[k]
    OBVIOUS
  <2>2. j \notin disturbed' => j \notin disturbed /\ stage[j] = "absent" /\ stage'[j] = "ready"
    OBVIOUS
  <2>3. j \notin disturbed' => cancelled # j /\ \A c \in Collectors : mine[c] # j
    BY <2>2 DEF HomeInv, BeaconsStand, ClaimsStand, LoopsHold, Filed
  <2>4. UNCHANGED <<loop, got, beat, mine, cancelled>>
    BY DEF beacons
  <2>5. ASSUME NEW c \in Collectors, mine[c] \in Jobs \ disturbed'
        PROVE  \/ stage'[mine[c]] = "closed"
               \/ Home[mine[c]] = c /\ loop[c] = "running" /\ got[c] = mine[c] /\ beat[c] # "refused"
    BY <2>1, <2>3, <2>5 DEF HomeInv, BeaconsStand
  <2>6. cancelled \in Jobs \ disturbed' => stage'[cancelled] = "closed"
    BY <2>1, <2>3 DEF HomeInv, BeaconsStand
  <2> QED
    BY <2>4, <2>5, <2>6 DEF BeaconsStand
<1>5. FiledIsClosed'
  <2> SUFFICES ASSUME NEW c \in Collectors, loop[c] \in Filed PROVE stage'[got[c]] = "closed"
    BY DEF FiledIsClosed
  <2>1. got[c] \in Jobs /\ stage[got[c]] = "closed"
    BY DEF HomeInv, MultiHomeTypeOK, LoopsHold, FiledIsClosed
  <2> QED
    BY <2>1
<1>6. BeaconsAtHome' /\ RefusalsStand'
  BY DEF HomeInv, BeaconsAtHome, RefusalsStand, beacons
<1> QED
  BY <1>1, <1>2, <1>3, <1>4, <1>5, <1>6 DEF HomeInv

\* A poll is answered with a job.
LEMMA HandsKeeps ==
    ASSUME HomeInv, NEW c \in Collectors, NEW j \in Jobs, Hands(c, j)
    PROVE  HomeInv'
<1> USE MultiHomeAssumption
<1>1. /\ loop[c] = "asking" /\ Home[j] = c /\ stage[j] = "ready" /\ left[j] > 0
      /\ stage' = [stage EXCEPT ![j] = "running"]
      /\ worker' = [worker EXCEPT ![j] = Runner]
      /\ left' = [left EXCEPT ![j] = @ - 1]
      /\ loop' = [loop EXCEPT ![c] = "handed"]
      /\ got' = [got EXCEPT ![c] = j]
      /\ UNCHANGED <<heldBy, jobId, beat, mine, told, busy, cancelled, disturbed>>
      /\ late' = IF cancelled = j \/ (beat[c] = "refused" /\ mine[c] = j)
                 THEN late \union {j} ELSE late \ {j}
  BY DEF Hands, MayHand, Start, gate, beacons
<1>2. MultiHomeTypeOK'
  <2>1. left' \in [Jobs -> Nat]
    BY <1>1 DEF HomeInv, MultiHomeTypeOK
  <2> QED
    BY <1>1, <2>1 DEF HomeInv, MultiHomeTypeOK, LoopAt
<1>3. LoopsHold' /\ OneRunAtATime'
  BY <1>1 DEF HomeInv, MultiHomeTypeOK, LoopsHold, OneRunAtATime, Filed
<1>4. ClaimsStand'
  <2> SUFFICES ASSUME NEW k \in Jobs \ disturbed
               PROVE  /\ stage'[k] # "waiting"
                      /\ stage'[k] = "running" <=> got'[Home[k]] = k /\ loop'[Home[k]] \notin Filed
                      /\ stage'[k] = "running" => left'[k] + 1 = Starts[k]
                      /\ stage'[k] \in {"absent", "ready"} => left'[k] = Starts[k]
    BY <1>1 DEF ClaimsStand
  <2>1. /\ stage[k] # "waiting"
        /\ stage[k] = "running" <=> got[Home[k]] = k /\ loop[Home[k]] \notin Filed
        /\ stage[k] = "running" => left[k] + 1 = Starts[k]
        /\ stage[k] \in {"absent", "ready"} => left[k] = Starts[k]
    BY DEF HomeInv, ClaimsStand
  <2>2. got[c] = NoJob /\ Home[k] \in Collectors
    BY <1>1 DEF HomeInv, LoopsHold, MultiHomeTypeOK, Filed
  <2>3. CASE k = j
    <3>1. /\ left[j] \in Nat /\ left'[j] = left[j] - 1 /\ stage'[j] = "running" /\ got'[c] = j
          /\ loop'[c] \notin Filed
      BY <1>1 DEF HomeInv, MultiHomeTypeOK, Filed
    <3> QED
      BY <1>1, <2>1, <2>3, <3>1
  <2>4. CASE k # j
    <3>1. stage'[k] = stage[k] /\ left'[k] = left[k]
      BY <1>1, <2>4 DEF HomeInv, MultiHomeTypeOK
    <3>2. /\ got'[Home[k]] = k <=> got[Home[k]] = k
          /\ got[Home[k]] = k => loop'[Home[k]] = loop[Home[k]]
      BY <1>1, <2>2, <2>4 DEF HomeInv, MultiHomeTypeOK
    <3> QED
      BY <2>1, <3>1, <3>2
  <2> QED
    BY <2>3, <2>4
<1>5. BeaconsStand'
  BY <1>1 DEF HomeInv, MultiHomeTypeOK, BeaconsStand
<1>6. FiledIsClosed'
  <2> SUFFICES ASSUME NEW e \in Collectors, loop'[e] \in Filed PROVE stage'[got'[e]] = "closed"
    BY DEF FiledIsClosed
  <2>1. e # c /\ loop[e] \in Filed /\ got'[e] = got[e]
    BY <1>1 DEF HomeInv, MultiHomeTypeOK, Filed
  <2>2. got[e] # j /\ got[e] \in Jobs /\ stage[got[e]] = "closed"
    BY <1>1, <2>1 DEF HomeInv, MultiHomeTypeOK, LoopsHold, FiledIsClosed
  <2> QED
    BY <1>1, <2>1, <2>2 DEF HomeInv, MultiHomeTypeOK
<1>8. BeaconsAtHome'
  BY <1>1 DEF HomeInv, BeaconsAtHome
<1>7. RefusalsStand'
  <2> SUFFICES ASSUME NEW k \in Jobs \ late', stage'[k] = "running"
               PROVE  /\ cancelled # k
                      /\ \A e \in Collectors : mine[e] = k => beat[e] # "refused"
    BY <1>1 DEF RefusalsStand
  <2>1. CASE k = j
    <3>1. \A e \in Collectors : mine[e] = j => e = c
      BY <1>1 DEF HomeInv, BeaconsAtHome
    <3> QED
      BY <1>1, <2>1, <3>1
  <2>2. CASE k # j
    <3>0. late' = late \union {j} \/ late' = late \ {j}
      BY <1>1
    <3>1. k \notin late
      BY <2>2, <3>0
    <3>2. stage[k] = "running"
      BY <1>1, <2>2 DEF HomeInv, MultiHomeTypeOK
    <3> QED
      BY <3>1, <3>2 DEF HomeInv, RefusalsStand
  <2> QED
    BY <2>1, <2>2
<1> QED
  BY <1>2, <1>3, <1>4, <1>5, <1>6, <1>7, <1>8 DEF HomeInv

-----------------------------------------------------------------------------
(***************************************************************************)
(* Steps of the claim loops                                                *)
(***************************************************************************)

\* A loop moves on without gaining or losing a job or the gate.
LEMMA LoopMoves ==
    ASSUME HomeInv, NEW c \in Collectors, NEW there \in LoopAt \ ({"running"} \union Filed),
           loop[c] \notin {"running"} \union Filed, GoTo(c, there),
           there \in {"handed", "releasing"} <=> loop[c] \in {"handed", "releasing"},
           UNCHANGED <<life, gate, got, beacons, cancelled, history>>
    PROVE  HomeInv'
<1>0. /\ loop' = [loop EXCEPT ![c] = there]
      /\ UNCHANGED <<stage, worker, left, heldBy, jobId, got, beat, mine, told, busy,
                     cancelled, disturbed, late>>
  BY DEF GoTo, life, gate, beacons, history
<1>1. MultiHomeTypeOK'
  BY <1>0 DEF HomeInv, MultiHomeTypeOK
<1>2. LoopsHold' /\ OneRunAtATime'
  BY <1>0 DEF HomeInv, MultiHomeTypeOK, LoopsHold, OneRunAtATime, LoopAt, Filed
<1>3. ClaimsStand'
  <2>1. \A e \in Collectors : loop'[e] \in Filed <=> loop[e] \in Filed
    BY <1>0 DEF HomeInv, MultiHomeTypeOK
  <2> QED
    BY <1>0, <2>1, MultiHomeAssumption DEF HomeInv, ClaimsStand
<1>4. BeaconsStand'
  BY <1>0 DEF HomeInv, MultiHomeTypeOK, BeaconsStand
<1>5. FiledIsClosed' /\ BeaconsAtHome' /\ RefusalsStand'
  BY <1>0 DEF HomeInv, MultiHomeTypeOK, FiledIsClosed, BeaconsAtHome, RefusalsStand
<1> QED
  BY <1>1, <1>2, <1>3, <1>4, <1>5 DEF HomeInv

\* Taking the gate.
LEMMA TakesKeeps ==
    ASSUME HomeInv, NEW c \in Collectors, Takes(c)
    PROVE  HomeInv'
<1> USE MultiHomeAssumption
<1>0. /\ loop[c] = "handed" /\ heldBy = NoOne /\ heldBy' = c /\ jobId' = got[c]
      /\ loop' = [loop EXCEPT ![c] = "running"]
      /\ UNCHANGED <<stage, worker, left, got, beat, mine, told, busy, cancelled, disturbed, late>>
  BY DEF Takes, GoTo, life, beacons, history
<1>1. got[c] \in Jobs
  BY <1>0 DEF HomeInv, LoopsHold, MultiHomeTypeOK
<1>f. \A e \in Collectors : loop'[e] \in Filed <=> loop[e] \in Filed
  BY <1>0 DEF HomeInv, MultiHomeTypeOK, Filed
<1>2. MultiHomeTypeOK'
  BY <1>0, <1>1 DEF HomeInv, MultiHomeTypeOK, LoopAt
<1>3. LoopsHold' /\ OneRunAtATime'
  BY <1>0, <1>f DEF HomeInv, MultiHomeTypeOK, LoopsHold, OneRunAtATime
<1>4. ClaimsStand'
  BY <1>0, <1>f DEF HomeInv, ClaimsStand
<1>5. BeaconsStand'
  BY <1>0 DEF HomeInv, MultiHomeTypeOK, BeaconsStand
<1>6. FiledIsClosed' /\ BeaconsAtHome' /\ RefusalsStand'
  BY <1>0, <1>f DEF HomeInv, FiledIsClosed, BeaconsAtHome, RefusalsStand
<1> QED
  BY <1>2, <1>3, <1>4, <1>5, <1>6 DEF HomeInv

\* A run or a refusal files its final row, and holds the gate until it is answered.
LEMMA ReportsKeeps ==
    ASSUME HomeInv, NEW c \in Collectors, Reports(c)
    PROVE  HomeInv'
<1> USE MultiHomeAssumption
<1>1. /\ loop[c] = "running" /\ got[c] \in Jobs /\ Home[got[c]] = c
      /\ UNCHANGED <<heldBy, jobId, got, beat, mine, told, busy, cancelled, disturbed, late>>
  BY DEF Reports, HomeInv, LoopsHold, MultiHomeTypeOK, gate, beacons, history
<1>2. PICK where \in Filed : loop' = [loop EXCEPT ![c] = where]
  BY DEF Reports, GoTo
<1>3. /\ stage' = [k \in Jobs |-> IF k = got[c] THEN "closed" ELSE stage[k]]
      /\ worker' = [worker EXCEPT ![got[c]] = Nobody]
      /\ UNCHANGED left
  BY <1>1, CloseMoves DEF Reports
<1>4. MultiHomeTypeOK'
  BY <1>1, <1>2, <1>3 DEF HomeInv, MultiHomeTypeOK, LoopAt, Filed
<1>5. \A e \in Collectors : loop'[e] = IF e = c THEN where ELSE loop[e]
  BY <1>2 DEF HomeInv, MultiHomeTypeOK
<1>6. LoopsHold' /\ OneRunAtATime'
  BY <1>1, <1>5 DEF HomeInv, LoopsHold, OneRunAtATime
<1>7. ClaimsStand'
  <2> SUFFICES ASSUME NEW k \in Jobs \ disturbed
               PROVE  /\ stage'[k] # "waiting"
                      /\ stage'[k] = "running" <=> got'[Home[k]] = k /\ loop'[Home[k]] \notin Filed
                      /\ stage'[k] = "running" => left'[k] + 1 = Starts[k]
                      /\ stage'[k] \in {"absent", "ready"} => left'[k] = Starts[k]
    BY <1>1 DEF ClaimsStand
  <2>1. CASE k = got[c]
    BY <1>1, <1>3, <1>5, <2>1
  <2>2. CASE k # got[c]
    <3>1. got[Home[k]] = k => Home[k] # c
      BY <2>2
    <3> QED
      BY <1>1, <1>3, <1>5, <2>2, <3>1 DEF HomeInv, ClaimsStand
  <2> QED
    BY <2>1, <2>2
<1>8. BeaconsStand'
  BY <1>1, <1>3, <1>5 DEF HomeInv, BeaconsStand, MultiHomeTypeOK
<1>9. FiledIsClosed'
  <2>1. \A e \in Collectors \ {c} : got[e] # NoJob => got[e] # got[c] /\ got[e] \in Jobs
    BY <1>1 DEF HomeInv, LoopsHold, MultiHomeTypeOK
  <2>2. \A e \in Collectors : loop[e] \in Filed => got[e] # NoJob
    BY DEF HomeInv, LoopsHold
  <2> QED
    BY <1>1, <1>3, <1>5, <2>1, <2>2 DEF HomeInv, FiledIsClosed
<1>10. BeaconsAtHome' /\ RefusalsStand'
  BY <1>1, <1>3 DEF HomeInv, BeaconsAtHome, RefusalsStand
<1> QED
  BY <1>4, <1>6, <1>7, <1>8, <1>9, <1>10 DEF HomeInv

\* A loop lets go of its job, and of the gate if it had it: the job is closed,
\* or handed back whole, or disturbed.
LEMMA DropKeeps ==
    ASSUME HomeInv, NEW c \in Collectors,
           GoTo(c, "idle"), Forget(c), UNCHANGED beacons,
           IF loop[c] \in {"running"} \union Filed THEN LetGo ELSE UNCHANGED gate,
           UNCHANGED late,
           cancelled' \in {cancelled, NoJob},
           disturbed \subseteq disturbed', disturbed' \subseteq Jobs,
           stage' \in [Jobs -> {"absent", "ready", "running", "closed", "waiting"}],
           worker' \in [Jobs -> Workers \union {Nobody}],
           left' \in [Jobs -> Nat],
           \A k \in Jobs \ {got[c]} : stage'[k] = stage[k] /\ left'[k] = left[k],
           got[c] \in Jobs \ disturbed' =>
              \/ stage'[got[c]] = "closed"
              \/ /\ loop[c] \notin {"running"} \union Filed /\ stage'[got[c]] = "ready"
                 /\ left'[got[c]] = left[got[c]] + 1,
           stage'[got[c]] = "running" => stage[got[c]] = "running"
    PROVE  HomeInv'
<1> USE MultiHomeAssumption
<1>0. /\ loop' = [loop EXCEPT ![c] = "idle"]
      /\ got' = [got EXCEPT ![c] = NoJob]
      /\ UNCHANGED <<beat, mine, told, busy>>
  BY DEF GoTo, Forget, beacons
<1>1. MultiHomeTypeOK'
  <2>1. loop' \in [Collectors -> LoopAt] /\ got' \in [Collectors -> Jobs \union {NoJob}]
    BY <1>0 DEF HomeInv, MultiHomeTypeOK, LoopAt
  <2>2. /\ heldBy' \in Collectors \union {NoOne} /\ jobId' \in Jobs \union {NoJob}
        /\ heldBy' = NoOne <=> jobId' = NoJob
    BY DEF HomeInv, MultiHomeTypeOK, LetGo, gate
  <2> QED
    BY <1>0, <2>1, <2>2 DEF HomeInv, MultiHomeTypeOK
<1>2. LoopsHold'
  BY <1>0 DEF HomeInv, MultiHomeTypeOK, LoopsHold, Filed
<1>3. OneRunAtATime'
  BY <1>0 DEF HomeInv, MultiHomeTypeOK, OneRunAtATime, LetGo, gate, Filed
<1>4. \A k \in Jobs : got[Home[k]] = k /\ k # got[c] => Home[k] # c
  OBVIOUS
<1>h. \A e \in Collectors \ {c} : got[e] # NoJob => got[e] # got[c] /\ got[e] \in Jobs
  BY DEF HomeInv, LoopsHold, MultiHomeTypeOK
<1>5. ClaimsStand'
  <2> SUFFICES ASSUME NEW k \in Jobs \ disturbed'
               PROVE  /\ stage'[k] # "waiting"
                      /\ stage'[k] = "running" <=> got'[Home[k]] = k /\ loop'[Home[k]] \notin Filed
                      /\ stage'[k] = "running" => left'[k] + 1 = Starts[k]
                      /\ stage'[k] \in {"absent", "ready"} => left'[k] = Starts[k]
    BY DEF ClaimsStand
  <2>1. /\ stage[k] # "waiting"
        /\ stage[k] = "running" <=> got[Home[k]] = k /\ loop[Home[k]] \notin Filed
        /\ stage[k] = "running" => left[k] + 1 = Starts[k]
        /\ stage[k] \in {"absent", "ready"} => left[k] = Starts[k]
    BY DEF HomeInv, ClaimsStand
  <2>2. Home[k] \in Collectors
    OBVIOUS
  <2>3. CASE k = got[c]
    <3>1. Home[k] = c /\ got'[c] = NoJob
      BY <1>0, <2>3 DEF HomeInv, LoopsHold, MultiHomeTypeOK
    <3>2. loop[c] \notin Filed => stage[k] = "running" /\ left[k] + 1 = Starts[k]
      BY <2>1, <2>3, <3>1
    <3> QED
      BY <2>3, <3>1, <3>2
  <2>4. CASE k # got[c]
    <3>1. /\ got'[Home[k]] = k <=> got[Home[k]] = k
          /\ got[Home[k]] = k => loop'[Home[k]] = loop[Home[k]]
      BY <1>0, <1>4, <2>2, <2>4 DEF HomeInv, MultiHomeTypeOK
    <3> QED
      BY <2>1, <2>4, <3>1
  <2> QED
    BY <2>3, <2>4
<1>6. BeaconsStand'
  <2>1. ASSUME NEW e \in Collectors, mine[e] \in Jobs \ disturbed'
        PROVE  \/ stage'[mine[e]] = "closed"
               \/ /\ Home[mine[e]] = e /\ loop'[e] = "running" /\ got'[e] = mine[e]
                  /\ beat'[e] # "refused"
    <3>1. \/ stage[mine[e]] = "closed"
          \/ /\ Home[mine[e]] = e /\ loop[e] = "running" /\ got[e] = mine[e]
             /\ beat[e] # "refused"
      BY <2>1 DEF HomeInv, BeaconsStand
    <3>2. CASE mine[e] = got[c]
      <4>1. Home[mine[e]] = c /\ (loop[c] \notin Filed => stage[mine[e]] = "running")
        BY <2>1, <3>2 DEF HomeInv, LoopsHold, ClaimsStand, MultiHomeTypeOK
      <4>2. loop[c] \in {"running"} \union Filed
        BY <3>1, <4>1
      <4> QED
        BY <2>1, <3>2, <4>2
    <3>3. CASE mine[e] # got[c]
      <4>1. stage'[mine[e]] = stage[mine[e]]
        BY <2>1, <3>3
      <4> QED
        BY <1>0, <3>1, <3>3, <4>1 DEF HomeInv, MultiHomeTypeOK
    <3> QED
      BY <3>2, <3>3
  <2>2. cancelled' \in Jobs \ disturbed' => stage'[cancelled'] = "closed"
    <3> SUFFICES ASSUME cancelled' \in Jobs \ disturbed' PROVE stage'[cancelled'] = "closed"
      OBVIOUS
    <3>1. cancelled' = cancelled /\ stage[cancelled] = "closed"
      BY DEF HomeInv, BeaconsStand
    <3>2. CASE cancelled = got[c]
      <4>1. loop[c] \in Filed
        BY <3>1, <3>2 DEF HomeInv, LoopsHold, ClaimsStand, MultiHomeTypeOK
      <4> QED
        BY <3>1, <3>2, <4>1
    <3> QED
      BY <3>1, <3>2
  <2> QED
    BY <1>0, <2>1, <2>2 DEF BeaconsStand
<1>7. FiledIsClosed'
  <2> SUFFICES ASSUME NEW e \in Collectors, loop'[e] \in Filed PROVE stage'[got'[e]] = "closed"
    BY DEF FiledIsClosed
  <2>1. e # c /\ loop[e] \in Filed /\ got'[e] = got[e]
    BY <1>0 DEF HomeInv, MultiHomeTypeOK, Filed
  <2> QED
    BY <1>h, <2>1 DEF HomeInv, FiledIsClosed, LoopsHold
<1>8. BeaconsAtHome' /\ RefusalsStand'
  BY <1>0 DEF HomeInv, BeaconsAtHome, RefusalsStand
<1> QED
  BY <1>1, <1>2, <1>3, <1>5, <1>6, <1>7, <1>8 DEF HomeInv

-----------------------------------------------------------------------------
(***************************************************************************)
(* Steps of the beacon loops, and the end of the process                   *)
(***************************************************************************)

\* A beacon loop moves on; what it renews stays, or is read from the gate, or is
\* dropped, and a refusal is about a job that is not there to renew.
LEMMA BeatMoves ==
    ASSUME HomeInv, NEW c \in Collectors,
           UNCHANGED <<life, gate, loop, got, history>>,
           beat' = [beat EXCEPT ![c] = beat'[c]], beat'[c] \in BeatAt,
           mine' = [mine EXCEPT ![c] = mine'[c]],
           told' \in [Collectors -> Jobs \union {NoJob}],
           busy' \in [Collectors -> Jobs \union {NoJob}],
           \/ mine'[c] = NoJob
           \/ mine'[c] = mine[c] /\ (beat'[c] = "refused" => ~Renewed(c))
           \/ mine'[c] = jobId /\ heldBy = c /\ beat'[c] # "refused",
           \/ cancelled' = cancelled
           \/ beat[c] = "refused" /\ cancelled' = mine[c]
    PROVE  HomeInv'
<1> USE MultiHomeAssumption
<1>0. UNCHANGED <<stage, worker, left, heldBy, jobId, loop, got, disturbed, late>>
  BY DEF life, gate, history
<1>1. MultiHomeTypeOK'
  <2>1. mine'[c] \in Jobs \union {NoJob} /\ cancelled' \in Jobs \union {NoJob}
    BY DEF HomeInv, MultiHomeTypeOK
  <2>2. beat \in [Collectors -> BeatAt] /\ mine \in [Collectors -> Jobs \union {NoJob}]
    BY DEF HomeInv, MultiHomeTypeOK
  <2>3. beat' \in [Collectors -> BeatAt]
    BY <2>2
  <2>4. mine' \in [Collectors -> Jobs \union {NoJob}]
    BY <2>1, <2>2
  <2> QED
    BY <1>0, <2>1, <2>3, <2>4 DEF HomeInv, MultiHomeTypeOK
<1>2. LoopsHold' /\ OneRunAtATime' /\ ClaimsStand'
  BY <1>0 DEF HomeInv, LoopsHold, OneRunAtATime, ClaimsStand
<1>3. ASSUME NEW e \in Collectors, mine'[e] \in Jobs \ disturbed
      PROVE  \/ stage[mine'[e]] = "closed"
             \/ /\ Home[mine'[e]] = e /\ loop[e] = "running" /\ got[e] = mine'[e]
                /\ beat'[e] # "refused"
  <2>1. CASE e # c
    <3>1. mine'[e] = mine[e] /\ beat'[e] = beat[e]
      BY <2>1 DEF HomeInv, MultiHomeTypeOK
    <3> QED
      BY <1>3, <3>1 DEF HomeInv, BeaconsStand
  <2>2. CASE e = c /\ mine'[c] = mine[c] /\ (beat'[c] = "refused" => ~Renewed(c))
    <3>1. \/ stage[mine[c]] = "closed"
          \/ Home[mine[c]] = c /\ loop[c] = "running" /\ got[c] = mine[c]
      BY <1>3, <2>2 DEF HomeInv, BeaconsStand
    <3>2. got[c] = mine[c] /\ Home[mine[c]] = c /\ loop[c] = "running" => Renewed(c)
      BY <1>3, <2>2 DEF HomeInv, ClaimsStand, Renewed, Filed
    <3> QED
      BY <2>2, <3>1, <3>2
  <2>3. CASE e = c /\ mine'[c] = jobId /\ heldBy = c /\ beat'[c] # "refused"
    <3>1. loop[c] \in {"running"} \union Filed /\ got[c] = jobId /\ Home[jobId] = c
      BY <1>3, <2>3 DEF HomeInv, OneRunAtATime, LoopsHold
    <3> QED
      BY <2>3, <3>1 DEF HomeInv, FiledIsClosed
  <2> QED
    BY <1>3, <2>1, <2>2, <2>3
<1>4. cancelled' \in Jobs \ disturbed => stage[cancelled'] = "closed"
  BY DEF HomeInv, BeaconsStand
<1>5. FiledIsClosed'
  BY <1>0 DEF HomeInv, FiledIsClosed
<1>6. \A e \in Collectors \ {c} : mine'[e] = mine[e] /\ beat'[e] = beat[e]
  BY DEF HomeInv, MultiHomeTypeOK
<1>7. BeaconsAtHome'
  <2>1. mine'[c] # NoJob => Home[mine'[c]] = c
    BY DEF HomeInv, BeaconsAtHome, OneRunAtATime, LoopsHold
  <2> QED
    BY <1>6, <2>1 DEF HomeInv, BeaconsAtHome
<1>8. RefusalsStand'
  <2> SUFFICES ASSUME NEW j \in Jobs \ late, stage[j] = "running"
               PROVE  /\ cancelled' # j
                      /\ \A e \in Collectors : mine'[e] = j => beat'[e] # "refused"
    BY <1>0 DEF RefusalsStand
  <2>1. /\ cancelled # j
        /\ \A e \in Collectors : mine[e] = j => beat[e] # "refused"
    BY DEF HomeInv, RefusalsStand
  <2>2. mine'[c] = j => beat'[c] # "refused"
    BY <2>1 DEF HomeInv, BeaconsAtHome, Renewed, MultiHomeTypeOK
  <2> QED
    BY <1>6, <2>1, <2>2
<1> QED
  BY <1>0, <1>1, <1>2, <1>3, <1>4, <1>5, <1>7, <1>8 DEF HomeInv, BeaconsStand

\* Each step of a beacon loop is such a move.
LEMMA BeaconingKeeps ==
    ASSUME HomeInv, NEW c \in Collectors, Beaconing(c)
    PROVE  HomeInv'
<1> USE DEF HomeInv, MultiHomeTypeOK, BeatAt
<1>1. CASE Samples(c)
  BY <1>1, BeatMoves DEF Samples
<1>2. CASE Posts(c)
  BY <1>2, BeatMoves DEF Posts
<1>3. CASE Hears(c)
  <2>1. CASE mine[c] # NoJob /\ ~Renewed(c)
    BY <1>3, <2>1, BeatMoves DEF Hears
  <2>2. CASE ~(mine[c] # NoJob /\ ~Renewed(c))
    BY <1>3, <2>2, BeatMoves DEF Hears
  <2> QED
    BY <2>1, <2>2
<1>4. CASE Refused(c)
  BY <1>4, BeatMoves DEF Refused
<1>5. CASE BeaconLost(c)
  BY <1>5, BeatMoves DEF BeaconLost
<1> QED
  BY <1>1, <1>2, <1>3, <1>4, <1>5 DEF Beaconing

\* A crash forgets everything and disturbs what was in hand.
LEMMA CrashKeeps ==
    ASSUME HomeInv, Crash
    PROVE  HomeInv'
<1> USE MultiHomeAssumption
<1>0. /\ loop' = [c \in Collectors |-> "idle"] /\ got' = [c \in Collectors |-> NoJob]
      /\ heldBy' = NoOne /\ jobId' = NoJob
      /\ beat' = [c \in Collectors |-> "asleep"] /\ mine' = [c \in Collectors |-> NoJob]
      /\ told' = [c \in Collectors |-> NoJob] /\ cancelled' = NoJob
      /\ disturbed' = disturbed \union ({got[c] : c \in Collectors} \ {NoJob})
      /\ UNCHANGED <<stage, worker, left, busy, late>>
  BY DEF Crash, LetGo, life
<1>1. MultiHomeTypeOK'
  <2>1. disturbed' \in SUBSET Jobs
    BY <1>0 DEF HomeInv, MultiHomeTypeOK
  <2> QED
    BY <1>0, <2>1 DEF HomeInv, MultiHomeTypeOK, LoopAt, BeatAt
<1>2. LoopsHold' /\ OneRunAtATime' /\ BeaconsStand'
  BY <1>0 DEF LoopsHold, OneRunAtATime, BeaconsStand, Filed
<1>4. FiledIsClosed' /\ BeaconsAtHome' /\ RefusalsStand'
  BY <1>0 DEF FiledIsClosed, BeaconsAtHome, RefusalsStand, Filed
<1>3. ClaimsStand'
  <2>1. \A j \in Jobs \ disturbed' : j \notin disturbed /\ got[Home[j]] # j
    BY <1>0
  <2> QED
    BY <1>0, <2>1 DEF HomeInv, ClaimsStand
<1> QED
  BY <1>1, <1>2, <1>3, <1>4 DEF HomeInv

\* Every step of a claim loop keeps the invariant.
LEMMA ClaimingKeeps ==
    ASSUME HomeInv, NEW c \in Collectors, Claiming(c)
    PROVE  HomeInv'
<1> USE MultiHomeAssumption
<1>t. /\ stage \in [Jobs -> {"absent", "ready", "running", "closed", "waiting"}]
      /\ worker \in [Jobs -> Workers \union {Nobody}] /\ left \in [Jobs -> Nat]
      /\ got[c] \in Jobs \union {NoJob} /\ disturbed \in SUBSET Jobs
      /\ loop[c] \in {"handed", "releasing", "running"} \union Filed => got[c] \in Jobs
  BY DEF HomeInv, MultiHomeTypeOK, LoopsHold
<1>1. CASE Asks(c)
  BY <1>1, LoopMoves DEF Asks, LoopAt, Filed
<1>2. CASE PollEmpty(c)
  BY <1>2, LoopMoves DEF PollEmpty, LoopAt, Filed
<1>3. CASE Bounces(c)
  BY <1>3, LoopMoves DEF Bounces, LoopAt, Filed
<1>4. CASE Takes(c)
  BY <1>4, TakesKeeps
<1>5. CASE PollBreaks(c)
  <2>1. UNCHANGED <<stage, worker, left, cancelled, gate, beacons, late>>
        /\ loop[c] \notin {"running"} \union Filed
    BY <1>5 DEF PollBreaks, life, Filed
  <2>2. disturbed \subseteq disturbed' /\ disturbed' \subseteq Jobs
        /\ got[c] \notin Jobs \ disturbed'
    BY <1>5, <1>t DEF PollBreaks
  <2> QED
    BY <1>5, <1>t, <2>1, <2>2, DropKeeps DEF PollBreaks
<1>6. CASE ReleaseLost(c)
  <2>1. UNCHANGED <<stage, worker, left, cancelled, gate, beacons, late>>
        /\ loop[c] \notin {"running"} \union Filed
    BY <1>6 DEF ReleaseLost, life, Filed
  <2>2. disturbed \subseteq disturbed' /\ disturbed' \subseteq Jobs
        /\ got[c] \notin Jobs \ disturbed'
    BY <1>6, <1>t DEF ReleaseLost
  <2> QED
    BY <1>6, <1>t, <2>1, <2>2, DropKeeps DEF ReleaseLost
<1>7. CASE Releases(c)
  <2>1. /\ loop[c] = "releasing" /\ loop[c] \notin {"running"} \union Filed /\ got[c] \in Jobs
        /\ UNCHANGED <<gate, beacons, cancelled, disturbed, late>>
        /\ GoTo(c, "idle") /\ Forget(c)
    BY <1>7, <1>t DEF Releases, Filed, history
  <2>2. CASE stage[got[c]] = "running"
    <3>1. /\ stage' = [stage EXCEPT ![got[c]] = "ready"]
          /\ worker' = [worker EXCEPT ![got[c]] = Nobody]
          /\ left' = [left EXCEPT ![got[c]] = @ + 1]
      BY <1>7, <2>2 DEF Releases, HandBack
    <3>2. left' \in [Jobs -> Nat] /\ left'[got[c]] = left[got[c]] + 1
      BY <1>t, <2>1, <3>1
    <3>3. /\ stage' \in [Jobs -> {"absent", "ready", "running", "closed", "waiting"}]
          /\ worker' \in [Jobs -> Workers \union {Nobody}]
          /\ stage'[got[c]] = "ready"
          /\ \A k \in Jobs \ {got[c]} : stage'[k] = stage[k] /\ left'[k] = left[k]
      BY <1>t, <2>1, <3>1
    <3> QED
      BY <1>t, <2>1, <3>2, <3>3, DropKeeps
  <2>3. CASE stage[got[c]] # "running"
    <3>1. UNCHANGED <<stage, worker, left>>
      BY <1>7, <2>3 DEF Releases, life
    <3>2. got[c] \notin Jobs \ disturbed
      BY <2>1, <2>3 DEF HomeInv, LoopsHold, ClaimsStand
    <3> QED
      BY <1>t, <2>1, <3>1, <3>2, DropKeeps
  <2> QED
    BY <2>2, <2>3
<1>8. CASE Reports(c)
  BY <1>8, ReportsKeeps
<1>9. ASSUME loop[c] \in Filed, Ends(c), cancelled' \in {cancelled, NoJob}, UNCHANGED <<life, history>>
      PROVE  HomeInv'
  <2>1. /\ got[c] \in Jobs /\ GoTo(c, "idle") /\ Forget(c) /\ LetGo
        /\ UNCHANGED <<beacons, stage, worker, left, disturbed, late>>
    BY <1>9, <1>t DEF Ends, life, history
  <2>2. stage[got[c]] = "closed"
    BY <1>9 DEF HomeInv, FiledIsClosed
  <2> QED
    BY <1>t, <1>9, <2>1, <2>2, DropKeeps
<1>10. CASE Finishes(c) \/ Rejects(c)
  BY <1>9, <1>10 DEF Finishes, Rejects, Clear, Filed
<1>11. CASE Throws(c)
  <2>1. /\ loop[c] = "running" /\ got[c] \in Jobs /\ GoTo(c, "idle") /\ Forget(c) /\ LetGo
        /\ UNCHANGED <<beacons, stage, worker, left, late>> /\ cancelled' \in {cancelled, NoJob}
        /\ disturbed' = disturbed \union {got[c]}
    BY <1>11, <1>t DEF Throws, Ends, Clear, life
  <2> QED
    BY <1>t, <2>1, DropKeeps
<1> QED
  BY <1>1, <1>2, <1>3, <1>4, <1>5, <1>6, <1>7, <1>8, <1>10, <1>11 DEF Claiming

\* Every step keeps the invariant.
LEMMA NextHome == HomeInv /\ [Next]_homeVars => HomeInv'
<1> SUFFICES ASSUME HomeInv, [Next]_homeVars PROVE HomeInv'
  OBVIOUS
<1> USE MultiHomeAssumption
<1>t. /\ stage \in [Jobs -> {"absent", "ready", "running", "closed", "waiting"}]
      /\ worker \in [Jobs -> Workers \union {Nobody}]
  BY DEF HomeInv, MultiHomeTypeOK
<1>1. ASSUME NEW j \in Jobs, Submit(j)
      PROVE  HomeInv'
  <2>1. UNCHANGED <<gate, loop, got, beacons, cancelled, disturbed, late>>
    BY <1>1 DEF Submit, history
  <2> QED
    BY <1>1, <1>t, <2>1, SubmitMoves, JobMoves
<1>2. ASSUME NEW j \in Jobs, OperatorCancels(j)
      PROVE  HomeInv'
  <2>1. /\ UNCHANGED <<gate, loop, got, beacons, cancelled, late>>
        /\ disturbed' = disturbed \union {j} /\ Close(j, {})
    BY <1>2 DEF OperatorCancels
  <2> QED
    BY <1>t, <2>1, CloseMoves, JobMoves
<1>3. ASSUME NEW j \in Jobs, Lapses(j)
      PROVE  HomeInv'
  <2>1. /\ UNCHANGED <<gate, loop, got, beacons, cancelled, late>>
        /\ disturbed' = disturbed \union {j} /\ Return({j}) /\ stage[j] = "running"
    BY <1>3 DEF Lapses
  <2> QED
    BY <1>t, <2>1, ReturnMoves, JobMoves
<1>4. ASSUME NEW c \in Collectors, NEW j \in Jobs, Hands(c, j)
      PROVE  HomeInv'
  BY <1>4, HandsKeeps
<1>5. ASSUME NEW c \in Collectors, Ages(c)
      PROVE  HomeInv'
  <2>1. /\ UNCHANGED <<life, gate, loop, got, disturbed, late, beat, mine, told, cancelled>>
        /\ busy' = [busy EXCEPT ![c] = NoJob]
    BY <1>5 DEF Ages, history
  <2>2. busy \in [Collectors -> Jobs \union {NoJob}]
    BY DEF HomeInv, MultiHomeTypeOK
  <2>3. UNCHANGED <<stage, worker, left, heldBy, jobId, loop, got, disturbed, late, beat, mine, told,
                    cancelled>>
    BY <2>1 DEF life, gate
  <2>4. busy' \in [Collectors -> Jobs \union {NoJob}]
    BY <2>1, <2>2
  <2> QED
    BY <2>3, <2>4 DEF HomeInv, MultiHomeTypeOK, LoopsHold, OneRunAtATime, ClaimsStand, BeaconsStand,
                              FiledIsClosed, BeaconsAtHome, RefusalsStand
<1>6. ASSUME NEW c \in Collectors, Claiming(c) \/ Beaconing(c)
      PROVE  HomeInv'
  BY <1>6, ClaimingKeeps, BeaconingKeeps
<1>7. CASE Crash
  BY <1>7, CrashKeeps
<1>8. CASE UNCHANGED homeVars
  <2>1. UNCHANGED <<stage, worker, left, heldBy, jobId, loop, got, beat, mine, told, busy,
                    cancelled, disturbed, late>>
    BY <1>8 DEF homeVars, life, gate, beacons, history
  <2> QED
    BY <2>1 DEF HomeInv, MultiHomeTypeOK, LoopsHold, OneRunAtATime, ClaimsStand, BeaconsStand,
                              FiledIsClosed, BeaconsAtHome, RefusalsStand
<1> QED
  BY <1>1, <1>2, <1>3, <1>4, <1>5, <1>6, <1>7, <1>8 DEF Next

\* The inductive invariant of the gate, the loops, the claims and the beacons.
THEOREM HomeIsSound == Spec => []HomeInv
BY InitHome, NextHome, PTL DEF Spec

\* Gate, loops and books keep their types.
THEOREM HomeTypeCorrect == Spec => []MultiHomeTypeOK
BY HomeIsSound, PTL DEF HomeInv

\* The machine runs one job at a time, whichever collectors answer at once.
THEOREM MachineRunsOneJob == Spec => []OneRunAtATime
BY HomeIsSound, PTL DEF HomeInv

\* A job that is claimed and undisturbed is in the hands of its loop.
THEOREM ClaimsAreRemembered == Spec => []NoClaimForgotten
<1>1. HomeInv => NoClaimForgotten
  BY DEF HomeInv, ClaimsStand, NoClaimForgotten
<1> QED
  BY <1>1, HomeIsSound, PTL

\* Being handed out and back costs a job no start.
THEOREM BouncesCostNothing == Spec => []BouncesAreFree
<1>1. HomeInv => BouncesAreFree
  BY DEF HomeInv, ClaimsStand, BouncesAreFree
<1> QED
  BY <1>1, HomeIsSound, PTL

\* No refusal stops a run whose claim stands, but one of an earlier claim of the same
\* job that was still on its way, or had left its flag, when the job was handed out.
THEOREM GoodRunsAreNotStopped == Spec => []GoodRunsGoOn
<1>1. HomeInv => GoodRunsGoOn
  <2> SUFFICES ASSUME HomeInv, heldBy # NoOne, stage[jobId] = "running", jobId \notin late
               PROVE  cancelled # jobId
    BY DEF GoodRunsGoOn
  <2>1. jobId \in Jobs
    BY DEF HomeInv, MultiHomeTypeOK
  <2> QED
    BY <2>1 DEF HomeInv, RefusalsStand
<1> QED
  BY <1>1, HomeIsSound, PTL

=============================================================================
