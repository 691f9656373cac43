--------------------------- MODULE NightlyProofs ---------------------------
(***************************************************************************)
(* What the clock sets off is done once, and no child of the supervisor is *)
(* lost from sight: proofs, for any cron, any day and any give-up limit.   *)
(***************************************************************************)
EXTENDS Nightly, TLAPS

\* A digest out or on its way is of a claimed day, and not both.
DigestsClaimed ==
    \A d \in Days :
       /\ digests[d] > 0 => d \in claimed /\ d \notin sending
       /\ digests[d] <= 1

\* A count of restarts is no more than the quick deaths it stands for and the one
\* of a process that had been up for long.
CountsDeaths ==
    \A c \in Child :
       /\ stopping \/ process[c] = "healthy" \/ restarts[c] <= soon[c] + 1
       /\ c \in gaveUp \/ restarts[c] <= GiveUpAfter
       /\ c \in waiting => process[c] = "none" /\ c \notin gaveUp
       /\ c \in gaveUp => process[c] = "none"
       /\ c \in gaveUp => soon[c] >= GiveUpAfter
       /\ ~stopping /\ process[c] = "none" => c \in waiting \union gaveUp

NightlyInv ==
    /\ NightlyTypeOK
    /\ CountsDeaths
    /\ DigestsClaimed
    /\ \A m \in Minute, n \in JobName : runs[m][n] <= 1
    /\ told + telling <= opened

USE SupervisorAssumption, NightlyAssumption DEF SupervisorAssumption, NightlyAssumption

\* What a step of the supervisor alone keeps.
SupervisorInv == SupervisorTypeOK /\ CountsDeaths

LEMMA SupervisorKeeps ==
  ASSUME SupervisorInv, NEW c \in Child,
         StaysUp(c) \/ StartsAgain(c) \/ Exits(c) \/ Stop
  PROVE  SupervisorInv'
<1>1. CASE StaysUp(c)
  BY <1>1 DEF StaysUp, SupervisorInv, SupervisorTypeOK, Process, CountsDeaths
<1>2. CASE StartsAgain(c)
  BY <1>2 DEF StartsAgain, SupervisorInv, SupervisorTypeOK, Process, CountsDeaths
<1>3. CASE Exits(c)
  <2>1. /\ process[c] \in {"young", "healthy"}
        /\ c \notin waiting /\ c \notin gaveUp
        /\ restarts[c] \in 0..GiveUpAfter /\ soon[c] \in 0..(GiveUpAfter + 1)
    BY <1>3 DEF Exits, Alive, SupervisorInv, SupervisorTypeOK, CountsDeaths
  <2>2. /\ process' = [process EXCEPT ![c] = "none"]
        /\ soon' = [soon EXCEPT ![c] = IF process[c] = "young" /\ @ <= GiveUpAfter THEN @ + 1 ELSE @]
        /\ stopping' = stopping
    BY <1>3 DEF Exits
  <2>3. CASE stopping
    <3>1. restarts' = restarts /\ waiting' = waiting /\ gaveUp' = gaveUp
      BY <1>3, <2>3 DEF Exits
    <3> QED BY <2>1, <2>2, <2>3, <3>1 DEF SupervisorInv, SupervisorTypeOK, Process, CountsDeaths
  <2>4. CASE ~stopping /\ Count(c) > GiveUpAfter
    <3>1. /\ restarts' = [restarts EXCEPT ![c] = Count(c)]
          /\ waiting' = waiting /\ gaveUp' = gaveUp \union {c}
      BY <1>3, <2>4 DEF Exits
    <3>2. Count(c) \in 0..(GiveUpAfter + 1) /\ soon'[c] >= GiveUpAfter
      BY <2>1, <2>2, <2>4 DEF Count, SupervisorInv, SupervisorTypeOK, CountsDeaths
    <3> QED BY <2>1, <2>2, <2>4, <3>1, <3>2 DEF SupervisorInv, SupervisorTypeOK, Process, CountsDeaths
  <2>5. CASE ~stopping /\ ~(Count(c) > GiveUpAfter)
    <3>1. /\ restarts' = [restarts EXCEPT ![c] = Count(c)]
          /\ waiting' = waiting \union {c} /\ gaveUp' = gaveUp
      BY <1>3, <2>5 DEF Exits
    <3>2. Count(c) \in 0..GiveUpAfter /\ Count(c) <= soon'[c] + 1
      BY <2>1, <2>2, <2>5 DEF Count, SupervisorInv, SupervisorTypeOK, CountsDeaths
    <3> QED BY <2>1, <2>2, <2>5, <3>1, <3>2 DEF SupervisorInv, SupervisorTypeOK, Process, CountsDeaths
  <2> QED BY <2>3, <2>4, <2>5
<1>4. CASE Stop
  BY <1>4 DEF Stop, SupervisorInv, SupervisorTypeOK, Process, CountsDeaths
<1> QED BY <1>1, <1>2, <1>3, <1>4

LEMMA InitIsSound == NightlyInit => NightlyInv
<1> SUFFICES ASSUME NightlyInit PROVE NightlyInv
  OBVIOUS
<1>1. SupervisorTypeOK /\ CountsDeaths
  <2>1. SupervisorInit
    BY DEF NightlyInit
  <2>a. stopping \in BOOLEAN
    BY <2>1, Zenon DEF SupervisorInit
  <2>b. process \in [Child -> Process]
    BY <2>1 DEF SupervisorInit, Process
  <2>c. /\ restarts \in [Child -> 0..(GiveUpAfter + 1)] /\ soon \in [Child -> 0..(GiveUpAfter + 1)]
        /\ waiting \in SUBSET Child /\ gaveUp \in SUBSET Child
    BY <2>1 DEF SupervisorInit
  <2>2. SupervisorTypeOK
    BY <2>a, <2>b, <2>c DEF SupervisorTypeOK
  <2>3. \A c \in Child : restarts[c] = 0 /\ soon[c] = 0 /\ process[c] # "none"
    BY <2>1 DEF SupervisorInit
  <2>4. CountsDeaths
    BY <2>1, <2>3 DEF SupervisorInit, CountsDeaths
  <2> QED BY <2>2, <2>4
<1>2. /\ 0 \in Minute
      /\ runs \in [Minute -> [JobName -> Nat]]
      /\ digests \in [Days -> Nat]
  BY DEF NightlyInit, Minute
<1>3. NightlyTypeOK
  <2>a. setBack \in BOOLEAN /\ enabled \in BOOLEAN
    BY Zenon DEF NightlyInit
  <2>1. /\ minute = 0 /\ lastRun = None /\ firing = None /\ owed = None /\ alert = "resolved"
        /\ opened = 0 /\ telling = 0 /\ told = 0
        /\ claimed = {} /\ sending = {}
    BY DEF NightlyInit
  <2> QED BY <1>1, <1>2, <2>a, <2>1 DEF NightlyTypeOK
<1>4. \A d \in Days : digests[d] = 0
  BY DEF NightlyInit
<1>5. \A m \in Minute, n \in JobName : runs[m][n] = 0
  BY DEF NightlyInit
<1>6. DigestsClaimed
  BY <1>4 DEF DigestsClaimed
<1> QED BY <1>1, <1>3, <1>5, <1>6 DEF NightlyInit, NightlyInv

LEMMA NightlyKeeps ==
  ASSUME NightlyInv, [NightlyNext]_nightlyVars
  PROVE  NightlyInv'
<1> USE DEF NightlyInv
<1>a. SupervisorTypeOK /\ CountsDeaths
  BY DEF NightlyTypeOK
<1>b. ASSUME UNCHANGED supervisorVars
      PROVE  /\ SupervisorTypeOK' /\ CountsDeaths'
             /\ Alive(Collector)' = Alive(Collector)
  BY <1>a, <1>b DEF supervisorVars, SupervisorTypeOK, CountsDeaths, Alive
<1>1. CASE MinutePasses
  <2>1. minute' \in Minute
    BY <1>1 DEF MinutePasses, NightlyTypeOK, Minute
  <2> QED BY <1>1, <1>b, <2>1 DEF MinutePasses, NightlyTypeOK, DigestsClaimed, scheduleVars, alertVars, digestVars
<1>2. CASE ClockSetBack
  BY <1>2, <1>b DEF ClockSetBack, NightlyTypeOK, DigestsClaimed, scheduleVars, alertVars, digestVars, Minute
<1>3. CASE Marks
  BY <1>3, <1>b DEF Marks, Up, NightlyTypeOK, DigestsClaimed, clockVars, alertVars, digestVars
<1>4. CASE Enqueues
  <2>1. PICK names \in Fired :
           runs' = [runs EXCEPT ![firing] =
                       [n \in JobName |-> IF n \in names /\ runs[firing][n] = 0 THEN 1 ELSE runs[firing][n]]]
    BY <1>4 DEF Enqueues
  <2>2. /\ runs' \in [Minute -> [JobName -> Nat]]
        /\ \A m \in Minute, n \in JobName : runs'[m][n] <= 1
    BY <1>4, <2>1 DEF Enqueues, NightlyTypeOK
  <2> QED BY <1>4, <1>b, <2>2 DEF Enqueues, NightlyTypeOK, DigestsClaimed, clockVars, alertVars, digestVars
<1>5. CASE Toggles
  BY <1>5, <1>b DEF Toggles, Up, NightlyTypeOK, DigestsClaimed, clockVars, alertVars, digestVars
<1>6. CASE Recreated
  BY <1>6, <1>b DEF Recreated, Up, NightlyTypeOK, DigestsClaimed, clockVars, alertVars, digestVars
<1>7. CASE AlertTick
  BY <1>7, <1>b DEF AlertTick, Up, Reconciled, NightlyTypeOK, DigestsClaimed, clockVars, scheduleVars, digestVars
<1>8. CASE Tells
  BY <1>8, <1>b DEF Tells, Up, NightlyTypeOK, DigestsClaimed, clockVars, scheduleVars, digestVars
<1>9. CASE Handles
  BY <1>9, <1>b DEF Handles, Up, NightlyTypeOK, DigestsClaimed, clockVars, scheduleVars, digestVars
<1>10. CASE DigestTick
  BY <1>10, <1>b DEF DigestTick, Up, NightlyTypeOK, DigestsClaimed, Days, clockVars, scheduleVars, alertVars
<1>11. ASSUME NEW d \in Days, DigestSent(d)
       PROVE  NightlyInv'
  BY <1>11, <1>b DEF DigestSent, Up, NightlyTypeOK, DigestsClaimed, clockVars, scheduleVars, alertVars
<1>12. CASE CollectorDies
  <2>1. SupervisorTypeOK' /\ CountsDeaths'
    BY <1>12, <1>a, SupervisorKeeps DEF CollectorDies, SupervisorInv
  <2> QED BY <1>12, <2>1 DEF CollectorDies, NightlyTypeOK, DigestsClaimed, clockVars
<1>13. CASE Supervises
  <2>1. SupervisorTypeOK' /\ CountsDeaths'
    BY <1>13, <1>a, SupervisorKeeps DEF Supervises, SupervisorInv
  <2>2. Alive(Collector) => Alive(Collector)'
    BY <1>13, <1>a DEF Supervises, StaysUp, StartsAgain, Exits, Stop, Alive, SupervisorTypeOK, CountsDeaths, Process
  <2> QED BY <1>13, <2>1, <2>2 DEF Supervises, NightlyTypeOK, DigestsClaimed, clockVars, scheduleVars, alertVars, digestVars
<1>14. CASE UNCHANGED nightlyVars
  BY <1>14, <1>b DEF nightlyVars, NightlyTypeOK, DigestsClaimed, clockVars, scheduleVars, alertVars, digestVars
<1> QED BY <1>1, <1>2, <1>3, <1>4, <1>5, <1>6, <1>7, <1>8, <1>9, <1>10, <1>11, <1>12, <1>13, <1>14 DEF NightlyNext

\* The inductive invariant of the clock and the supervisor.
THEOREM NightlyIsSound == NightlySpec => []NightlyInv
BY InitIsSound, NightlyKeeps, PTL DEF NightlySpec

\* What is under way is so in a live collector, and a digest only for a claimed day.
THEOREM NightlyTypeCorrect == NightlySpec => []NightlyTypeOK
<1>1. NightlyInv => NightlyTypeOK
  BY DEF NightlyInv
<1> QED BY <1>1, NightlyIsSound, PTL

\* No job of a minute and no child of it for a device is enqueued twice, no day's
\* digest sent twice and no opening of an alert told twice, through crashes, slow
\* webhooks, a clock set back and schedules made anew or given other templates.
THEOREM NothingIsDoneTwice == NightlySpec => []NothingTwice
<1>1. NightlyInv => NothingTwice
  BY DEF NightlyInv, NothingTwice, DigestsClaimed
<1> QED BY <1>1, NightlyIsSound, PTL

\* Until it is stopped, the supervisor has every child that could be spawned
\* running, about to be restarted, or given up for a run of quick deaths.
THEOREM NobodyIsForgotten == NightlySpec => []NobodyForgotten
<1>1. NightlyInv => NobodyForgotten
  BY DEF NightlyInv, NightlyTypeOK, SupervisorTypeOK, Process, Alive, NobodyForgotten, CountsDeaths
<1> QED BY <1>1, NightlyIsSound, PTL

=============================================================================
