------------------------------ MODULE Nightly ------------------------------
(***************************************************************************)
(* What the collector does by the clock, under its supervisor: a cron      *)
(* schedule that enqueues a job a minute it matches, the alert that says a *)
(* minute was missed, and the morning digest (collector/src/server.ts,     *)
(* alerts.ts, cron.ts, findings.ts).  The process may die between any two  *)
(* writes; the clock is local time, and is set back once at most.          *)
(***************************************************************************)
EXTENDS Supervisor

CONSTANTS
    Collector,   \* the child that is the collector
    Last,        \* bound: the last minute
    Due,         \* the minutes the schedule's cron matches
    Device,      \* the devices a schedule that fans out may have a job for
    Late,        \* FLEET_ALERT_SCHEDULE_LATE_S, in minutes
    Horizon,     \* how far back prevRun looks for a minute: 7 days
    DayLength,   \* minutes in a day
    DigestAt,    \* FLEET_FINDINGS_DIGEST_AT, in minutes of the day
    Openings,    \* bound: how often the alert opens
    None

ASSUME NightlyAssumption ==
    /\ Collector \in Child
    /\ Last \in Nat /\ Late \in Nat /\ Horizon \in Nat /\ DigestAt \in Nat /\ Openings \in Nat
    /\ DayLength \in Nat \ {0}
    /\ Due \subseteq 0..Last
    /\ None \notin 0..Last /\ None \notin Device

VARIABLES
    minute,     \* the local clock
    setBack,    \* whether it has been set back
    enabled,    \* whether the schedule is
    lastRun,    \* last_run: the minute it was marked as run
    firing,     \* a minute marked as run whose job is about to be enqueued
    runs,       \* how often each minute's job was enqueued, and the child of each device
    owed,       \* history: the last minute that went by unmarked, if none was marked since
    alert,      \* the state of the schedule-missed alert, resolved if there is none
    opened,     \* how often it opened
    telling,    \* webhook calls under way about it
    told,       \* history: webhook calls made about it
    claimed,    \* the days in findings_digests
    sending,    \* the days a digest is being sent for
    digests     \* history: digests posted for each day

clockVars == <<minute, setBack>>
scheduleVars == <<enabled, lastRun, firing, runs, owed>>
alertVars == <<alert, opened, telling, told>>
digestVars == <<claimed, sending, digests>>
nightlyVars == <<supervisorVars, clockVars, scheduleVars, alertVars, digestVars>>

Minute == 0..Last
DayOf(m) == m \div DayLength
Days == {DayOf(m) : m \in Minute}

\* The names a minute's jobs may have: the minute's own, or a device's with it.
JobName == Device \union {None}

NightlyInit ==
    /\ SupervisorInit
    /\ minute = 0 /\ setBack = FALSE
    /\ enabled = TRUE
    /\ lastRun = None /\ firing = None /\ owed = None
    /\ runs = [m \in Minute |-> [n \in JobName |-> 0]]
    /\ alert = "resolved" /\ opened = 0 /\ telling = 0 /\ told = 0
    /\ claimed = {} /\ sending = {}
    /\ digests = [d \in Days |-> 0]

\* The collector takes its next step: it is up, and not inside a scheduler tick.
Up == Alive(Collector) /\ firing = None

-----------------------------------------------------------------------------
(***************************************************************************)
(* The clock                                                               *)
(***************************************************************************)

MinutePasses ==
    /\ minute < Last
    /\ minute' = minute + 1
    /\ owed' = IF enabled /\ minute \in Due /\ lastRun \notin {None, minute} THEN minute ELSE owed
    /\ UNCHANGED <<supervisorVars, setBack, enabled, lastRun, firing, runs, alertVars, digestVars>>

\* Daylight saving ends.
ClockSetBack ==
    /\ ~setBack
    /\ setBack' = TRUE
    /\ minute' \in 0..minute
    /\ owed' = None
    /\ UNCHANGED <<supervisorVars, enabled, lastRun, firing, runs, alertVars, digestVars>>

-----------------------------------------------------------------------------
(***************************************************************************)
(* Schedules                                                               *)
(***************************************************************************)

\* schedulerTick finds the schedule due and marks it as run first.
Marks ==
    /\ Up
    /\ enabled /\ minute \in Due /\ lastRun # minute
    /\ lastRun' = minute
    /\ firing' = minute
    /\ owed' = None
    /\ UNCHANGED <<supervisorVars, clockVars, enabled, runs, alertVars, digestVars>>

\* What is enqueued, by the template the schedule has by now: nothing, if there is
\* no build to test, the queue refuses it or no device matches; the minute's job; or
\* a child for each device that matches.
Fired == {{None}} \union SUBSET Device

\* Slip: the mark is trusted to keep a minute from firing twice.
EnqueuesTrusting ==
    /\ Alive(Collector) /\ firing # None
    /\ \E names \in Fired :
          runs' = [runs EXCEPT ![firing] =
                      [n \in JobName |-> IF n \in names THEN runs[firing][n] + 1 ELSE runs[firing][n]]]
    /\ firing' = None
    /\ UNCHANGED <<supervisorVars, clockVars, enabled, lastRun, owed, alertVars, digestVars>>

\* Jobs are enqueued under names of their minute.  A job whose name there is
\* already is refused; a fan-out is not, but only its missing children are made.
Enqueues ==
    /\ Alive(Collector) /\ firing # None
    /\ \E names \in Fired :
          runs' = [runs EXCEPT ![firing] =
                      [n \in JobName |-> IF n \in names /\ runs[firing][n] = 0 THEN 1 ELSE runs[firing][n]]]
    /\ firing' = None
    /\ UNCHANGED <<supervisorVars, clockVars, enabled, lastRun, owed, alertVars, digestVars>>

\* PATCH /schedules/:id, or POST of one there is; the last run is kept.
Toggles ==
    /\ Up
    /\ enabled' = ~enabled
    /\ owed' = None
    /\ UNCHANGED <<supervisorVars, clockVars, lastRun, firing, runs, alertVars, digestVars>>

\* DELETE and then POST: the schedule is one that has never run.
Recreated ==
    /\ Up
    /\ enabled' \in BOOLEAN
    /\ lastRun' = None /\ owed' = None
    /\ UNCHANGED <<supervisorVars, clockVars, firing, runs, alertVars, digestVars>>

-----------------------------------------------------------------------------
(***************************************************************************)
(* Alerts                                                                  *)
(***************************************************************************)

\* The schedule-missed rule: the last minute it should have fired, no further back
\* than the horizon, is over for longer than it may take, and is not the one it was
\* marked for.
Missed ==
    /\ enabled /\ lastRun # None
    /\ \E m \in Due :
          /\ m < minute /\ minute <= m + Horizon
          /\ \A n \in Due : n < minute => n <= m
          /\ lastRun # m /\ minute >= m + Late


\* What the alert is after reconcile, from the state it was in.
Reconciled(state) ==
    IF Missed THEN (IF state = "resolved" THEN "opens" ELSE state) ELSE "resolved"

\* alertTick to its await: snoozes that have expired wake up, the alert is
\* reconciled with what is missed now, and told of only if it opens.
AlertTick ==
    /\ Up
    /\ \E woken \in {alert} \union (IF alert = "snoozed" THEN {"open"} ELSE {}) :
          IF Reconciled(woken) = "opens"
          THEN /\ opened < Openings
               /\ alert' = "open"
               /\ opened' = opened + 1
               /\ telling' = telling + 1
          ELSE alert' = Reconciled(woken) /\ UNCHANGED <<opened, telling>>
    /\ UNCHANGED <<supervisorVars, clockVars, scheduleVars, told, digestVars>>

\* A webhook is called, and answers or not.
Tells ==
    /\ Up
    /\ telling > 0
    /\ telling' = telling - 1
    /\ told' = told + 1
    /\ UNCHANGED <<supervisorVars, clockVars, scheduleVars, alert, opened, digestVars>>

\* Somebody acknowledges the alert, or snoozes it.
Handles ==
    /\ Up
    /\ alert # "resolved"
    /\ alert' \in {"acked", "snoozed"}
    /\ UNCHANGED <<supervisorVars, clockVars, scheduleVars, opened, telling, told, digestVars>>

-----------------------------------------------------------------------------
(***************************************************************************)
(* The digest                                                              *)
(***************************************************************************)

\* digestTick to its await: past the hour, today is claimed, if it is not in the
\* table yet.  A day with nothing new sends nothing.
DigestTick ==
    /\ Up
    /\ minute % DayLength >= DigestAt
    /\ DayOf(minute) \notin claimed
    /\ claimed' = claimed \union {DayOf(minute)}
    /\ sending' \in {sending, sending \union {DayOf(minute)}}
    /\ UNCHANGED <<supervisorVars, clockVars, scheduleVars, alertVars, digests>>

DigestSent(d) ==
    /\ Up
    /\ d \in sending
    /\ sending' = sending \ {d}
    /\ digests' = [digests EXCEPT ![d] = @ + 1]
    /\ UNCHANGED <<supervisorVars, clockVars, scheduleVars, alertVars, claimed>>

-----------------------------------------------------------------------------
(***************************************************************************)
(* The machine                                                             *)
(***************************************************************************)

\* The collector dies: what it had in memory goes with it.
CollectorDies ==
    /\ Exits(Collector)
    /\ firing' = None /\ telling' = 0 /\ sending' = {}
    /\ UNCHANGED <<clockVars, enabled, lastRun, runs, owed, alert, opened, told, claimed, digests>>

Supervises ==
    /\ \/ \E c \in Child : StaysUp(c) \/ StartsAgain(c)
       \/ \E c \in Child \ {Collector} : Exits(c)
       \/ Stop
    /\ UNCHANGED <<clockVars, scheduleVars, alertVars, digestVars>>

NightlyNext ==
    \/ MinutePasses \/ ClockSetBack
    \/ Marks \/ Enqueues \/ Toggles \/ Recreated
    \/ AlertTick \/ Tells \/ Handles
    \/ DigestTick \/ (\E d \in Days : DigestSent(d))
    \/ CollectorDies \/ Supervises

NightlySpec == NightlyInit /\ [][NightlyNext]_nightlyVars

\* The collector's timers run whenever it is up, the first alert tick as it
\* starts; a restart timer fires.
NightlyFairness ==
    /\ SF_nightlyVars(AlertTick)
    /\ WF_nightlyVars(Enqueues)
    /\ \A c \in Child : WF_nightlyVars(StartsAgain(c) /\ UNCHANGED <<clockVars, scheduleVars, alertVars, digestVars>>)

NightlyFairSpec == NightlySpec /\ NightlyFairness

-----------------------------------------------------------------------------
(***************************************************************************)
(* Properties                                                              *)
(***************************************************************************)

\* The types; and what is under way is so in a live process, and on record.
NightlyTypeOK ==
    /\ SupervisorTypeOK
    /\ minute \in Minute
    /\ setBack \in BOOLEAN
    /\ enabled \in BOOLEAN
    /\ lastRun \in Minute \union {None}
    /\ firing \in Minute \union {None}
    /\ runs \in [Minute -> [JobName -> Nat]]
    /\ owed \in Minute \union {None}
    /\ alert \in {"resolved", "open", "acked", "snoozed"}
    /\ opened \in Nat /\ telling \in Nat /\ told \in Nat
    /\ claimed \in SUBSET Days
    /\ sending \in SUBSET claimed
    /\ firing # None \/ telling > 0 \/ sending # {} => Alive(Collector)
    /\ digests \in [Days -> Nat]

\* Nothing is done twice: no minute's job is enqueued twice, nor its child for any
\* device, no day's digest sent twice and nobody told twice of one alert, though
\* ticks overlap with slow webhooks, the process dies, the clock is set back and
\* schedules are made anew.  (A minute that fires again does get children for the
\* devices that had none.)
NothingTwice ==
    /\ \A m \in Minute, n \in JobName : runs[m][n] <= 1
    /\ \A d \in Days : digests[d] <= 1
    /\ told + telling <= opened

\* A minute of the schedule went by unmarked, is by now late, and is still within
\* the horizon.
Overlooked == owed # None /\ minute >= owed + Late /\ minute <= owed + Horizon


=============================================================================
