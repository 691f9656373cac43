--------------------------- MODULE DeviceExecutor ---------------------------
(***************************************************************************)
(* An executor that shapes phones and changes settings for its jobs, dies  *)
(* at any point, and on its next start puts back what it finds journalled  *)
(* before it claims anything (restoreDevicesOnStartup in                   *)
(* collector/src/executor.ts): modules NetworkShape and DeviceState under  *)
(* one process.                                                            *)
(***************************************************************************)
EXTENDS NetworkShape, DeviceState

VARIABLES
    up,        \* down, sweeping phones, sweeping settings, or working
    toSweep,   \* the attached phones or targets the sweep has yet to come to
    skipped    \* history: phones this start did not find attached, or not its own

executorVars == <<up, toSweep, skipped>>
allVars == <<shapeVars, stateVars, executorVars>>

ExecutorInit ==
    /\ ShapeInit
    /\ StateInit
    /\ up = "down"
    /\ toSweep = {}
    /\ skipped = Phones

\* The types; and a job's task never sits behind its own timer: a delayed shape
\* lets the job run at once, and only a timer is ever armed.
ExecutorTypeOK ==
    /\ ShapeTypeOK
    /\ StateTypeOK
    /\ up \in {"down", "phones", "settings", "working"}
    /\ toSweep \in SUBSET (Phones \union Targets)
    /\ skipped \in SUBSET Phones

\* The executor starts: some phones are attached and its own.
Starts ==
    /\ up = "down"
    /\ up' = "phones"
    /\ toSweep' \in SUBSET Phones
    /\ skipped' = Phones \ toSweep'
    /\ UNCHANGED <<shapeVars, stateVars>>

QuietPhones == \A p \in Phones, k \in Tasks : at[p][k] = "idle"
QuietTargets == \A t \in Targets : step[t] = "idle"

\* restoreAttached: one phone after the other.
SweepsPhone(p) ==
    /\ up = "phones"
    /\ p \in toSweep
    /\ QuietPhones
    /\ toSweep' = toSweep \ {p}
    /\ ShapeSweep(p)
    /\ UNCHANGED <<up, skipped, stateVars>>

\* Then restoreAttachedState.
TurnsToSettings ==
    /\ up = "phones"
    /\ toSweep = {}
    /\ QuietPhones
    /\ up' = "settings"
    /\ toSweep' \in SUBSET Targets
    /\ UNCHANGED <<skipped, shapeVars, stateVars>>

SweepsTarget(t) ==
    /\ up = "settings"
    /\ t \in toSweep
    /\ QuietTargets
    /\ toSweep' = toSweep \ {t}
    /\ StateSweep(t)
    /\ UNCHANGED <<up, skipped, shapeVars>>

\* The sweep is over and jobs are claimed.
BeginsWork ==
    /\ up = "settings"
    /\ toSweep = {}
    /\ QuietTargets
    /\ up' = "working"
    /\ UNCHANGED <<toSweep, skipped, shapeVars, stateVars>>

\* One job at a time shapes a phone or changes settings; a timer of an earlier
\* job's may still be at work.
TakesJobs ==
    /\ up = "working"
    /\ QuietTargets
    /\ \A p \in Phones : at[p]["job"] = "idle"

Jobs(p, t) ==
    /\ TakesJobs
    /\ \/ (ShapeNow(p) \/ ShapeLater(p)) /\ UNCHANGED stateVars
       \/ Apply(t) /\ UNCHANGED shapeVars
    /\ UNCHANGED executorVars

\* What is under way goes on.
GoesOn ==
    /\ up # "down"
    /\ \/ \E p \in Phones : ShapeSteps(p) /\ UNCHANGED stateVars
       \/ \E t \in Targets : StateSteps(t) /\ UNCHANGED shapeVars
    /\ UNCHANGED executorVars

\* A reboot, an OOM, a kill.
Gone ==
    /\ up # "down"
    /\ up' = "down"
    /\ toSweep' = {}
    /\ skipped' = Phones

Dies == Gone /\ ShapeCrash /\ StateCrash

\* The same, amid the writing of a journal.
DiesWriting ==
    /\ Gone
    /\ \/ /\ \E p \in Phones, k \in Tasks : Rewrites(p, k)
          /\ ShapeTear /\ StateCrash
       \/ /\ TakesJobs \/ \E t \in Targets : Drops(t)
          /\ StateTear /\ ShapeCrash

ExecutorNext ==
    \/ Starts \/ TurnsToSettings \/ BeginsWork \/ GoesOn \/ Dies \/ DiesWriting
    \/ \E p \in Phones : SweepsPhone(p)
    \/ \E t \in Targets : SweepsTarget(t)
    \/ \E p \in Phones, t \in Targets : Jobs(p, t)

ExecutorSpec == ExecutorInit /\ [][ExecutorNext]_allVars

-----------------------------------------------------------------------------
(***************************************************************************)
(* Properties                                                              *)
(***************************************************************************)

\* A phone nothing is being done to is on the network, however earlier runs of
\* the executor died: the start brings back every phone it finds attached,
\* journalled or not, and every job brings back its own.  (Except while calls
\* to it fail, and except when its timer fired as its job ended.)
QuietPhonesOnline ==
    up = "working" =>
        \A p \in Phones \ (failed \union skipped \union raced) :
            at[p]["job"] = "idle" /\ at[p]["timer"] = "idle" => wifi[p]

\* An entry leaves the settings' journal only once the device reads as the entry
\* says, whatever calls failed on the way; or the executor dies writing the
\* journal, and the target is one that its next start no longer knows of.
DroppedOnlyRestored ==
    [][\A t \in Targets :
          journal[t] # NoEntry /\ journal'[t] = NoEntry =>
              setting'[t] = journal[t] \/ (up' = "down" /\ t \in torn')]_allVars

=============================================================================
