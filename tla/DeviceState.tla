---------------------------- MODULE DeviceState ----------------------------
(***************************************************************************)
(* Settings a job changes on a device and must put back, and the journal   *)
(* that remembers what they were (collector/src/device-state.ts).  A       *)
(* target here is a device and a domain, whose settings are one journal    *)
(* entry.  Steps are the stretches of code between two awaits; any call to *)
(* a device may fail, with or without effect, or do nothing and say it     *)
(* succeeded.                                                              *)
(*                                                                         *)
(* Module DeviceExecutor adds the executor's start, its end and the        *)
(* network journal.                                                        *)
(***************************************************************************)
EXTENDS FiniteSets

CONSTANTS
    Targets,    \* a device and a domain
    Names,      \* the settings of a domain
    Values,     \* what a setting may be
    Own,        \* Own[t][n]: what the setting was before any job
    Wanted,     \* Wanted[n]: what jobs ask for
    NoEntry     \* no entry in the journal

ASSUME DeviceStateAssumption ==
    /\ Own \in [Targets -> [Names -> Values]]
    /\ Wanted \in [Names -> Values]
    /\ Names # {}
    /\ NoEntry \notin [Names -> Values]

VARIABLES
    setting,      \* what each setting of each target is
    journal,      \* the journal: the prior values of each target
    step,         \* where each target's withState, or its startup sweep, is
    todo,         \* the names the step has yet to treat
    problems,     \* whether the restore under way has met a problem
    overwritten,  \* history: targets changed anew over an entry still journalled
    torn          \* history: changed targets whose entry went with a torn journal

stateVars == <<setting, journal, step, todo, problems, overwritten, torn>>

Step == {"idle", "applying", "undoing", "applied", "restoring"}

StateInit ==
    /\ setting = Own
    /\ journal = [t \in Targets |-> NoEntry]
    /\ step = [t \in Targets |-> "idle"]
    /\ todo = [t \in Targets |-> {}]
    /\ problems = {}
    /\ overwritten = {}
    /\ torn = {}

StateTypeOK ==
    /\ setting \in [Targets -> [Names -> Values]]
    /\ journal \in [Targets -> [Names -> Values] \union {NoEntry}]
    /\ step \in [Targets -> Step]
    /\ todo \in [Targets -> SUBSET Names]
    /\ problems \in SUBSET Targets
    /\ overwritten \in SUBSET Targets
    /\ torn \in SUBSET Targets

-----------------------------------------------------------------------------
(***************************************************************************)
(* applyState                                                              *)
(***************************************************************************)

Go(t, where, names) ==
    /\ step' = [step EXCEPT ![t] = where]
    /\ todo' = [todo EXCEPT ![t] = names]

\* Slip: the journal is written once the settings took.
ApplyUnjournalled(t) ==
    /\ step[t] = "idle"
    /\ Go(t, "applying", Names)
    /\ UNCHANGED <<setting, journal, problems, overwritten, torn>>

\* The prior values have all been read: they are journalled before the device
\* is touched, over whatever entry the target has.  (A read that fails throws
\* with nothing changed.)
Apply(t) ==
    /\ step[t] = "idle"
    /\ journal' = [journal EXCEPT ![t] = setting[t]]
    /\ overwritten' = IF journal[t] = NoEntry THEN overwritten ELSE overwritten \union {t}
    /\ Go(t, "applying", Names)
    /\ UNCHANGED <<setting, problems, torn>>

\* A setting is written.  A call that fails sends the target to be restored.
Write(t, n) ==
    /\ step[t] = "applying"
    /\ n \in todo[t]
    /\ setting' \in {setting, [setting EXCEPT ![t][n] = Wanted[n]]}
    /\ \/ Go(t, "applying", todo[t] \ {n})
       \/ Go(t, "undoing", Names)
    /\ UNCHANGED <<journal, problems, overwritten, torn>>

\* Slip: what was written is taken for what is.
VerifyNothing(t) ==
    /\ step[t] = "applying"
    /\ todo[t] = {}
    /\ Go(t, "applied", {})
    /\ UNCHANGED <<setting, journal, problems, overwritten, torn>>

\* Every setting is read back: one that did not take, or cannot be read, sends
\* the target to be restored.
Verify(t) ==
    /\ step[t] = "applying"
    /\ todo[t] = {}
    /\ \/ setting[t] = Wanted /\ Go(t, "applied", {})
       \/ Go(t, "undoing", Names)
    /\ UNCHANGED <<setting, journal, problems, overwritten, torn>>

\* The job under withState ends, somehow.
Finish(t) ==
    /\ step[t] = "applied"
    /\ Go(t, "restoring", Names)
    /\ UNCHANGED <<setting, journal, problems, overwritten, torn>>

-----------------------------------------------------------------------------
(***************************************************************************)
(* restoreState, for withState, a failed applyState or the startup sweep   *)
(***************************************************************************)

Restoring(t) == step[t] \in {"undoing", "restoring"}

\* One setting is read, written back if it differs, and read again.  It is put
\* back and known to be; or something fails, the setting put back or not.
PutBack(t, n) ==
    /\ Restoring(t)
    /\ n \in todo[t]
    /\ journal[t] # NoEntry
    /\ \/ /\ setting' = [setting EXCEPT ![t][n] = journal[t][n]]
          /\ problems' \in {problems, problems \union {t}}
       \/ UNCHANGED setting /\ problems' = problems \union {t}
    /\ todo' = [todo EXCEPT ![t] = @ \ {n}]
    /\ UNCHANGED <<journal, step, overwritten, torn>>

\* Slip: the entry is dropped whatever came of it.
ForgetAnyway(t) ==
    /\ Restoring(t)
    /\ todo[t] = {} \/ journal[t] = NoEntry
    /\ journal' = [journal EXCEPT ![t] = NoEntry]
    /\ problems' = problems \ {t}
    /\ Go(t, "idle", {})
    /\ UNCHANGED <<setting, overwritten, torn>>

\* With every setting treated the entry is dropped, or kept if there was a
\* problem.  A target without an entry has nothing to restore.
Restored(t) ==
    /\ Restoring(t)
    /\ todo[t] = {} \/ journal[t] = NoEntry
    /\ journal' = [journal EXCEPT ![t] = IF t \in problems THEN @ ELSE NoEntry]
    /\ problems' = problems \ {t}
    /\ Go(t, "idle", {})
    /\ UNCHANGED <<setting, overwritten, torn>>

-----------------------------------------------------------------------------
(***************************************************************************)
(* The executor dies, and comes back                                       *)
(***************************************************************************)

StateLost ==
    /\ step' = [t \in Targets |-> "idle"]
    /\ todo' = [t \in Targets |-> {}]
    /\ problems' = {}
    /\ UNCHANGED <<setting, overwritten>>

\* Wherever the executor was, only the devices and the journal are left.
StateCrash == StateLost /\ UNCHANGED <<journal, torn>>

\* Where journalDrop rewrites the journal: after a restore without problems.
\* (journalPut does in Apply.)
Drops(t) == Restoring(t) /\ todo[t] = {} /\ journal[t] # NoEntry /\ t \notin problems

\* Killed as it rewrites the journal, the executor leaves a file cut short: it
\* is truncated before it is written, and one that does not parse is read as
\* one without entries, whoever they were of.
StateTear ==
    /\ StateLost
    /\ journal' = [t \in Targets |-> NoEntry]
    /\ torn' = torn \union {t \in Targets : journal[t] \notin {NoEntry, setting[t]}}

\* restoreAttachedState comes to an attached target.
StateSweep(t) ==
    /\ step[t] = "idle"
    /\ Go(t, "restoring", Names)
    /\ UNCHANGED <<setting, journal, problems, overwritten, torn>>

StateSteps(t) ==
    \/ \E n \in Names : Write(t, n) \/ PutBack(t, n)
    \/ Verify(t) \/ Finish(t) \/ Restored(t)

-----------------------------------------------------------------------------
(***************************************************************************)
(* Properties                                                              *)
(***************************************************************************)

\* A device that is not as its owner left it is on record with what it was: the
\* intent is journalled before the device is touched and dropped only after a
\* verified restore, so no failed call and no crash between two steps makes the
\* executor forget it.  Two things do.  A target whose restore failed, and which
\* the next job then changes without a restart in between, is journalled anew
\* with the changed values; and a kill amid the writing of the journal, for
\* whichever target, leaves every target still changed without an entry.
ChangesOnRecord ==
    \A t \in Targets \ (overwritten \union torn) :
        /\ setting[t] # Own[t] => journal[t] # NoEntry
        /\ journal[t] # NoEntry => journal[t] = Own[t]

\* Whatever a job runs under is what it asked for: no write that silently did
\* nothing and no half-applied group is taken for the condition to be tested.
RunsAsAsked == \A t \in Targets : step[t] = "applied" => setting[t] = Wanted

=============================================================================
