---------------------------- MODULE NetworkShape ----------------------------
(***************************************************************************)
(* Taking an Android phone off the network for a job and putting it back   *)
(* (collector/src/network-shape.ts): at once, or by a timer while the job  *)
(* runs.  The job's own task and the timer's run the same two procedures,  *)
(* androidOffline and androidRestore, across awaits, on one phone and one  *)
(* journal entry.  A call to a phone may fail, with or without effect; one *)
(* that succeeds may have had none.                                        *)
(*                                                                         *)
(* Module DeviceExecutor adds the executor's start and its end.            *)
(***************************************************************************)
EXTENDS FiniteSets

CONSTANTS
    Phones,     \* the Android devices, on USB
    NoShape     \* no entry in the journal

ASSUME NetworkShapeAssumption == NoShape \notin {"on", "off", "unread"}

Tasks == {"job", "timer"}

(***************************************************************************)
(* Where a task is.  androidOffline: about to read and journal, to disable *)
(* wifi, to disable data, to check.  androidRestore: about to look at the  *)
(* journal, to read wifi, to enable wifi, to enable data, to confirm.  The *)
(* job's task is "running" offline, or "delayed" while its timer is "armed" *)
(* to take the phone offline under it.                                     *)
(***************************************************************************)
Offline == {"read", "wifi_off", "data_off", "check"}
Restore == {"look", "see", "wifi_on", "data_on", "confirm"}
At == {"idle", "running", "delayed", "armed"} \union Offline \union Restore

VARIABLES
    wifi,     \* whether each phone's wifi is on
    data,     \* whether its cellular data is
    ownData,  \* history: whether its owner had it on before any job
    shape,    \* the journal: what prior.data was read as
    at,       \* where each task of each phone is
    saw,      \* the entry a restore under way has found
    needed,   \* whether it found wifi off
    failed,   \* history: phones a call to which failed, or did nothing, since the start
    raced,    \* history: phones restored while their timer's task was under way
    kept      \* history: phones the last command to disable whose data failed

shapeVars == <<wifi, data, ownData, shape, at, saw, needed, failed, raced, kept>>

Entry == {"on", "off", "unread", NoShape}

ShapeInit ==
    /\ wifi = [p \in Phones |-> TRUE]
    /\ data \in [Phones -> BOOLEAN]
    /\ ownData = data
    /\ shape = [p \in Phones |-> NoShape]
    /\ at = [p \in Phones |-> [k \in Tasks |-> "idle"]]
    /\ saw = [p \in Phones |-> [k \in Tasks |-> NoShape]]
    /\ needed = [p \in Phones |-> [k \in Tasks |-> FALSE]]
    /\ failed = {}
    /\ raced = {}
    /\ kept = {}

ShapeTypeOK ==
    /\ wifi \in [Phones -> BOOLEAN]
    /\ data \in [Phones -> BOOLEAN]
    /\ ownData \in [Phones -> BOOLEAN]
    /\ shape \in [Phones -> Entry]
    /\ at \in [Phones -> [Tasks -> At]]
    /\ \A p \in Phones : at[p]["job"] # "armed" /\ at[p]["timer"] \notin {"running", "delayed"}
    /\ saw \in [Phones -> [Tasks -> Entry]]
    /\ needed \in [Phones -> [Tasks -> BOOLEAN]]
    /\ failed \in SUBSET Phones
    /\ raced \in SUBSET Phones
    /\ kept \in SUBSET Phones

To(p, k, there) == at' = [at EXCEPT ![p][k] = there]

\* A call to the phone works, or fails, or says it worked and did nothing.
Works == UNCHANGED failed
Fails(p) == failed' = failed \union {p}

-----------------------------------------------------------------------------
(***************************************************************************)
(* apply                                                                   *)
(***************************************************************************)

\* params.network is offline: the phone goes off the network before the job runs.
ShapeNow(p) ==
    /\ at[p]["job"] = "idle"
    /\ To(p, "job", "read")
    /\ UNCHANGED <<ownData, wifi, data, shape, saw, needed, failed, raced, kept>>

\* It is offline-after-<n>s: a timer is armed, and the job runs at once.
ShapeLater(p) ==
    /\ at[p]["job"] = "idle"
    /\ at[p]["timer"] = "idle"
    /\ at' = [at EXCEPT ![p]["job"] = "delayed", ![p]["timer"] = "armed"]
    /\ UNCHANGED <<ownData, wifi, data, shape, saw, needed, failed, raced, kept>>

\* The timer fires: androidOffline begins, and nobody awaits it.
Fires(p) ==
    /\ at[p]["timer"] = "armed"
    /\ To(p, "timer", "read")
    /\ UNCHANGED <<ownData, wifi, data, shape, saw, needed, failed, raced, kept>>

-----------------------------------------------------------------------------
(***************************************************************************)
(* androidOffline                                                          *)
(***************************************************************************)

\* What was is read and journalled, over whatever entry the phone has.
Journals(p, k) ==
    /\ at[p][k] = "read"
    /\ \/ Works /\ shape' = [shape EXCEPT ![p] = IF data[p] THEN "on" ELSE "off"]
       \/ Fails(p) /\ shape' = [shape EXCEPT ![p] = "unread"]
    /\ To(p, k, "wifi_off")
    /\ UNCHANGED <<ownData, wifi, data, saw, needed, raced, kept>>

\* svc wifi disable.  When the command fails androidOffline throws, out of apply
\* and past the finally that would restore: the phone is left as it is.
DisablesWifi(p, k) ==
    /\ at[p][k] = "wifi_off"
    /\ \/ Works /\ wifi' = [wifi EXCEPT ![p] = FALSE] /\ To(p, k, "data_off")
       \/ /\ Fails(p)
          /\ wifi' \in {wifi, [wifi EXCEPT ![p] = FALSE]}
          /\ \E there \in {"data_off", "idle"} : To(p, k, there)
    /\ UNCHANGED <<ownData, data, shape, saw, needed, raced, kept>>

\* svc data disable, whose failure is ignored.
DisablesData(p, k) ==
    /\ at[p][k] = "data_off"
    /\ \/ Works /\ data' = [data EXCEPT ![p] = FALSE] /\ kept' = kept \ {p}
       \/ Fails(p) /\ UNCHANGED data /\ kept' = kept \union {p}
    /\ To(p, k, "check")
    /\ UNCHANGED <<ownData, wifi, shape, saw, needed, raced>>

\* Where a task goes once the phone is known to be off the network.
Under(k) == IF k = "job" THEN "running" ELSE "idle"

\* Slip: the command's exit status is believed.
ChecksNothing(p, k) ==
    /\ at[p][k] = "check"
    /\ To(p, k, Under(k))
    /\ UNCHANGED <<ownData, wifi, data, shape, saw, needed, failed, raced, kept>>

\* wifi_on must read 0, or the phone is restored and the task throws.
Checks(p, k) ==
    /\ at[p][k] = "check"
    /\ \/ Works /\ To(p, k, IF wifi[p] THEN "look" ELSE Under(k))
       \/ Fails(p) /\ To(p, k, "look")
    /\ UNCHANGED <<ownData, wifi, data, shape, saw, needed, raced, kept>>

-----------------------------------------------------------------------------
(***************************************************************************)
(* restore and androidRestore                                              *)
(***************************************************************************)

\* Slip: the timer is left armed.
EndsTimerArmed(p) ==
    /\ at[p]["job"] \in {"running", "delayed"}
    /\ To(p, "job", "look")
    /\ UNCHANGED <<ownData, wifi, data, shape, saw, needed, failed, raced, kept>>

\* The job is over: a timer that has not fired is cleared, one that has cannot
\* be, and the phone is restored.
Ends(p) ==
    /\ at[p]["job"] \in {"running", "delayed"}
    /\ at' = [at EXCEPT ![p]["job"] = "look",
                       ![p]["timer"] = IF @ = "armed" THEN "idle" ELSE @]
    /\ raced' = IF at[p]["timer"] \in {"idle", "armed"} THEN raced ELSE raced \union {p}
    /\ UNCHANGED <<ownData, wifi, data, shape, saw, needed, failed, kept>>

\* What a task that is over had found goes with it.
Forgets(p, k, over) ==
    /\ saw' = IF over THEN [saw EXCEPT ![p][k] = NoShape] ELSE saw
    /\ needed' = IF over THEN [needed EXCEPT ![p][k] = FALSE] ELSE needed

Looks(p, k) ==
    /\ at[p][k] = "look"
    /\ saw' = [saw EXCEPT ![p][k] = shape[p]]
    /\ To(p, k, "see")
    /\ UNCHANGED <<ownData, wifi, data, shape, needed, failed, raced, kept>>

\* A phone whose wifi_on cannot be read counts as one that is on the network.
Sees(p, k) ==
    /\ at[p][k] = "see"
    /\ \/ Works /\ needed' = [needed EXCEPT ![p][k] = ~wifi[p]]
       \/ Fails(p) /\ needed' = [needed EXCEPT ![p][k] = FALSE]
    /\ To(p, k, IF needed'[p][k] THEN "wifi_on" ELSE "data_on")
    /\ UNCHANGED <<ownData, wifi, data, shape, saw, raced, kept>>

\* svc wifi enable, whatever the journal says.  When the command fails the
\* restore throws and the entry stays.
EnablesWifi(p, k) ==
    /\ at[p][k] = "wifi_on"
    /\ \/ Works /\ wifi' = [wifi EXCEPT ![p] = TRUE] /\ To(p, k, "data_on")
       \/ /\ Fails(p)
          /\ wifi' \in {wifi, [wifi EXCEPT ![p] = TRUE]}
          /\ \E there \in {"data_on", "idle"} : To(p, k, there)
    /\ Forgets(p, k, at'[p][k] = "idle")
    /\ UNCHANGED <<ownData, data, shape, raced, kept>>

\* Slip: data is switched on with wifi.
EnablesAnyData(p, k) ==
    /\ at[p][k] = "data_on"
    /\ data' = [data EXCEPT ![p] = TRUE]
    /\ To(p, k, "confirm")
    /\ UNCHANGED <<ownData, wifi, shape, saw, needed, failed, raced, kept>>

\* svc data enable, only if the entry says data was on; a failure is ignored.
EnablesData(p, k) ==
    /\ at[p][k] = "data_on"
    /\ IF saw[p][k] = "on"
       THEN \/ Works /\ data' = [data EXCEPT ![p] = TRUE]
            \/ Fails(p) /\ UNCHANGED data
       ELSE UNCHANGED <<data, failed>>
    /\ To(p, k, "confirm")
    /\ UNCHANGED <<ownData, wifi, shape, saw, needed, raced, kept>>

\* A phone that was found off the network must read as back on it, or the entry
\* stays.  One that was not is not looked at again.
Confirms(p, k) ==
    /\ at[p][k] = "confirm"
    /\ \/ Works /\ shape' = [shape EXCEPT ![p] = IF needed[p][k] /\ ~wifi[p] THEN @ ELSE NoShape]
       \/ Fails(p) /\ needed[p][k] /\ UNCHANGED shape
    /\ To(p, k, "idle")
    /\ Forgets(p, k, TRUE)
    /\ UNCHANGED <<ownData, wifi, data, raced, kept>>

-----------------------------------------------------------------------------
(***************************************************************************)
(* The executor dies, and comes back                                       *)
(***************************************************************************)

\* Tasks and timers go with the process; the phones stay as they are.
ShapeLost ==
    /\ at' = [p \in Phones |-> [k \in Tasks |-> "idle"]]
    /\ saw' = [p \in Phones |-> [k \in Tasks |-> NoShape]]
    /\ needed' = [p \in Phones |-> [k \in Tasks |-> FALSE]]
    /\ failed' = {}
    /\ raced' = {}
    /\ kept' = {}
    /\ UNCHANGED <<ownData, wifi, data>>

\* So does the journal.
ShapeCrash == ShapeLost /\ UNCHANGED shape

\* Where a task rewrites the journal: to put an entry or to drop one.
Rewrites(p, k) ==
    \/ at[p][k] = "read"
    \/ at[p][k] = "confirm" /\ shape[p] # NoShape /\ (needed[p][k] => wifi[p])

\* Killed as it rewrites the journal, the executor leaves a file cut short, read
\* as one without entries.
ShapeTear == ShapeLost /\ shape' = [p \in Phones |-> NoShape]

\* restoreAttached comes to an attached phone.
ShapeSweep(p) ==
    /\ at[p]["job"] = "idle"
    /\ To(p, "job", "look")
    /\ UNCHANGED <<ownData, wifi, data, shape, saw, needed, failed, raced, kept>>

TaskSteps(p, k) ==
    \/ Journals(p, k) \/ DisablesWifi(p, k) \/ DisablesData(p, k) \/ Checks(p, k)
    \/ Looks(p, k) \/ Sees(p, k) \/ EnablesWifi(p, k) \/ EnablesData(p, k) \/ Confirms(p, k)

ShapeSteps(p) == Fires(p) \/ Ends(p) \/ \E k \in Tasks : TaskSteps(p, k)

-----------------------------------------------------------------------------
(***************************************************************************)
(* Properties                                                              *)
(***************************************************************************)

\* A job that goes offline before it runs runs without wifi, and with cellular
\* data only where the command to disable that failed, which nothing looks at: no
\* command that did nothing to the wifi is taken for one that worked, and no
\* restore of an earlier job brings the phone back under this one, unless that
\* one's timer had raced with its end.
OfflineUnderTest ==
    \A p \in Phones \ raced :
        at[p]["job"] = "running" => ~wifi[p] /\ (data[p] => p \in kept)

\* Cellular data is switched on only where its owner had it on, whatever
\* crashes, failed reads, overwritten entries and overlapping restores come
\* together: a metered SIM is never put to work.
OwnersDataLeftAlone == \A p \in Phones : data[p] => ownData[p]

=============================================================================
