---------------------------- MODULE DeviceProofs ----------------------------
(***************************************************************************)
(* What jobs do to phones and to devices' settings is put back or on       *)
(* record: proofs, for any phones, targets, settings and values.           *)
(***************************************************************************)
EXTENDS DeviceExecutor, TLAPS

USE NetworkShapeAssumption, DeviceStateAssumption
    DEF NetworkShapeAssumption, DeviceStateAssumption

\* Data is on, or recorded or seen as having been on, only where its owner had it.
OwnersData ==
    \A p \in Phones :
        /\ data[p] => ownData[p]
        /\ shape[p] = "on" => ownData[p]
        /\ \A k \in Tasks : saw[p][k] = "on" => ownData[p]

\* Until a timer fires as its job ends, it works under a delayed job only.
TimersHaveJobs ==
    \A p \in Phones \ raced :
        /\ at[p]["timer"] = "idle" \/ at[p]["job"] = "delayed"
        /\ at[p]["job"] = "running" => ~wifi[p]

\* The job's task is past data_off with cellular data off, or its command failed.
DataOff ==
    \A p \in Phones \ raced :
        at[p]["job"] \in {"check", "running"} => (data[p] => p \in kept)

\* The job's task has a phone that answers back on the network by the time it
\* is through.
Reaches(p) ==
    /\ at[p]["job"] \in {"data_on", "confirm"} => wifi[p]
    /\ at[p]["job"] = "idle" /\ (up = "phones" => p \notin toSweep) => wifi[p]

BackOnline ==
    /\ up = "down" => QuietPhones
    /\ up # "down" => \A p \in Phones \ (failed \union skipped \union raced) : Reaches(p)

\* Outside overwritten and torn targets the journal holds the owner's values, and there is
\* an entry while a job's changes are made.
OnRecord ==
    \A t \in Targets \ (overwritten \union torn) :
        /\ journal[t] \in {NoEntry, Own[t]}
        /\ setting[t] # Own[t] => journal[t] # NoEntry
        /\ step[t] \in {"applying", "undoing", "applied"} => journal[t] # NoEntry

\* A restore without problems has put back what it has treated.
PuttingBack ==
    \A t \in Targets :
        Restoring(t) /\ journal[t] # NoEntry /\ t \notin problems =>
            \A n \in Names \ todo[t] : setting[t][n] = journal[t][n]

ShapeInv == ShapeTypeOK /\ OwnersData /\ TimersHaveJobs /\ DataOff
StateInv == StateTypeOK /\ OnRecord /\ RunsAsAsked /\ PuttingBack

DeviceInv ==
    /\ ExecutorTypeOK
    /\ ShapeInv
    /\ BackOnline
    /\ StateInv

-----------------------------------------------------------------------------

LEMMA ToMoves ==
  ASSUME at \in [Phones -> [Tasks -> At]],
         NEW p \in Phones, NEW k \in Tasks, NEW there \in At, To(p, k, there)
  PROVE  /\ at' \in [Phones -> [Tasks -> At]]
         /\ at'[p][k] = there
         /\ \A q \in Phones, j \in Tasks : q # p \/ j # k => at'[q][j] = at[q][j]
BY DEF To

\* The steps of apply, of the timer and of the sweep on phone p.
Begins(p) == ShapeNow(p) \/ ShapeLater(p) \/ Fires(p) \/ Ends(p) \/ ShapeSweep(p)

LEMMA BeginsMove ==
  ASSUME ShapeInv, NEW p \in Phones, Begins(p)
  PROVE  /\ at' \in [Phones -> [Tasks -> At]]
         /\ \A q \in Phones \ {p} : at'[q] = at[q]
         /\ UNCHANGED <<ownData, wifi, data, shape, saw, needed, failed, kept>>
         /\ \/ /\ at[p]["job"] = "idle" /\ raced' = raced
               /\ at'[p]["job"] \in {"read", "look"} /\ at'[p]["timer"] = at[p]["timer"]
            \/ /\ at[p]["job"] = "idle" /\ raced' = raced
               /\ at'[p]["job"] = "delayed" /\ at'[p]["timer"] = "armed"
            \/ /\ at[p]["timer"] = "armed" /\ raced' = raced
               /\ at'[p]["timer"] = "read" /\ at'[p]["job"] = at[p]["job"]
            \/ /\ at[p]["timer"] \in {"idle", "armed"} /\ raced' = raced
               /\ at'[p]["timer"] = "idle" /\ at'[p]["job"] = "look"
            \/ /\ raced' = raced \union {p}
               /\ at'[p]["timer"] = at[p]["timer"] /\ at'[p]["job"] = "look"
<1>1. at \in [Phones -> [Tasks -> At]] /\ "job" \in Tasks /\ "timer" \in Tasks
  BY DEF ShapeInv, ShapeTypeOK, Tasks
<1>2. {"read", "look", "delayed", "armed", "idle"} \subseteq At
  BY DEF At, Offline, Restore
<1>3. CASE ShapeNow(p)
  BY <1>1, <1>2, <1>3 DEF ShapeNow, To
<1>4. CASE ShapeLater(p)
  BY <1>1, <1>2, <1>4 DEF ShapeLater
<1>5. CASE Fires(p)
  BY <1>1, <1>2, <1>5 DEF Fires, To
<1>6. CASE Ends(p)
  BY <1>1, <1>2, <1>6 DEF Ends
<1>7. CASE ShapeSweep(p)
  BY <1>1, <1>2, <1>7 DEF ShapeSweep, To
<1> QED BY <1>3, <1>4, <1>5, <1>6, <1>7 DEF Begins

\* What a step of task k of phone p does, where it goes from and to.
LEMMA TaskMoves ==
  ASSUME ShapeInv, NEW p \in Phones, NEW k \in Tasks, TaskSteps(p, k)
  PROVE  /\ at' \in [Phones -> [Tasks -> At]]
         /\ \A q \in Phones, j \in Tasks : q # p \/ j # k => at'[q][j] = at[q][j]
         /\ at[p][k] \in Offline \union Restore
         /\ \/ at'[p][k] \in (Offline \union Restore \union {"idle"}) \ {"read"}
            \/ k = "job" /\ at'[p][k] = "running" /\ ~wifi[p] /\ wifi' = wifi
         /\ ownData' = ownData /\ raced' = raced
         /\ failed' \in {failed, failed \union {p}}
<1> USE DEF To, At, Offline, Restore, Under, Works, Fails, Tasks, ShapeInv, ShapeTypeOK
<1>1. CASE Journals(p, k)
  BY <1>1 DEF Journals
<1>2. CASE DisablesWifi(p, k)
  <2>1. PICK there \in {"data_off", "idle"} : To(p, k, there)
    BY <1>2 DEF DisablesWifi
  <2> QED BY <1>2, <2>1 DEF DisablesWifi
<1>3. CASE DisablesData(p, k)
  <2>1. To(p, k, "check") /\ at[p][k] = "data_off" /\ UNCHANGED <<ownData, raced>>
    BY <1>3, Zenon DEF DisablesData
  <2>2. failed' = failed \/ failed' = failed \union {p}
    BY <1>3, Zenon DEF DisablesData
  <2> QED BY <2>1, <2>2
<1>4. CASE Checks(p, k)
  <2>1. UNCHANGED <<ownData, wifi, raced>> /\ at[p][k] = "check"
    BY <1>4, Zenon DEF Checks
  <2>2. failed' = failed \/ failed' = failed \union {p}
    BY <1>4, Zenon DEF Checks
  <2>3. To(p, k, "look") \/ (~wifi[p] /\ To(p, k, Under(k)))
    BY <1>4, Zenon DEF Checks
  <2>4. CASE To(p, k, "look")
    BY <2>1, <2>2, <2>4
  <2>5. CASE ~wifi[p] /\ To(p, k, Under(k))
    BY <2>1, <2>2, <2>5
  <2> QED BY <2>3, <2>4, <2>5
<1>5. CASE Looks(p, k)
  BY <1>5 DEF Looks
<1>6. CASE Sees(p, k)
  BY <1>6 DEF Sees
<1>7. CASE EnablesWifi(p, k)
  <2>1. PICK there \in {"data_on", "idle"} : To(p, k, there)
    BY <1>7 DEF EnablesWifi
  <2> QED BY <1>7, <2>1 DEF EnablesWifi
<1>8. CASE EnablesData(p, k)
  BY <1>8 DEF EnablesData
<1>9. CASE Confirms(p, k)
  BY <1>9 DEF Confirms
<1> QED BY <1>1, <1>2, <1>3, <1>4, <1>5, <1>6, <1>7, <1>8, <1>9 DEF TaskSteps

\* What it reads, writes and journals.
LEMMA TaskWrites ==
  ASSUME ShapeInv, NEW p \in Phones, NEW k \in Tasks, TaskSteps(p, k)
  PROVE  /\ wifi' \in [Phones -> BOOLEAN] /\ data' \in [Phones -> BOOLEAN]
         /\ shape' \in [Phones -> Entry]
         /\ saw' \in [Phones -> [Tasks -> Entry]] /\ needed' \in [Phones -> [Tasks -> BOOLEAN]]
         /\ OwnersData'
<1> USE DEF ShapeInv, ShapeTypeOK, OwnersData, Entry, Works, Fails
<1>1. CASE Journals(p, k)
  BY <1>1 DEF Journals
<1>2. CASE DisablesWifi(p, k)
  BY <1>2 DEF DisablesWifi
<1>3. CASE DisablesData(p, k)
  BY <1>3 DEF DisablesData
<1>4. CASE Checks(p, k)
  BY <1>4 DEF Checks
<1>5. CASE Looks(p, k)
  BY <1>5 DEF Looks
<1>6. CASE Sees(p, k)
  <2>1. PICK b \in BOOLEAN : needed' = [needed EXCEPT ![p][k] = b]
    BY <1>6, Zenon DEF Sees
  <2> QED BY <1>6, <2>1 DEF Sees
<1>7. CASE EnablesWifi(p, k)
  BY <1>7 DEF EnablesWifi, Forgets
<1>8. CASE EnablesData(p, k)
  BY <1>8 DEF EnablesData
<1>9. CASE Confirms(p, k)
  BY <1>9 DEF Confirms, Forgets
<1> QED BY <1>1, <1>2, <1>3, <1>4, <1>5, <1>6, <1>7, <1>8, <1>9 DEF TaskSteps

\* Wifi is switched by its phone's task only, and switched on by a restore.
LEMMA TaskSwitches ==
  ASSUME ShapeInv, NEW p \in Phones, NEW k \in Tasks, TaskSteps(p, k)
  PROVE  /\ \A q \in Phones \ {p} : wifi'[q] = wifi[q]
         /\ wifi'[p] # wifi[p] => at[p][k] \in {"wifi_off", "wifi_on"}
         /\ p \notin failed' /\ at'[p][k] \in {"data_on", "confirm", "idle"} =>
               \/ at[p][k] \in {"data_on", "confirm"} /\ wifi'[p] = wifi[p]
               \/ wifi'[p]
               \/ k = "timer"
<1> USE DEF To, ShapeInv, ShapeTypeOK, Under, Works, Fails, Tasks
<1>1. CASE Journals(p, k)
  BY <1>1 DEF Journals
<1>2. CASE DisablesWifi(p, k)
  BY <1>2 DEF DisablesWifi
<1>3. CASE DisablesData(p, k)
  BY <1>3 DEF DisablesData
<1>4. CASE Checks(p, k)
  BY <1>4 DEF Checks
<1>5. CASE Looks(p, k)
  BY <1>5 DEF Looks
<1>6. CASE Sees(p, k)
  BY <1>6 DEF Sees
<1>7. CASE EnablesWifi(p, k)
  BY <1>7 DEF EnablesWifi
<1>8. CASE EnablesData(p, k)
  BY <1>8 DEF EnablesData
<1>9. CASE Confirms(p, k)
  BY <1>9 DEF Confirms
<1> QED BY <1>1, <1>2, <1>3, <1>4, <1>5, <1>6, <1>7, <1>8, <1>9 DEF TaskSteps

\* Data is switched off, or kept on, on the way to the check, and on by a restore.
LEMMA TaskDatas ==
  ASSUME ShapeInv, NEW p \in Phones, NEW k \in Tasks, TaskSteps(p, k)
  PROVE  /\ kept' \in SUBSET Phones
         /\ \A q \in Phones \ {p} : data'[q] = data[q] /\ (q \in kept => q \in kept')
         /\ at'[p][k] = "check" => (data'[p] => p \in kept')
         /\ at'[p][k] = "running" => at[p][k] = "check" /\ data' = data /\ kept' = kept
<1> USE DEF To, ShapeInv, ShapeTypeOK, Under, Works, Fails, Tasks
<1>1. CASE Journals(p, k)
  BY <1>1 DEF Journals
<1>2. CASE DisablesWifi(p, k)
  BY <1>2 DEF DisablesWifi
<1>3. CASE DisablesData(p, k)
  BY <1>3 DEF DisablesData
<1>4. CASE Checks(p, k)
  BY <1>4 DEF Checks
<1>5. CASE Looks(p, k)
  BY <1>5 DEF Looks
<1>6. CASE Sees(p, k)
  BY <1>6 DEF Sees
<1>7. CASE EnablesWifi(p, k)
  BY <1>7 DEF EnablesWifi
<1>8. CASE EnablesData(p, k)
  BY <1>8 DEF EnablesData
<1>9. CASE Confirms(p, k)
  BY <1>9 DEF Confirms
<1> QED BY <1>1, <1>2, <1>3, <1>4, <1>5, <1>6, <1>7, <1>8, <1>9 DEF TaskSteps

LEMMA TasksKeep ==
  ASSUME ShapeInv, NEW p \in Phones, NEW k \in Tasks, TaskSteps(p, k)
  PROVE  ShapeInv'
<1>1. ShapeTypeOK'
  <2>1. ASSUME NEW q \in Phones
        PROVE  at'[q]["job"] # "armed" /\ at'[q]["timer"] \notin {"running", "delayed"}
    <3>1. at[q]["job"] # "armed" /\ at[q]["timer"] \notin {"running", "delayed"}
      BY DEF ShapeInv, ShapeTypeOK
    <3>2. CASE q # p
      BY <3>1, <3>2, TaskMoves DEF Tasks
    <3>3. CASE q = p /\ k = "job"
      BY <3>1, <3>3, TaskMoves DEF Tasks, Offline, Restore
    <3>4. CASE q = p /\ k = "timer"
      BY <3>1, <3>4, TaskMoves DEF Tasks, Offline, Restore
    <3> QED BY <3>2, <3>3, <3>4 DEF Tasks
  <2>2. /\ at' \in [Phones -> [Tasks -> At]]
        /\ failed' \in SUBSET Phones /\ raced' \in SUBSET Phones
        /\ ownData' \in [Phones -> BOOLEAN]
    <3>1. /\ at' \in [Phones -> [Tasks -> At]]
          /\ ownData' = ownData /\ raced' = raced
          /\ failed' \in {failed, failed \union {p}}
      BY TaskMoves
    <3> QED BY <3>1 DEF ShapeInv, ShapeTypeOK
  <2> QED BY <2>1, <2>2, TaskWrites, TaskDatas DEF ShapeTypeOK
<1>2. TimersHaveJobs'
  <2> SUFFICES ASSUME NEW q \in Phones, q \notin raced
               PROVE  /\ at'[q]["timer"] = "idle" \/ at'[q]["job"] = "delayed"
                      /\ at'[q]["job"] = "running" => ~wifi'[q]
    BY TaskMoves DEF TimersHaveJobs
  <2>1. /\ at[q]["timer"] = "idle" \/ at[q]["job"] = "delayed"
        /\ at[q]["job"] = "running" => ~wifi[q]
    BY DEF ShapeInv, TimersHaveJobs
  <2>2. CASE q # p
    BY <2>1, <2>2, TaskMoves, TaskSwitches DEF Tasks
  <2>3. CASE q = p /\ k = "job"
    BY <2>1, <2>3, TaskMoves, TaskSwitches DEF Tasks, Offline, Restore
  <2>4. CASE q = p /\ k = "timer"
    BY <2>1, <2>4, TaskMoves, TaskSwitches DEF Tasks, Offline, Restore
  <2> QED BY <2>2, <2>3, <2>4 DEF Tasks
<1>3. DataOff'
  <2> SUFFICES ASSUME NEW q \in Phones, q \notin raced,
                      at'[q]["job"] \in {"check", "running"}, data'[q]
               PROVE  q \in kept'
    BY TaskMoves DEF DataOff
  <2>1. at[q]["job"] \in {"check", "running"} => (data[q] => q \in kept)
    BY DEF ShapeInv, DataOff
  <2>2. at[q]["timer"] = "idle" \/ at[q]["job"] = "delayed"
    BY DEF ShapeInv, TimersHaveJobs
  <2>3. CASE q # p
    BY <2>1, <2>3, TaskMoves, TaskDatas DEF Tasks
  <2>4. CASE q = p /\ k = "job"
    BY <2>1, <2>4, TaskDatas
  <2>5. CASE q = p /\ k = "timer"
    BY <2>2, <2>5, TaskMoves DEF Tasks, Offline, Restore
  <2> QED BY <2>3, <2>4, <2>5 DEF Tasks
<1> QED BY <1>1, <1>2, <1>3, TaskWrites DEF ShapeInv

LEMMA BeginsKeep ==
  ASSUME ShapeInv, NEW p \in Phones, Begins(p)
  PROVE  ShapeInv'
<1>1. ShapeTypeOK'
  <2>1. ASSUME NEW q \in Phones
        PROVE  at'[q]["job"] # "armed" /\ at'[q]["timer"] \notin {"running", "delayed"}
    BY BeginsMove DEF ShapeInv, ShapeTypeOK
  <2>2. /\ raced' \in SUBSET Phones
        /\ UNCHANGED <<ownData, wifi, data, shape, saw, needed, failed, kept>>
    <3>1. raced' \in {raced, raced \union {p}}
      BY BeginsMove
    <3> QED BY <3>1, BeginsMove DEF ShapeInv, ShapeTypeOK
  <2> QED BY <2>1, <2>2, BeginsMove DEF ShapeInv, ShapeTypeOK
<1>2. TimersHaveJobs'
  BY BeginsMove DEF ShapeInv, TimersHaveJobs
<1>3. OwnersData'
  BY BeginsMove DEF ShapeInv, OwnersData
<1>4. DataOff'
  <2> SUFFICES ASSUME NEW q \in Phones, q \notin raced',
                      at'[q]["job"] \in {"check", "running"}, data'[q]
               PROVE  q \in kept'
    BY DEF DataOff
  <2>1. q \notin raced /\ at[q]["job"] = at'[q]["job"]
    BY BeginsMove
  <2> QED BY <2>1, BeginsMove DEF ShapeInv, DataOff
<1> QED BY <1>1, <1>2, <1>3, <1>4 DEF ShapeInv

LEMMA CrashesKeep ==
  ASSUME ShapeInv, ShapeCrash \/ ShapeTear
  PROVE  ShapeInv' /\ QuietPhones'
<1>0. ShapeLost /\ (shape' = shape \/ shape' = [p \in Phones |-> NoShape])
  BY DEF ShapeCrash, ShapeTear
<1>1. ShapeTypeOK'
  BY <1>0 DEF ShapeInv, ShapeTypeOK, ShapeLost, At, Entry, Tasks
<1>2. TimersHaveJobs' /\ QuietPhones' /\ DataOff'
  BY <1>0 DEF TimersHaveJobs, QuietPhones, DataOff, ShapeLost, Tasks
<1>3. OwnersData'
  BY <1>0 DEF ShapeInv, OwnersData, ShapeLost, NetworkShapeAssumption
<1> QED BY <1>1, <1>2, <1>3 DEF ShapeInv

-----------------------------------------------------------------------------

\* A phone's own steps bring it back online, or find that it does not answer.
LEMMA TasksReach ==
  ASSUME ShapeInv, NEW p \in Phones, NEW k \in Tasks, TaskSteps(p, k), up # "down",
         BackOnline, UNCHANGED executorVars
  PROVE  BackOnline'
<1> SUFFICES ASSUME NEW q \in Phones, q \notin failed', q \notin skipped, q \notin raced
             PROVE  Reaches(q)'
  BY TaskMoves DEF BackOnline, executorVars
<1>1. Reaches(q) /\ q \notin failed
  BY TaskMoves DEF BackOnline
<1>2. at[q]["timer"] = "idle" \/ at[q]["job"] = "delayed"
  BY DEF ShapeInv, TimersHaveJobs
<1>3. CASE q # p
  BY <1>1, <1>3, TaskMoves, TaskSwitches DEF Reaches, Tasks, executorVars
<1>4. CASE q = p /\ k = "timer"
  BY <1>1, <1>2, <1>4, TaskMoves, TaskSwitches DEF Reaches, Tasks, Offline, Restore, executorVars
<1>5. CASE q = p /\ k = "job"
  BY <1>1, <1>5, TaskMoves, TaskSwitches DEF Reaches, Tasks, executorVars
<1> QED BY <1>3, <1>4, <1>5 DEF Tasks

LEMMA BeginsReach ==
  ASSUME ShapeInv, NEW p \in Phones, Begins(p), up # "down", up' = up, skipped' = skipped,
         BackOnline, toSweep' = toSweep \/ (toSweep' = toSweep \ {p} /\ ShapeSweep(p))
  PROVE  BackOnline'
<1> SUFFICES ASSUME NEW q \in Phones, q \notin failed, q \notin skipped, q \notin raced'
             PROVE  Reaches(q)'
  BY BeginsMove DEF BackOnline
<1>1. Reaches(q)
  BY BeginsMove DEF BackOnline
<1>2. at[q]["timer"] = "idle" \/ at[q]["job"] = "delayed"
  BY BeginsMove DEF ShapeInv, TimersHaveJobs
<1>3. CASE q # p
  BY <1>1, <1>3, BeginsMove DEF Reaches
<1>4. CASE q = p /\ toSweep' = toSweep
  BY <1>1, <1>2, <1>4, BeginsMove DEF Reaches
<1>5. CASE q = p /\ ShapeSweep(p)
  BY <1>5, ToMoves DEF ShapeSweep, Reaches, ShapeInv, ShapeTypeOK, At, Restore, Tasks
<1> QED BY <1>3, <1>4, <1>5

-----------------------------------------------------------------------------

\* Changing one setting of one target.
LEMMA SettingChanged ==
  ASSUME setting \in [Targets -> [Names -> Values]],
         NEW t \in Targets, NEW n \in Names, NEW v \in Values,
         setting' = [setting EXCEPT ![t][n] = v]
  PROVE  /\ setting' \in [Targets -> [Names -> Values]]
         /\ setting'[t] = [setting[t] EXCEPT ![n] = v]
         /\ \A u \in Targets \ {t} : setting'[u] = setting[u]
<1>1. [setting[t] EXCEPT ![n] = v] \in [Names -> Values]
  OBVIOUS
<1>2. setting' = [setting EXCEPT ![t] = [setting[t] EXCEPT ![n] = v]]
  OBVIOUS
<1> QED BY <1>1, <1>2

LEMMA GoMoves ==
  ASSUME StateTypeOK, NEW t \in Targets, NEW where \in Step, NEW names \in SUBSET Names,
         Go(t, where, names)
  PROVE  /\ step' \in [Targets -> Step] /\ todo' \in [Targets -> SUBSET Names]
         /\ step'[t] = where /\ todo'[t] = names
         /\ \A u \in Targets \ {t} : step'[u] = step[u] /\ todo'[u] = todo[u]
BY DEF Go, StateTypeOK

\* Every step on a target but the writes themselves.
LEMMA StateKeeps ==
  ASSUME StateInv, NEW t \in Targets, Apply(t) \/ StateSteps(t) \/ StateSweep(t)
  PROVE  StateInv'
<1> USE DEF StateInv, Step
<1>a. StateTypeOK
  OBVIOUS
<1>1. CASE Apply(t)
  <2>1. /\ step' \in [Targets -> Step] /\ todo' \in [Targets -> SUBSET Names]
        /\ step'[t] = "applying" /\ todo'[t] = Names
        /\ \A u \in Targets \ {t} : step'[u] = step[u] /\ todo'[u] = todo[u]
    BY <1>1, <1>a, GoMoves DEF Apply
  <2>t. StateTypeOK'
    BY <1>1, <2>1 DEF Apply, StateTypeOK
  <2>r. OnRecord'
    BY <1>1, <2>1 DEF Apply, StateTypeOK, OnRecord
  <2>w. RunsAsAsked'
    BY <1>1, <2>1 DEF Apply, RunsAsAsked
  <2>p. PuttingBack'
    BY <1>1, <2>1 DEF Apply, PuttingBack, Restoring
  <2> QED BY <2>t, <2>r, <2>w, <2>p
<1>2. ASSUME NEW n \in Names, Write(t, n)
      PROVE  StateInv'
  <2>1. /\ step' \in [Targets -> Step] /\ todo' \in [Targets -> SUBSET Names]
        /\ step'[t] \in {"applying", "undoing"} /\ (step'[t] = "undoing" => todo'[t] = Names)
        /\ \A u \in Targets \ {t} : step'[u] = step[u] /\ todo'[u] = todo[u]
    <3>1. todo[t] \ {n} \in SUBSET Names
      BY <1>a DEF StateTypeOK
    <3> QED BY <1>2, <1>a, <3>1, GoMoves DEF Write
  <2>2. /\ setting' \in [Targets -> [Names -> Values]]
        /\ \A u \in Targets \ {t} : setting'[u] = setting[u]
    <3>1. Wanted[n] \in Values
      OBVIOUS
    <3>2. setting' = setting \/ setting' = [setting EXCEPT ![t][n] = Wanted[n]]
      BY <1>2 DEF Write
    <3> QED BY <3>1, <3>2, SettingChanged DEF StateTypeOK
  <2>t. StateTypeOK'
    BY <1>2, <2>1, <2>2 DEF Write, StateTypeOK
  <2>r. OnRecord'
    BY <1>2, <2>1, <2>2 DEF Write, StateTypeOK, OnRecord
  <2>w. RunsAsAsked'
    BY <1>2, <2>1, <2>2 DEF Write, RunsAsAsked
  <2>p. PuttingBack'
    BY <1>2, <2>1, <2>2 DEF Write, PuttingBack, Restoring
  <2> QED BY <2>t, <2>r, <2>w, <2>p
<1>3. ASSUME NEW n \in Names, PutBack(t, n)
      PROVE  StateInv'
  <2>1. journal[t] \in [Names -> Values]
    BY <1>3 DEF PutBack, StateTypeOK
  <2>2. /\ setting' \in [Targets -> [Names -> Values]]
        /\ \A u \in Targets \ {t} : setting'[u] = setting[u]
        /\ t \in problems' \/ setting'[t] = [setting[t] EXCEPT ![n] = journal[t][n]]
        /\ todo' = [todo EXCEPT ![t] = @ \ {n}] /\ todo'[t] = todo[t] \ {n}
        /\ problems' \in {problems, problems \union {t}}
        /\ journal' = journal /\ step' = step /\ UNCHANGED <<overwritten, torn>>
    <3>1. \/ setting' = [setting EXCEPT ![t][n] = journal[t][n]]
          \/ setting' = setting /\ problems' = problems \union {t}
      BY <1>3 DEF PutBack
    <3>2. /\ todo' = [todo EXCEPT ![t] = @ \ {n}]
          /\ problems' \in {problems, problems \union {t}}
          /\ journal' = journal /\ step' = step /\ UNCHANGED <<overwritten, torn>>
      BY <1>3 DEF PutBack
    <3>3. setting \in [Targets -> [Names -> Values]] /\ todo \in [Targets -> SUBSET Names]
      BY DEF StateTypeOK
    <3>4. /\ setting' \in [Targets -> [Names -> Values]]
          /\ \A u \in Targets \ {t} : setting'[u] = setting[u]
          /\ t \in problems' \/ setting'[t] = [setting[t] EXCEPT ![n] = journal[t][n]]
      <4>1. journal[t][n] \in Values
        BY <2>1
      <4> QED BY <3>1, <3>2, <3>3, <4>1, SettingChanged
    <3> QED BY <3>2, <3>3, <3>4
  <2>3. StateTypeOK'
    BY <2>2 DEF StateTypeOK
  <2>4. OnRecord'
    BY <1>3, <2>2 DEF OnRecord, PutBack
  <2>5. RunsAsAsked'
    BY <1>3, <2>2 DEF RunsAsAsked, PutBack, Restoring
  <2>6. PuttingBack'
    BY <1>3, <2>1, <2>2 DEF PuttingBack, StateTypeOK, Restoring
  <2> QED BY <2>3, <2>4, <2>5, <2>6
<1>4. CASE Verify(t)
  <2>1. /\ step' \in [Targets -> Step] /\ todo' \in [Targets -> SUBSET Names]
        /\ \/ step'[t] = "applied" /\ setting[t] = Wanted
           \/ step'[t] = "undoing" /\ todo'[t] = Names
        /\ \A u \in Targets \ {t} : step'[u] = step[u] /\ todo'[u] = todo[u]
    BY <1>4, <1>a, GoMoves DEF Verify
  <2>t. StateTypeOK'
    BY <1>4, <2>1 DEF Verify, StateTypeOK
  <2>r. OnRecord'
    BY <1>4, <2>1 DEF Verify, StateTypeOK, OnRecord
  <2>w. RunsAsAsked'
    BY <1>4, <2>1 DEF Verify, RunsAsAsked
  <2>p. PuttingBack'
    BY <1>4, <2>1 DEF Verify, PuttingBack, Restoring
  <2> QED BY <2>t, <2>r, <2>w, <2>p
<1>5. CASE Finish(t) \/ StateSweep(t)
  <2>1. /\ step' \in [Targets -> Step] /\ todo' \in [Targets -> SUBSET Names]
        /\ step'[t] = "restoring" /\ todo'[t] = Names
        /\ \A u \in Targets \ {t} : step'[u] = step[u] /\ todo'[u] = todo[u]
    BY <1>5, <1>a, GoMoves DEF Finish, StateSweep
  <2>t. StateTypeOK'
    BY <1>5, <2>1 DEF Finish, StateSweep, StateTypeOK
  <2>r. OnRecord'
    BY <1>5, <2>1 DEF Finish, StateSweep, StateTypeOK, OnRecord
  <2>w. RunsAsAsked'
    BY <1>5, <2>1 DEF Finish, StateSweep, RunsAsAsked
  <2>p. PuttingBack'
    BY <1>5, <2>1 DEF Finish, StateSweep, PuttingBack, Restoring
  <2> QED BY <2>t, <2>r, <2>w, <2>p
<1>6. CASE Restored(t)
  <2>1. /\ step' \in [Targets -> Step] /\ todo' \in [Targets -> SUBSET Names]
        /\ step'[t] = "idle"
        /\ \A u \in Targets \ {t} : step'[u] = step[u] /\ todo'[u] = todo[u]
    BY <1>6, <1>a, GoMoves DEF Restored
  <2>2. journal[t] # NoEntry /\ t \notin problems => setting[t] = journal[t]
    BY <1>6 DEF Restored, PuttingBack, StateTypeOK
  <2>3. /\ UNCHANGED <<setting, overwritten, torn>>
        /\ journal' \in [Targets -> [Names -> Values] \union {NoEntry}]
        /\ \A u \in Targets \ {t} : journal'[u] = journal[u]
        /\ journal'[t] = IF t \in problems THEN journal[t] ELSE NoEntry
        /\ problems' = problems \ {t}
    BY <1>6 DEF Restored, StateTypeOK
  <2>4. StateTypeOK'
    BY <2>1, <2>3 DEF StateTypeOK
  <2>5. OnRecord'
    BY <2>1, <2>2, <2>3 DEF OnRecord
  <2>6. RunsAsAsked'
    BY <2>1, <2>3 DEF RunsAsAsked
  <2>7. PuttingBack'
    BY <2>1, <2>3 DEF PuttingBack, Restoring
  <2> QED BY <2>4, <2>5, <2>6, <2>7
<1> QED BY <1>1, <1>2, <1>3, <1>4, <1>5, <1>6 DEF StateSteps

LEMMA StateCrashesKeep ==
  ASSUME StateInv, StateCrash \/ StateTear
  PROVE  StateInv'
<1>1. CASE StateCrash
  BY <1>1 DEF StateInv, StateCrash, StateLost, StateTypeOK, OnRecord, RunsAsAsked,
              PuttingBack, Restoring, Step
<1>2. CASE StateTear
  <2>1. StateTypeOK' /\ RunsAsAsked' /\ PuttingBack'
    BY <1>2 DEF StateInv, StateTear, StateLost, StateTypeOK, RunsAsAsked, PuttingBack,
                Restoring, Step
  <2>2. ASSUME NEW t \in Targets, t \notin overwritten, t \notin torn'
        PROVE  setting[t] = Own[t]
    <3>1. t \notin torn /\ journal[t] \in {NoEntry, setting[t]}
      BY <1>2, <2>2 DEF StateTear
    <3> QED BY <2>2, <3>1 DEF StateInv, OnRecord
  <2>3. OnRecord'
    BY <1>2, <2>2 DEF StateTear, StateLost, OnRecord
  <2> QED BY <2>1, <2>3 DEF StateInv
<1> QED BY <1>1, <1>2

-----------------------------------------------------------------------------

LEMMA ShapeStutters ==
  ASSUME ShapeInv, UNCHANGED shapeVars
  PROVE  ShapeInv'
BY DEF shapeVars, ShapeInv, ShapeTypeOK, OwnersData, TimersHaveJobs, DataOff

LEMMA StateStutters ==
  ASSUME StateInv, UNCHANGED stateVars
  PROVE  StateInv'
BY DEF stateVars, StateInv, StateTypeOK, OnRecord, RunsAsAsked, PuttingBack, Restoring

LEMMA InitIsSound == ExecutorInit => DeviceInv
<1> SUFFICES ASSUME ExecutorInit PROVE DeviceInv
  OBVIOUS
<1>1. ShapeInv /\ QuietPhones
  <2>1. /\ data \in [Phones -> BOOLEAN] /\ ownData = data
        /\ shape = [p \in Phones |-> NoShape]
        /\ at = [p \in Phones |-> [k \in Tasks |-> "idle"]]
        /\ saw = [p \in Phones |-> [k \in Tasks |-> NoShape]]
        /\ failed = {} /\ raced = {} /\ kept = {}
    BY DEF ExecutorInit, ShapeInit
  <2>2. /\ wifi \in [Phones -> BOOLEAN]
        /\ needed \in [Phones -> [Tasks -> BOOLEAN]]
    BY Zenon DEF ExecutorInit, ShapeInit
  <2>3. ShapeTypeOK
    BY <2>1, <2>2 DEF ShapeTypeOK, At, Entry, Tasks
  <2>4. OwnersData /\ TimersHaveJobs /\ DataOff /\ QuietPhones
    BY <2>1 DEF OwnersData, TimersHaveJobs, DataOff, QuietPhones, Tasks
  <2> QED BY <2>3, <2>4 DEF ShapeInv
<1>2. StateInv
  <2>1. StateInit
    BY DEF ExecutorInit
  <2>2. StateTypeOK
    BY <2>1 DEF StateInit, StateTypeOK, Step
  <2>3. OnRecord /\ RunsAsAsked /\ PuttingBack
    BY <2>1 DEF StateInit, OnRecord, RunsAsAsked, PuttingBack, Restoring
  <2> QED BY <2>2, <2>3 DEF StateInv
<1>3. up = "down" /\ toSweep = {} /\ skipped = Phones
  BY DEF ExecutorInit
<1> QED BY <1>1, <1>2, <1>3 DEF DeviceInv, ExecutorTypeOK, BackOnline, ShapeInv, StateInv

LEMMA ExecutorKeeps ==
  ASSUME DeviceInv, [ExecutorNext]_allVars
  PROVE  DeviceInv'
<1> USE DEF DeviceInv
<1>a. up \in {"down", "phones", "settings", "working"} /\ toSweep \in SUBSET (Phones \union Targets)
      /\ skipped \in SUBSET Phones
  BY DEF ExecutorTypeOK
<1>b. ASSUME ShapeInv', StateInv',
             up' \in {"down", "phones", "settings", "working"},
             toSweep' \in SUBSET (Phones \union Targets), skipped' \in SUBSET Phones
      PROVE  ExecutorTypeOK'
  BY <1>b DEF ExecutorTypeOK, ShapeInv, StateInv
<1>1. CASE Starts
  <2>1. BackOnline'
    BY <1>1, <1>a DEF Starts, BackOnline, QuietPhones, Reaches, shapeVars, Tasks
  <2> QED BY <1>1, <1>b, <2>1, ShapeStutters, StateStutters DEF Starts
<1>2. CASE TurnsToSettings
  <2>1. BackOnline'
    BY <1>2, <1>a DEF TurnsToSettings, BackOnline, QuietPhones, Reaches, shapeVars, Tasks
  <2> QED BY <1>2, <1>a, <1>b, <2>1, ShapeStutters, StateStutters DEF TurnsToSettings
<1>3. CASE BeginsWork
  <2>1. BackOnline'
    BY <1>3, <1>a DEF BeginsWork, BackOnline, QuietPhones, Reaches, shapeVars, Tasks
  <2> QED BY <1>3, <1>a, <1>b, <2>1, ShapeStutters, StateStutters DEF BeginsWork
<1>4. CASE GoesOn
  <2>1. ASSUME NEW p \in Phones, ShapeSteps(p), UNCHANGED stateVars
        PROVE  DeviceInv'
    <3>1. UNCHANGED executorVars /\ up # "down"
      BY <1>4 DEF GoesOn
    <3>2. CASE Fires(p) \/ Ends(p)
      BY <1>a, <1>b, <2>1, <3>1, <3>2, BeginsKeep, BeginsReach, StateStutters DEF Begins, executorVars
    <3>3. ASSUME NEW k \in Tasks, TaskSteps(p, k)
          PROVE  DeviceInv'
      BY <1>a, <1>b, <2>1, <3>1, <3>3, TasksKeep, TasksReach, StateStutters DEF executorVars
    <3> QED BY <2>1, <3>2, <3>3 DEF ShapeSteps
  <2>2. ASSUME NEW t \in Targets, StateSteps(t), UNCHANGED shapeVars
        PROVE  DeviceInv'
    <3>1. BackOnline'
      BY <1>4, <2>2 DEF GoesOn, BackOnline, QuietPhones, Reaches, shapeVars, executorVars
    <3>2. ShapeInv' /\ StateInv'
      BY <2>2, ShapeStutters, StateKeeps
    <3> QED BY <1>4, <1>a, <1>b, <3>1, <3>2 DEF GoesOn, executorVars
  <2> QED BY <1>4, <2>1, <2>2 DEF GoesOn
<1>5. CASE Dies \/ DiesWriting
  <2>1. Gone /\ (ShapeCrash \/ ShapeTear) /\ (StateCrash \/ StateTear)
    BY <1>5 DEF Dies, DiesWriting
  <2>2. ShapeInv' /\ QuietPhones' /\ StateInv'
    BY <2>1, CrashesKeep, StateCrashesKeep
  <2> QED BY <1>b, <2>1, <2>2 DEF Gone, BackOnline
<1>6. ASSUME NEW p \in Phones, SweepsPhone(p)
      PROVE  DeviceInv'
  <2>1. BackOnline'
    BY <1>6, BeginsReach DEF SweepsPhone, Begins
  <2> QED BY <1>6, <1>a, <1>b, <2>1, BeginsKeep, StateStutters DEF SweepsPhone, Begins
<1>7. ASSUME NEW t \in Targets, SweepsTarget(t)
      PROVE  DeviceInv'
  <2>1. BackOnline'
    BY <1>7 DEF SweepsTarget, BackOnline, QuietPhones, Reaches, shapeVars
  <2> QED BY <1>7, <1>a, <1>b, <2>1, ShapeStutters, StateKeeps DEF SweepsTarget
<1>8. ASSUME NEW p \in Phones, NEW t \in Targets, Jobs(p, t)
      PROVE  DeviceInv'
  <2>1. CASE (ShapeNow(p) \/ ShapeLater(p)) /\ UNCHANGED stateVars
    BY <1>8, <1>a, <1>b, <2>1, BeginsKeep, BeginsReach, StateStutters DEF Jobs, TakesJobs, Begins, executorVars
  <2>2. CASE Apply(t) /\ UNCHANGED shapeVars
    <3>1. BackOnline'
      BY <1>8, <2>2 DEF Jobs, TakesJobs, BackOnline, QuietPhones, Reaches, shapeVars, executorVars
    <3> QED BY <1>8, <1>a, <1>b, <2>2, <3>1, ShapeStutters, StateKeeps DEF Jobs, executorVars
  <2> QED BY <1>8, <2>1, <2>2 DEF Jobs
<1>9. CASE UNCHANGED allVars
  BY <1>9, <1>a, <1>b, ShapeStutters, StateStutters
     DEF allVars, BackOnline, QuietPhones, Reaches, shapeVars, executorVars
<1> QED BY <1>1, <1>2, <1>3, <1>4, <1>5, <1>6, <1>7, <1>8, <1>9 DEF ExecutorNext

-----------------------------------------------------------------------------

\* An entry disappears in Restored, of a restore without problems, or as the
\* executor dies writing the journal.
LEMMA EntriesDropRestored ==
  ASSUME DeviceInv, [ExecutorNext]_allVars,
         NEW t \in Targets, journal[t] # NoEntry, journal'[t] = NoEntry
  PROVE  setting'[t] = journal[t] \/ (up' = "down" /\ t \in torn')
<1>1. StateTypeOK /\ PuttingBack
  BY DEF DeviceInv, StateInv
<1>2. CASE DiesWriting
  <2>1. Gone /\ StateTear
    BY <1>2 DEF DiesWriting, StateCrash
  <2> QED BY <2>1 DEF Gone, StateTear, StateLost
<1>3. CASE ~DiesWriting
  <2>1. PICK u \in Targets : StateSteps(u) \/ Apply(u)
    BY <1>3 DEF ExecutorNext, Starts, TurnsToSettings, BeginsWork, GoesOn, Dies, SweepsPhone,
                SweepsTarget, StateSweep, StateCrash, Jobs, allVars, stateVars
  <2>2. Restored(u)
    <3>1. ~Apply(u)
      BY <1>1 DEF Apply, StateTypeOK, DeviceStateAssumption
    <3> QED BY <2>1, <3>1 DEF StateSteps, Write, PutBack, Verify, Finish
  <2>3. u = t /\ t \notin problems /\ todo[t] = {} /\ Restoring(t) /\ setting' = setting
    BY <1>1, <2>2 DEF Restored, StateTypeOK
  <2>4. \A n \in Names : setting[t][n] = journal[t][n]
    BY <1>1, <2>3 DEF PuttingBack
  <2> QED BY <1>1, <2>3, <2>4 DEF StateTypeOK
<1> QED BY <1>2, <1>3

\* The inductive invariant of phones, settings and their journals.
THEOREM DeviceIsSound == ExecutorSpec => []DeviceInv
BY InitIsSound, ExecutorKeeps, PTL DEF ExecutorSpec

\* Tasks, entries and settings keep their types through failures and crashes.
THEOREM ExecutorTypeCorrect == ExecutorSpec => []ExecutorTypeOK
<1>1. DeviceInv => ExecutorTypeOK
  BY DEF DeviceInv
<1> QED BY <1>1, DeviceIsSound, PTL

\* No failed call and no crash between two steps makes the executor forget a
\* setting it changed, unless it had journalled the target anew over an entry it
\* still had, or was killed amid a rewriting of the journal.
THEOREM ChangesAreOnRecord == ExecutorSpec => []ChangesOnRecord
<1>1. DeviceInv => ChangesOnRecord
  BY DEF DeviceInv, StateInv, OnRecord, ChangesOnRecord
<1> QED BY <1>1, DeviceIsSound, PTL

\* A job runs under exactly the settings it asked for.
THEOREM JobsRunAsAsked == ExecutorSpec => []RunsAsAsked
<1>1. DeviceInv => RunsAsAsked
  BY DEF DeviceInv, StateInv
<1> QED BY <1>1, DeviceIsSound, PTL

\* An entry leaves the journal only with the device as the entry says, or with the
\* executor killed amid a rewriting of the journal.
THEOREM EntriesAreDroppedRestored == ExecutorSpec => DroppedOnlyRestored
<1>1. DeviceInv /\ [ExecutorNext]_allVars =>
        [\A t \in Targets :
            journal[t] # NoEntry /\ journal'[t] = NoEntry =>
                setting'[t] = journal[t] \/ (up' = "down" /\ t \in torn')]_allVars
  BY EntriesDropRestored
<1> QED BY <1>1, DeviceIsSound, PTL DEF ExecutorSpec, DroppedOnlyRestored

\* A job that was to run offline has no wifi, and no cellular data whose disabling
\* did not fail, unless a timer raced with a job's end.
THEOREM OfflineJobsAreOffline == ExecutorSpec => []OfflineUnderTest
<1>1. DeviceInv => OfflineUnderTest
  BY DEF DeviceInv, ShapeInv, TimersHaveJobs, DataOff, OfflineUnderTest
<1> QED BY <1>1, DeviceIsSound, PTL

\* Cellular data is never on where its owner had it off.
THEOREM DataIsTheOwners == ExecutorSpec => []OwnersDataLeftAlone
<1>1. DeviceInv => OwnersDataLeftAlone
  BY DEF DeviceInv, ShapeInv, OwnersData, OwnersDataLeftAlone
<1> QED BY <1>1, DeviceIsSound, PTL

\* A quiet phone that answers is on the network once the executor works.
THEOREM QuietPhonesAreOnline == ExecutorSpec => []QuietPhonesOnline
<1>1. DeviceInv => QuietPhonesOnline
  BY DEF DeviceInv, BackOnline, Reaches, QuietPhonesOnline
<1> QED BY <1>1, DeviceIsSound, PTL

=============================================================================
