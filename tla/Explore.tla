------------------------------ MODULE Explore ------------------------------
(***************************************************************************)
(* One device's night of an explore job, on Android: the mission cards of  *)
(* the night in turn (run_ and exploreDevice of                            *)
(* collector/src/workloads/explore/index.ts), the loop of one mission      *)
(* (runMission of loop.ts), and the replay of what it found on a clean     *)
(* install, on the build under test and on the one before (confirm and     *)
(* onPreviousBuild).                                                       *)
(*                                                                         *)
(* The device is modelled as far as the night depends on it: the build it  *)
(* holds, what was done to the app since it was last cleared, and the      *)
(* app's crash log.  What is in front and on the screen, what the model    *)
(* and the judge say, how severe a problem is and how long things take are *)
(* left open, so a deadline may be found past wherever the code looks at   *)
(* the clock.  Bench nights, devices without a crash log and the wording   *)
(* of a finding are left out.                                              *)
(***************************************************************************)
EXTENDS Naturals, Sequences, FiniteSets

CONSTANTS
    App,           \* job.app: the job names the build to install
    Previous,      \* params.previous_app: it names a build to compare with
    Cards,         \* mission cards in the night's order
    Steps,         \* budget.steps of a mission
    Calls,         \* most calls in one reply of the model
    BackgroundAt,  \* the step at which the app is sent to the background, or 0
    MaxErrors,     \* consecutiveErrors a mission outlives: 3 in the code
    MaxRewarms,    \* times a mission has the model loaded again: 2 in the code
    Attempts,      \* replay_attempts
    Picks,         \* confirm_per_mission; 0 picks one as well
    Cap            \* findings_per_night

ASSUME ExploreAssumption ==
    /\ {Cards, Steps, Calls, BackgroundAt, MaxErrors, MaxRewarms} \subseteq Nat
    /\ {Attempts, Picks, Cap} \subseteq Nat
    /\ App \in BOOLEAN /\ Previous \in BOOLEAN
    /\ Attempts > 0 /\ Picks > 0

\* What the harness does to the app, whether or not the device obeys.  An act it
\* does not write down is "other".
Event == {"action", "home", "relaunch"}
Check == {"crash", "screen", "issue", "goal"}
Build == {"test", "previous"}

VARIABLES
    build,       \* the build on the device
    touched,     \* what was done to the app since it was last cleared
    log,         \* crashes logged past the baseline: "old" ones before that clearing
    baseline,    \* whether crashBaseline is known
    pc,          \* where exploreDevice is
    card,        \* the mission cards behind it
    ran,         \* totals.missions > 0: the device's row will say ok
    newFiled,    \* new findings filed tonight
    i, executed, candidates, rewarms,
    errors,      \* consecutiveErrors
    calls,       \* calls of the model's reply still to carry out
    done, ended, \* endedBy; "endpoint" is "model" with the endpoint's failure last
    current,     \* the candidate in hand
    stage,       \* the build it is replayed on
    attempt, reproduced,
    replied,     \* history: the model replied, or the app was not in front
    foul         \* history: something was believed on evidence not its own

phone == <<build, touched, log, baseline>>
trail == <<executed, candidates>>
progress == <<i, errors, ended>>
talk == <<rewarms, calls, done, replied>>
mission == <<trail, progress, talk>>
night == <<card, ran, newFiled>>
replay == <<current, stage, attempt, reproduced>>
vars == <<phone, pc, night, mission, replay, foul>>

InMission == {"look", "ask", "turn", "over"}
Phase == InMission \union {"card", "reset", "ready", "pick", "attempt", "prepared",
                           "replayed", "file", "putback", "post", "end"}
Ending == {"budget", "time", "device", "model", "endpoint", "answer", "stuck"}
CutOff == {"device", "endpoint"}
Candidate == [check : Check, upTo : Nat, seen : Seq(Event \union {"other"})]
NoCandidate == [check |-> "screen", upTo |-> 0, seen |-> <<>>]

Init ==
    /\ build \in (IF App THEN Build ELSE {"test"})
    /\ touched = <<"other">> /\ log = {} /\ baseline = FALSE
    /\ pc = "card"
    /\ card = 0 /\ ran = FALSE /\ newFiled = 0
    /\ i = 1 /\ executed = <<>> /\ candidates = {} /\ rewarms = 0 /\ errors = 0
    /\ calls = 0 /\ done = FALSE /\ ended = "budget" /\ replied = FALSE
    /\ current = NoCandidate /\ stage = "test" /\ attempt = 1 /\ reproduced = FALSE
    /\ foul = FALSE

-----------------------------------------------------------------------------
(***************************************************************************)
(* The device (actuators/android.ts).  ANRs have a log and a baseline of   *)
(* their own, read with the crash log in the same way.                     *)
(***************************************************************************)

\* Slip: the log is not read, so that what it holds passes for news.
ForgottenNever(ok) == IF log = {} THEN {} ELSE {"old"}

\* Crashes the log holds once a reset forgot the baseline and read it, or failed to.
Forgotten(ok) == IF ok \/ log = {} THEN {} ELSE {"old"}

\* reset: install if there is a file, clear, forget the crashes, launch.
Reset(file) ==
    /\ build' = IF file = "none" THEN build ELSE file
    /\ touched' = <<>>
    /\ \E ok \in BOOLEAN : baseline' = ok /\ log' = Forgotten(ok)

\* A reset that throws: nothing was installed, or the app was not cleared or
\* not launched.  What it did to the baseline the next reset does again.
ResetThrows(file) ==
    /\ build' \in {build, IF file = "none" THEN build ELSE file}
    /\ touched' = <<"other">>
    /\ UNCHANGED <<log, baseline>>

\* crashes: what the log holds past the baseline; all of it is history when the
\* baseline is not known.  A log that cannot be read says there is nothing.
Report(ok) == IF ok /\ baseline THEN log ELSE {}
ReadLog(ok) ==
    /\ log' = IF ok THEN {} ELSE log
    /\ baseline' = (baseline \/ ok)

\* The app crashes on its own time.  A crash while the model thinks is as good as
\* one before its first call is carried out.
AppCrashes ==
    /\ pc \in {"ready", "look", "turn", "prepared", "replayed"}
    /\ log' = log \union {"own"}
    /\ UNCHANGED <<build, touched, baseline, pc, night, mission, replay, foul>>

-----------------------------------------------------------------------------
(***************************************************************************)
(* The cards of the night                                                  *)
(***************************************************************************)

\* No room on the host, or a condition that cannot be set here.
SkipCard ==
    /\ pc = "card" /\ card < Cards
    /\ card' = card + 1
    /\ UNCHANGED <<phone, pc, ran, newFiled, mission, replay, foul>>

StartMission ==
    /\ pc = "card" /\ card < Cards
    /\ pc' = "reset"
    /\ UNCHANGED <<phone, night, mission, replay, foul>>

\* The cards are through, or less than three minutes of the night are left.
EndNight ==
    /\ pc = "card"
    /\ pc' = "end"
    /\ UNCHANGED <<phone, night, mission, replay, foul>>

\* What runMission returns, and what it kept to itself.
Return ==
    /\ i' = 1 /\ rewarms' = 0 /\ errors' = 0 /\ calls' = 0 /\ done' = FALSE
    /\ ended' = "budget" /\ replied' = FALSE

\* A mission and its candidates are forgotten.
Forget ==
    /\ Return
    /\ executed' = <<>> /\ candidates' = {}
    /\ current' = NoCandidate /\ stage' = "test" /\ attempt' = 1 /\ reproduced' = FALSE

\* The mission threw.
Abandon ==
    /\ pc' = "card"
    /\ card' = card + 1
    /\ Forget
    /\ UNCHANGED <<ran, newFiled, foul>>

\* The build a replay or a mission installs, if any.
FileOf(st) == IF st = "previous" THEN "previous" ELSE IF App THEN "test" ELSE "none"

ResetForMission ==
    /\ pc = "reset"
    /\ \/ /\ Reset(FileOf("test"))
          /\ pc' = "ready"
          /\ UNCHANGED <<night, mission, replay, foul>>
       \/ ResetThrows(FileOf("test")) /\ Abandon

\* The setup flow, and the first reading of the log.
BeginMission ==
    /\ pc = "ready"
    /\ \/ /\ \E ok \in BOOLEAN : ReadLog(ok)
          /\ pc' = "look"
          /\ UNCHANGED <<build, touched, night, mission, replay, foul>>
       \/ Abandon /\ UNCHANGED phone

-----------------------------------------------------------------------------
(***************************************************************************)
(* One mission (runMission)                                                *)
(***************************************************************************)

\* What was done to the app, up to and including the first act not written down.
Straight(s) == \A n \in 1..Len(s) : s[n] # "other"
After(s, e) == IF Straight(s) THEN Append(s, e) ELSE s

\* Slip: only what the model did is written down.
RecordedActs(e) == IF e = "action" THEN Append(executed, e) ELSE executed

\* What the harness did, written down for the replay.
Recorded(e) == Append(executed, e)

Flagged(check) ==
    candidates \union {[check |-> check, upTo |-> Len(executed), seen |-> touched]}

\* A check of the harness or a report of the agent, or nothing.  At most one of each
\* kind is noted in a mission: a bound of the model.
MayFlag(check) ==
    \/ UNCHANGED <<candidates, foul>>
    \/ /\ \A c \in candidates : c.check # check
       /\ candidates' = Flagged(check)
       /\ foul' = (foul \/ (App /\ build # "test"))

\* Slip: one more is let pass.
TooManyLate(n) == n > MaxErrors + 1

\* Whether n failed steps in a row end the mission.
TooMany(n) == n > MaxErrors

\* A step failed: the mission goes on with the next one, or ends.
FailStep(why) ==
    /\ errors' = errors + 1
    /\ IF TooMany(errors + 1)
       THEN pc' = "over" /\ ended' = why /\ i' = i
       ELSE pc' = "look" /\ ended' = ended /\ i' = i + 1

StopLooking ==
    /\ pc = "look"
    /\ pc' = "over"
    /\ \/ i > Steps /\ UNCHANGED ended
       \/ i <= Steps /\ ended' = "time"
    /\ UNCHANGED <<phone, night, i, trail, talk, errors, replay, foul>>

LookFails ==
    /\ pc = "look" /\ i <= Steps
    /\ FailStep("device")
    /\ UNCHANGED <<phone, night, trail, talk, replay, foul>>

\* The first look finds blank screenshots over a tree full of text.
CannotBeSeen ==
    /\ pc = "look" /\ i = 1 /\ i <= Steps
    /\ Abandon
    /\ UNCHANGED phone

\* Another app is in front: back, and the app launched again if that was not
\* enough.  Back is not written down, and the crash log is not read.
LooksElsewhere ==
    /\ pc = "look" /\ i <= Steps
    /\ MayFlag("screen")
    /\ \E back \in {touched, After(touched, "other")} :
          \/ touched' = back /\ executed' = executed
          \/ touched' = After(back, "relaunch") /\ executed' = Recorded("relaunch")
    /\ replied' = TRUE
    /\ i' = i + 1
    /\ UNCHANGED <<build, log, baseline, pc, night, rewarms, errors, calls, done, ended>>
    /\ UNCHANGED replay

\* The app is in front; at one step it is sent to the background and brought back.
LooksAtApp ==
    /\ pc = "look" /\ i <= Steps
    /\ MayFlag("screen")
    /\ IF i = BackgroundAt
       THEN touched' = After(touched, "home") /\ executed' = Recorded("home")
       ELSE UNCHANGED <<touched, executed>>
    /\ pc' = "ask"
    /\ UNCHANGED <<build, log, baseline, night, progress, talk, replay>>

\* The app cannot be launched again.
RelaunchThrows ==
    /\ pc = "look" /\ i <= Steps
    /\ Abandon
    /\ UNCHANGED phone

ModelReplies ==
    /\ pc = "ask"
    /\ calls' \in 1..Calls
    /\ errors' = 0 /\ replied' = TRUE
    /\ pc' = "turn"
    /\ UNCHANGED <<phone, night, i, trail, rewarms, done, ended, replay, foul>>

\* A reply with no tool call.
ModelRambles ==
    /\ pc = "ask"
    /\ FailStep("model")
    /\ replied' = TRUE
    /\ UNCHANGED <<phone, night, trail, rewarms, calls, done, replay, foul>>

\* The endpoint failed, or said again that the model is gone.
EndpointFails ==
    /\ pc = "ask"
    /\ FailStep("endpoint")
    /\ UNCHANGED <<phone, night, trail, talk, replay, foul>>

\* Slip: loading the model again is not counted.
RewarmedFreely == rewarms

Rewarmed == rewarms + 1

\* The endpoint says the model is gone and it is loaded again: the step is taken
\* again, or is lost when that fails too.
Rewarm ==
    /\ pc = "ask" /\ rewarms < MaxRewarms
    /\ rewarms' = Rewarmed
    /\ \/ pc' = "look" /\ UNCHANGED progress
       \/ FailStep("endpoint")
    /\ UNCHANGED <<phone, night, trail, calls, done, replied, replay, foul>>

\* A note, a plan, a call that makes no sense or one the leash refused.
CallIdle ==
    /\ pc = "turn" /\ calls > 0
    /\ calls' = calls - 1
    /\ UNCHANGED <<phone, pc, night, progress, trail, rewarms, done, replied, replay, foul>>

CallIssue ==
    /\ pc = "turn" /\ calls > 0
    /\ calls' = calls - 1
    /\ MayFlag("issue")
    /\ UNCHANGED <<phone, pc, night, progress, executed, rewarms, done, replied, replay>>

CallAnswer ==
    /\ pc = "turn" /\ calls > 0
    /\ calls' = calls - 1
    /\ done' = TRUE
    /\ UNCHANGED <<phone, pc, night, progress, trail, rewarms, replied, replay, foul>>

\* An action, or the home key and the app launched again.
CallAct(e) ==
    /\ pc = "turn" /\ calls > 0
    /\ calls' = calls - 1
    /\ touched' = After(touched, e) /\ executed' = Recorded(e)
    /\ UNCHANGED <<build, log, baseline, pc, night, progress, candidates, rewarms, done>>
    /\ UNCHANGED <<replied, replay, foul>>

\* An action that throws is not written down, whether or not it had an effect.
CallActThrows ==
    /\ pc = "turn" /\ calls > 0
    /\ calls' = calls - 1
    /\ touched' \in {touched, After(touched, "other")}
    /\ UNCHANGED <<build, log, baseline, pc, night, progress, trail, rewarms, done>>
    /\ UNCHANGED <<replied, replay, foul>>

CallHomeThrows ==
    /\ pc = "turn" /\ calls > 0
    /\ Abandon
    /\ UNCHANGED phone

\* The crash log after the calls: a crash is a candidate and the app is launched
\* again.  The mission ends with the answer, or after many steps without a new
\* screen.
EndStep ==
    /\ pc = "turn" /\ calls = 0
    /\ \E ok \in BOOLEAN :
          /\ ReadLog(ok)
          /\ IF Report(ok) = {}
             THEN UNCHANGED <<foul, touched, trail>>
             ELSE /\ candidates' = Flagged("crash")
                  /\ foul' = (foul \/ "old" \in log \/ (App /\ build # "test"))
                  /\ touched' = After(touched, "relaunch")
                  /\ executed' = Recorded("relaunch")
    /\ IF done THEN pc' = "over" /\ ended' = "answer" /\ i' = i
       ELSE \/ pc' = "over" /\ ended' = "stuck" /\ i' = i
            \/ pc' = "look" /\ ended' = ended /\ i' = i + 1
    /\ UNCHANGED <<build, night, talk, errors, replay>>

\* The candidates picked for replaying: at least one, at most Picks, the worst first
\* and one of each fingerprint.
Chosen(cs) == IF cs = {} THEN {{}} ELSE {T \in SUBSET cs : Cardinality(T) \in 1..Picks}

\* The end state is judged, unless the mission was cut off or the model gave up.
EndMission ==
    /\ pc = "over"
    /\ \E judged \in BOOLEAN :
          /\ judged => ended \notin CutOff \union {"model"}
          /\ candidates' \in Chosen(IF judged THEN Flagged("goal") ELSE candidates)
          /\ foul' = (foul \/ (judged /\ App /\ build # "test"))
    /\ ran' = (ran \/ ended \notin CutOff)
    /\ pc' = "pick"
    /\ Return
    /\ UNCHANGED <<phone, card, newFiled, executed, replay>>

-----------------------------------------------------------------------------
(***************************************************************************)
(* Replaying and filing (confirm, checkAgain, onPreviousBuild)             *)
(***************************************************************************)

\* The last candidate is behind it; or too little of the night is left to replay
\* another, and then for another card.
CardDone ==
    /\ pc = "pick"
    /\ pc' = IF candidates = {} THEN "card" ELSE "end"
    /\ card' = card + 1
    /\ Forget
    /\ UNCHANGED <<phone, ran, newFiled, foul>>

Pick(c) ==
    /\ pc = "pick" /\ c \in candidates
    /\ pc' = "attempt"
    /\ candidates' = candidates \ {c} /\ current' = c
    /\ stage' = "test" /\ attempt' = 1 /\ reproduced' = FALSE
    /\ UNCHANGED <<phone, night, progress, executed, talk, foul>>

\* An attempt ended, with a hit or without; the previous build gets one.
AttemptOver(hit) ==
    /\ reproduced' = (reproduced \/ (hit /\ stage = "test"))
    /\ IF stage = "test" /\ attempt < Attempts
       THEN attempt' = attempt + 1 /\ pc' = "attempt"
       ELSE attempt' = attempt /\ pc' = IF stage = "test" THEN "file" ELSE "putback"
    /\ UNCHANGED <<night, mission, current, stage>>

ResetForAttempt ==
    /\ pc = "attempt"
    /\ UNCHANGED foul
    /\ \/ /\ Reset(FileOf(stage))
          /\ pc' = "prepared"
          /\ UNCHANGED <<night, mission, replay>>
       \/ ResetThrows(FileOf(stage)) /\ AttemptOver(FALSE)

\* What leads up to a candidate.
Prefix(c) == SubSeq(executed, 1, c.upTo)

\* The setup flow, the log read once more, and the replay, any of which may fail.
Replay ==
    /\ pc = "prepared"
    /\ UNCHANGED <<build, foul>>
    /\ \/ /\ \E ok \in BOOLEAN : ReadLog(ok)
          /\ touched' = Prefix(current)
          /\ pc' = "replayed"
          /\ UNCHANGED <<night, mission, replay>>
       \/ /\ touched' = <<"other">>
          /\ UNCHANGED <<log, baseline>>
          /\ AttemptOver(FALSE)

\* A hit counts for what it is: the defect, on the build that was to be looked
\* at, after what led up to it, and from no crash of an earlier run.
Earned ==
    /\ IF stage = "previous" THEN build = "previous" ELSE App => build = "test"
    /\ touched = Prefix(current)
    /\ current.check = "crash" => "old" \notin log

\* The check is made again: a crash has to be in the log, and to be the same one.
CheckAgain ==
    /\ pc = "replayed"
    /\ \E ok, same \in BOOLEAN :
          LET crash == current.check = "crash"
              hit == same /\ (crash => Report(ok) # {})
          IN /\ IF crash THEN ReadLog(ok) ELSE UNCHANGED <<log, baseline>>
             /\ foul' = (foul \/ (hit /\ ~Earned))
             /\ AttemptOver(hit)
    /\ UNCHANGED <<build, touched>>

\* A crash stands on its log, anything else on having been reproduced; past the
\* cap nothing is filed.
Decide ==
    /\ pc = "file"
    /\ IF (current.check # "crash" /\ ~reproduced) \/ newFiled >= Cap
       THEN pc' = "pick" /\ UNCHANGED <<stage, attempt>>
       ELSE IF Previous /\ reproduced
       THEN pc' = "attempt" /\ stage' = "previous" /\ attempt' = 1
       ELSE pc' = "post" /\ UNCHANGED <<stage, attempt>>
    /\ UNCHANGED <<phone, night, mission, current, reproduced, foul>>

\* The build under test is put back; nobody minds when that fails.
PutBack ==
    /\ pc = "putback"
    /\ Reset(FileOf("test")) \/ ResetThrows(FileOf("test"))
    /\ pc' = "post"
    /\ UNCHANGED <<night, mission, replay, foul>>

\* POST /findings: a new finding, one that is known, or no answer.
Post ==
    /\ pc = "post"
    /\ newFiled' \in {newFiled, newFiled + 1}
    /\ pc' = "pick"
    /\ UNCHANGED <<phone, card, ran, mission, replay, foul>>

-----------------------------------------------------------------------------

Work ==
    \/ SkipCard \/ StartMission \/ EndNight
    \/ ResetForMission \/ BeginMission
    \/ StopLooking \/ LookFails \/ CannotBeSeen
    \/ LooksElsewhere \/ LooksAtApp \/ RelaunchThrows
    \/ ModelReplies \/ ModelRambles \/ EndpointFails \/ Rewarm
    \/ CallIdle \/ CallIssue \/ CallAnswer
    \/ \E e \in {"action", "home"} : CallAct(e)
    \/ CallActThrows \/ CallHomeThrows
    \/ EndStep \/ EndMission
    \/ CardDone
    \/ \E c \in candidates : Pick(c)
    \/ ResetForAttempt \/ Replay \/ CheckAgain \/ Decide \/ PutBack \/ Post

Next == Work \/ AppCrashes

Spec == Init /\ [][Next]_vars

\* Every call the night waits for has a time limit of its own.
FairSpec == Spec /\ WF_vars(Work)

-----------------------------------------------------------------------------
(***************************************************************************)
(* Properties                                                              *)
(***************************************************************************)

PhoneOK ==
    /\ build \in Build /\ log \subseteq {"old", "own"} /\ baseline \in BOOLEAN
    /\ touched \in Seq(Event \union {"other"})
NightOK == pc \in Phase /\ card \in Nat /\ ran \in BOOLEAN /\ newFiled \in Nat
MissionOK ==
    /\ executed \in Seq(Event) /\ candidates \subseteq Candidate
    /\ i \in Nat /\ rewarms \in Nat /\ errors \in Nat /\ calls \in Nat
    /\ done \in BOOLEAN /\ ended \in Ending /\ replied \in BOOLEAN
ReplayOK ==
    current \in Candidate /\ stage \in Build /\ attempt \in Nat /\ reproduced \in BOOLEAN

\* The types of the state of the night, its device, its mission and its replay.
ExploreTypeOK == PhoneOK /\ NightOK /\ MissionOK /\ ReplayOK /\ foul \in BOOLEAN

\* The replay of a candidate repeats exactly what had been done to the app when it
\* was noticed, crashes and trips to the background included, unless something
\* was done that runMission does not write down: the back key pressed to get into
\* the app, or an action that threw.
ReplaysWhatWasDone ==
    \A c \in candidates \union {current} :
        Straight(c.seen) => SubSeq(executed, 1, c.upTo) = c.seen

\* Nothing is believed on evidence not its own: when the job names a build, no
\* candidate is noted on another, although confirm installs the previous one in
\* between and putting the build back may fail; and a hit of a replay is a
\* defect of the build it was to look at, after what led up to it, never a
\* crash that the mission or an earlier attempt left in the log.
EvidenceIsEarned == ~foul

\* A mission in which the model never replied, the app being in front all along, is
\* not judged, and does not make the device's row ok, unless its time ran out:
\* an outage ends it as cut off before its steps are spent.  A mission of as few
\* steps as consecutiveErrors allows is not covered.
OutageIsNotBlamed ==
    [][pc = "over" /\ pc' # "over"
          /\ (ran' # ran \/ \E c \in candidates' : c.check = "goal")
       => replied \/ ended = "time" \/ Steps <= MaxErrors]_vars

\* The night ends, however often the model has to be loaded again, the app
\* crashes or a replay fails.
NightEnds == <>(pc = "end")

=============================================================================
