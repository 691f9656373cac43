---------------------------- MODULE ExploreProofs ----------------------------
(***************************************************************************)
(* What holds of module Explore for every number of cards, steps, calls,   *)
(* failures, attempts and picks, whether or not the job names its builds.  *)
(***************************************************************************)
EXTENDS Explore, SequenceTheorems, FiniteSetTheorems, WellFoundedInduction, TLAPS

\* A mission that is about to begin is nothing yet.
NothingYet ==
    pc \in {"card", "reset", "ready"} =>
        /\ executed = <<>> /\ candidates = {} /\ current = NoCandidate
        /\ i = 1 /\ errors = 0 /\ ended = "budget" /\ ~replied

\* A candidate is something that can be replayed.
Sound(c) ==
    /\ c.upTo <= Len(executed)
    /\ Straight(c.seen) => Prefix(c) = c.seen
Replayable == \A c \in candidates \union {current} : Sound(c)

\* The trail is what was done to the app, as long as nothing else was.
TrailIsTrue ==
    /\ pc = "ready" => touched = <<>>
    /\ pc \in InMission /\ Straight(touched) => touched = executed
    /\ pc = "replayed" => touched = Prefix(current)

Running == InMission \union {"ready", "prepared", "replayed"}

\* The app runs on the build it is looked at on.
RightBuild ==
    pc \in Running =>
        IF pc \in {"prepared", "replayed"} /\ stage = "previous"
        THEN build = "previous" ELSE App => build = "test"

\* Crashes of an earlier run are never taken for news.
OldIsHistory == pc \in Running /\ "old" \in log => ~baseline

\* Without a reply, a step is a failed step.
StepsFailed ==
    /\ pc \in {"look", "ask"} /\ ~replied =>
          errors = i - 1 /\ errors <= MaxErrors /\ ended = "budget"
    /\ pc = "turn" => replied
    /\ pc = "over" /\ ~replied =>
          ended \in CutOff \union {"time"} \/ Steps <= MaxErrors

\* The end state is judged at the end.
NotJudgedYet == pc \in InMission => \A c \in candidates : c.check # "goal"

ExploreInv ==
    /\ ExploreTypeOK /\ NothingYet /\ Replayable /\ TrailIsTrue /\ RightBuild
    /\ OldIsHistory /\ StepsFailed /\ NotJudgedYet /\ EvidenceIsEarned

-----------------------------------------------------------------------------
(***************************************************************************)
(* Trails                                                                  *)
(***************************************************************************)

\* What leads up to a candidate is still what led up to it when more is written down.
LEMMA AppendKeepsPrefix ==
    ASSUME NEW S, NEW s \in Seq(S), NEW e \in S, NEW n \in Nat, n <= Len(s)
    PROVE  SubSeq(Append(s, e), 1, n) = SubSeq(s, 1, n)
<1>1. /\ Append(s, e) \in Seq(S) /\ Len(Append(s, e)) = Len(s) + 1
      /\ \A k \in 1..Len(s) : Append(s, e)[k] = s[k]
  BY AppendProperties
<1>2. Len(s) \in Nat
  BY LenProperties
<1>3. SubSeq(s, 1, n) \in Seq(S) /\ Len(SubSeq(s, 1, n)) = n
      /\ \A k \in 1..n : SubSeq(s, 1, n)[k] = s[k]
  <2>1. \A k \in 1..n : s[k] \in S
    BY <1>2, ElementOfSeq
  <2> QED BY <2>1, SubSeqProperties
<1>4. /\ SubSeq(Append(s, e), 1, n) \in Seq(S) /\ Len(SubSeq(Append(s, e), 1, n)) = n
      /\ \A k \in 1..n : SubSeq(Append(s, e), 1, n)[k] = Append(s, e)[k]
  <2>1. \A k \in 1..n : Append(s, e)[k] \in S
    BY <1>1, <1>2, ElementOfSeq
  <2> QED BY <2>1, SubSeqProperties
<1>5. \A k \in 1..n : SubSeq(Append(s, e), 1, n)[k] = SubSeq(s, 1, n)[k]
  BY <1>1, <1>2, <1>3, <1>4
<1> QED BY <1>3, <1>4, <1>5, SeqEqual

\* What is done after a straight trail lengthens it, unless it is not written down.
LEMMA AfterStraight ==
    ASSUME NEW s \in Seq(Event \union {"other"}), NEW e \in Event \union {"other"}
    PROVE  /\ After(s, e) \in Seq(Event \union {"other"})
           /\ Straight(After(s, e)) => Straight(s) /\ e # "other" /\ After(s, e) = Append(s, e)
<1>1. CASE Straight(s)
  <2>1. /\ Append(s, e) \in Seq(Event \union {"other"}) /\ Len(Append(s, e)) = Len(s) + 1
        /\ Append(s, e)[Len(s) + 1] = e
    BY AppendProperties
  <2>2. Len(s) \in Nat
    BY LenProperties
  <2> QED BY <1>1, <2>1, <2>2 DEF After, Straight
<1>2. CASE ~Straight(s)
  BY <1>2 DEF After
<1> QED BY <1>1, <1>2

\* Nothing leads up to no candidate.
LEMMA NoCandidateIsSound ==
    ASSUME executed \in Seq(Event)
    PROVE  NoCandidate \in Candidate /\ Sound(NoCandidate)
<1>1. NoCandidate \in Candidate
  BY EmptySeq DEF NoCandidate, Candidate, Check
<1>2. SubSeq(executed, 1, 0) = <<>>
  BY SubSeqEmpty
<1>3. Len(executed) \in Nat
  BY LenProperties
<1> QED BY <1>1, <1>2, <1>3 DEF Sound, Prefix, NoCandidate

\* What is noted on a true trail can be replayed.
LEMMA FlaggedIsSound ==
    ASSUME ExploreTypeOK, Replayable, Straight(touched) => touched = executed, NEW check \in Check
    PROVE  /\ Flagged(check) \subseteq Candidate
           /\ \A c \in Flagged(check) : Sound(c)
<1> DEFINE new == [check |-> check, upTo |-> Len(executed), seen |-> touched]
<1>1. Len(executed) \in Nat /\ SubSeq(executed, 1, Len(executed)) = executed
  BY LenProperties, SubSeqFull DEF ExploreTypeOK, MissionOK
<1>2. new \in Candidate /\ Sound(new)
  BY <1>1 DEF Candidate, Sound, Prefix, ExploreTypeOK, PhoneOK
<1>3. \A c \in candidates : c \in Candidate /\ Sound(c)
  BY DEF ExploreTypeOK, MissionOK, Replayable
<1> HIDE DEF new
<1>4. Flagged(check) = candidates \union {new}
  BY DEF Flagged, new
<1> QED BY <1>2, <1>3, <1>4

\* A candidate stays sound when the trail goes on.
LEMMA RecordedKeepsSound ==
    ASSUME executed \in Seq(Event), NEW e \in Event, executed' = Recorded(e)
    PROVE  /\ executed' \in Seq(Event)
           /\ \A c \in Candidate : Sound(c) => Sound(c)'
<1>1. executed' \in Seq(Event) /\ Len(executed') = Len(executed) + 1 /\ Len(executed) \in Nat
  BY AppendProperties, LenProperties DEF Recorded
<1>2. ASSUME NEW c \in Candidate, Sound(c) PROVE Sound(c)'
  <2>1. c.upTo \in Nat /\ c.upTo <= Len(executed)
    BY <1>2 DEF Sound, Candidate
  <2>2. Prefix(c)' = Prefix(c)
    BY <2>1, AppendKeepsPrefix DEF Prefix, Recorded
  <2> QED BY <1>1, <1>2, <2>1, <2>2 DEF Sound
<1> QED BY <1>1, <1>2

-----------------------------------------------------------------------------
(***************************************************************************)
(* Types                                                                   *)
(***************************************************************************)

LEMMA NothingIsTyped ==
    /\ <<>> \in Seq(Event) /\ <<>> \in Seq(Event \union {"other"})
    /\ <<"other">> \in Seq(Event \union {"other"})
    /\ NoCandidate \in Candidate
BY EmptySeq DEF NoCandidate, Candidate, Check

LEMMA TypeInit == ASSUME Init PROVE ExploreTypeOK
<1>1. PhoneOK
  BY NothingIsTyped DEF Init, PhoneOK, Build
<1>2. NightOK
  BY DEF Init, NightOK, Phase
<1>3. MissionOK
  <2>1. executed \in Seq(Event) /\ candidates \subseteq Candidate
    BY NothingIsTyped DEF Init
  <2> QED BY <2>1 DEF Init, MissionOK, Ending
<1>4. ReplayOK
  BY NothingIsTyped DEF Init, ReplayOK, Build
<1> QED BY <1>1, <1>2, <1>3, <1>4 DEF Init, ExploreTypeOK

\* What a reset makes of the device.
LEMMA ResetTypes ==
    ASSUME ExploreTypeOK, NEW st \in Build, Reset(FileOf(st)) \/ ResetThrows(FileOf(st))
    PROVE  PhoneOK'
<1>1. FileOf(st) \in Build \union {"none"}
  BY DEF FileOf, Build
<1>2. CASE Reset(FileOf(st))
  <2>1. touched' \in Seq(Event \union {"other"})
    BY <1>2, NothingIsTyped DEF Reset
  <2>2. log' \subseteq {"old", "own"} /\ baseline' \in BOOLEAN
    BY <1>2 DEF Reset, Forgotten
  <2> QED BY <1>1, <1>2, <2>1, <2>2 DEF Reset, ExploreTypeOK, PhoneOK
<1>3. CASE ResetThrows(FileOf(st))
  <2>1. touched' \in Seq(Event \union {"other"})
    BY <1>3, NothingIsTyped DEF ResetThrows
  <2> QED BY <1>1, <1>3, <2>1 DEF ResetThrows, ExploreTypeOK, PhoneOK
<1> QED BY <1>2, <1>3

\* What is left of a mission that is forgotten.
LEMMA ForgetTypes == ASSUME Forget PROVE MissionOK' /\ ReplayOK'
<1>1. MissionOK'
  <2>1. executed' \in Seq(Event) /\ candidates' \subseteq Candidate
    BY NothingIsTyped DEF Forget
  <2> QED BY <2>1 DEF Forget, Return, MissionOK, Ending
<1>2. ReplayOK'
  BY NothingIsTyped DEF Forget, ReplayOK, Build
<1> QED BY <1>1, <1>2

LEMMA AbandonTypes ==
    ASSUME ExploreTypeOK, Abandon
    PROVE  NightOK' /\ MissionOK' /\ ReplayOK' /\ foul' \in BOOLEAN
<1>1. Forget /\ NightOK' /\ foul' \in BOOLEAN
  BY DEF Abandon, ExploreTypeOK, NightOK, Phase
<1> QED BY <1>1, ForgetTypes

\* What an attempt makes of the night that ends it.
LEMMA AttemptTypes ==
    ASSUME ExploreTypeOK, NEW hit \in BOOLEAN, AttemptOver(hit)
    PROVE  NightOK' /\ MissionOK' /\ ReplayOK'
<1>1. pc' \in Phase /\ attempt' \in Nat
  BY DEF AttemptOver, Phase, ExploreTypeOK, ReplayOK
<1>2. reproduced' \in BOOLEAN
  BY DEF AttemptOver
<1>3. UNCHANGED <<night, mission, current, stage>>
  BY DEF AttemptOver
<1> QED BY <1>1, <1>2, <1>3
       DEF ExploreTypeOK, NightOK, MissionOK, ReplayOK, night, mission, trail, progress, talk

\* What reading the log makes of it.
LEMMA ReadLogTypes ==
    ASSUME ExploreTypeOK, NEW ok \in BOOLEAN, ReadLog(ok)
    PROVE  log' \subseteq {"old", "own"} /\ baseline' \in BOOLEAN
BY DEF ReadLog, ExploreTypeOK, PhoneOK

\* What a failed step makes of the mission.
LEMMA FailTypes ==
    ASSUME ExploreTypeOK, NEW why \in Ending, FailStep(why)
    PROVE  pc' \in Phase /\ i' \in Nat /\ errors' \in Nat /\ ended' \in Ending
BY DEF FailStep, ExploreTypeOK, MissionOK, Phase, InMission

\* The trails of a mission.
LEMMA TrailTypes ==
    ASSUME ExploreInv
    PROVE  /\ \A e \in Event : Recorded(e) \in Seq(Event)
           /\ \A e \in Event \union {"other"}, s \in Seq(Event \union {"other"}) :
                 After(s, e) \in Seq(Event \union {"other"})
           /\ pc \in InMission => \A check \in Check : Flagged(check) \subseteq Candidate
           /\ Prefix(current) \in Seq(Event \union {"other"})
<1> USE DEF ExploreInv
<1>1. \A e \in Event : Recorded(e) \in Seq(Event)
  BY AppendProperties DEF Recorded, ExploreTypeOK, MissionOK
<1>2. \A e \in Event \union {"other"}, s \in Seq(Event \union {"other"}) :
         After(s, e) \in Seq(Event \union {"other"})
  BY AfterStraight
<1>3. pc \in InMission => \A check \in Check : Flagged(check) \subseteq Candidate
  BY FlaggedIsSound DEF TrailIsTrue
<1>4. Prefix(current) \in Seq(Event \union {"other"})
  <2>1. current.upTo \in Nat /\ current.upTo <= Len(executed) /\ Len(executed) \in Nat
    BY LenProperties DEF Replayable, Sound, Candidate, ExploreTypeOK, MissionOK, ReplayOK
  <2>2. executed \in Seq(Event)
    BY DEF ExploreTypeOK, MissionOK
  <2>3. \A k \in 1..current.upTo : executed[k] \in Event \union {"other"}
    BY <2>1, <2>2, ElementOfSeq
  <2> QED BY <2>1, <2>3, SubSeqProperties DEF Prefix
<1> QED BY <1>1, <1>2, <1>3, <1>4

\* A check that may be noted leaves candidates of the right kind.
LEMMA MayFlagTypes ==
    ASSUME ExploreInv, NEW check \in Check, pc \in InMission, MayFlag(check)
    PROVE  candidates' \subseteq Candidate /\ foul' \in BOOLEAN
<1>1. CASE UNCHANGED <<candidates, foul>>
  BY <1>1 DEF ExploreInv, ExploreTypeOK, MissionOK
<1>2. CASE candidates' = Flagged(check) /\ foul' = (foul \/ (App /\ build # "test"))
  BY <1>2, TrailTypes DEF ExploreInv, EvidenceIsEarned
<1> QED BY <1>1, <1>2 DEF MayFlag

LEMMA TypeStep == ASSUME ExploreInv, Next PROVE ExploreTypeOK'
<1> USE DEF ExploreInv
<1>1. CASE SkipCard \/ StartMission \/ EndNight
  <2>1. card' \in Nat /\ pc' \in Phase
    BY <1>1 DEF SkipCard, StartMission, EndNight, night, ExploreTypeOK, NightOK, Phase
  <2>2. UNCHANGED <<phone, ran, newFiled, mission, replay, foul>>
    BY <1>1 DEF SkipCard, StartMission, EndNight, night
  <2> QED BY <2>1, <2>2 DEF ExploreTypeOK, PhoneOK, NightOK, MissionOK, ReplayOK, phone, mission,
             trail, progress, talk, replay
<1>2. CASE ResetForMission
  <2>1. CASE Reset(FileOf("test")) /\ pc' = "ready" /\ UNCHANGED <<night, mission, replay, foul>>
    BY <2>1, ResetTypes DEF Build, ExploreTypeOK, NightOK, MissionOK, ReplayOK, night, mission,
       trail, progress, talk, replay, Phase
  <2>2. CASE ResetThrows(FileOf("test")) /\ Abandon
    BY <2>2, ResetTypes, AbandonTypes DEF Build, ExploreTypeOK
  <2> QED BY <1>2, <2>1, <2>2 DEF ResetForMission
<1>3. CASE BeginMission
  <2>1. CASE Abandon /\ UNCHANGED phone
    BY <2>1, AbandonTypes DEF ExploreTypeOK, PhoneOK, phone
  <2>2. ASSUME NEW ok \in BOOLEAN, ReadLog(ok), pc' = "look",
               UNCHANGED <<build, touched, night, mission, replay, foul>>
        PROVE  ExploreTypeOK'
    BY <2>2, ReadLogTypes DEF ExploreTypeOK, PhoneOK, NightOK, MissionOK, ReplayOK, night, mission,
       trail, progress, talk, replay, Phase, InMission
  <2> QED BY <1>3, <2>1, <2>2 DEF BeginMission
<1>4. CASE StopLooking
  BY <1>4 DEF StopLooking, ExploreTypeOK, PhoneOK, NightOK, MissionOK, ReplayOK, phone, night, trail,
     talk, replay, Phase, InMission, Ending
<1>5. CASE LookFails \/ ModelRambles \/ EndpointFails
  <2>1. \E why \in Ending : FailStep(why)
    BY <1>5 DEF LookFails, ModelRambles, EndpointFails, Ending
  <2>2. pc' \in Phase /\ i' \in Nat /\ errors' \in Nat /\ ended' \in Ending
    BY <2>1, FailTypes
  <2>3. UNCHANGED <<phone, night, trail, rewarms, calls, done, replay, foul>> /\ replied' \in BOOLEAN
    BY <1>5 DEF LookFails, ModelRambles, EndpointFails, talk, ExploreTypeOK, MissionOK
  <2> QED BY <2>2, <2>3 DEF ExploreTypeOK, PhoneOK, NightOK, MissionOK, ReplayOK, phone, night, trail,
             replay
<1>6. CASE CannotBeSeen \/ RelaunchThrows \/ CallHomeThrows
  <2>1. Abandon /\ UNCHANGED phone
    BY <1>6 DEF CannotBeSeen, RelaunchThrows, CallHomeThrows
  <2> QED BY <2>1, AbandonTypes DEF ExploreTypeOK, PhoneOK, phone
<1>7. CASE LooksElsewhere
  <2>1. candidates' \subseteq Candidate /\ foul' \in BOOLEAN
    BY <1>7, MayFlagTypes DEF LooksElsewhere, InMission, Check
  <2>2. touched' \in Seq(Event \union {"other"})
    <3>1. PICK back \in {touched, After(touched, "other")} :
             touched' = back \/ touched' = After(back, "relaunch")
      BY <1>7 DEF LooksElsewhere
    <3>2. back \in Seq(Event \union {"other"})
      BY TrailTypes DEF ExploreTypeOK, PhoneOK
    <3> QED BY <3>1, <3>2, TrailTypes DEF Event
  <2>3. executed' \in Seq(Event)
    BY <1>7, TrailTypes DEF LooksElsewhere, Event, ExploreTypeOK, MissionOK
  <2> QED BY <1>7, <2>1, <2>2, <2>3 DEF LooksElsewhere, ExploreTypeOK, PhoneOK, NightOK, MissionOK,
             ReplayOK, night, replay
<1>8. CASE LooksAtApp
  <2>1. candidates' \subseteq Candidate /\ foul' \in BOOLEAN
    BY <1>8, MayFlagTypes DEF LooksAtApp, InMission, Check
  <2>2. touched' \in Seq(Event \union {"other"}) /\ executed' \in Seq(Event)
    BY <1>8, TrailTypes DEF LooksAtApp, Event, ExploreTypeOK, PhoneOK, MissionOK
  <2> QED BY <1>8, <2>1, <2>2 DEF LooksAtApp, ExploreTypeOK, PhoneOK, NightOK, MissionOK, ReplayOK,
             night, progress, talk, replay, Phase, InMission
<1>9. CASE ModelReplies
  BY <1>9, ExploreAssumption DEF ModelReplies, ExploreTypeOK, PhoneOK, NightOK, MissionOK, ReplayOK,
     phone, night, trail, replay, Phase, InMission
<1>10. CASE Rewarm
  <2>1. rewarms' \in Nat /\ pc' \in Phase /\ i' \in Nat /\ errors' \in Nat /\ ended' \in Ending
    <3>1. rewarms' \in Nat
      BY <1>10 DEF Rewarm, Rewarmed, ExploreTypeOK, MissionOK
    <3>2. CASE FailStep("endpoint")
      BY <3>1, <3>2, FailTypes DEF Ending
    <3>3. CASE pc' = "look" /\ UNCHANGED progress
      BY <3>1, <3>3 DEF progress, Phase, InMission, ExploreTypeOK, MissionOK
    <3> QED BY <1>10, <3>2, <3>3 DEF Rewarm
  <2> QED BY <1>10, <2>1 DEF Rewarm, ExploreTypeOK, PhoneOK, NightOK, MissionOK, ReplayOK, phone,
             night, trail, replay
<1>11. CASE CallIdle \/ CallAnswer
  <2>1. calls' \in Nat /\ done' \in BOOLEAN
    <3>1. calls \in Nat /\ calls > 0 /\ calls' = calls - 1
      BY <1>11 DEF CallIdle, CallAnswer, ExploreTypeOK, MissionOK
    <3>2. calls' \in Nat
      BY <3>1
    <3>3. done' = TRUE \/ done' = done
      BY <1>11 DEF CallIdle, CallAnswer
    <3> QED BY <3>2, <3>3 DEF ExploreTypeOK, MissionOK
  <2>2. UNCHANGED <<phone, pc, night, progress, trail, rewarms, replied, replay, foul>>
    BY <1>11 DEF CallIdle, CallAnswer
  <2> QED BY <2>1, <2>2 DEF ExploreTypeOK, PhoneOK, NightOK, MissionOK, ReplayOK, phone, night,
             progress, trail, replay
<1>12. CASE CallIssue
  <2>1. candidates' \subseteq Candidate /\ foul' \in BOOLEAN
    BY <1>12, MayFlagTypes DEF CallIssue, InMission, Check
  <2> QED BY <1>12, <2>1 DEF CallIssue, ExploreTypeOK, PhoneOK, NightOK, MissionOK, ReplayOK, phone,
             night, progress, replay
<1>13. ASSUME NEW e \in {"action", "home"}, CallAct(e) PROVE ExploreTypeOK'
  <2>1. touched' \in Seq(Event \union {"other"}) /\ executed' \in Seq(Event)
    BY <1>13, TrailTypes DEF CallAct, Event, ExploreTypeOK, PhoneOK
  <2> QED BY <1>13, <2>1 DEF CallAct, ExploreTypeOK, PhoneOK, NightOK, MissionOK, ReplayOK, night,
             progress, replay
<1>14. CASE CallActThrows
  <2>1. touched' \in Seq(Event \union {"other"})
    BY <1>14, TrailTypes DEF CallActThrows, Event, ExploreTypeOK, PhoneOK
  <2> QED BY <1>14, <2>1 DEF CallActThrows, ExploreTypeOK, PhoneOK, NightOK, MissionOK, ReplayOK,
             night, progress, trail, replay
<1>15. CASE EndStep
  <2>1. log' \subseteq {"old", "own"} /\ baseline' \in BOOLEAN
    BY <1>15, ReadLogTypes DEF EndStep
  <2>2. /\ touched' \in Seq(Event \union {"other"}) /\ executed' \in Seq(Event)
        /\ candidates' \subseteq Candidate
    BY <1>15, TrailTypes
       DEF EndStep, Event, Check, InMission, ExploreTypeOK, PhoneOK, MissionOK, trail
  <2>3. foul' \in BOOLEAN
    BY <1>15 DEF EndStep, ExploreTypeOK
  <2> QED BY <1>15, <2>1, <2>2, <2>3 DEF EndStep, ExploreTypeOK, PhoneOK, NightOK, MissionOK, ReplayOK,
             night, talk, replay, Phase, InMission, Ending
<1>16. CASE EndMission
  <2>1. candidates' \subseteq Candidate
    BY <1>16, TrailTypes DEF EndMission, Chosen, InMission, Check, ExploreTypeOK, MissionOK
  <2>2. foul' \in BOOLEAN /\ ran' \in BOOLEAN
    BY <1>16 DEF EndMission
  <2> QED BY <1>16, <2>1, <2>2 DEF EndMission, Return, ExploreTypeOK, PhoneOK, NightOK, MissionOK,
             ReplayOK, phone, replay, Phase, Ending
<1>17. CASE CardDone
  <2>1. MissionOK' /\ ReplayOK'
    BY <1>17, ForgetTypes DEF CardDone
  <2> QED BY <1>17, <2>1 DEF CardDone, ExploreTypeOK, PhoneOK, NightOK, phone, Phase
<1>18. ASSUME NEW c \in candidates, Pick(c) PROVE ExploreTypeOK'
  BY <1>18 DEF Pick, ExploreTypeOK, PhoneOK, NightOK, MissionOK, ReplayOK, phone, night, progress,
     talk, Phase, Build
<1>19. CASE ResetForAttempt
  <2>1. PhoneOK' /\ foul' \in BOOLEAN
    BY <1>19, ResetTypes DEF ResetForAttempt, ExploreTypeOK, ReplayOK
  <2>2. NightOK' /\ MissionOK' /\ ReplayOK'
    <3>1. CASE AttemptOver(FALSE)
      BY <3>1, AttemptTypes
    <3>2. CASE pc' = "prepared" /\ UNCHANGED <<night, mission, replay>>
      BY <3>2 DEF ExploreTypeOK, NightOK, MissionOK, ReplayOK, night, mission, trail, progress, talk,
         replay, Phase
    <3> QED BY <1>19, <3>1, <3>2 DEF ResetForAttempt
  <2> QED BY <2>1, <2>2 DEF ExploreTypeOK
<1>20. CASE Replay
  <2>1. CASE AttemptOver(FALSE) /\ touched' = <<"other">> /\ UNCHANGED <<log, baseline>>
    BY <1>20, <2>1, AttemptTypes, NothingIsTyped DEF Replay, ExploreTypeOK, PhoneOK
  <2>2. ASSUME NEW ok \in BOOLEAN, ReadLog(ok), touched' = Prefix(current), pc' = "replayed",
               UNCHANGED <<night, mission, replay>>
        PROVE  ExploreTypeOK'
    <3>1. PhoneOK'
      BY <1>20, <2>2, ReadLogTypes, TrailTypes DEF Replay, ExploreTypeOK, PhoneOK
    <3> QED BY <1>20, <2>2, <3>1 DEF Replay, ExploreTypeOK, NightOK, MissionOK, ReplayOK, night,
               mission, trail, progress, talk, replay, Phase
  <2> QED BY <1>20, <2>1, <2>2 DEF Replay
<1>21. CASE CheckAgain
  <2>1. \E hit \in BOOLEAN : AttemptOver(hit)
    BY <1>21 DEF CheckAgain
  <2>2. log' \subseteq {"old", "own"} /\ baseline' \in BOOLEAN
    BY <1>21, ReadLogTypes DEF CheckAgain, ExploreTypeOK, PhoneOK
  <2>3. foul' \in BOOLEAN
    BY <1>21 DEF CheckAgain
  <2> QED BY <1>21, <2>1, <2>2, <2>3, AttemptTypes DEF CheckAgain, ExploreTypeOK, PhoneOK
<1>22. CASE Decide
  BY <1>22 DEF Decide, ExploreTypeOK, PhoneOK, NightOK, MissionOK, ReplayOK, phone, night, mission,
     trail, progress, talk, Phase, Build
<1>23. CASE PutBack
  BY <1>23, ResetTypes DEF PutBack, Build, ExploreTypeOK, NightOK, MissionOK, ReplayOK, night, mission,
     trail, progress, talk, replay, Phase
<1>24. CASE Post
  BY <1>24 DEF Post, ExploreTypeOK, PhoneOK, NightOK, MissionOK, ReplayOK, phone, mission, trail,
     progress, talk, replay, Phase
<1>25. CASE AppCrashes
  BY <1>25 DEF AppCrashes, ExploreTypeOK, PhoneOK, NightOK, MissionOK, ReplayOK, night, mission,
     trail, progress, talk, replay
<1> QED BY <1>1, <1>2, <1>3, <1>4, <1>5, <1>6, <1>7, <1>8, <1>9, <1>10, <1>11, <1>12, <1>13,
           <1>14, <1>15, <1>16, <1>17, <1>18, <1>19, <1>20, <1>21, <1>22, <1>23, <1>24, <1>25
       DEF Next, Work

-----------------------------------------------------------------------------
(***************************************************************************)
(* Candidates and their trails                                             *)
(***************************************************************************)

\* A forgotten mission has nothing to replay but what is sound.
LEMMA ForgetIsSound == ASSUME Forget PROVE Replayable' /\ candidates' = {}
<1>1. candidates' = {} /\ current' = NoCandidate /\ executed' = <<>>
  BY DEF Forget
<1>2. SubSeq(executed', 1, 0) = <<>> /\ Len(executed') = 0
  BY <1>1, SubSeqEmpty, EmptySeq
<1> QED BY <1>1, <1>2 DEF Replayable, Sound, Prefix, NoCandidate

\* What is sound stays so while the trail is kept or goes on.
LEMMA SoundStays ==
    ASSUME ExploreTypeOK, executed' = executed \/ \E e \in Event : executed' = Recorded(e)
    PROVE  \A c \in Candidate : Sound(c) => Sound(c)'
<1>1. CASE executed' = executed
  BY <1>1 DEF Sound, Prefix
<1>2. ASSUME NEW e \in Event, executed' = Recorded(e)
      PROVE  \A c \in Candidate : Sound(c) => Sound(c)'
  BY <1>2, RecordedKeepsSound DEF ExploreTypeOK, MissionOK
<1> QED BY <1>1, <1>2

\* So do the candidates that were, and those that are noted.
LEMMA ReplayableStays ==
    ASSUME ExploreInv,
           executed' = executed \/ \E e \in Event : executed' = Recorded(e),
           NEW check \in Check,
           \/ pc \in InMission /\ candidates' \subseteq Flagged(check)
           \/ candidates' \subseteq candidates,
           current' \in candidates \union {current}
    PROVE  Replayable'
<1>1. \A c \in Candidate : Sound(c) => Sound(c)'
  BY SoundStays DEF ExploreInv
<1>2. \A c \in candidates \union {current} : c \in Candidate /\ Sound(c)
  BY DEF ExploreInv, ExploreTypeOK, MissionOK, ReplayOK, Replayable
<1>3. pc \in InMission => \A c \in Flagged(check) : c \in Candidate /\ Sound(c)
  BY FlaggedIsSound DEF ExploreInv, TrailIsTrue
<1>4. \A c \in candidates' \union {current'} : c \in Candidate /\ Sound(c)
  BY <1>2, <1>3
<1> QED BY <1>1, <1>4 DEF Replayable

LEMMA ReplayableStep == ASSUME ExploreInv, Next PROVE Replayable'
<1>1. CASE \/ SkipCard \/ StartMission \/ EndNight \/ StopLooking \/ LookFails \/ ModelReplies
           \/ ModelRambles \/ EndpointFails \/ Rewarm \/ CallIdle \/ CallAnswer \/ CallActThrows
           \/ ResetForAttempt \/ Replay \/ CheckAgain \/ Decide \/ PutBack \/ Post \/ AppCrashes
  <2>1. UNCHANGED <<executed, candidates, current>>
    BY <1>1 DEF SkipCard, StartMission, EndNight, StopLooking, LookFails, ModelReplies, ModelRambles,
       EndpointFails, Rewarm, CallIdle, CallAnswer, CallActThrows, ResetForAttempt, Replay, CheckAgain,
       Decide, PutBack, Post, AppCrashes, AttemptOver, mission, trail, replay
  <2> QED BY <2>1, ReplayableStays DEF Check
<1>2. CASE ResetForMission
  <2>1. CASE Abandon
    BY <2>1, ForgetIsSound DEF Abandon
  <2>2. CASE UNCHANGED <<night, mission, replay, foul>>
    BY <2>2, ReplayableStays DEF Check, mission, trail, replay
  <2> QED BY <1>2, <2>1, <2>2 DEF ResetForMission
<1>3. CASE BeginMission
  <2>1. CASE Abandon
    BY <2>1, ForgetIsSound DEF Abandon
  <2>2. CASE UNCHANGED <<build, touched, night, mission, replay, foul>>
    BY <2>2, ReplayableStays DEF Check, mission, trail, replay
  <2> QED BY <1>3, <2>1, <2>2 DEF BeginMission
<1>4. CASE CannotBeSeen \/ RelaunchThrows \/ CallHomeThrows
  BY <1>4, ForgetIsSound DEF CannotBeSeen, RelaunchThrows, CallHomeThrows, Abandon
<1>5. CASE LooksElsewhere
  <2>1. executed' = executed \/ executed' = Recorded("relaunch")
    BY <1>5 DEF LooksElsewhere
  <2>2. candidates' = candidates \/ candidates' = Flagged("screen")
    BY <1>5 DEF LooksElsewhere, MayFlag
  <2> QED BY <1>5, <2>1, <2>2, ReplayableStays
          DEF LooksElsewhere, Check, Event, InMission, replay
<1>6. CASE LooksAtApp
  <2>1. executed' = executed \/ executed' = Recorded("home")
    BY <1>6 DEF LooksAtApp
  <2>2. candidates' = candidates \/ candidates' = Flagged("screen")
    BY <1>6 DEF LooksAtApp, MayFlag
  <2> QED BY <1>6, <2>1, <2>2, ReplayableStays DEF LooksAtApp, Check, Event, InMission, replay
<1>7. CASE CallIssue
  <2>1. candidates' = candidates \/ candidates' = Flagged("issue")
    BY <1>7 DEF CallIssue, MayFlag
  <2> QED BY <1>7, <2>1, ReplayableStays DEF CallIssue, Check, InMission, replay
<1>8. ASSUME NEW e \in {"action", "home"}, CallAct(e) PROVE Replayable'
  BY <1>8, ReplayableStays DEF CallAct, Check, Event, replay
<1>9. CASE EndStep
  <2>1. \/ executed' = executed /\ candidates' = candidates
        \/ executed' = Recorded("relaunch") /\ candidates' = Flagged("crash")
    BY <1>9 DEF EndStep, trail
  <2> QED BY <1>9, <2>1, ReplayableStays DEF EndStep, Check, Event, InMission, replay
<1>10. CASE EndMission
  <2>1. candidates' \subseteq Flagged("goal")
    BY <1>10 DEF EndMission, Chosen, Flagged
  <2> QED BY <1>10, <2>1, ReplayableStays DEF EndMission, Check, InMission, replay
<1>11. CASE CardDone
  BY <1>11, ForgetIsSound DEF CardDone
<1>12. ASSUME NEW c \in candidates, Pick(c) PROVE Replayable'
  BY <1>12, ReplayableStays DEF Pick, Check
<1> QED BY <1>1, <1>2, <1>3, <1>4, <1>5, <1>6, <1>7, <1>8, <1>9, <1>10, <1>11, <1>12
       DEF Next, Work

\* A mission that has not begun has nothing to its name.
LEMMA NothingYetStep == ASSUME ExploreInv, Next PROVE NothingYet'
<1>1. CASE SkipCard \/ StartMission \/ EndNight
  BY <1>1 DEF SkipCard, StartMission, EndNight, ExploreInv, NothingYet, night, mission, trail,
     progress, talk, replay
<1>2. ASSUME Forget PROVE NothingYet'
  BY <1>2 DEF Forget, Return, NothingYet
<1>3. CASE ResetForMission
  <2>1. CASE Abandon
    BY <1>2, <2>1 DEF Abandon
  <2>2. CASE UNCHANGED <<night, mission, replay, foul>>
    BY <1>3, <2>2 DEF ResetForMission, ExploreInv, NothingYet, mission, trail, progress, talk, replay
  <2> QED BY <1>3, <2>1, <2>2 DEF ResetForMission
<1>4. CASE BeginMission
  BY <1>2, <1>4 DEF BeginMission, Abandon, NothingYet
<1>5. CASE CannotBeSeen \/ RelaunchThrows \/ CallHomeThrows \/ CardDone
  BY <1>2, <1>5 DEF CannotBeSeen, RelaunchThrows, CallHomeThrows, Abandon, CardDone
<1>6. CASE AppCrashes
  BY <1>6 DEF AppCrashes, ExploreInv, NothingYet, mission, trail, progress, talk, replay
<1>7. CASE \/ StopLooking \/ LookFails \/ LooksElsewhere \/ LooksAtApp \/ ModelReplies
           \/ ModelRambles \/ EndpointFails \/ Rewarm \/ CallIdle \/ CallIssue \/ CallAnswer
  BY <1>7 DEF StopLooking, LookFails, LooksElsewhere, LooksAtApp, ModelReplies, ModelRambles,
     EndpointFails, Rewarm, CallIdle, CallIssue, CallAnswer, FailStep, NothingYet
<1>8. CASE \/ (\E e \in {"action", "home"} : CallAct(e)) \/ CallActThrows \/ EndStep \/ EndMission
           \/ (\E c \in candidates : Pick(c)) \/ ResetForAttempt \/ Replay \/ CheckAgain \/ Decide
           \/ PutBack \/ Post
  BY <1>8 DEF CallAct, CallActThrows, EndStep, EndMission, Pick, ResetForAttempt, Replay, CheckAgain,
     Decide, PutBack, Post, AttemptOver, NothingYet
<1> QED BY <1>1, <1>3, <1>4, <1>5, <1>6, <1>7, <1>8 DEF Next, Work

\* Something that is not written down makes the trail no longer straight; the rest
\* is done and written down together.
LEMMA AfterKeepsTrue ==
    ASSUME ExploreTypeOK, Straight(touched) => touched = executed, NEW e \in Event
    PROVE  /\ Straight(After(touched, e)) => After(touched, e) = Recorded(e)
           /\ ~Straight(After(touched, "other"))
           /\ ~Straight(After(After(touched, "other"), e))
<1>1. touched \in Seq(Event \union {"other"}) /\ e # "other"
  BY DEF ExploreTypeOK, PhoneOK, Event
<1>2. /\ Straight(After(touched, e)) => Straight(touched) /\ After(touched, e) = Append(touched, e)
      /\ ~Straight(After(touched, "other"))
      /\ After(touched, "other") \in Seq(Event \union {"other"})
  BY <1>1, AfterStraight
<1>3. ~Straight(After(After(touched, "other"), e))
  BY <1>2, AfterStraight
<1> QED BY <1>2, <1>3 DEF Recorded

LEMMA TrailStep == ASSUME ExploreInv, Next PROVE TrailIsTrue'
<1> DEFINE true == Straight(touched) => touched = executed
<1>0. pc \in InMission => true
  BY DEF ExploreInv, TrailIsTrue
<1>1. CASE ResetForMission
  BY <1>1 DEF ResetForMission, Reset, Abandon, TrailIsTrue, InMission
<1>2. CASE BeginMission
  BY <1>2 DEF BeginMission, Abandon, ExploreInv, TrailIsTrue, NothingYet, InMission, mission, trail
<1>3. CASE \/ SkipCard \/ StartMission \/ EndNight \/ CannotBeSeen \/ RelaunchThrows
           \/ CallHomeThrows \/ EndMission \/ CardDone \/ (\E c \in candidates : Pick(c))
           \/ ResetForAttempt \/ CheckAgain \/ Decide \/ PutBack \/ Post
  BY <1>3 DEF SkipCard, StartMission, EndNight, CannotBeSeen, RelaunchThrows, CallHomeThrows,
     EndMission, CardDone, Pick, ResetForAttempt, CheckAgain, Decide, PutBack, Post, Abandon,
     AttemptOver, TrailIsTrue, InMission, ExploreInv
<1>4. CASE \/ StopLooking \/ LookFails \/ ModelReplies \/ ModelRambles \/ EndpointFails \/ Rewarm
           \/ CallIdle \/ CallIssue \/ CallAnswer
  <2>1. UNCHANGED <<touched, executed>> /\ pc \in InMission /\ pc' \notin {"ready", "replayed"}
    BY <1>4 DEF StopLooking, LookFails, ModelReplies, ModelRambles, EndpointFails, Rewarm, CallIdle,
       CallIssue, CallAnswer, FailStep, InMission, phone, trail
  <2> QED BY <1>0, <2>1 DEF TrailIsTrue, Straight
<1>5. CASE LooksElsewhere \/ LooksAtApp \/ (\E e \in {"action", "home"} : CallAct(e))
           \/ CallActThrows \/ EndStep
  <2>1. true /\ pc' \notin {"ready", "replayed"}
    BY <1>0, <1>5 DEF LooksElsewhere, LooksAtApp, CallAct, CallActThrows, EndStep, InMission
  <2>2. \/ touched' = touched /\ executed' = executed
        \/ touched' = After(touched, "other")
        \/ \E e \in Event : /\ executed' = Recorded(e)
                            /\ touched' \in {After(touched, e), After(After(touched, "other"), e)}
    BY <1>5 DEF LooksElsewhere, LooksAtApp, CallAct, CallActThrows, EndStep, Event, trail
  <2>3. Straight(touched') => touched' = executed'
    BY <2>1, <2>2, AfterKeepsTrue DEF ExploreInv, Event
  <2> QED BY <2>1, <2>3 DEF TrailIsTrue, Straight
<1>6. CASE Replay
  BY <1>6 DEF Replay, AttemptOver, TrailIsTrue, InMission, Prefix, mission, trail, replay
<1>7. CASE AppCrashes
  BY <1>7 DEF AppCrashes, ExploreInv, TrailIsTrue, Straight, InMission, Prefix, mission, trail, replay
<1> QED BY <1>1, <1>2, <1>3, <1>4, <1>5, <1>6, <1>7 DEF Next, Work

-----------------------------------------------------------------------------
(***************************************************************************)
(* Evidence                                                                *)
(***************************************************************************)

\* A reset that is through leaves the build that was to be installed.
LEMMA ResetBuild ==
    ASSUME NEW st \in Build, Reset(FileOf(st))
    PROVE  /\ IF st = "previous" THEN build' = "previous" ELSE App => build' = "test"
           /\ "old" \in log' => ~baseline'
<1>1. IF st = "previous" THEN build' = "previous" ELSE App => build' = "test"
  BY DEF Reset, FileOf
<1>2. "old" \in log' => ~baseline'
  BY DEF Reset, Forgotten
<1> QED BY <1>1, <1>2

LEMMA RightBuildStep == ASSUME ExploreInv, Next PROVE RightBuild'
<1> USE DEF ExploreInv
<1>1. CASE ResetForMission
  <2>1. CASE Reset(FileOf("test")) /\ pc' = "ready"
    <3>1. App => build' = "test"
      BY <2>1, ResetBuild DEF Build
    <3> QED BY <2>1, <3>1 DEF RightBuild
  <2>2. CASE Abandon
    BY <2>2 DEF Abandon, RightBuild, Running, InMission
  <2> QED BY <1>1, <2>1, <2>2 DEF ResetForMission
<1>2. CASE ResetForAttempt
  <2>1. CASE Reset(FileOf(stage)) /\ pc' = "prepared" /\ UNCHANGED <<night, mission, replay>>
    <3>1. stage \in Build /\ stage' = stage
      BY <2>1 DEF replay, ExploreTypeOK, ReplayOK
    <3>2. IF stage = "previous" THEN build' = "previous" ELSE App => build' = "test"
      BY <2>1, <3>1, ResetBuild
    <3> QED BY <2>1, <3>1, <3>2 DEF RightBuild
  <2>2. CASE AttemptOver(FALSE)
    BY <2>2 DEF AttemptOver, RightBuild, Running, InMission
  <2> QED BY <1>2, <2>1, <2>2 DEF ResetForAttempt
<1>3. CASE Replay
  BY <1>3 DEF Replay, AttemptOver, RightBuild, Running, InMission, replay
<1>4. CASE BeginMission
  BY <1>4 DEF BeginMission, Abandon, RightBuild, Running, InMission
<1>5. CASE \/ StopLooking \/ LookFails \/ LooksElsewhere \/ LooksAtApp \/ ModelReplies
           \/ ModelRambles \/ EndpointFails \/ Rewarm \/ CallIdle \/ CallIssue \/ CallAnswer
           \/ (\E e \in {"action", "home"} : CallAct(e)) \/ CallActThrows \/ EndStep
  <2>1. build' = build /\ pc \in InMission /\ pc' \notin {"prepared", "replayed"}
    BY <1>5 DEF StopLooking, LookFails, LooksElsewhere, LooksAtApp, ModelReplies, ModelRambles,
       EndpointFails, Rewarm, CallIdle, CallIssue, CallAnswer, CallAct, CallActThrows, EndStep,
       FailStep, InMission, phone
  <2> QED BY <2>1 DEF RightBuild, Running, InMission
<1>6. CASE \/ SkipCard \/ StartMission \/ EndNight \/ CannotBeSeen \/ RelaunchThrows
           \/ CallHomeThrows \/ EndMission \/ CardDone \/ (\E c \in candidates : Pick(c))
           \/ CheckAgain \/ Decide \/ PutBack \/ Post
  <2>1. pc' \notin Running
    BY <1>6 DEF SkipCard, StartMission, EndNight, CannotBeSeen, RelaunchThrows, CallHomeThrows,
       EndMission, CardDone, Pick, CheckAgain, Decide, PutBack, Post, Abandon, AttemptOver, Running,
       InMission
  <2> QED BY <2>1 DEF RightBuild
<1>7. CASE AppCrashes
  BY <1>7 DEF AppCrashes, RightBuild, replay
<1> QED BY <1>1, <1>2, <1>3, <1>4, <1>5, <1>6, <1>7 DEF Next, Work

\* Reading the log makes no news of what is old.
LEMMA ReadLogKeepsHistory ==
    ASSUME NEW ok \in BOOLEAN, ReadLog(ok), "old" \in log => ~baseline
    PROVE  /\ "old" \in log' => ~baseline'
           /\ Report(ok) # {} => "old" \notin log
<1>1. "old" \in log' => ~baseline'
  BY DEF ReadLog
<1>2. Report(ok) # {} => "old" \notin log
  BY DEF Report
<1> QED BY <1>1, <1>2

LEMMA OldIsHistoryStep == ASSUME ExploreInv, Next PROVE OldIsHistory'
<1> USE DEF ExploreInv
<1>1. CASE ResetForMission
  <2>1. CASE Reset(FileOf("test"))
    BY <2>1, ResetBuild DEF Build, OldIsHistory
  <2>2. CASE Abandon
    BY <2>2 DEF Abandon, OldIsHistory, Running, InMission
  <2> QED BY <1>1, <2>1, <2>2 DEF ResetForMission
<1>2. CASE ResetForAttempt
  <2>1. CASE Reset(FileOf(stage))
    BY <2>1, ResetBuild DEF OldIsHistory, ExploreTypeOK, ReplayOK
  <2>2. CASE AttemptOver(FALSE)
    BY <2>2 DEF AttemptOver, OldIsHistory, Running, InMission
  <2> QED BY <1>2, <2>1, <2>2 DEF ResetForAttempt
<1>3. CASE Replay
  <2>1. CASE AttemptOver(FALSE)
    BY <2>1 DEF AttemptOver, OldIsHistory, Running, InMission
  <2>2. CASE \E ok \in BOOLEAN : ReadLog(ok)
    BY <1>3, <2>2, ReadLogKeepsHistory DEF Replay, OldIsHistory, Running
  <2> QED BY <1>3, <2>1, <2>2 DEF Replay
<1>4. CASE BeginMission
  <2>1. CASE Abandon
    BY <2>1 DEF Abandon, OldIsHistory, Running, InMission
  <2>2. CASE \E ok \in BOOLEAN : ReadLog(ok)
    BY <1>4, <2>2, ReadLogKeepsHistory DEF BeginMission, OldIsHistory, Running
  <2> QED BY <1>4, <2>1, <2>2 DEF BeginMission
<1>5. CASE EndStep
  <2>1. \E ok \in BOOLEAN : ReadLog(ok)
    BY <1>5 DEF EndStep
  <2> QED BY <1>5, <2>1, ReadLogKeepsHistory DEF EndStep, OldIsHistory, Running, InMission
<1>6. CASE \/ StopLooking \/ LookFails \/ LooksElsewhere \/ LooksAtApp \/ ModelReplies
           \/ ModelRambles \/ EndpointFails \/ Rewarm \/ CallIdle \/ CallIssue \/ CallAnswer
           \/ (\E e \in {"action", "home"} : CallAct(e)) \/ CallActThrows
  <2>1. UNCHANGED <<log, baseline>> /\ pc \in InMission
    BY <1>6 DEF StopLooking, LookFails, LooksElsewhere, LooksAtApp, ModelReplies, ModelRambles,
       EndpointFails, Rewarm, CallIdle, CallIssue, CallAnswer, CallAct, CallActThrows, InMission, phone
  <2> QED BY <2>1 DEF OldIsHistory, Running
<1>7. CASE \/ SkipCard \/ StartMission \/ EndNight \/ CannotBeSeen \/ RelaunchThrows
           \/ CallHomeThrows \/ EndMission \/ CardDone \/ (\E c \in candidates : Pick(c))
           \/ CheckAgain \/ Decide \/ PutBack \/ Post
  <2>1. pc' \notin Running
    BY <1>7 DEF SkipCard, StartMission, EndNight, CannotBeSeen, RelaunchThrows, CallHomeThrows,
       EndMission, CardDone, Pick, CheckAgain, Decide, PutBack, Post, Abandon, AttemptOver, Running,
       InMission
  <2> QED BY <2>1 DEF OldIsHistory
<1>8. CASE AppCrashes
  BY <1>8 DEF AppCrashes, OldIsHistory, Running, InMission
<1> QED BY <1>1, <1>2, <1>3, <1>4, <1>5, <1>6, <1>7, <1>8 DEF Next, Work

\* In a mission the app is looked at on the build the job names.
LEMMA MissionOnTest == ASSUME ExploreInv, pc \in InMission PROVE App => build = "test"
BY DEF ExploreInv, RightBuild, Running, InMission

LEMMA MayFlagIsEarned ==
    ASSUME ExploreInv, pc \in InMission, NEW check, MayFlag(check)
    PROVE  ~foul'
BY MissionOnTest DEF MayFlag, ExploreInv, EvidenceIsEarned

LEMMA EvidenceStep == ASSUME ExploreInv, Next PROVE EvidenceIsEarned'
<1> USE DEF EvidenceIsEarned
<1>1. ~foul
  BY DEF ExploreInv
<1>2. CASE LooksElsewhere \/ LooksAtApp \/ CallIssue
  BY <1>2, MayFlagIsEarned DEF LooksElsewhere, LooksAtApp, CallIssue, InMission
<1>3. CASE EndStep
  <2>1. PICK ok \in BOOLEAN :
           /\ ReadLog(ok)
           /\ IF Report(ok) = {} THEN foul' = foul
              ELSE foul' = (foul \/ "old" \in log \/ (App /\ build # "test"))
    BY <1>3 DEF EndStep
  <2>2. App => build = "test"
    BY <1>3, MissionOnTest DEF EndStep, InMission
  <2>3. Report(ok) # {} => "old" \notin log
    BY <1>3, <2>1, ReadLogKeepsHistory DEF EndStep, ExploreInv, OldIsHistory, Running, InMission
  <2> QED BY <1>1, <2>1, <2>2, <2>3
<1>4. CASE EndMission
  BY <1>1, <1>4, MissionOnTest DEF EndMission, InMission
<1>5. CASE CheckAgain
  <2>1. PICK ok \in BOOLEAN, same \in BOOLEAN :
           LET crash == current.check = "crash"
               hit == same /\ (crash => Report(ok) # {})
           IN /\ crash => ReadLog(ok)
              /\ foul' = (foul \/ (hit /\ ~Earned))
    BY <1>5 DEF CheckAgain
  <2>2. IF stage = "previous" THEN build = "previous" ELSE App => build = "test"
    BY <1>5 DEF CheckAgain, ExploreInv, RightBuild, Running
  <2>3. touched = Prefix(current)
    BY <1>5 DEF CheckAgain, ExploreInv, TrailIsTrue
  <2>4. Report(ok) # {} => "old" \notin log
    BY <1>5 DEF CheckAgain, ExploreInv, OldIsHistory, Running, Report
  <2> QED BY <1>1, <2>1, <2>2, <2>3, <2>4 DEF Earned
<1>6. CASE \/ SkipCard \/ StartMission \/ EndNight \/ ResetForMission \/ BeginMission \/ StopLooking
           \/ LookFails \/ CannotBeSeen \/ RelaunchThrows \/ ModelReplies \/ ModelRambles
           \/ EndpointFails \/ Rewarm \/ CallIdle \/ CallAnswer
  BY <1>1, <1>6 DEF SkipCard, StartMission, EndNight, ResetForMission, BeginMission, StopLooking,
     LookFails, CannotBeSeen, RelaunchThrows, ModelReplies, ModelRambles, EndpointFails, Rewarm,
     CallIdle, CallAnswer, Abandon
<1>7. CASE \/ (\E e \in {"action", "home"} : CallAct(e)) \/ CallActThrows \/ CallHomeThrows
           \/ CardDone \/ (\E c \in candidates : Pick(c)) \/ ResetForAttempt \/ Replay \/ Decide
           \/ PutBack \/ Post \/ AppCrashes
  BY <1>1, <1>7 DEF CallAct, CallActThrows, CallHomeThrows, CardDone, Pick, ResetForAttempt, Replay,
     Decide, PutBack, Post, AppCrashes, Abandon
<1> QED BY <1>2, <1>3, <1>4, <1>5, <1>6, <1>7 DEF Next, Work

-----------------------------------------------------------------------------
(***************************************************************************)
(* Outages                                                                 *)
(***************************************************************************)

\* A failed step of a mission without a reply.
LEMMA FailedStep ==
    ASSUME ExploreInv, pc \in {"look", "ask"}, ~replied, NEW why \in CutOff, FailStep(why)
    PROVE  /\ pc' = "look" => errors' = i' - 1 /\ errors' <= MaxErrors /\ ended' = "budget"
           /\ pc' = "over" => ended' \in CutOff
           /\ pc' \in {"look", "over"}
<1>1. errors = i - 1 /\ errors <= MaxErrors /\ ended = "budget" /\ i \in Nat /\ errors \in Nat
  BY DEF ExploreInv, StepsFailed, ExploreTypeOK, MissionOK
<1>2. CASE TooMany(errors + 1)
  BY <1>2 DEF FailStep
<1>3. CASE ~TooMany(errors + 1)
  BY <1>1, <1>3, ExploreAssumption DEF FailStep, TooMany
<1> QED BY <1>2, <1>3

LEMMA StepsFailedStep == ASSUME ExploreInv, Next PROVE StepsFailed'
<1> USE DEF ExploreInv
<1>1. CASE BeginMission
  BY <1>1, ExploreAssumption
     DEF BeginMission, Abandon, NothingYet, StepsFailed, mission, progress, talk
<1>2. CASE StopLooking
  <2>1. replied' = replied /\ pc' = "over" /\ pc = "look"
    BY <1>2 DEF StopLooking, talk
  <2>2. CASE replied
    BY <2>1, <2>2 DEF StepsFailed
  <2>3. CASE ~replied
    <3>1. errors = i - 1 /\ errors <= MaxErrors /\ i \in Nat /\ errors \in Nat
      BY <2>1, <2>3 DEF StepsFailed, ExploreTypeOK, MissionOK
    <3>2. i > Steps => Steps <= MaxErrors
      BY <3>1, ExploreAssumption
    <3> QED BY <1>2, <2>1, <3>2 DEF StopLooking, StepsFailed
  <2> QED BY <2>2, <2>3
<1>3. CASE LookFails \/ EndpointFails \/ Rewarm
  <2>1. pc \in {"look", "ask"} /\ replied' = replied
    BY <1>3 DEF LookFails, EndpointFails, Rewarm, talk
  <2>2. CASE pc' = "look" /\ UNCHANGED progress
    BY <2>1, <2>2 DEF StepsFailed, progress
  <2>3. CASE \E why \in CutOff : FailStep(why)
    <3>1. CASE replied
      BY <2>1, <2>3, <3>1 DEF StepsFailed, FailStep
    <3>2. CASE ~replied
      BY <2>1, <2>3, <3>2, FailedStep DEF StepsFailed
    <3> QED BY <3>1, <3>2
  <2> QED BY <1>3, <2>2, <2>3 DEF LookFails, EndpointFails, Rewarm, CutOff
<1>4. CASE LooksElsewhere \/ ModelReplies \/ ModelRambles
  BY <1>4 DEF LooksElsewhere, ModelReplies, ModelRambles, StepsFailed
<1>5. CASE LooksAtApp
  BY <1>5 DEF LooksAtApp, StepsFailed, progress, talk
<1>6. CASE \/ CallIdle \/ CallIssue \/ CallAnswer \/ (\E e \in {"action", "home"} : CallAct(e))
           \/ CallActThrows \/ EndStep
  <2>1. pc = "turn" /\ replied' = replied
    BY <1>6 DEF CallIdle, CallIssue, CallAnswer, CallAct, CallActThrows, EndStep, talk
  <2> QED BY <2>1 DEF StepsFailed
<1>7. CASE \/ SkipCard \/ StartMission \/ EndNight \/ ResetForMission \/ CannotBeSeen
           \/ RelaunchThrows \/ CallHomeThrows \/ EndMission \/ CardDone
           \/ (\E c \in candidates : Pick(c)) \/ ResetForAttempt \/ Replay \/ CheckAgain \/ Decide
           \/ PutBack \/ Post
  <2>1. pc' \notin InMission
    BY <1>7 DEF SkipCard, StartMission, EndNight, ResetForMission, CannotBeSeen, RelaunchThrows,
       CallHomeThrows, EndMission, CardDone, Pick, ResetForAttempt, Replay, CheckAgain, Decide,
       PutBack, Post, Abandon, AttemptOver, InMission
  <2> QED BY <2>1 DEF StepsFailed, InMission
<1>8. CASE AppCrashes
  BY <1>8 DEF AppCrashes, StepsFailed, mission, progress, talk
<1> QED BY <1>1, <1>2, <1>3, <1>4, <1>5, <1>6, <1>7, <1>8 DEF Next, Work

LEMMA NotJudgedStep == ASSUME ExploreInv, Next PROVE NotJudgedYet'
<1> USE DEF ExploreInv
<1>1. CASE BeginMission
  BY <1>1 DEF BeginMission, Abandon, NothingYet, NotJudgedYet, InMission, mission, trail
<1>2. CASE LooksElsewhere \/ LooksAtApp \/ CallIssue
  BY <1>2 DEF LooksElsewhere, LooksAtApp, CallIssue, MayFlag, Flagged, NotJudgedYet, InMission
<1>3. CASE EndStep
  BY <1>3 DEF EndStep, Flagged, NotJudgedYet, InMission, trail
<1>4. CASE \/ StopLooking \/ LookFails \/ ModelReplies \/ ModelRambles \/ EndpointFails \/ Rewarm
           \/ CallIdle \/ CallAnswer \/ (\E e \in {"action", "home"} : CallAct(e)) \/ CallActThrows
  <2>1. pc \in InMission /\ candidates' = candidates
    BY <1>4 DEF StopLooking, LookFails, ModelReplies, ModelRambles, EndpointFails, Rewarm, CallIdle,
       CallAnswer, CallAct, CallActThrows, InMission, trail
  <2> QED BY <2>1 DEF NotJudgedYet
<1>5. CASE \/ SkipCard \/ StartMission \/ EndNight \/ ResetForMission \/ CannotBeSeen
           \/ RelaunchThrows \/ CallHomeThrows \/ EndMission \/ CardDone
           \/ (\E c \in candidates : Pick(c)) \/ ResetForAttempt \/ Replay \/ CheckAgain \/ Decide
           \/ PutBack \/ Post
  <2>1. pc' \notin InMission
    BY <1>5 DEF SkipCard, StartMission, EndNight, ResetForMission, CannotBeSeen, RelaunchThrows,
       CallHomeThrows, EndMission, CardDone, Pick, ResetForAttempt, Replay, CheckAgain, Decide,
       PutBack, Post, Abandon, AttemptOver, InMission
  <2> QED BY <2>1 DEF NotJudgedYet
<1>6. CASE AppCrashes
  BY <1>6 DEF AppCrashes, NotJudgedYet, mission, trail
<1> QED BY <1>1, <1>2, <1>3, <1>4, <1>5, <1>6 DEF Next, Work

-----------------------------------------------------------------------------
(***************************************************************************)
(* The night                                                               *)
(***************************************************************************)

LEMMA InvInit == ASSUME Init PROVE ExploreInv
<1>1. ExploreTypeOK
  BY TypeInit
<1>2. Replayable
  <2>1. NoCandidate \in Candidate /\ Sound(NoCandidate)
    BY NoCandidateIsSound, <1>1 DEF ExploreTypeOK, MissionOK
  <2> QED BY <2>1 DEF Init, Replayable
<1>3. NothingYet /\ StepsFailed /\ NotJudgedYet /\ EvidenceIsEarned
  BY DEF Init, NothingYet, StepsFailed, NotJudgedYet, EvidenceIsEarned, InMission
<1>4. TrailIsTrue /\ RightBuild /\ OldIsHistory
  BY DEF Init, TrailIsTrue, RightBuild, OldIsHistory, Running, InMission
<1> QED BY <1>1, <1>2, <1>3, <1>4 DEF ExploreInv

LEMMA InvStep == ASSUME ExploreInv, [Next]_vars PROVE ExploreInv'
<1>1. CASE Next
  BY <1>1, TypeStep, NothingYetStep, ReplayableStep, TrailStep, RightBuildStep, OldIsHistoryStep,
     StepsFailedStep, NotJudgedStep, EvidenceStep DEF ExploreInv
<1>2. CASE UNCHANGED vars
  <2>1. /\ UNCHANGED <<build, touched, log, baseline, pc, card, ran, newFiled, i, executed, candidates>>
        /\ UNCHANGED <<rewarms, errors, calls, done, ended, replied, current, stage, attempt>>
        /\ UNCHANGED <<reproduced, foul>>
    BY <1>2 DEF vars, phone, night, mission, trail, progress, talk, replay
  <2>2. ExploreTypeOK'
    BY <2>1 DEF ExploreInv, ExploreTypeOK, PhoneOK, NightOK, MissionOK, ReplayOK
  <2>3. NothingYet' /\ Replayable' /\ TrailIsTrue'
    BY <2>1 DEF ExploreInv, NothingYet, Replayable, Sound, TrailIsTrue, Straight, Prefix
  <2>4. RightBuild' /\ OldIsHistory' /\ StepsFailed' /\ NotJudgedYet' /\ EvidenceIsEarned'
    BY <2>1 DEF ExploreInv, RightBuild, OldIsHistory, StepsFailed, NotJudgedYet, EvidenceIsEarned
  <2> QED BY <2>2, <2>3, <2>4 DEF ExploreInv
<1> QED BY <1>1, <1>2

LEMMA InvHolds == Spec => []ExploreInv
BY InvInit, InvStep, PTL DEF Spec

\* The state of a night of exploring is typed.
THEOREM ExploreTypes == Spec => []ExploreTypeOK
<1>1. ExploreInv => ExploreTypeOK
  BY DEF ExploreInv
<1> QED BY <1>1, InvHolds, PTL

\* The replay of a candidate repeats what had been done to the app when it was
\* noticed, whatever the mission did since (runMission, replayThrough).
THEOREM ReplaysWhatWasDoneHolds == Spec => []ReplaysWhatWasDone
<1>1. ExploreInv => ReplaysWhatWasDone
  BY DEF ExploreInv, Replayable, Sound, Prefix, ReplaysWhatWasDone
<1> QED BY <1>1, InvHolds, PTL

\* Nothing is believed on evidence of another build, another run or a crash log that
\* was not read (reset, crashes, confirm, onPreviousBuild).
THEOREM EvidenceIsEarnedHolds == Spec => []EvidenceIsEarned
<1>1. ExploreInv => EvidenceIsEarned
  BY DEF ExploreInv
<1> QED BY <1>1, InvHolds, PTL

\* A mission without a reply is neither judged nor counted, unless its time ran out
\* or it has fewer steps than failures it outlives (consecutiveErrors, cutOff).
THEOREM OutageIsNotBlamedHolds == Spec => OutageIsNotBlamed
<1> DEFINE Blame == ran' # ran \/ \E c \in candidates' : c.check = "goal"
           Fair == pc = "over" /\ pc' # "over" /\ Blame =>
                      replied \/ ended = "time" \/ Steps <= MaxErrors
<1>1. ASSUME ExploreInv, Next PROVE Fair
  <2> SUFFICES ASSUME pc = "over", pc' # "over", Blame, ~replied
               PROVE  ended = "time" \/ Steps <= MaxErrors
    OBVIOUS
  <2>1. EndMission
    BY <1>1 DEF Next, Work, SkipCard, StartMission, EndNight, ResetForMission, BeginMission,
       StopLooking, LookFails, CannotBeSeen, LooksElsewhere, LooksAtApp, RelaunchThrows, ModelReplies,
       ModelRambles, EndpointFails, Rewarm, CallIdle, CallIssue, CallAnswer, CallAct, CallActThrows,
       CallHomeThrows, EndStep, CardDone, Pick, ResetForAttempt, Replay, CheckAgain, Decide, PutBack,
       Post, AppCrashes
  <2>2. ended \in CutOff \union {"time"} \/ Steps <= MaxErrors
    BY <1>1 DEF ExploreInv, StepsFailed
  <2>3. ended \in CutOff => ran' = ran
    BY <1>1, <2>1 DEF EndMission, ExploreInv, ExploreTypeOK, NightOK
  <2>4. ended \in CutOff => candidates' \subseteq candidates
    BY <2>1 DEF EndMission, Chosen
  <2>5. \A c \in candidates : c.check # "goal"
    BY <1>1 DEF ExploreInv, NotJudgedYet, InMission
  <2> QED BY <2>2, <2>3, <2>4, <2>5
<1>2. ASSUME UNCHANGED vars PROVE Fair
  BY <1>2 DEF vars
<1>3. ExploreInv /\ [Next]_vars => [Fair]_vars
  BY <1>1, <1>2
<1> QED BY <1>3, InvHolds, PTL DEF Spec, OutageIsNotBlamed

-----------------------------------------------------------------------------
(***************************************************************************)
(* The night gets shorter.  What is left of it is measured by the cards,   *)
(* the parts of the card, the steps of its mission or its candidates, the  *)
(* places a step or a candidate has still to go to, the turns there, and   *)
(* the acts of a turn, in the lexicographic order.                         *)
(***************************************************************************)

AtReplay == {"attempt", "prepared", "replayed"}

CardsLeft == IF pc = "end" THEN 0 ELSE Cards - card + 1

\* The card's parts: before its mission, in it, and behind it.
PartsLeft ==
    CASE pc = "card" -> 4 [] pc = "reset" -> 3 [] pc = "ready" -> 2
      [] pc \in InMission -> 1 [] OTHER -> 0

\* Steps a mission may still take, or candidates still to pick.
UnitsLeft ==
    CASE pc \in {"look", "ask", "turn"} -> Steps - i + 2
      [] pc \in {"card", "reset", "ready", "over", "end"} -> 0
      [] OTHER -> Cardinality(candidates)

\* Times the model may still be loaded in a mission, or the places a candidate in
\* hand has still to go to.
StagesLeft ==
    CASE pc \in InMission -> MaxRewarms - rewarms
      [] pc \in AtReplay -> IF stage = "test" THEN 5 ELSE 3
      [] pc = "file" -> 4 [] pc = "putback" -> 2 [] pc = "post" -> 1
      [] OTHER -> 0

\* The turns of a step, or the attempts at a stage.
TurnsLeft ==
    CASE pc = "look" -> 2 [] pc = "ask" -> 1
      [] pc \in AtReplay -> IF stage = "test" THEN Attempts - attempt ELSE 0
      [] OTHER -> 0

\* The calls of a turn, or the acts of an attempt.
ActsLeft ==
    CASE pc = "turn" -> calls [] pc = "attempt" -> 2 [] pc = "prepared" -> 1 [] OTHER -> 0

Left == <<CardsLeft, PartsLeft, UnitsLeft, StagesLeft, TurnsLeft, ActsLeft>>

Lengths == [1..6 -> Nat]

Shorter(x, y) == \E n \in 1..6 : x[n] < y[n] /\ \A k \in 1..(n - 1) : x[k] = y[k]

\* What bounds the night: the cards, the steps, the warmings and the attempts.
Bounded ==
    /\ card <= Cards /\ (pc \notin {"card", "end"} => card < Cards)
    /\ pc \in {"look", "over"} => i <= Steps + 1
    /\ pc \in {"ask", "turn"} => i <= Steps
    /\ rewarms <= MaxRewarms
    /\ attempt <= Attempts
    /\ IsFiniteSet(candidates)
    /\ pc \in {"card", "reset", "ready"} => i = 1 /\ rewarms = 0

\* Whatever fails, throws, runs out of time or is reproduced, a step of the harness
\* leaves less of the night to do, and a crash of the app leaves as much.
NightShortens ==
    [][/\ Work => Shorter(Left', Left)
       /\ AppCrashes => Left' = Left]_vars

LEMMA ForgetIsBounded ==
    ASSUME Forget
    PROVE  i' = 1 /\ rewarms' = 0 /\ attempt' = 1 /\ IsFiniteSet(candidates')
BY FS_EmptySet DEF Forget, Return

LEMMA FlaggedIsFinite ==
    ASSUME IsFiniteSet(candidates), NEW check
    PROVE  IsFiniteSet(Flagged(check))
BY FS_AddElement DEF Flagged

LEMMA BoundedInit == ASSUME Init PROVE Bounded
BY ExploreAssumption, FS_EmptySet DEF Init, Bounded

LEMMA Naturals ==
    ASSUME ExploreTypeOK
    PROVE  /\ Cards \in Nat /\ Steps \in Nat /\ MaxRewarms \in Nat /\ Attempts \in Nat
           /\ Attempts > 0
           /\ card \in Nat /\ i \in Nat /\ rewarms \in Nat /\ calls \in Nat /\ attempt \in Nat
BY ExploreAssumption DEF ExploreTypeOK, NightOK, MissionOK, ReplayOK

LEMMA BoundedStep == ASSUME ExploreTypeOK, Bounded, Next PROVE Bounded'
<1> USE Naturals
<1>1. CASE SkipCard \/ StartMission \/ EndNight
  BY <1>1 DEF SkipCard, StartMission, EndNight, Bounded, night, mission, trail, progress, talk,
     replay
<1>2. ASSUME pc \notin {"card", "end"}, Abandon PROVE Bounded'
  BY <1>2, ForgetIsBounded DEF Abandon, Bounded
<1>3. CASE ResetForMission
  BY <1>2, <1>3 DEF ResetForMission, Bounded, night, mission, trail, progress, talk, replay
<1>4. CASE BeginMission
  BY <1>2, <1>4 DEF BeginMission, Bounded, night, mission, trail, progress, talk, replay
<1>5. CASE CannotBeSeen \/ RelaunchThrows \/ CallHomeThrows
  BY <1>2, <1>5 DEF CannotBeSeen, RelaunchThrows, CallHomeThrows
<1>6. CASE StopLooking \/ ModelReplies
  BY <1>6 DEF StopLooking, ModelReplies, Bounded, night, trail, talk, replay
<1>7. CASE LookFails \/ ModelRambles \/ EndpointFails
  BY <1>7 DEF LookFails, ModelRambles, EndpointFails, FailStep, Bounded, night, trail, talk, replay
<1>8. CASE Rewarm
  BY <1>8 DEF Rewarm, Rewarmed, FailStep, Bounded, night, trail, progress, replay
<1>9. ASSUME NEW check, MayFlag(check) PROVE IsFiniteSet(candidates')
  BY <1>9, FlaggedIsFinite DEF MayFlag, Bounded
<1>10. CASE LooksElsewhere \/ LooksAtApp
  <2>1. IsFiniteSet(candidates')
    BY <1>9, <1>10 DEF LooksElsewhere, LooksAtApp
  <2> QED
    BY <1>10, <2>1 DEF LooksElsewhere, LooksAtApp, Bounded, night, progress, talk, replay
<1>11. CASE \/ CallIdle \/ CallIssue \/ CallAnswer \/ (\E e \in {"action", "home"} : CallAct(e))
            \/ CallActThrows
  <2>1. IsFiniteSet(candidates')
    BY <1>9, <1>11 DEF CallIdle, CallIssue, CallAnswer, CallAct, CallActThrows, trail, Bounded
  <2> QED
    BY <1>11, <2>1 DEF CallIdle, CallIssue, CallAnswer, CallAct, CallActThrows, Bounded, night,
       progress, replay
<1>12. CASE EndStep
  <2>1. IsFiniteSet(candidates')
    BY <1>12, FlaggedIsFinite DEF EndStep, trail, Bounded
  <2> QED
    BY <1>12, <2>1 DEF EndStep, Bounded, night, talk, replay
<1>13. CASE EndMission
  <2>1. \A cs : IsFiniteSet(cs) => \A T \in Chosen(cs) : IsFiniteSet(T)
    BY FS_EmptySet, FS_Subset DEF Chosen
  <2>2. IsFiniteSet(candidates')
    BY <1>13, <2>1, FlaggedIsFinite DEF EndMission, Bounded
  <2> QED
    BY <1>13, <2>2 DEF EndMission, Return, Bounded, replay
<1>14. CASE CardDone
  BY <1>14, ForgetIsBounded DEF CardDone, Bounded
<1>15. CASE \E c \in candidates : Pick(c)
  <2>1. IsFiniteSet(candidates')
    BY <1>15, FS_RemoveElement DEF Pick, Bounded
  <2> QED
    BY <1>15, <2>1 DEF Pick, Bounded, night, progress, talk
<1>16. CASE ResetForAttempt \/ Replay \/ CheckAgain
  BY <1>16 DEF ResetForAttempt, Replay, CheckAgain, AttemptOver, Bounded, night, mission, trail,
     progress, talk, replay
<1>17. CASE Decide \/ PutBack \/ Post
  BY <1>17 DEF Decide, PutBack, Post, Bounded, night, mission, trail, progress, talk, replay
<1>18. CASE AppCrashes
  BY <1>18 DEF AppCrashes, Bounded, night, mission, trail, progress, talk, replay
<1> QED
  BY <1>1, <1>3, <1>4, <1>5, <1>6, <1>7, <1>8, <1>10, <1>11, <1>12, <1>13, <1>14, <1>15, <1>16,
     <1>17, <1>18 DEF Next, Work

\* What is left is less when the first number that changes drops.
LEMMA FirstDrop ==
    ASSUME \/ CardsLeft' < CardsLeft
           \/ /\ CardsLeft' = CardsLeft
              /\ \/ PartsLeft' < PartsLeft
                 \/ /\ PartsLeft' = PartsLeft
                    /\ \/ UnitsLeft' < UnitsLeft
                       \/ /\ UnitsLeft' = UnitsLeft
                          /\ \/ StagesLeft' < StagesLeft
                             \/ /\ StagesLeft' = StagesLeft
                                /\ \/ TurnsLeft' < TurnsLeft
                                   \/ TurnsLeft' = TurnsLeft /\ ActsLeft' < ActsLeft
    PROVE  Shorter(Left', Left)
<1> DEFINE L == Left
           M == Left'
<1>1. /\ L[1] = CardsLeft /\ L[2] = PartsLeft /\ L[3] = UnitsLeft
      /\ L[4] = StagesLeft /\ L[5] = TurnsLeft /\ L[6] = ActsLeft
      /\ M[1] = CardsLeft' /\ M[2] = PartsLeft' /\ M[3] = UnitsLeft'
      /\ M[4] = StagesLeft' /\ M[5] = TurnsLeft' /\ M[6] = ActsLeft'
  BY DEF Left
<1>2. \/ M[1] < L[1]
      \/ M[1] = L[1] /\ M[2] < L[2]
      \/ M[1] = L[1] /\ M[2] = L[2] /\ M[3] < L[3]
      \/ M[1] = L[1] /\ M[2] = L[2] /\ M[3] = L[3] /\ M[4] < L[4]
      \/ M[1] = L[1] /\ M[2] = L[2] /\ M[3] = L[3] /\ M[4] = L[4] /\ M[5] < L[5]
      \/ /\ M[1] = L[1] /\ M[2] = L[2] /\ M[3] = L[3] /\ M[4] = L[4] /\ M[5] = L[5]
         /\ M[6] < L[6]
  BY <1>1
<1> HIDE DEF L, M
<1>3. Shorter(M, L)
  BY <1>2 DEF Shorter
<1> QED
  BY <1>3 DEF L, M

\* A mission that throws leaves fewer cards.
LEMMA AbandonShortens ==
    ASSUME ExploreTypeOK, Bounded, pc \notin {"card", "end"}, Abandon
    PROVE  CardsLeft' < CardsLeft
BY Naturals DEF Abandon, Bounded, CardsLeft

\* A card that is taken or left.
LEMMA CardShortens ==
    ASSUME ExploreTypeOK, Bounded,
           \/ SkipCard \/ StartMission \/ EndNight \/ ResetForMission \/ BeginMission
           \/ CannotBeSeen \/ RelaunchThrows \/ CallHomeThrows \/ CardDone
    PROVE  CardsLeft' < CardsLeft \/ (CardsLeft' = CardsLeft /\ PartsLeft' < PartsLeft)
<1> USE Naturals
<1>1. CASE SkipCard \/ EndNight
  BY <1>1 DEF SkipCard, EndNight, Bounded, CardsLeft
<1>2. CASE StartMission
  BY <1>2 DEF StartMission, CardsLeft, PartsLeft, InMission, night
<1>a. Abandon /\ pc \notin {"card", "end"} => CardsLeft' < CardsLeft
  BY AbandonShortens
<1>3. CASE ResetForMission
  BY <1>3, <1>a DEF ResetForMission, CardsLeft, PartsLeft, InMission, night
<1>4. CASE BeginMission
  BY <1>4, <1>a DEF BeginMission, CardsLeft, PartsLeft, InMission, night
<1>5. CASE CannotBeSeen \/ RelaunchThrows \/ CallHomeThrows
  BY <1>5, <1>a DEF CannotBeSeen, RelaunchThrows, CallHomeThrows
<1>6. CASE CardDone
  BY <1>6 DEF CardDone, Bounded, CardsLeft
<1> QED
  BY <1>1, <1>2, <1>3, <1>4, <1>5, <1>6

\* A step of a mission, which stays at its card until it ends.
LEMMA MissionShortens ==
    ASSUME ExploreTypeOK, Bounded,
           \/ StopLooking \/ LookFails \/ LooksElsewhere \/ LooksAtApp \/ ModelReplies
           \/ ModelRambles \/ EndpointFails \/ Rewarm \/ EndStep
    PROVE  /\ CardsLeft' = CardsLeft /\ PartsLeft' = PartsLeft
           /\ \/ UnitsLeft' < UnitsLeft
              \/ /\ UnitsLeft' = UnitsLeft
                 /\ \/ StagesLeft' < StagesLeft
                    \/ StagesLeft' = StagesLeft /\ TurnsLeft' < TurnsLeft
<1> USE Naturals
<1>1. /\ pc \in InMission /\ pc' \in InMission /\ card' = card
  BY DEF StopLooking, LookFails, LooksElsewhere, LooksAtApp, ModelReplies, ModelRambles,
     EndpointFails, Rewarm, EndStep, FailStep, InMission, night
<1>2. CardsLeft' = CardsLeft /\ PartsLeft' = PartsLeft
  BY <1>1 DEF CardsLeft, PartsLeft, InMission
<1>3. CASE StopLooking
  BY <1>2, <1>3 DEF StopLooking, Bounded, UnitsLeft
<1>4. CASE LookFails \/ ModelRambles \/ EndpointFails
  BY <1>2, <1>4 DEF LookFails, ModelRambles, EndpointFails, FailStep, Bounded, UnitsLeft
<1>5. CASE LooksElsewhere
  BY <1>2, <1>5 DEF LooksElsewhere, Bounded, UnitsLeft
<1>6. CASE EndStep
  BY <1>2, <1>6 DEF EndStep, Bounded, UnitsLeft
<1>7. CASE LooksAtApp
  BY <1>2, <1>7 DEF LooksAtApp, UnitsLeft, StagesLeft, TurnsLeft, InMission, AtReplay, progress,
     talk
<1>8. CASE ModelReplies
  BY <1>2, <1>8 DEF ModelReplies, UnitsLeft, StagesLeft, TurnsLeft, InMission, AtReplay
<1>9. CASE Rewarm
  <2>1. UnitsLeft' < UnitsLeft \/ UnitsLeft' = UnitsLeft
    <3>1. /\ pc = "ask" /\ pc' \in {"look", "over"}
          /\ i' = i \/ i' = i + 1
      BY <1>9 DEF Rewarm, FailStep, progress
    <3> QED
      BY <3>1 DEF Bounded, UnitsLeft
  <2>2. StagesLeft' < StagesLeft
    BY <1>9 DEF Rewarm, Rewarmed, FailStep, StagesLeft, InMission, AtReplay
  <2> QED
    BY <1>2, <2>1, <2>2
<1> QED
  BY <1>3, <1>4, <1>5, <1>6, <1>7, <1>8, <1>9

\* A call of a turn that does not throw.
LEMMA CallShortens ==
    ASSUME ExploreTypeOK, Bounded,
           \/ CallIdle \/ CallIssue \/ CallAnswer \/ (\E e \in {"action", "home"} : CallAct(e))
           \/ CallActThrows
    PROVE  /\ CardsLeft' = CardsLeft /\ PartsLeft' = PartsLeft /\ UnitsLeft' = UnitsLeft
           /\ StagesLeft' = StagesLeft /\ TurnsLeft' = TurnsLeft /\ ActsLeft' < ActsLeft
<1> USE Naturals
<1>1. /\ pc = "turn" /\ pc' = "turn" /\ card' = card /\ i' = i /\ rewarms' = rewarms
      /\ calls' = calls - 1
  BY DEF CallIdle, CallIssue, CallAnswer, CallAct, CallActThrows, night, progress
<1> QED
  BY <1>1 DEF CardsLeft, PartsLeft, UnitsLeft, StagesLeft, TurnsLeft, ActsLeft, InMission, AtReplay

\* A candidate is picked, replayed, decided on, or filed.
LEMMA ReplayShortens ==
    ASSUME ExploreTypeOK, Bounded,
           \/ (\E c \in candidates : Pick(c)) \/ ResetForAttempt \/ Replay \/ CheckAgain
           \/ Decide \/ PutBack \/ Post
    PROVE  /\ CardsLeft' = CardsLeft /\ PartsLeft' = PartsLeft
           /\ \/ UnitsLeft' < UnitsLeft
              \/ /\ UnitsLeft' = UnitsLeft
                 /\ \/ StagesLeft' < StagesLeft
                    \/ /\ StagesLeft' = StagesLeft
                       /\ \/ TurnsLeft' < TurnsLeft
                          \/ TurnsLeft' = TurnsLeft /\ ActsLeft' < ActsLeft
<1> DEFINE Behind == AtReplay \union {"pick", "file", "putback", "post"}
<1> USE Naturals
<1>1. pc \in Behind /\ pc' \in Behind /\ card' = card
  BY DEF Pick, ResetForAttempt, Replay, CheckAgain, Decide, PutBack, Post, AttemptOver, AtReplay,
     night
<1>2. CardsLeft' = CardsLeft /\ PartsLeft' = PartsLeft
  BY <1>1 DEF CardsLeft, PartsLeft, InMission, AtReplay
<1>3. UnitsLeft = Cardinality(candidates) /\ UnitsLeft' = Cardinality(candidates')
  BY <1>1 DEF UnitsLeft, AtReplay
<1>4. CASE \E c \in candidates : Pick(c)
  <2>1. PICK c \in candidates : candidates' = candidates \ {c}
    BY <1>4 DEF Pick
  <2>2. Cardinality(candidates) \in Nat /\ Cardinality(candidates') = Cardinality(candidates) - 1
    BY <2>1, FS_RemoveElement, FS_CardinalityType DEF Bounded
  <2> QED
    BY <1>2, <1>3, <2>2
<1>5. ASSUME NEW hit, AttemptOver(hit), pc \in {"attempt", "prepared", "replayed"}
      PROVE  \/ StagesLeft' < StagesLeft
             \/ StagesLeft' = StagesLeft /\ TurnsLeft' < TurnsLeft
  BY <1>5 DEF AttemptOver, StagesLeft, TurnsLeft, InMission, AtReplay
<1>6. CASE ResetForAttempt \/ Replay \/ CheckAgain
  <2>1. candidates' = candidates
    BY <1>6 DEF ResetForAttempt, Replay, CheckAgain, AttemptOver, mission, trail
  <2>2. CASE \E hit : AttemptOver(hit)
    BY <1>2, <1>3, <1>5, <1>6, <2>1, <2>2 DEF ResetForAttempt, Replay, CheckAgain
  <2>3. CASE ~\E hit : AttemptOver(hit)
    <3>1. /\ stage' = stage /\ attempt' = attempt
          /\ \/ pc = "attempt" /\ pc' = "prepared"
             \/ pc = "prepared" /\ pc' = "replayed"
      BY <1>6, <2>3 DEF ResetForAttempt, Replay, CheckAgain, replay
    <3>2. StagesLeft' = StagesLeft /\ TurnsLeft' = TurnsLeft /\ ActsLeft' < ActsLeft
      BY <3>1 DEF StagesLeft, TurnsLeft, ActsLeft, InMission, AtReplay
    <3> QED
      BY <1>2, <1>3, <2>1, <3>2
  <2> QED
    BY <2>2, <2>3
<1>7. CASE Decide \/ PutBack \/ Post
  <2>1. candidates' = candidates
    BY <1>7 DEF Decide, PutBack, Post, mission, trail
  <2>2. StagesLeft' < StagesLeft
    BY <1>7 DEF Decide, PutBack, Post, StagesLeft, InMission, AtReplay
  <2> QED
    BY <1>2, <1>3, <2>1, <2>2
<1> QED
  BY <1>4, <1>6, <1>7

\* A step of the harness leaves less to do.
LEMMA WorkShortens == ASSUME ExploreTypeOK, Bounded, Work PROVE Shorter(Left', Left)
<1> USE FirstDrop
<1>1. CASE EndMission
  <2>1. CardsLeft' = CardsLeft /\ PartsLeft' < PartsLeft
    BY <1>1 DEF EndMission, CardsLeft, PartsLeft, InMission
  <2> QED
    BY <2>1
<1>2. CASE \/ SkipCard \/ StartMission \/ EndNight \/ ResetForMission \/ BeginMission
           \/ CannotBeSeen \/ RelaunchThrows \/ CallHomeThrows \/ CardDone
  BY <1>2, CardShortens
<1>3. CASE \/ StopLooking \/ LookFails \/ LooksElsewhere \/ LooksAtApp \/ ModelReplies
           \/ ModelRambles \/ EndpointFails \/ Rewarm \/ EndStep
  BY <1>3, MissionShortens
<1>4. CASE \/ CallIdle \/ CallIssue \/ CallAnswer \/ (\E e \in {"action", "home"} : CallAct(e))
           \/ CallActThrows
  BY <1>4, CallShortens
<1>5. CASE \/ (\E c \in candidates : Pick(c)) \/ ResetForAttempt \/ Replay \/ CheckAgain
           \/ Decide \/ PutBack \/ Post
  BY <1>5, ReplayShortens
<1> QED
  BY <1>1, <1>2, <1>3, <1>4, <1>5 DEF Work


\* The least of a set of naturals.
LEMMA NatMinimum ==
    ASSUME NEW T \in SUBSET Nat, T # {}
    PROVE  \E x \in T : \A y \in T : x <= y
<1>1. PICK x \in T : \A y \in T : ~(<<y, x>> \in OpToRel(<, Nat))
  BY NatLessThanWellFounded, WFMin
<1>2. ASSUME NEW y \in T PROVE x <= y
  <2>1. ~(y < x)
    BY <1>1 DEF OpToRel
  <2> QED
    BY <2>1
<1> QED
  BY <1>2

\* Among lengths that agree on their first n numbers, a next one that is least.
LEMMA LeastNext ==
    ASSUME NEW T \in SUBSET Lengths, NEW n \in 0..5, NEW x \in T
    PROVE  \E z \in T : /\ \A k \in 1..n : z[k] = x[k]
                        /\ \A y \in T : (\A k \in 1..n : y[k] = x[k]) => z[n + 1] <= y[n + 1]
<1> DEFINE Agree == {y \in T : \A k \in 1..n : y[k] = x[k]}
           Nexts == {y[n + 1] : y \in Agree}
<1>1. n + 1 \in 1..6
  OBVIOUS
<1>2. x \in Agree /\ \A y \in Agree : y[n + 1] \in Nat
  BY <1>1 DEF Lengths
<1>3. Nexts \in SUBSET Nat /\ Nexts # {}
  BY <1>2
<1>4. PICK m \in Nexts : \A q \in Nexts : m <= q
  <2> HIDE DEF Nexts
  <2> QED
    BY <1>3, NatMinimum
<1>5. PICK z \in Agree : z[n + 1] = m
  OBVIOUS
<1> QED
  BY <1>4, <1>5

\* x is not undercut in T within its first n numbers.
Least(T, x, n) ==
    \A y \in T : \A j \in 1..n : (\A k \in 1..(j - 1) : y[k] = x[k]) => x[j] <= y[j]

LEMMA LeastStep ==
    ASSUME NEW T \in SUBSET Lengths, NEW n \in 0..5, NEW x \in T, Least(T, x, n)
    PROVE  \E z \in T : Least(T, z, n + 1)
<1>1. PICK z \in T :
         /\ \A k \in 1..n : z[k] = x[k]
         /\ \A y \in T : (\A k \in 1..n : y[k] = x[k]) => z[n + 1] <= y[n + 1]
  BY LeastNext
<1>2. ASSUME NEW y \in T, NEW j \in 1..(n + 1), \A k \in 1..(j - 1) : y[k] = z[k]
      PROVE  z[j] <= y[j]
  <2>1. CASE j = n + 1
    <3>1. \A k \in 1..n : y[k] = x[k]
      BY <1>1, <1>2, <2>1
    <3> QED
      BY <1>1, <2>1, <3>1
  <2>2. CASE j \in 1..n
    <3>1. (\A k \in 1..(j - 1) : y[k] = x[k]) /\ z[j] = x[j]
      BY <1>1, <1>2, <2>2
    <3> QED
      BY <2>2, <3>1 DEF Least
  <2> QED
    BY <2>1, <2>2
<1> QED
  BY <1>2 DEF Least

\* No series of lengths gets shorter forever.
THEOREM ShorterIsWellFounded ==
    IsWellFoundedOn({p \in Lengths \X Lengths : Shorter(p[1], p[2])}, Lengths)
<1> DEFINE R == {p \in Lengths \X Lengths : Shorter(p[1], p[2])}
<1>1. ASSUME NEW T \in SUBSET Lengths, T # {}
      PROVE  \E x \in T : \A y \in T : ~(<<y, x>> \in R)
  <2>1. PICK x0 \in T : Least(T, x0, 0)
    BY <1>1 DEF Least
  <2>2. PICK x1 \in T : Least(T, x1, 1)
    BY <2>1, LeastStep
  <2>3. PICK x2 \in T : Least(T, x2, 2)
    BY <2>2, LeastStep
  <2>4. PICK x3 \in T : Least(T, x3, 3)
    BY <2>3, LeastStep
  <2>5. PICK x4 \in T : Least(T, x4, 4)
    BY <2>4, LeastStep
  <2>6. PICK x5 \in T : Least(T, x5, 5)
    BY <2>5, LeastStep
  <2>7. PICK x6 \in T : Least(T, x6, 6)
    <3>1. 5 \in 0..5 /\ 5 + 1 = 6
      OBVIOUS
    <3> HIDE DEF R
    <3> QED
      BY <2>6, <3>1, LeastStep
  <2>8. ASSUME NEW y \in T PROVE ~Shorter(y, x6)
    <3>1. SUFFICES ASSUME NEW n \in 1..6, y[n] < x6[n], \A k \in 1..(n - 1) : y[k] = x6[k]
                   PROVE  FALSE
      BY DEF Shorter
    <3>2. x6[n] <= y[n]
      BY <2>7, <3>1 DEF Least
    <3>3. x6[n] \in Nat /\ y[n] \in Nat
      BY DEF Lengths
    <3> QED
      BY <3>1, <3>2, <3>3
  <2> QED
    BY <2>8
<1> HIDE DEF R
<1>2. IsWellFoundedOn(R, Lengths)
  BY <1>1, MinWF
<1> QED
  BY <1>2 DEF R

LEMMA LeftIsALength == ASSUME ExploreTypeOK, Bounded PROVE Left \in Lengths
<1> USE Naturals
<1>1. CardsLeft \in Nat
  BY DEF CardsLeft, Bounded
<1>2. PartsLeft \in Nat
  BY DEF PartsLeft
<1>3. UnitsLeft \in Nat
  <2>1. Cardinality(candidates) \in Nat
    BY FS_CardinalityType DEF Bounded
  <2> QED
    BY <2>1 DEF UnitsLeft, Bounded
<1>4. StagesLeft \in Nat
  BY DEF StagesLeft, Bounded
<1>5. TurnsLeft \in Nat
  BY DEF TurnsLeft, Bounded
<1>6. ActsLeft \in Nat
  BY DEF ActsLeft
<1> QED
  BY <1>1, <1>2, <1>3, <1>4, <1>5, <1>6 DEF Left, Lengths

LEMMA BoundedHolds == Spec => []Bounded
<1>1. ASSUME Bounded, UNCHANGED vars PROVE Bounded'
  BY <1>1 DEF Bounded, vars, night, mission, trail, progress, talk, replay
<1>2. ExploreTypeOK /\ Bounded /\ [Next]_vars => Bounded'
  BY <1>1, BoundedStep
<1> QED
  BY <1>2, BoundedInit, ExploreTypes, PTL DEF Spec

\* The night gets shorter with every step of the harness (run_, runMission, confirm):
\* what is left of it stays a length, a step leaves a shorter one, and the app,
\* crashing, cannot make it longer again.
THEOREM NightKeepsShortening == Spec => [](Left \in Lengths) /\ NightShortens
<1> DEFINE Shortens == (Work => Shorter(Left', Left)) /\ (AppCrashes => Left' = Left)
<1>1. ExploreTypeOK /\ Bounded => Left \in Lengths
  BY LeftIsALength
<1>2. ASSUME ExploreTypeOK, Bounded, Next PROVE Shortens
  <2>1. AppCrashes => Left' = Left
    BY DEF AppCrashes, Left, CardsLeft, PartsLeft, UnitsLeft, StagesLeft, TurnsLeft, ActsLeft,
       night, mission, trail, progress, talk, replay
  <2> QED
    BY <1>2, <2>1, WorkShortens
<1>3. ExploreTypeOK /\ Bounded /\ [Next]_vars => [Shortens]_vars
  BY <1>2
<1> QED
  BY <1>1, <1>3, BoundedHolds, ExploreTypes, PTL DEF Spec, NightShortens

=============================================================================
