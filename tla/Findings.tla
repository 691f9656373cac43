------------------------------ MODULE Findings ------------------------------
(***************************************************************************)
(* What night QA finds, and what becomes of it                             *)
(* (collector/src/findings.ts and api/findings.ts): sightings folded into  *)
(* one finding, the issue a finding is planned to become and the cap on    *)
(* issues, the verdicts of people, and the regression test a fixed finding *)
(* leaves behind.  Each database transaction is one step; the call to      *)
(* GitHub is apart from the transaction that plans it, and the collector   *)
(* may die and come back, armed or not, in between.                        *)
(***************************************************************************)
EXTENDS Naturals, FiniteSets

CONSTANTS
    Finding,     \* fingerprints of one app
    Replayable,  \* bound: the findings whose replays ever all reproduce
    Recorded,    \* bound: the findings whose replay flow may be there to keep
    Job,         \* the nightly jobs that run regression flows
    Cap,         \* FLEET_FINDINGS_ISSUE_CAP
    Day,         \* ticks in the 24 hours the cap is over
    Hops,        \* how far a duplicate is followed (20 in the code)
    None

ASSUME FindingsAssumption ==
    /\ IsFiniteSet(Finding)
    /\ Replayable \subseteq Finding /\ Recorded \subseteq Finding
    /\ Cap \in Nat /\ Day \in Nat \ {0} /\ Hops \in Nat
    /\ None \notin Finding /\ None \notin Job

Rejection == {"duplicate", "not_a_bug"}
Verdict == {"open", "real", "fixed"} \union Rejection

\* What the issue of a finding may be: settled, or to be tried again (no_repo
\* and capped are one).
Settled == {"dry_run", "pending", "filed", "failed"}
Issue == {"none", "put_off"} \union Settled

VARIABLES
    stored,     \* the findings in the database
    verdict,    \* each one's verdict
    dup,        \* duplicate_of
    cutOff,     \* history: the duplicates that were not followed to an end
    issue,      \* issue_state
    age,        \* ticks since issue_at, none after a day
    regression, \* the state of its regression test, if a flow was kept
    alarm,      \* the job whose report of a reproduction is the test's last run
    armed,      \* whether this run of the collector files issues
    sending,    \* the findings a fileIssue is under way for, and how far
    posts,      \* history: how often GitHub was asked to open an issue for each
    confirmed   \* history: findings a person called real, and none has rejected since

findingsVars == <<stored, verdict, dup, cutOff, issue, age, regression, alarm, armed, sending, posts, confirmed>>

FindingsInit ==
    /\ stored = {}
    /\ verdict = [f \in Finding |-> "open"]
    /\ dup = [f \in Finding |-> None]
    /\ cutOff = {}
    /\ issue = [f \in Finding |-> "none"]
    /\ age = [f \in Finding |-> 0]
    /\ regression = [f \in Finding |-> "none"]
    /\ alarm = [f \in Finding |-> None]
    /\ armed \in BOOLEAN
    /\ sending = [f \in Finding |-> "no"]
    /\ posts = [f \in Finding |-> 0]
    /\ confirmed = {}

-----------------------------------------------------------------------------
(***************************************************************************)
(* Sightings and issues                                                    *)
(***************************************************************************)

\* The other findings whose issue was settled in the last day.
Recent(f) == {g \in Finding \ {f} : issue[g] \in Settled /\ age[g] < Day}

\* Slip: only what was filed counts.
PlannedLax(f) ==
    IF Cardinality({g \in Recent(f) : issue[g] = "filed"}) >= Cap THEN {"put_off"}
    ELSE {IF armed THEN "pending" ELSE "dry_run", "put_off"}

\* planIssue: what an issue may become now.  An app without a repository is put
\* off; dry runs count against the cap like everything else.
Planned(f) ==
    IF Cardinality(Recent(f)) >= Cap THEN {"put_off"}
    ELSE {IF armed THEN "pending" ELSE "dry_run", "put_off"}

\* Slip: an issue whose filing has failed is planned again.
WorthPlanningAgain(f) == issue[f] \notin Settled \ {"failed"} /\ verdict[f] \in {"open", "real"}

\* maybePlanIssue's early returns.
WorthPlanning(f) == issue[f] \notin Settled /\ verdict[f] \in {"open", "real"}

\* A sighting is stored or folded into the one there is, and an issue planned
\* for it if the evidence, old or new, is solid.  A pending one is about to be
\* sent when the transaction commits.
Store(f) ==
    /\ stored' = stored \union {f}
    /\ \/ /\ f \in Replayable /\ WorthPlanning(f)
          /\ issue' \in {[issue EXCEPT ![f] = s] : s \in Planned(f)}
          /\ age' = [age EXCEPT ![f] = 0]
          /\ sending' = [sending EXCEPT ![f] = IF issue'[f] = "pending" THEN "due" ELSE @]
       \/ UNCHANGED <<issue, age, sending>>
    /\ UNCHANGED <<verdict, dup, cutOff, regression, alarm, armed, posts, confirmed>>

\* fileIssue asks GitHub.
Sends(f) ==
    /\ sending[f] = "due"
    /\ sending' = [sending EXCEPT ![f] = "sent"]
    /\ posts' = [posts EXCEPT ![f] = @ + 1]
    /\ UNCHANGED <<stored, verdict, dup, cutOff, issue, age, regression, alarm, armed, confirmed>>

\* GitHub answers, or the request fails or times out: it is not tried again.
Answered(f) ==
    /\ sending[f] = "sent"
    /\ sending' = [sending EXCEPT ![f] = "no"]
    /\ \E s \in {"filed", "failed"} : issue' = [issue EXCEPT ![f] = s]
    /\ UNCHANGED <<stored, verdict, dup, cutOff, age, regression, alarm, armed, posts, confirmed>>

\* Time passes; a day and more are the same.
Tick ==
    /\ age' = [f \in Finding |->
                 IF issue[f] \in Settled /\ age[f] < Day THEN age[f] + 1 ELSE age[f]]
    /\ UNCHANGED <<stored, verdict, dup, cutOff, issue, regression, alarm, armed, sending, posts, confirmed>>

\* The collector dies and comes back: nobody awaits GitHub's answer any more, and
\* the issues may have been armed or disarmed.
Restart ==
    /\ armed' \in BOOLEAN
    /\ sending' = [f \in Finding |-> "no"]
    /\ UNCHANGED <<stored, verdict, dup, cutOff, issue, age, regression, alarm, posts, confirmed>>

-----------------------------------------------------------------------------
(***************************************************************************)
(* Verdicts                                                                *)
(***************************************************************************)

\* The findings met as d is followed to what it is a duplicate of, Hops times.
Walk(d) ==
    LET up[n \in 0..Hops] ==
            IF n = 0 THEN d
            ELSE LET t == up[n - 1]
                 IN IF verdict[t] = "duplicate" /\ dup[t] # None THEN dup[t] ELSE t
    IN up

\* Slip: the finding named is taken as it is.
RootUnfollowed(d) == d

\* What d is taken to be a duplicate of.
Root(d) == Walk(d)[Hops]

\* The walk was over before it came to a finding judged on its own.
CutShort(d) == dup[Walk(d)[Hops]] # None

\* keepFlow may find that no flow was posted, or that it is no longer in the
\* artifact store.
Kept(f, state) == IF f \in Recorded THEN {"none", state} ELSE {"none"}

\* Slip: a rejected finding's test is left where it was.
MovedFeebly(f, v) ==
    CASE v = "real" /\ regression[f] = "none" -> Kept(f, "candidate")
      [] v = "fixed" /\ regression[f] = "none" -> Kept(f, "active")
      [] v = "fixed" -> {"active"}
      [] OTHER -> {regression[f]}

\* moveRegression: what the verdict v makes of f's test.
Moved(f, v) ==
    CASE v = "real" /\ regression[f] = "none" -> Kept(f, "candidate")
      [] v = "real" /\ regression[f] = "retired" -> {"candidate"}
      [] v = "fixed" /\ regression[f] = "none" -> Kept(f, "active")
      [] v = "fixed" -> {"active"}
      [] v \in Rejection /\ regression[f] # "none" -> {"retired"}
      [] OTHER -> {regression[f]}

\* Slip: fixed is taken at anyone's word.
AllowedFreely(f, v) == TRUE

\* Only what is real, or is still watched for, can be fixed.
Allowed(f, v) == v = "fixed" => verdict[f] \in {"real", "fixed"} \/ regression[f] = "active"

\* What v makes of f, in one transaction; d is what it is a duplicate of, and cut
\* whether the walk there was cut short.
Judged(f, v, d, cut) ==
    /\ f \in stored
    /\ Allowed(f, v)
    /\ verdict' = [verdict EXCEPT ![f] = v]
    /\ dup' = [dup EXCEPT ![f] = d]
    /\ cutOff' = IF cut THEN cutOff \union {f} ELSE cutOff \ {f}
    /\ \E s \in Moved(f, v) : regression' = [regression EXCEPT ![f] = s]
    /\ confirmed' = CASE v = "real" -> confirmed \union {f}
                      [] v \in Rejection -> confirmed \ {f}
                      [] OTHER -> confirmed
    /\ UNCHANGED <<stored, issue, age, alarm, armed, sending, posts>>

\* setVerdict.  A duplicate is one of the root of what it is said to duplicate,
\* which must not be itself.
SetVerdict(f, v) ==
    IF v = "duplicate"
    THEN \E d, r \in stored : r = Root(d) /\ r # f /\ Judged(f, v, r, CutShort(d))
    ELSE Judged(f, v, None, FALSE)

-----------------------------------------------------------------------------
(***************************************************************************)
(* Regression runs                                                         *)
(***************************************************************************)

\* Slip: whatever runs can reopen a finding.
RegressionRunAny(f, j, reproduced) ==
    /\ regression[f] # "none"
    /\ alarm' = [alarm EXCEPT ![f] = IF reproduced THEN j ELSE None]
    /\ IF reproduced
       THEN /\ verdict' = [verdict EXCEPT ![f] = "open"]
            /\ dup' = [dup EXCEPT ![f] = None]
            /\ cutOff' = cutOff \ {f}
       ELSE UNCHANGED <<verdict, dup, cutOff>>
    /\ UNCHANGED <<stored, issue, age, regression, armed, sending, posts, confirmed>>

\* recordRegressionRun: job j reports how the flow of f went on one of its
\* devices.  The flow was pulled when the test was active; it may not be now.
\* The bug is back when an active one reproduces it, and this job has not just
\* said so: the finding is open again.
RegressionRun(f, j, reproduced) ==
    /\ regression[f] # "none"
    /\ LET already == alarm[f] = j
       IN /\ alarm' = [alarm EXCEPT ![f] = IF already \/ reproduced THEN j ELSE None]
          /\ IF reproduced /\ regression[f] = "active" /\ ~already
             THEN /\ verdict' = [verdict EXCEPT ![f] = "open"]
                  /\ dup' = [dup EXCEPT ![f] = None]
                  /\ cutOff' = cutOff \ {f}
             ELSE UNCHANGED <<verdict, dup, cutOff>>
    /\ UNCHANGED <<stored, issue, age, regression, armed, sending, posts, confirmed>>

FindingsNext ==
    \/ \E f \in Finding : Store(f) \/ Sends(f) \/ Answered(f)
    \/ \E f \in Finding, v \in Verdict : SetVerdict(f, v)
    \/ \E f \in Finding, j \in Job, reproduced \in BOOLEAN : RegressionRun(f, j, reproduced)
    \/ Tick \/ Restart

FindingsSpec == FindingsInit /\ [][FindingsNext]_findingsVars

-----------------------------------------------------------------------------
(***************************************************************************)
(* Properties                                                              *)
(***************************************************************************)

\* The types; and a finding names what it duplicates exactly while it is judged a
\* duplicate, through every verdict and every reopening.
FindingsTypeOK ==
    /\ stored \in SUBSET Finding
    /\ verdict \in [Finding -> Verdict]
    /\ dup \in [Finding -> Finding \union {None}]
    /\ \A f \in Finding : dup[f] # None <=> verdict[f] = "duplicate"
    /\ cutOff \in SUBSET Finding
    /\ issue \in [Finding -> Issue]
    /\ age \in [Finding -> 0..Day]
    /\ regression \in [Finding -> {"none", "candidate", "active", "retired"}]
    /\ alarm \in [Finding -> Job \union {None}]
    /\ armed \in BOOLEAN
    /\ sending \in [Finding -> {"no", "due", "sent"}]
    /\ posts \in [Finding -> Nat]
    /\ confirmed \in SUBSET Finding

\* A bug is fixed, and its flow in the nightly, only if a person confirmed it and
\* nobody has rejected it since, whatever was reopened, retired, brought back or
\* reproduced in between.
FixedOnlyAfterReal ==
    \A f \in Finding : verdict[f] = "fixed" \/ regression[f] = "active" => f \in confirmed

\* The nightly runs the flow of every fixed finding that has one, of none that
\* was rejected, and a confirmed bug's test is not lost to an earlier rejection.
NightlyRunsWhatIsFixed ==
    \A f \in Finding :
        /\ verdict[f] = "fixed" => regression[f] \in {"none", "active"}
        /\ verdict[f] = "real" => regression[f] # "retired"
        /\ verdict[f] \in Rejection => regression[f] \in {"none", "retired"}

\* What a person has rejected, a regression run does not reopen, though it pulled
\* the flow before and reports after.
RejectedStaysRejected ==
    [][\A f \in Finding :
          alarm'[f] # alarm[f] /\ verdict[f] \in Rejection => verdict'[f] = verdict[f]]_findingsVars

\* GitHub is asked at most once to open an issue for a finding, and never for one
\* whose issue was rehearsed: not after a failure that may hide an issue, not
\* after a crash between the plan and the answer, not when a dry run is armed.
IssueOnce ==
    \A f \in Finding :
        /\ posts[f] <= 1
        /\ posts[f] = 1 => issue[f] \in {"pending", "filed", "failed"}
        /\ issue[f] \in {"filed", "failed"} => posts[f] = 1
        /\ sending[f] = "due" => posts[f] = 0 /\ issue[f] = "pending"

\* No more issues than the cap were planned in any day, rehearsed ones, failed
\* ones and ones a crash lost included.
CapHolds == Cardinality({f \in Finding : issue[f] \in Settled /\ age[f] < Day}) <= Cap

\* Findings marked the same as one another lead to one that is judged on its own:
\* no verdicts and reopenings, in whatever order, close a circle of duplicates,
\* unless one of those in it was marked by following a chain longer than
\* setVerdict follows.
DuplicatesLeadSomewhere ==
    \A S \in (SUBSET Finding) \ {{}} :
        S \intersect cutOff = {} => \E f \in S : dup[f] \notin S

=============================================================================
