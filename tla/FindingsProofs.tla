--------------------------- MODULE FindingsProofs ---------------------------
(***************************************************************************)
(* What holds of module Findings for every set of findings, every cap and  *)
(* every number of nightly jobs.                                           *)
(***************************************************************************)
EXTENDS Findings, FiniteSetTheorems, TLAPS

(***************************************************************************)
(* How far the filing of f's issue is: what is not settled as an issue to  *)
(* be sent was never sent, and what is due has not been.                   *)
(***************************************************************************)
Filing(f) ==
    /\ issue[f] \in {"none", "put_off", "dry_run"} => posts[f] = 0 /\ sending[f] = "no"
    /\ issue[f] = "pending" => posts[f] \in {0, 1}
    /\ issue[f] \in {"filed", "failed"} => posts[f] = 1 /\ sending[f] = "no"
    /\ sending[f] = "due" => posts[f] = 0
    /\ sending[f] = "sent" => posts[f] = 1

\* The findings that count against the cap.
Counted == {f \in Finding : issue[f] \in Settled /\ age[f] < Day}

\* What is called real has been, and nothing has undone it.
RealIsConfirmed == \A f \in Finding : verdict[f] = "real" => f \in confirmed

FindingsInv ==
    /\ FindingsTypeOK
    /\ RealIsConfirmed
    /\ FixedOnlyAfterReal
    /\ NightlyRunsWhatIsFixed
    /\ \A f \in Finding : Filing(f)
    /\ CapHolds

-----------------------------------------------------------------------------
(***************************************************************************)
(* The steps about issues                                                  *)
(***************************************************************************)

\* A step that leaves verdicts and tests alone leaves what is said of them alone.
LEMMA VerdictsUntouched ==
    ASSUME FixedOnlyAfterReal, NightlyRunsWhatIsFixed, RealIsConfirmed,
           UNCHANGED <<verdict, regression, confirmed>>
    PROVE  FixedOnlyAfterReal' /\ NightlyRunsWhatIsFixed' /\ RealIsConfirmed'
  BY DEF FixedOnlyAfterReal, NightlyRunsWhatIsFixed, RealIsConfirmed

\* A step that counts no more findings keeps the cap.
LEMMA CapUntouched ==
    ASSUME CapHolds, Counted' \subseteq Counted
    PROVE  CapHolds'
  <1>1. IsFiniteSet(Counted)
    BY FS_Subset, FindingsAssumption DEF Counted
  <1>2. Cardinality(Counted') <= Cardinality(Counted)
    BY <1>1, FS_Subset
  <1>3. Cardinality(Counted) \in Nat /\ Cardinality(Counted') \in Nat
    BY <1>1, FS_Subset, FS_CardinalityType
  <1>4. Cardinality(Counted) <= Cap
    BY DEF CapHolds, Counted
  <1>5. Cardinality(Counted') <= Cap
    BY <1>2, <1>3, <1>4, FindingsAssumption
  <1> QED
    BY <1>5 DEF CapHolds, Counted

\* A sighting that plans an issue counts one more finding where there was room.
LEMMA PlanningKeepsCap ==
    ASSUME FindingsTypeOK, CapHolds, NEW f \in Finding, NEW s \in Planned(f),
           issue' = [issue EXCEPT ![f] = s], age' = [age EXCEPT ![f] = 0],
           issue[f] \notin Settled
    PROVE  CapHolds'
  <1>1. CASE s = "put_off"
    <2>1. Counted' \subseteq Counted
      BY <1>1 DEF Counted, Settled, FindingsTypeOK
    <2> QED
      BY <2>1, CapUntouched
  <1>2. CASE s # "put_off"
    <2>1. ~(Cardinality(Recent(f)) >= Cap)
      BY <1>2 DEF Planned
    <2>2. Counted' \subseteq Recent(f) \union {f}
      BY DEF Counted, Recent, FindingsTypeOK
    <2>3. IsFiniteSet(Recent(f))
      BY FS_Subset, FindingsAssumption DEF Recent
    <2>4. f \notin Recent(f)
      BY DEF Recent
    <2>5. /\ IsFiniteSet(Recent(f) \union {f})
          /\ Cardinality(Recent(f) \union {f}) = Cardinality(Recent(f)) + 1
      BY <2>3, <2>4, FS_AddElement
    <2>6. Cardinality(Counted') <= Cardinality(Recent(f) \union {f})
      BY <2>2, <2>5, FS_Subset
    <2>7. Cardinality(Counted') \in Nat /\ Cardinality(Recent(f)) \in Nat
      BY <2>2, <2>3, <2>5, FS_Subset, FS_CardinalityType
    <2>8. Cardinality(Counted') <= Cap
      BY <2>1, <2>5, <2>6, <2>7, FindingsAssumption
    <2> QED
      BY <2>8 DEF CapHolds, Counted
  <1> QED
    BY <1>1, <1>2

\* What a plan may be.
LEMMA PlannedType ==
    ASSUME NEW f \in Finding, NEW s \in Planned(f)
    PROVE  s \in {"pending", "dry_run", "put_off"}
  BY DEF Planned

LEMMA StoreKeeps ==
    ASSUME FindingsInv, NEW f \in Finding, Store(f)
    PROVE  FindingsInv'
  <1> USE DEF FindingsInv
  <1>1. UNCHANGED <<verdict, dup, cutOff, regression, alarm, armed, posts, confirmed>>
    BY DEF Store
  <1>2. stored' = stored \union {f}
    BY DEF Store
  <1>3. FixedOnlyAfterReal' /\ NightlyRunsWhatIsFixed' /\ RealIsConfirmed'
    BY <1>1, VerdictsUntouched
  <1>4. CASE UNCHANGED <<issue, age, sending>>
    <2>1. FindingsTypeOK'
      BY <1>1, <1>2, <1>4 DEF FindingsTypeOK
    <2>2. Counted' \subseteq Counted
      BY <1>4 DEF Counted
    <2>3. \A g \in Finding : Filing(g)'
      BY <1>1, <1>4 DEF Filing
    <2> QED
      BY <1>3, <2>1, <2>2, <2>3, CapUntouched
  <1>5. ASSUME NEW s \in Planned(f), WorthPlanning(f),
               issue' = [issue EXCEPT ![f] = s], age' = [age EXCEPT ![f] = 0],
               sending' = [sending EXCEPT ![f] = IF issue'[f] = "pending" THEN "due" ELSE @]
        PROVE  FindingsInv'
    <2>1. s \in {"pending", "dry_run", "put_off"}
      BY <1>5, PlannedType
    <2>2. issue[f] \in {"none", "put_off"}
      BY <1>5 DEF WorthPlanning, FindingsTypeOK, Issue, Settled
    <2>3. issue' \in [Finding -> Issue]
      BY <1>5, <2>1 DEF FindingsTypeOK, Issue, Settled
    <2>4. age' \in [Finding -> 0..Day]
      BY <1>5, FindingsAssumption DEF FindingsTypeOK
    <2>5. issue'[f] = s
      BY <1>5 DEF FindingsTypeOK
    <2>6. sending' \in [Finding -> {"no", "due", "sent"}]
      BY <1>5 DEF FindingsTypeOK
    <2>7. FindingsTypeOK'
      BY <1>1, <1>2, <2>3, <2>4, <2>6 DEF FindingsTypeOK
    <2>8. CapHolds'
      BY <1>5, <2>2, PlanningKeepsCap DEF Settled
    <2>9. ASSUME NEW g \in Finding PROVE Filing(g)'
      <3>1. CASE g # f
        <4>1. issue'[g] = issue[g] /\ sending'[g] = sending[g] /\ posts'[g] = posts[g]
          BY <1>1, <1>5, <3>1 DEF FindingsTypeOK
        <4> QED
          BY <4>1 DEF Filing
      <3>2. CASE g = f
        <4>1. posts'[f] = 0 /\ sending[f] = "no"
          BY <1>1, <2>2 DEF Filing
        <4>2. sending'[f] = IF s = "pending" THEN "due" ELSE "no"
          BY <1>5, <2>5, <4>1 DEF FindingsTypeOK
        <4> QED
          BY <2>1, <2>5, <3>2, <4>1, <4>2 DEF Filing
      <3> QED
        BY <3>1, <3>2
    <2> QED
      BY <1>3, <2>7, <2>8, <2>9
  <1> QED
    BY <1>4, <1>5 DEF Store

LEMMA SendsKeeps ==
    ASSUME FindingsInv, NEW f \in Finding, Sends(f)
    PROVE  FindingsInv'
  <1> USE DEF FindingsInv
  <1>1. UNCHANGED <<stored, verdict, dup, cutOff, issue, age, regression, alarm, armed, confirmed>>
    BY DEF Sends
  <1>2. /\ sending[f] = "due"
        /\ sending' = [sending EXCEPT ![f] = "sent"]
        /\ posts' = [posts EXCEPT ![f] = @ + 1]
    BY DEF Sends
  <1>3. posts[f] = 0 /\ issue[f] = "pending"
    BY <1>2 DEF Filing, FindingsTypeOK, Issue, Settled
  <1>4. FindingsTypeOK'
    BY <1>1, <1>2 DEF FindingsTypeOK
  <1>5. FixedOnlyAfterReal' /\ NightlyRunsWhatIsFixed' /\ RealIsConfirmed'
    BY <1>1, VerdictsUntouched
  <1>6. Counted' \subseteq Counted
    BY <1>1 DEF Counted
  <1>7. ASSUME NEW g \in Finding PROVE Filing(g)'
    <2>1. CASE g # f
      <3>1. issue'[g] = issue[g] /\ sending'[g] = sending[g] /\ posts'[g] = posts[g]
        BY <1>1, <1>2, <2>1 DEF FindingsTypeOK
      <3> QED
        BY <3>1 DEF Filing
    <2>2. CASE g = f
      <3>1. issue'[f] = "pending" /\ sending'[f] = "sent" /\ posts'[f] = 1
        BY <1>1, <1>2, <1>3 DEF FindingsTypeOK
      <3> QED
        BY <2>2, <3>1 DEF Filing
    <2> QED
      BY <2>1, <2>2
  <1> QED
    BY <1>4, <1>5, <1>6, <1>7, CapUntouched

LEMMA AnsweredKeeps ==
    ASSUME FindingsInv, NEW f \in Finding, Answered(f)
    PROVE  FindingsInv'
  <1> USE DEF FindingsInv
  <1>1. UNCHANGED <<stored, verdict, dup, cutOff, age, regression, alarm, armed, posts, confirmed>>
    BY DEF Answered
  <1>2. PICK s \in {"filed", "failed"} : issue' = [issue EXCEPT ![f] = s]
    BY DEF Answered
  <1>3. sending[f] = "sent" /\ sending' = [sending EXCEPT ![f] = "no"]
    BY DEF Answered
  <1>4. posts[f] = 1 /\ issue[f] = "pending"
    BY <1>3 DEF Filing, FindingsTypeOK, Issue, Settled
  <1>5. FindingsTypeOK'
    BY <1>1, <1>2, <1>3 DEF FindingsTypeOK, Issue, Settled
  <1>6. FixedOnlyAfterReal' /\ NightlyRunsWhatIsFixed' /\ RealIsConfirmed'
    BY <1>1, VerdictsUntouched
  <1>7. Counted' \subseteq Counted
    BY <1>1, <1>2, <1>4 DEF Counted, Settled, FindingsTypeOK
  <1>8. ASSUME NEW g \in Finding PROVE Filing(g)'
    <2>1. CASE g # f
      <3>1. issue'[g] = issue[g] /\ sending'[g] = sending[g] /\ posts'[g] = posts[g]
        BY <1>1, <1>2, <1>3, <2>1 DEF FindingsTypeOK
      <3> QED
        BY <3>1 DEF Filing
    <2>2. CASE g = f
      <3>1. issue'[f] \in {"filed", "failed"} /\ sending'[f] = "no" /\ posts'[f] = 1
        BY <1>1, <1>2, <1>3, <1>4 DEF FindingsTypeOK
      <3> QED
        BY <2>2, <3>1 DEF Filing
    <2> QED
      BY <2>1, <2>2
  <1> QED
    BY <1>5, <1>6, <1>7, <1>8, CapUntouched

LEMMA TickKeeps ==
    ASSUME FindingsInv, Tick
    PROVE  FindingsInv'
  <1> USE DEF FindingsInv
  <1>1. UNCHANGED <<stored, verdict, dup, cutOff, issue, regression, alarm, armed, sending, posts, confirmed>>
    BY DEF Tick
  <1>2. age' = [f \in Finding |-> IF issue[f] \in Settled /\ age[f] < Day THEN age[f] + 1 ELSE age[f]]
    BY DEF Tick
  <1>3. age' \in [Finding -> 0..Day]
    BY <1>2, FindingsAssumption DEF FindingsTypeOK
  <1>4. FindingsTypeOK'
    BY <1>1, <1>3 DEF FindingsTypeOK
  <1>5. FixedOnlyAfterReal' /\ NightlyRunsWhatIsFixed' /\ RealIsConfirmed'
    BY <1>1, VerdictsUntouched
  <1>6. ASSUME NEW f \in Finding, age'[f] < Day PROVE age[f] < Day
    BY <1>2, <1>6, FindingsAssumption DEF FindingsTypeOK
  <1>7. Counted' \subseteq Counted
    BY <1>1, <1>6 DEF Counted
  <1>8. \A f \in Finding : Filing(f)'
    BY <1>1 DEF Filing
  <1> QED
    BY <1>4, <1>5, <1>7, <1>8, CapUntouched

LEMMA RestartKeeps ==
    ASSUME FindingsInv, Restart
    PROVE  FindingsInv'
  <1> USE DEF FindingsInv
  <1>1. UNCHANGED <<stored, verdict, dup, cutOff, issue, age, regression, alarm, posts, confirmed>>
    BY DEF Restart
  <1>2. armed' \in BOOLEAN /\ sending' = [f \in Finding |-> "no"]
    BY DEF Restart
  <1>3. FindingsTypeOK'
    BY <1>1, <1>2 DEF FindingsTypeOK
  <1>4. FixedOnlyAfterReal' /\ NightlyRunsWhatIsFixed' /\ RealIsConfirmed'
    BY <1>1, VerdictsUntouched
  <1>5. Counted' \subseteq Counted
    BY <1>1 DEF Counted
  <1>6. \A f \in Finding : Filing(f)'
    BY <1>1, <1>2 DEF Filing
  <1> QED
    BY <1>3, <1>4, <1>5, <1>6, CapUntouched

-----------------------------------------------------------------------------
(***************************************************************************)
(* The steps about verdicts and regression runs                            *)
(***************************************************************************)

\* A step that leaves issues alone leaves what is said of them alone.
LEMMA IssuesUntouched ==
    ASSUME CapHolds, \A f \in Finding : Filing(f),
           UNCHANGED <<issue, age, sending, posts>>
    PROVE  CapHolds' /\ \A f \in Finding : Filing(f)'
  <1>1. Counted' = Counted
    BY DEF Counted
  <1> QED
    BY <1>1, CapUntouched DEF Filing

\* What a verdict makes of a test.
LEMMA MovedType ==
    ASSUME FindingsTypeOK, NightlyRunsWhatIsFixed,
           NEW f \in Finding, NEW v \in Verdict, NEW s \in Moved(f, v)
    PROVE  /\ s \in {"none", "candidate", "active", "retired"}
           /\ v = "fixed" => s \in {"none", "active"}
           /\ v = "real" => s # "retired"
           /\ v \in Rejection => s \in {"none", "retired"}
           /\ s = "active" => v = "fixed" \/ (regression[f] = "active" /\ v \notin Rejection)
  BY DEF Moved, Kept, Verdict, Rejection, FindingsTypeOK

LEMMA JudgedKeeps ==
    ASSUME FindingsInv, NEW f \in Finding, NEW v \in Verdict, NEW d \in Finding \union {None},
           NEW cut \in BOOLEAN, d # None <=> v = "duplicate", Judged(f, v, d, cut)
    PROVE  FindingsInv'
  <1> USE DEF FindingsInv
  <1>1. UNCHANGED <<stored, issue, age, alarm, armed, sending, posts>>
    BY DEF Judged
  <1>2. /\ verdict' = [verdict EXCEPT ![f] = v]
        /\ dup' = [dup EXCEPT ![f] = d]
        /\ confirmed' = CASE v = "real" -> confirmed \union {f}
                          [] v \in Rejection -> confirmed \ {f}
                          [] OTHER -> confirmed
        /\ Allowed(f, v)
    BY DEF Judged
  <1>3. PICK s \in Moved(f, v) : regression' = [regression EXCEPT ![f] = s]
    BY DEF Judged
  <1>4. /\ s \in {"none", "candidate", "active", "retired"}
        /\ v = "fixed" => s \in {"none", "active"}
        /\ v = "real" => s # "retired"
        /\ v \in Rejection => s \in {"none", "retired"}
        /\ s = "active" => v = "fixed" \/ (regression[f] = "active" /\ v \notin Rejection)
    BY MovedType
  <1>5. CapHolds' /\ \A g \in Finding : Filing(g)'
    BY <1>1, IssuesUntouched
  <1>6. verdict' \in [Finding -> Verdict] /\ dup' \in [Finding -> Finding \union {None}]
    BY <1>2 DEF FindingsTypeOK
  <1>7. regression' \in [Finding -> {"none", "candidate", "active", "retired"}]
    BY <1>3, <1>4 DEF FindingsTypeOK
  <1>8. confirmed' \in SUBSET Finding /\ cutOff' \in SUBSET Finding
    <2>1. cutOff' \in {cutOff \union {f}, cutOff \ {f}}
      BY DEF Judged
    <2> QED
      BY <1>2, <2>1 DEF FindingsTypeOK
  <1>9. \A g \in Finding : dup'[g] # None <=> verdict'[g] = "duplicate"
    BY <1>2 DEF FindingsTypeOK
  <1>10. FindingsTypeOK'
    BY <1>1, <1>6, <1>7, <1>8, <1>9 DEF FindingsTypeOK
  <1>11. verdict'[f] = v /\ regression'[f] = s
    BY <1>2, <1>3 DEF FindingsTypeOK
  <1>12. \A g \in Finding \ {f} :
            /\ verdict'[g] = verdict[g] /\ regression'[g] = regression[g]
            /\ g \in confirmed' <=> g \in confirmed
    BY <1>2, <1>3 DEF FindingsTypeOK
  <1>13. NightlyRunsWhatIsFixed'
    BY <1>4, <1>11, <1>12 DEF NightlyRunsWhatIsFixed
  <1>14. v = "fixed" => f \in confirmed
    BY <1>2 DEF Allowed, FixedOnlyAfterReal, RealIsConfirmed
  <1>15. v \notin Rejection /\ f \in confirmed => f \in confirmed'
    BY <1>2
  <1>16. v = "real" => f \in confirmed'
    BY <1>2 DEF Rejection
  <1>17. RealIsConfirmed'
    BY <1>11, <1>12, <1>16 DEF RealIsConfirmed
  <1>18. s = "active" => f \in confirmed'
    BY <1>4, <1>14, <1>15 DEF FixedOnlyAfterReal, Rejection
  <1>19. v = "fixed" => f \in confirmed'
    BY <1>14, <1>15 DEF Rejection
  <1>20. FixedOnlyAfterReal'
    BY <1>11, <1>12, <1>18, <1>19 DEF FixedOnlyAfterReal
  <1> QED
    BY <1>5, <1>10, <1>13, <1>17, <1>20

LEMMA SetVerdictKeeps ==
    ASSUME FindingsInv, NEW f \in Finding, NEW v \in Verdict, SetVerdict(f, v)
    PROVE  FindingsInv'
  <1>1. CASE v = "duplicate"
    <2>1. PICK r \in stored, cut \in BOOLEAN : Judged(f, v, r, cut)
      BY <1>1 DEF SetVerdict, CutShort
    <2>2. r \in Finding /\ r # None
      BY FindingsAssumption DEF FindingsInv, FindingsTypeOK
    <2> QED
      BY <1>1, <2>1, <2>2, JudgedKeeps
  <1>2. CASE v # "duplicate"
    <2>1. Judged(f, v, None, FALSE)
      BY <1>2 DEF SetVerdict
    <2> QED
      BY <1>2, <2>1, JudgedKeeps
  <1> QED
    BY <1>1, <1>2

LEMMA RegressionRunKeeps ==
    ASSUME FindingsInv, NEW f \in Finding, NEW j \in Job, NEW reproduced \in BOOLEAN,
           RegressionRun(f, j, reproduced)
    PROVE  FindingsInv'
  <1> USE DEF FindingsInv
  <1>1. UNCHANGED <<stored, issue, age, regression, armed, sending, posts, confirmed>>
    BY DEF RegressionRun
  <1>2. PICK a \in Job \union {None} : alarm' = [alarm EXCEPT ![f] = a]
    BY DEF RegressionRun
  <1>3. CapHolds' /\ \A g \in Finding : Filing(g)'
    BY <1>1, IssuesUntouched
  <1>4. alarm' \in [Finding -> Job \union {None}]
    BY <1>2 DEF FindingsTypeOK
  <1>5. CASE UNCHANGED <<verdict, dup, cutOff>>
    <2>1. FindingsTypeOK'
      BY <1>1, <1>4, <1>5 DEF FindingsTypeOK
    <2> QED
      BY <1>1, <1>3, <1>5, <2>1, VerdictsUntouched
  <1>6. CASE /\ verdict' = [verdict EXCEPT ![f] = "open"]
             /\ dup' = [dup EXCEPT ![f] = None]
             /\ cutOff' = cutOff \ {f}
    <2>1. verdict' \in [Finding -> Verdict] /\ dup' \in [Finding -> Finding \union {None}]
      BY <1>6 DEF FindingsTypeOK, Verdict
    <2>2. \A g \in Finding : dup'[g] # None <=> verdict'[g] = "duplicate"
      BY <1>6 DEF FindingsTypeOK
    <2>3. FindingsTypeOK'
      BY <1>1, <1>4, <1>6, <2>1, <2>2 DEF FindingsTypeOK
    <2>4. \A g \in Finding : verdict'[g] = "open" \/ verdict'[g] = verdict[g]
      BY <1>6 DEF FindingsTypeOK
    <2>5. FixedOnlyAfterReal' /\ NightlyRunsWhatIsFixed' /\ RealIsConfirmed'
      BY <1>1, <2>4 DEF FixedOnlyAfterReal, NightlyRunsWhatIsFixed, RealIsConfirmed, Rejection
    <2> QED
      BY <1>3, <2>3, <2>5
  <1> QED
    BY <1>5, <1>6 DEF RegressionRun

-----------------------------------------------------------------------------
(***************************************************************************)
(* Induction, from the library's well-founded order on the naturals        *)
(***************************************************************************)

\* Every non-empty set of naturals has a least element.
LEMMA NatMinimum ==
    ASSUME NEW T \in SUBSET Nat, T # {}
    PROVE  \E x \in T : \A y \in T : x <= y
  <1>1. PICK x \in T : \A y \in T : ~(<<y, x>> \in OpToRel(<, Nat))
    BY NatLessThanWellFounded, WFMin
  <1>2. ASSUME NEW y \in T PROVE x <= y
    <2>1. ~(y < x)
      BY <1>1 DEF OpToRel
    <2> QED
      BY <2>1
  <1> QED
    BY <1>2

\* A set that holds 0 and the successor of each natural in it holds them all.
LEMMA SetInduction ==
    ASSUME NEW E, 0 \in E, \A n \in Nat : n \in E => n + 1 \in E
    PROVE  Nat \subseteq E
  <1> DEFINE T == Nat \ E
  <1>1. SUFFICES ASSUME T # {} PROVE FALSE
    OBVIOUS
  <1>2. PICK x \in T : \A y \in T : x <= y
    BY <1>1, NatMinimum
  <1>3. x # 0 /\ x - 1 \in Nat
    OBVIOUS
  <1>4. x - 1 \notin T
    BY <1>2, <1>3
  <1> QED
    BY <1>3, <1>4

-----------------------------------------------------------------------------
(***************************************************************************)
(* Following duplicates                                                    *)
(***************************************************************************)

\* One hop of Walk: where t points if it is a duplicate, or t.
Up(t) == IF verdict[t] = "duplicate" /\ dup[t] # None THEN dup[t] ELSE t

\* u is the walk of N hops from d.
IsWalk(u, d, N) ==
    /\ u \in [0..N -> Finding]
    /\ u[0] = d
    /\ \A n \in 1..N : u[n] = Up(u[n - 1])

\* Among types, a hop is made just by what names a duplicate.
LEMMA UpIs ==
    ASSUME FindingsTypeOK, NEW t \in Finding
    PROVE  Up(t) \in Finding /\ Up(t) = IF dup[t] # None THEN dup[t] ELSE t
  BY DEF Up, FindingsTypeOK

\* There are walks of every length, from every finding.
LEMMA WalkExists ==
    ASSUME FindingsTypeOK, NEW d \in Finding, NEW N \in Nat
    PROVE  \E u : IsWalk(u, d, N)
  <1> DEFINE E == {n \in Nat : \E u : IsWalk(u, d, n)}
  <1>1. 0 \in E
    <2> DEFINE u == [n \in 0..0 |-> d]
    <2>1. IsWalk(u, d, 0)
      BY DEF IsWalk
    <2> QED
      BY <2>1
  <1>2. ASSUME NEW n \in Nat, n \in E PROVE n + 1 \in E
    <2>1. PICK u : IsWalk(u, d, n)
      BY <1>2
    <2> DEFINE w == [k \in 0..(n + 1) |-> IF k <= n THEN u[k] ELSE Up(u[n])]
    <2>2. u[n] \in Finding
      BY <2>1 DEF IsWalk
    <2>3. w \in [0..(n + 1) -> Finding]
      BY <2>1, <2>2, UpIs DEF IsWalk
    <2>4. w[0] = d
      BY <2>1 DEF IsWalk
    <2>5. ASSUME NEW k \in 1..(n + 1) PROVE w[k] = Up(w[k - 1])
      <3>1. CASE k <= n
        BY <2>1, <3>1 DEF IsWalk
      <3>2. CASE k = n + 1
        BY <3>2
      <3> QED
        BY <3>1, <3>2
    <2>6. IsWalk(w, d, n + 1)
      BY <2>3, <2>4, <2>5 DEF IsWalk
    <2> QED
      BY <2>6
  <1> HIDE DEF E
  <1>3. N \in E
    BY <1>1, <1>2, SetInduction
  <1> QED
    BY <1>3 DEF E

\* Walk is the walk of Hops hops, and Root is where it ends.
LEMMA RootEndsWalk ==
    ASSUME FindingsTypeOK, NEW d \in Finding
    PROVE  /\ \E w : IsWalk(w, d, Hops) /\ Root(d) = w[Hops]
           /\ Root(d) \in Finding
           /\ CutShort(d) = (dup[Root(d)] # None)
  <1> DEFINE Rec(x) == [n \in 0..Hops |->
                           IF n = 0 THEN d
                           ELSE LET t == x[n - 1]
                                IN  IF verdict[t] = "duplicate" /\ dup[t] # None THEN dup[t] ELSE t]
             w == CHOOSE x : x = Rec(x)
  <1>1. PICK u : IsWalk(u, d, Hops)
    BY WalkExists, FindingsAssumption
  <1>2. u = Rec(u)
    BY <1>1 DEF IsWalk, Up
  <1>3. w = Rec(w)
    BY <1>2
  <1>4. Root(d) = w[Hops]
    BY DEF Root, Walk
  <1>5. w = [n \in 0..Hops |-> IF n = 0 THEN d ELSE Up(w[n - 1])]
    BY <1>3 DEF Up
  <1> HIDE DEF w, Rec
  <1> DEFINE E == {n \in Nat : n <= Hops => w[n] \in Finding}
  <1>6. 0 \in E
    BY <1>5, FindingsAssumption
  <1>7. ASSUME NEW n \in Nat, n \in E PROVE n + 1 \in E
    <2>1. CASE n + 1 <= Hops
      <3>1. w[n + 1] = Up(w[n])
        BY <1>5, <2>1, FindingsAssumption
      <3>2. w[n] \in Finding
        BY <1>7, <2>1, FindingsAssumption
      <3> QED
        BY <3>1, <3>2, UpIs
    <2>2. CASE ~(n + 1 <= Hops)
      BY <2>2
    <2> QED
      BY <2>1, <2>2
  <1> HIDE DEF E
  <1>8. Nat \subseteq E
    BY <1>6, <1>7, SetInduction
  <1>9. \A n \in 0..Hops : w[n] \in Finding
    BY <1>8, FindingsAssumption DEF E
  <1>10. IsWalk(w, d, Hops)
    BY <1>5, <1>9, FindingsAssumption DEF IsWalk
  <1>11. CutShort(d) = (dup[Root(d)] # None)
    BY DEF CutShort, Root
  <1> QED
    BY <1>4, <1>9, <1>10, <1>11, FindingsAssumption

\* A walk that ends in a duplicate went through nothing else.
LEMMA WalkOfDuplicates ==
    ASSUME FindingsTypeOK, NEW d \in Finding, NEW u, IsWalk(u, d, Hops), dup[u[Hops]] # None
    PROVE  \A k \in 0..Hops : dup[u[k]] # None
  <1> DEFINE E == {n \in Nat : n <= Hops => dup[u[Hops - n]] # None}
  <1> USE FindingsAssumption
  <1>1. 0 \in E
    OBVIOUS
  <1>2. ASSUME NEW n \in Nat, n \in E PROVE n + 1 \in E
    <2>1. CASE n + 1 <= Hops
      <3>1. u[Hops - n] = Up(u[Hops - (n + 1)]) /\ u[Hops - (n + 1)] \in Finding
        BY <2>1 DEF IsWalk
      <3>2. dup[u[Hops - n]] # None
        BY <1>2, <2>1
      <3> QED
        BY <3>1, <3>2, UpIs
    <2>2. CASE ~(n + 1 <= Hops)
      BY <2>2
    <2> QED
      BY <2>1, <2>2
  <1> HIDE DEF E
  <1>3. Nat \subseteq E
    BY <1>1, <1>2, SetInduction
  <1>4. ASSUME NEW k \in 0..Hops PROVE dup[u[k]] # None
    <2>1. Hops - k \in Nat /\ Hops - k <= Hops /\ Hops - (Hops - k) = k
      OBVIOUS
    <2>2. Hops - k \in E
      BY <1>3, <2>1
    <2> QED
      BY <2>1, <2>2 DEF E
  <1> QED
    BY <1>4

\* As long as Hops hops can pass through all the findings there are, and none has
\* been cut off, what a duplicate is followed to is not a duplicate: a longer walk
\* of duplicates would come back to where it was.
LEMMA RootIsNoDuplicate ==
    ASSUME FindingsTypeOK, DuplicatesLeadSomewhere, cutOff = {},
           Cardinality(Finding) <= Hops + 1, NEW d \in Finding
    PROVE  Root(d) \in Finding /\ dup[Root(d)] = None
  <1>1. PICK u : IsWalk(u, d, Hops) /\ Root(d) = u[Hops]
    BY RootEndsWalk
  <1>2. u \in [0..Hops -> Finding] /\ u[Hops] \in Finding
    BY <1>1, FindingsAssumption DEF IsWalk
  <1>3. SUFFICES ASSUME dup[u[Hops]] # None PROVE FALSE
    BY <1>1, <1>2
  <1>4. \A k \in 0..Hops : dup[u[k]] # None
    BY <1>1, <1>3, WalkOfDuplicates
  <1> DEFINE p == [k \in 0..(Hops + 1) |-> IF k <= Hops THEN u[k] ELSE dup[u[Hops]]]
  <1>5. p \in [0..(Hops + 1) -> Finding]
    BY <1>2, <1>3, FindingsAssumption DEF FindingsTypeOK
  <1>6. ASSUME NEW k \in 0..Hops PROVE dup[p[k]] = p[k + 1]
    <2>1. CASE k < Hops
      <3>1. u[k + 1] = Up(u[k]) /\ u[k] \in Finding
        BY <1>1, <2>1, FindingsAssumption DEF IsWalk
      <3> QED
        BY <1>4, <2>1, <3>1, UpIs, FindingsAssumption
    <2>2. CASE k = Hops
      BY <2>2, FindingsAssumption
    <2> QED
      BY <2>1, <2>2, FindingsAssumption
  <1> HIDE DEF p
  <1>7. \E i, j \in 0..(Hops + 1) : i # j /\ p[i] = p[j]
    <2>1. IsFiniteSet(0..(Hops + 1)) /\ Cardinality(0..(Hops + 1)) = Hops + 2
      BY FS_Interval, FindingsAssumption
    <2>2. Cardinality(Finding) \in Nat
      BY FS_CardinalityType, FindingsAssumption
    <2>3. Cardinality(Finding) < Cardinality(0..(Hops + 1))
      BY <2>1, <2>2, FindingsAssumption
    <2> QED
      BY <1>5, <2>1, <2>3, FS_PigeonHole, FindingsAssumption
  <1>8. PICK i \in 0..(Hops + 1), j \in 0..(Hops + 1) : i < j /\ p[i] = p[j]
    BY <1>7, FindingsAssumption
  <1> DEFINE S == {p[k] : k \in i..(j - 1)}
  <1>9. S \in (SUBSET Finding) \ {{}}
    <2>1. p[i] \in S
      BY <1>8
    <2>2. S \subseteq Finding
      BY <1>5, <1>8, FindingsAssumption
    <2> QED
      BY <2>1, <2>2
  <1>10. PICK f \in S : dup[f] \notin S
    BY <1>9 DEF DuplicatesLeadSomewhere
  <1>11. PICK k \in i..(j - 1) : f = p[k]
    OBVIOUS
  <1>12. dup[f] = p[k + 1]
    BY <1>6, <1>8, <1>11, FindingsAssumption
  <1>13. CASE k + 1 = j
    BY <1>8, <1>10, <1>12, <1>13
  <1>14. CASE k + 1 # j
    BY <1>8, <1>10, <1>11, <1>12, <1>14
  <1> QED
    BY <1>13, <1>14

\* Pointing f at what points nowhere, or nowhere, closes no cycle.
LEMMA PointingClosesNoCycle ==
    ASSUME FindingsTypeOK, DuplicatesLeadSomewhere,
           NEW f \in Finding, NEW d \in Finding \union {None}, d # f,
           d # None => dup[d] = None,
           dup' = [dup EXCEPT ![f] = d], cutOff' = cutOff \ {f}
    PROVE  DuplicatesLeadSomewhere'
  <1>1. ASSUME NEW S \in (SUBSET Finding) \ {{}}, S \intersect cutOff' = {}
        PROVE  \E g \in S : dup'[g] \notin S
    <2>1. None \notin S
      BY FindingsAssumption
    <2>2. CASE f \notin S
      <3>1. \A g \in S : dup'[g] = dup[g]
        BY <2>2 DEF FindingsTypeOK
      <3>2. S \intersect cutOff = {}
        BY <1>1, <2>2
      <3> QED
        BY <3>1, <3>2 DEF DuplicatesLeadSomewhere
    <2>3. CASE f \in S /\ d \notin S
      BY <2>3 DEF FindingsTypeOK
    <2>4. CASE f \in S /\ d \in S
      <3>1. dup'[d] = None
        BY <2>1, <2>4 DEF FindingsTypeOK
      <3> QED
        BY <2>1, <2>4, <3>1
    <2> QED
      BY <2>2, <2>3, <2>4
  <1> QED
    BY <1>1 DEF DuplicatesLeadSomewhere

\* Pointing f anywhere closes none if f is known to have been cut off.
LEMMA CutOffClosesNoCycle ==
    ASSUME FindingsTypeOK, DuplicatesLeadSomewhere,
           NEW f \in Finding, NEW d \in Finding \union {None},
           dup' = [dup EXCEPT ![f] = d], cutOff' = cutOff \union {f}
    PROVE  DuplicatesLeadSomewhere'
  <1>1. ASSUME NEW S \in (SUBSET Finding) \ {{}}, S \intersect cutOff' = {}
        PROVE  \E g \in S : dup'[g] \notin S
    <2>1. f \notin S /\ S \intersect cutOff = {}
      BY <1>1
    <2>2. \A g \in S : dup'[g] = dup[g]
      BY <2>1 DEF FindingsTypeOK
    <2> QED
      BY <2>1, <2>2 DEF DuplicatesLeadSomewhere
  <1> QED
    BY <1>1 DEF DuplicatesLeadSomewhere

\* What a step may do to what duplicates point at: nothing, take one away, or
\* point one at the root of a stored finding.
LEMMA DupSteps ==
    ASSUME FindingsTypeOK, [FindingsNext]_findingsVars
    PROVE  \/ dup' = dup /\ cutOff' = cutOff
           \/ \E f \in Finding : dup' = [dup EXCEPT ![f] = None] /\ cutOff' = cutOff \ {f}
           \/ \E f \in Finding, d \in Finding :
                 /\ Root(d) # f /\ dup' = [dup EXCEPT ![f] = Root(d)]
                 /\ cutOff' = IF CutShort(d) THEN cutOff \union {f} ELSE cutOff \ {f}
  <1>1. CASE UNCHANGED findingsVars
    BY <1>1 DEF findingsVars
  <1>2. ASSUME NEW f \in Finding, Store(f) \/ Sends(f) \/ Answered(f)
        PROVE  dup' = dup /\ cutOff' = cutOff
    BY <1>2 DEF Store, Sends, Answered
  <1>3. CASE Tick \/ Restart
    BY <1>3 DEF Tick, Restart
  <1>4. ASSUME NEW f \in Finding, NEW v \in Verdict, SetVerdict(f, v)
        PROVE  \/ dup' = [dup EXCEPT ![f] = None] /\ cutOff' = cutOff \ {f}
               \/ \E d \in Finding :
                     /\ Root(d) # f /\ dup' = [dup EXCEPT ![f] = Root(d)]
                     /\ cutOff' = IF CutShort(d) THEN cutOff \union {f} ELSE cutOff \ {f}
    BY <1>4 DEF SetVerdict, Judged, FindingsTypeOK
  <1>5. ASSUME NEW f \in Finding, NEW j \in Job, NEW reproduced \in BOOLEAN,
               RegressionRun(f, j, reproduced)
        PROVE  \/ dup' = dup /\ cutOff' = cutOff
               \/ dup' = [dup EXCEPT ![f] = None] /\ cutOff' = cutOff \ {f}
    BY <1>5 DEF RegressionRun
  <1> QED
    BY <1>1, <1>2, <1>3, <1>4, <1>5 DEF FindingsNext

\* No step closes a cycle of duplicates none of which has been cut off.
LEMMA DuplicatesKeep ==
    ASSUME FindingsTypeOK, DuplicatesLeadSomewhere, [FindingsNext]_findingsVars
    PROVE  DuplicatesLeadSomewhere'
  <1>1. CASE dup' = dup /\ cutOff' = cutOff
    BY <1>1 DEF DuplicatesLeadSomewhere
  <1>2. ASSUME NEW f \in Finding, dup' = [dup EXCEPT ![f] = None], cutOff' = cutOff \ {f}
        PROVE  DuplicatesLeadSomewhere'
    BY <1>2, PointingClosesNoCycle, FindingsAssumption
  <1>3. ASSUME NEW f \in Finding, NEW d \in Finding,
               Root(d) # f, dup' = [dup EXCEPT ![f] = Root(d)],
               cutOff' = IF CutShort(d) THEN cutOff \union {f} ELSE cutOff \ {f}
        PROVE  DuplicatesLeadSomewhere'
    <2>1. Root(d) \in Finding /\ CutShort(d) = (dup[Root(d)] # None)
      BY RootEndsWalk
    <2>2. CASE CutShort(d)
      BY <1>3, <2>1, <2>2, CutOffClosesNoCycle
    <2>3. CASE ~CutShort(d)
      BY <1>3, <2>1, <2>3, PointingClosesNoCycle
    <2> QED
      BY <2>2, <2>3
  <1> QED
    BY <1>1, <1>2, <1>3, DupSteps

\* None is cut off while Hops hops can pass through all there are.
LEMMA FewAreFollowed ==
    ASSUME FindingsTypeOK, DuplicatesLeadSomewhere, cutOff = {},
           Cardinality(Finding) <= Hops + 1, [FindingsNext]_findingsVars
    PROVE  cutOff' = {}
  <1>1. \A d \in Finding : ~CutShort(d)
    BY RootEndsWalk, RootIsNoDuplicate
  <1> QED
    BY <1>1, DupSteps

-----------------------------------------------------------------------------
(***************************************************************************)
(* The theorems                                                            *)
(***************************************************************************)

\* Whatever executors post, people judge, GitHub answers and crashes lose, in
\* whatever order, the findings' invariant holds.
THEOREM FindingsAreSound == FindingsSpec => []FindingsInv
  <1>1. FindingsInit => FindingsInv
    <2> SUFFICES ASSUME FindingsInit PROVE FindingsInv
      OBVIOUS
    <2>1. FindingsTypeOK
      BY FindingsAssumption DEF FindingsInit, FindingsTypeOK, Verdict, Issue
    <2>2. FixedOnlyAfterReal /\ NightlyRunsWhatIsFixed /\ RealIsConfirmed
      BY DEF FindingsInit, FixedOnlyAfterReal, NightlyRunsWhatIsFixed, RealIsConfirmed, Rejection
    <2>3. \A f \in Finding : Filing(f)
      BY DEF FindingsInit, Filing
    <2>4. Counted = {}
      BY DEF FindingsInit, Counted, Settled
    <2>5. CapHolds
      BY <2>4, FS_EmptySet, FindingsAssumption DEF CapHolds, Counted
    <2> QED
      BY <2>1, <2>2, <2>3, <2>5 DEF FindingsInv
  <1>2. FindingsInv /\ [FindingsNext]_findingsVars => FindingsInv'
    <2> SUFFICES ASSUME FindingsInv, [FindingsNext]_findingsVars PROVE FindingsInv'
      OBVIOUS
    <2>1. ASSUME NEW f \in Finding, Store(f) PROVE FindingsInv'
      BY <2>1, StoreKeeps
    <2>2. ASSUME NEW f \in Finding, Sends(f) PROVE FindingsInv'
      BY <2>2, SendsKeeps
    <2>3. ASSUME NEW f \in Finding, Answered(f) PROVE FindingsInv'
      BY <2>3, AnsweredKeeps
    <2>4. ASSUME NEW f \in Finding, NEW v \in Verdict, SetVerdict(f, v) PROVE FindingsInv'
      BY <2>4, SetVerdictKeeps
    <2>5. ASSUME NEW f \in Finding, NEW j \in Job, NEW reproduced \in BOOLEAN,
                 RegressionRun(f, j, reproduced)
          PROVE  FindingsInv'
      BY <2>5, RegressionRunKeeps
    <2>6. CASE Tick
      BY <2>6, TickKeeps
    <2>7. CASE Restart
      BY <2>7, RestartKeeps
    <2>8. CASE UNCHANGED findingsVars
      <3>1. UNCHANGED <<stored, verdict, dup, cutOff, issue, age, regression, alarm, armed, sending, posts, confirmed>>
        BY <2>8 DEF findingsVars
      <3>2. FindingsTypeOK'
        BY <3>1 DEF FindingsInv, FindingsTypeOK
      <3> QED
        BY <3>1, <3>2, VerdictsUntouched, IssuesUntouched DEF FindingsInv
    <2> QED
      BY <2>1, <2>2, <2>3, <2>4, <2>5, <2>6, <2>7, <2>8 DEF FindingsNext
  <1> QED
    BY <1>1, <1>2, PTL DEF FindingsSpec

\* Findings, their verdicts, issues and tests are what the tables may hold, and
\* just the duplicates point somewhere.
THEOREM FindingsTypeCorrect == FindingsSpec => []FindingsTypeOK
  <1>1. FindingsInv => FindingsTypeOK
    BY DEF FindingsInv
  <1> QED
    BY <1>1, FindingsAreSound, PTL

\* A bug is fixed, or watched for by the nightly, only if a person confirmed it
\* and none has rejected it since.
THEOREM FixedIsConfirmed == FindingsSpec => []FixedOnlyAfterReal
  <1>1. FindingsInv => FixedOnlyAfterReal
    BY DEF FindingsInv
  <1> QED
    BY <1>1, FindingsAreSound, PTL

\* The nightly runs the kept flow of every fixed finding and of none that was
\* rejected.
THEOREM NightlyIsRight == FindingsSpec => []NightlyRunsWhatIsFixed
  <1>1. FindingsInv => NightlyRunsWhatIsFixed
    BY DEF FindingsInv
  <1> QED
    BY <1>1, FindingsAreSound, PTL

\* A late report of a regression run leaves a rejected finding rejected: its test
\* was retired with the verdict.
THEOREM RejectionStands == FindingsSpec => RejectedStaysRejected
  <1>1. ASSUME FindingsInv, [FindingsNext]_findingsVars, NEW f \in Finding,
               alarm'[f] # alarm[f], verdict[f] \in Rejection
        PROVE  verdict'[f] = verdict[f]
    <2>1. PICK g \in Finding, j \in Job, reproduced \in BOOLEAN : RegressionRun(g, j, reproduced)
      BY <1>1 DEF FindingsNext, findingsVars, Store, Sends, Answered, SetVerdict, Judged, Tick, Restart
    <2>2. regression[f] # "active"
      BY <1>1 DEF FindingsInv, NightlyRunsWhatIsFixed
    <2>3. CASE g = f
      BY <2>1, <2>2, <2>3 DEF RegressionRun
    <2>4. CASE g # f
      BY <1>1, <2>1, <2>4 DEF RegressionRun, FindingsInv, FindingsTypeOK
    <2> QED
      BY <2>3, <2>4
  <1>2. FindingsInv /\ [FindingsNext]_findingsVars =>
            [\A f \in Finding :
                alarm'[f] # alarm[f] /\ verdict[f] \in Rejection => verdict'[f] = verdict[f]]_findingsVars
    BY <1>1
  <1> QED
    BY <1>2, FindingsAreSound, PTL DEF FindingsSpec, RejectedStaysRejected

\* GitHub is asked for an issue at most once per finding, across failures,
\* crashes and changes of the settings.
THEOREM IssueIsOpenedOnce == FindingsSpec => []IssueOnce
  <1>1. FindingsInv => IssueOnce
    BY DEF FindingsInv, FindingsTypeOK, Filing, IssueOnce, Issue, Settled
  <1> QED
    BY <1>1, FindingsAreSound, PTL

\* However many findings there are, no day plans more issues than the cap.
THEOREM CapIsKept == FindingsSpec => []CapHolds
  <1>1. FindingsInv => CapHolds
    BY DEF FindingsInv
  <1> QED
    BY <1>1, FindingsAreSound, PTL

\* Through whatever verdicts and reopenings, of however many findings, those marked
\* the same as one another lead to one judged on its own, unless one of them was
\* marked by following a chain longer than setVerdict follows.
THEOREM DuplicatesEnd == FindingsSpec => []DuplicatesLeadSomewhere
  <1>1. FindingsInit => DuplicatesLeadSomewhere
    <2> SUFFICES ASSUME FindingsInit, NEW S \in (SUBSET Finding) \ {{}}
                 PROVE  \E f \in S : dup[f] \notin S
      BY DEF DuplicatesLeadSomewhere
    <2>1. PICK f \in S : f \in Finding
      OBVIOUS
    <2> QED
      BY <2>1, FindingsAssumption DEF FindingsInit
  <1>2. FindingsTypeOK /\ DuplicatesLeadSomewhere /\ [FindingsNext]_findingsVars
            => DuplicatesLeadSomewhere'
    BY DuplicatesKeep
  <1> QED
    BY <1>1, <1>2, FindingsTypeCorrect, PTL DEF FindingsSpec

NoneCutOff == cutOff = {}

\* How far the exception goes: no chain is longer than setVerdict follows while an
\* app has no more findings than it follows and one, 21 in the code.
THEOREM CutOffNeedsMany ==
    ASSUME Cardinality(Finding) <= Hops + 1
    PROVE  FindingsSpec => []NoneCutOff
  <1>1. FindingsInit => NoneCutOff
    BY DEF FindingsInit, NoneCutOff
  <1>2. FindingsTypeOK /\ DuplicatesLeadSomewhere /\ NoneCutOff /\ [FindingsNext]_findingsVars
            => NoneCutOff'
    BY FewAreFollowed DEF NoneCutOff
  <1> QED
    BY <1>1, <1>2, DuplicatesEnd, FindingsTypeCorrect, PTL DEF FindingsSpec

=============================================================================
