----------------------------- MODULE ShelfProofs -----------------------------
(***************************************************************************)
(* What holds of module Shelf for every set of devices, executors, labels, *)
(* jobs and match expressions.                                             *)
(***************************************************************************)
EXTENDS Shelf, TLAPS

\* What a claim works on is locked for it.
WorkIsLocked == \A k \in Job : \A d \in drives[k] : lock[d] = k /\ status[k] = "claimed"

\* What a device has declared since it was last forgotten, its row remembers.
SpokenIsDeclared == \A d \in spoke : row[d].declared

\* A claim that works on nothing yet is an executor's.
OnlyHostsChoose == \A k \in Job : status[k] = "claimed" /\ drives[k] = {} => Asks[k[1]].host

\* The jobs and their locks.
JobsInv == JobsInOrder /\ WorkIsLocked /\ OnlyHostsChoose

ShelfInv == ShelfTypeOK /\ JobsInv /\ SpokenIsDeclared

-----------------------------------------------------------------------------
(***************************************************************************)
(* The registry                                                            *)
(***************************************************************************)

\* No job is nobody.
LEMMA JobsAreSomething == ASSUME NEW k \in Job PROVE k # None
BY ShelfAssumption DEF Job

\* A child is asked what its parent was, but for its device.
LEMMA SpecKeeps ==
    ASSUME NEW k \in Job
    PROVE  /\ SpecOf(k).host = Asks[k[1]].host
           /\ SpecOf(k).workload = Asks[k[1]].workload
           /\ SpecOf(k).reservation = Asks[k[1]].reservation
           /\ k[2] # None => SpecOf(k).device = k[2]
<1>1. Asks[k[1]] \in Spec
  BY ShelfAssumption DEF Job
<1> QED BY <1>1 DEF SpecOf, Spec

\* A row that others have gone from before.
LEMMA RowWithout ==
    ASSUME NEW r \in Row, NEW gone \in SUBSET Device
    PROVE  LET new == After(r, gone)
           IN new \in Row /\ new.ahead = r.ahead \ gone /\ new.declared = r.declared
BY DEF Row, After

\* Nothing was before a new row.
LEMMA NewRowIsEmpty == ASSUME NEW gone PROVE NewRow \in Row /\ NewRow.ahead = {} /\ After(NewRow, gone) = NewRow
<1>1. NewRow.ahead = {} /\ {} \ gone = {}
  BY DEF NewRow
<1> QED BY <1>1 DEF NewRow, Row, After

\* The rows that are left when some go are as they were, and in order.
LEMMA SomeRowsGo ==
    ASSUME RowsInOrder, NEW gone \in SUBSET Device,
           registered' = registered \ gone, row' = RowsWithout(gone)
    PROVE  RowsInOrder'
<1>0. NewRow \in Row
  BY NewRowIsEmpty
<1>1. \A x \in Device : row'[x] = IF x \in gone THEN NewRow ELSE After(row[x], gone)
  BY DEF RowsWithout
<1>2. \A x \in Device : row[x] \in Row
  BY DEF RowsInOrder
<1>3. \A x \in Device \ gone : row'[x] \in Row /\ row'[x].ahead = row[x].ahead \ gone
  BY <1>1, <1>2, RowWithout
<1>4. row' \in [Device -> Row]
  <2>1. row' = [x \in Device |-> row'[x]]
    BY DEF RowsWithout
  <2> QED BY <1>0, <1>1, <1>3, <2>1
<1>5. \A d \in Device \ registered' : row'[d] = NewRow
  <2> SUFFICES ASSUME NEW d \in Device \ registered', d \notin gone PROVE row'[d] = NewRow
    BY <1>1
  <2>1. row[d] = NewRow
    BY DEF RowsInOrder
  <2> QED BY <1>1, <2>1, NewRowIsEmpty
<1>6. \A d \in gone : row'[d].ahead = {}
  BY <1>1, NewRowIsEmpty
<1>7. \A d \in Device : row'[d].ahead \subseteq registered' \ {d}
  BY <1>3, <1>6 DEF RowsInOrder
<1>8. \A c, d \in registered' : c # d => (c \in row'[d].ahead <=> d \notin row'[c].ahead)
  BY <1>3 DEF RowsInOrder
<1> QED BY <1>4, <1>5, <1>7, <1>8 DEF RowsInOrder

\* A registration appends its row, or refreshes it.
LEMMA RegisterInOrder ==
    ASSUME ShelfInv, NEW d \in Device, NEW full \in BOOLEAN, Register(d, full)
    PROVE  RowsInOrder' /\ SpokenIsDeclared' /\ spoke' \subseteq registered'
<1> DEFINE gone == {x \in registered : x = IpName[d] /\ ~Held(x)}
           rows == RowsWithout(gone)
           next == IF d \in registered THEN rows[d].ahead ELSE registered \ gone
           new == [declared |-> Declared(d, full), override |-> row[d].override, age |-> 0,
                   ahead |-> next]
<1>1. /\ registered' = (registered \ gone) \union {d}
      /\ row' = [rows EXCEPT ![d] = new]
      /\ spoke' = (spoke \ gone) \union (IF full THEN {d} ELSE {})
  BY DEF Register
<1>2. gone \in SUBSET Device /\ d \notin gone /\ RowsInOrder
  BY ShelfAssumption DEF ShelfInv, ShelfTypeOK, RowsInOrder
<1>3. rows \in [Device -> Row] /\ \A x \in Device \ gone : rows[x].ahead = row[x].ahead \ gone
      /\ rows[x].declared = row[x].declared
  <2>1. \A x \in Device : rows[x] = IF x \in gone THEN NewRow ELSE After(row[x], gone)
    BY DEF RowsWithout
  <2>2. \A x \in Device : row[x] \in Row
    BY <1>2 DEF RowsInOrder
  <2>3. NewRow \in Row
    BY NewRowIsEmpty
  <2>4. \A x \in Device \ gone :
          rows[x] \in Row /\ rows[x].ahead = row[x].ahead \ gone /\ rows[x].declared = row[x].declared
    <3>1. \A x \in Device \ gone : rows[x] = After(row[x], gone)
      BY <2>1
    <3> HIDE DEF gone, rows
    <3> QED BY <1>2, <2>2, <3>1, RowWithout
  <2>5. rows = [x \in Device |-> rows[x]]
    BY DEF RowsWithout
  <2> HIDE DEF rows
  <2> QED BY <2>1, <2>3, <2>4, <2>5
<1>4. \A x \in Device \ {d} : row'[x] = rows[x]
  BY <1>1, <1>3
<1>5. /\ row'[d] \in Row
      /\ row'[d].ahead = next
      /\ row'[d].declared = Declared(d, full)
  <2>1. next \in SUBSET Device /\ Declared(d, full) \in BOOLEAN
    <3>1. row[d].declared \in BOOLEAN /\ row[d].ahead \in SUBSET Device /\ registered \subseteq Device
      BY <1>2 DEF RowsInOrder, Row
    <3>2. rows[d].ahead = row[d].ahead \ gone
      BY <1>2, <1>3
    <3> HIDE DEF rows
    <3> QED BY <3>1, <3>2 DEF Declared
  <2>2. row'[d] = new
    <3> HIDE DEF rows, new
    <3> QED BY <1>1, <1>3
  <2>3. row[d].override \in {"none", "in", "out"}
    BY <1>2 DEF RowsInOrder, Row
  <2> HIDE DEF next, rows
  <2> QED BY <2>1, <2>2, <2>3 DEF Row
<1>6. \A x \in gone : rows[x] = NewRow
  BY <1>2 DEF RowsWithout
<1>7. \A x \in Device \ registered : x \notin gone => rows[x] = NewRow
  <2> SUFFICES ASSUME NEW x \in Device \ registered, x \notin gone PROVE rows[x] = NewRow
    OBVIOUS
  <2>1. row[x] = NewRow
    BY <1>2 DEF RowsInOrder
  <2> QED BY <2>1, NewRowIsEmpty DEF RowsWithout
<1> HIDE DEF rows, gone, next, new
<1>8. row' \in [Device -> Row]
  <2>1. row' = [x \in Device |-> row'[x]]
    BY <1>1, <1>3
  <2> QED BY <1>3, <1>4, <1>5, <2>1
<1>9. \A x \in Device \ registered' : row'[x] = NewRow
  BY <1>1, <1>4, <1>6, <1>7
<1>10. /\ \A x \in Device : row'[x].ahead \subseteq registered' \ {x}
       /\ \A c, x \in registered' : c # x => (c \in row'[x].ahead <=> x \notin row'[c].ahead)
  <2> DEFINE was(x) == row[x].ahead
             is(x) == row'[x].ahead
  <2>1. \A x \in Device \ {d} : is(x) = IF x \in gone THEN {} ELSE was(x) \ gone
    BY <1>3, <1>4, <1>6, NewRowIsEmpty
  <2>2. is(d) = IF d \in registered THEN was(d) \ gone ELSE registered \ gone
    BY <1>2, <1>3, <1>5 DEF next
  <2>3. /\ \A x \in Device : was(x) \subseteq registered \ {x}
        /\ \A c, x \in registered : c # x => (c \in was(x) <=> x \notin was(c))
        /\ registered \subseteq Device
    BY <1>2 DEF RowsInOrder
  <2> SUFFICES /\ \A x \in Device : is(x) \subseteq registered' \ {x}
               /\ \A c, x \in registered' : c # x => (c \in is(x) <=> x \notin is(c))
    OBVIOUS
  <2> HIDE DEF was, is
  <2>4. \A x \in Device : is(x) \subseteq registered' \ {x}
    <3>1. \A x \in Device \ {d} : is(x) \subseteq registered' \ {x}
      BY <1>1, <2>1, <2>3
    <3>2. is(d) \subseteq registered' \ {d}
      BY <1>1, <2>2, <2>3
    <3> QED BY <3>1, <3>2
  <2>5. ASSUME NEW c \in registered', NEW x \in registered', c # x
        PROVE  c \in is(x) <=> x \notin is(c)
    <3>1. \A y \in registered' : y \in Device /\ y \notin gone /\ (y # d => y \in registered)
      BY <1>1, <1>2, <2>3
    <3>2. CASE c # d /\ x # d
      BY <2>1, <2>3, <2>5, <3>1, <3>2
    <3>3. CASE c = d
      BY <1>2, <2>1, <2>2, <2>3, <2>5, <3>1, <3>3
    <3>4. CASE x = d
      BY <1>2, <2>1, <2>2, <2>3, <2>5, <3>1, <3>4
    <3> QED BY <3>2, <3>3, <3>4
  <2> QED BY <2>4, <2>5
<1>11. RowsInOrder'
  BY <1>1, <1>2, <1>8, <1>9, <1>10 DEF RowsInOrder
<1>12. spoke' \subseteq registered' /\ SpokenIsDeclared'
  <2>1. spoke \subseteq registered /\ registered \subseteq Device /\ \A x \in spoke : row[x].declared
    BY DEF ShelfInv, ShelfTypeOK, RowsInOrder, SpokenIsDeclared
  <2>2. \A x \in spoke' : x \in Device /\ x \notin gone /\ (x # d => x \in spoke)
        /\ (x = d => full \/ d \in spoke)
    BY <1>1, <1>2, <2>1
  <2>3. \A x \in spoke' \ {d} : row'[x].declared
    BY <1>3, <1>4, <2>1, <2>2
  <2>4. d \in spoke' => row'[d].declared
    BY <1>5, <2>1, <2>2 DEF Declared
  <2> QED BY <1>1, <2>1, <2>3, <2>4 DEF SpokenIsDeclared
<1> QED BY <1>11, <1>12

-----------------------------------------------------------------------------
(***************************************************************************)
(* The jobs                                                                *)
(***************************************************************************)

\* Whatever ends claims leaves the jobs in order, and the others their locks.
LEMMA OverInOrder ==
    ASSUME JobsInv, NEW ks \in SUBSET Job,
           NEW next \in [ks -> {"queued", "closed"}], Over(ks, next)
    PROVE  JobsInv'
<1>1. /\ status' = [k \in Job |-> IF k \in ks THEN next[k] ELSE status[k]]
      /\ by' = [k \in Job |-> IF k \in ks THEN None ELSE by[k]]
      /\ lock' = [d \in Device |-> IF lock[d] \in ks THEN None ELSE lock[d]]
      /\ told' = [k \in Job |-> IF k \in ks THEN Unreserved ELSE told[k]]
      /\ drives' = [k \in Job |-> IF k \in ks THEN {} ELSE drives[k]]
  BY DEF Over
<1> USE DEF JobsInv
<1>2. JobsInOrder'
  <2>1. status' \in [Job -> {"absent", "queued", "claimed", "closed"}]
    BY <1>1 DEF JobsInOrder
  <2>2. by' \in [Job -> Device \union Executor \union {None}]
    BY <1>1 DEF JobsInOrder
  <2>3. \A k \in Job : status'[k] = "claimed" <=> by'[k] # None
    BY <1>1 DEF JobsInOrder
  <2>4. lock' \in [Device -> Job \union {None}]
    BY <1>1 DEF JobsInOrder
  <2>5. told' \in [Job -> [Device -> Label \union {None}]]
    <3>1. Unreserved \in [Device -> Label \union {None}]
      BY DEF Unreserved
    <3> QED BY <1>1, <3>1 DEF JobsInOrder
  <2>6. drives' \in [Job -> SUBSET Device]
    BY <1>1 DEF JobsInOrder
  <2> QED BY <2>1, <2>2, <2>3, <2>4, <2>5, <2>6 DEF JobsInOrder
<1>3. WorkIsLocked'
  <2> SUFFICES ASSUME NEW k \in Job, NEW d \in drives'[k]
               PROVE  lock'[d] = k /\ status'[k] = "claimed"
    BY DEF WorkIsLocked
  <2>1. k \notin ks /\ d \in drives[k] /\ d \in Device
    BY <1>1 DEF JobsInOrder
  <2>2. lock[d] = k /\ status[k] = "claimed"
    BY <2>1 DEF WorkIsLocked
  <2> QED BY <1>1, <2>1, <2>2
<1>4. OnlyHostsChoose'
  BY <1>1 DEF JobsInOrder, OnlyHostsChoose
<1> QED BY <1>2, <1>3, <1>4

\* A device that claims for itself was not locked, so nobody worked on it.
LEMMA ClaimInOrder ==
    ASSUME JobsInv, NEW d \in Device, NEW k \in Job, Claim(d, k)
    PROVE  JobsInv'
<1>1. d # None
  BY ShelfAssumption
<1>2. \A j \in Job : d \notin drives[j]
  BY JobsAreSomething DEF Claim, JobsInv, WorkIsLocked
<1> USE DEF JobsInv
<1>3. JobsInOrder'
  BY <1>1 DEF JobsInOrder, Claim
<1>4. WorkIsLocked'
  BY <1>2 DEF JobsInOrder, WorkIsLocked, Claim
<1>5. OnlyHostsChoose'
  BY DEF JobsInOrder, OnlyHostsChoose, Claim
<1> QED BY <1>3, <1>4, <1>5

\* An executor that claims works on nothing yet.
LEMMA ClaimHostInOrder ==
    ASSUME JobsInv, reserved \in [Device -> Label \union {None}],
           NEW e \in Executor, NEW k \in Job, ClaimHost(e, k)
    PROVE  JobsInv'
<1> USE DEF JobsInv
<1>1. e # None
  BY ShelfAssumption
<1>2. JobsInOrder'
  BY <1>1 DEF JobsInOrder, ClaimHost
<1>3. WorkIsLocked'
  BY DEF JobsInOrder, WorkIsLocked, ClaimHost
<1>4. OnlyHostsChoose'
  <2>1. SpecOf(k).host = Asks[k[1]].host
    BY SpecKeeps
  <2> QED BY <2>1 DEF JobsInOrder, OnlyHostsChoose, ClaimHost
<1> QED BY <1>2, <1>3, <1>4

\* An executor works on what it was granted, which was nobody's or its own job's.
LEMMA SelectInOrder ==
    ASSUME JobsInv, NEW e \in Executor, NEW k \in Job, Select(e, k)
    PROVE  JobsInv'
<1> DEFINE targets == Targets(e, SpecOf(k), told[k])
           granted == {d \in targets : lock[d] \in {None, k}}
<1>1. status[k] = "claimed" /\ by[k] = e /\ drives[k] = {}
  BY DEF Select
<1>2. granted \in SUBSET Device
  BY ShelfAssumption DEF Targets
<1>3. CASE granted = {}
  <2>1. Over({k}, [x \in {k} |-> "closed"])
    BY <1>3 DEF Select
  <2>2. [x \in {k} |-> "closed"] \in [{k} -> {"queued", "closed"}] /\ {k} \in SUBSET Job
    OBVIOUS
  <2> QED BY <2>1, <2>2, OverInOrder
<1>4. CASE granted # {}
  <2>1. /\ lock' = [d \in Device |-> IF d \in granted THEN k ELSE lock[d]]
        /\ drives' = [drives EXCEPT ![k] = granted]
        /\ UNCHANGED <<status, by, told>>
    BY <1>4 DEF Select
  <2>2. \A d \in granted : lock[d] = None \/ lock[d] = k
    OBVIOUS
  <2> HIDE DEF granted
  <2>3. JobsInOrder'
    BY <1>2, <2>1 DEF JobsInv, JobsInOrder
  <2>4. \A j \in Job \ {k} : \A d \in drives[j] : d \notin granted
    BY <2>2, JobsAreSomething DEF JobsInv, WorkIsLocked
  <2>5. WorkIsLocked'
    BY <1>1, <1>2, <2>1, <2>4 DEF JobsInv, JobsInOrder, WorkIsLocked
  <2>6. OnlyHostsChoose'
    BY <1>4, <1>2, <2>1 DEF JobsInv, JobsInOrder, OnlyHostsChoose
  <2> QED BY <2>3, <2>5, <2>6 DEF JobsInv
<1> QED BY <1>3, <1>4

-----------------------------------------------------------------------------
(***************************************************************************)
(* The inductive invariant                                                 *)
(***************************************************************************)

\* A step that leaves the jobs alone.
LEMMA JobsUntouched ==
    ASSUME JobsInv, UNCHANGED jobVars
    PROVE  JobsInv'
BY DEF JobsInv, JobsInOrder, WorkIsLocked, OnlyHostsChoose, jobVars

\* A step that leaves the registry alone.
LEMMA RegistryUntouched ==
    ASSUME RowsInOrder, SpokenIsDeclared, spoke \subseteq registered, UNCHANGED registryVars
    PROVE  RowsInOrder' /\ SpokenIsDeclared' /\ spoke' \subseteq registered'
BY DEF RowsInOrder, SpokenIsDeclared, registryVars

\* A step that changes fields of rows, but not which there are, their order, or what
\* is declared.
LEMMA RowsTouched ==
    ASSUME RowsInOrder, SpokenIsDeclared, spoke \subseteq registered,
           UNCHANGED <<registered, spoke>>, row' \in [Device -> Row],
           \A d \in Device : row'[d].ahead = row[d].ahead /\ row'[d].declared = row[d].declared,
           \A d \in Device \ registered : row'[d] = row[d]
    PROVE  RowsInOrder' /\ SpokenIsDeclared' /\ spoke' \subseteq registered'
BY DEF RowsInOrder, SpokenIsDeclared

\* Some rows go, and what their devices have said with them.
LEMMA SomeGo ==
    ASSUME RowsInOrder, SpokenIsDeclared, spoke \subseteq registered, NEW gone \in SUBSET Device,
           registered' = registered \ gone, row' = RowsWithout(gone), spoke' = spoke \ gone
    PROVE  RowsInOrder' /\ SpokenIsDeclared' /\ spoke' \subseteq registered'
<1>1. RowsInOrder'
  BY SomeRowsGo
<1>2. \A d \in spoke' : row'[d].declared
  <2> TAKE d \in spoke'
  <2>1. d \in Device /\ d \notin gone /\ row[d] \in Row /\ row[d].declared
    BY DEF RowsInOrder, SpokenIsDeclared
  <2>2. row'[d] = After(row[d], gone)
    BY <2>1 DEF RowsWithout
  <2> QED BY <2>1, <2>2, RowWithout
<1> QED BY <1>1, <1>2 DEF SpokenIsDeclared

\* The invariant holds initially.
LEMMA InitInv == ShelfInit => ShelfInv
<1> SUFFICES ASSUME ShelfInit PROVE ShelfInv
  OBVIOUS
<1>1. RowsInOrder /\ SpokenIsDeclared /\ spoke \subseteq registered
  <2>1. \A gone : NewRow \in Row /\ NewRow.ahead = {}
    BY NewRowIsEmpty
  <2>2. NewRow \in Row /\ NewRow.ahead = {}
    BY <2>1
  <2> QED BY <2>2 DEF ShelfInit, RowsInOrder, SpokenIsDeclared
<1>2. JobsInOrder /\ WorkIsLocked /\ OnlyHostsChoose
  BY DEF ShelfInit, JobsInOrder, WorkIsLocked, OnlyHostsChoose, Unreserved
<1> QED BY <1>1, <1>2 DEF ShelfInit, ShelfInv, ShelfTypeOK, JobsInv, Unreserved

\* Every step preserves it.
LEMMA NextInv == ShelfInv /\ [ShelfNext]_shelfVars => ShelfInv'
<1> SUFFICES ASSUME ShelfInv, [ShelfNext]_shelfVars PROVE ShelfInv'
  OBVIOUS
<1> USE DEF ShelfInv, ShelfTypeOK
<1> USE DEF JobsInv
<1> DEFINE Registry == RowsInOrder /\ SpokenIsDeclared /\ spoke \subseteq registered
           Jobs == JobsInv
           Rest == reserved \in [Device -> Label \union {None}] /\ polling \in SUBSET Device
<1>1. ASSUME NEW d \in Device, NEW full \in BOOLEAN, Register(d, full) PROVE ShelfInv'
  <2>1. Registry'
    BY <1>1, RegisterInOrder
  <2>2. Jobs'
    BY <1>1, JobsUntouched DEF Register
  <2> QED BY <1>1, <2>1, <2>2 DEF Register
<1>2. ASSUME NEW d \in Device, Forget(d) PROVE ShelfInv'
  <2>1. Registry'
    BY <1>2, SomeGo DEF Forget
  <2>2. lock[d] = None /\ lock' = [lock EXCEPT ![d] = None]
    BY <1>2 DEF Forget, Held
  <2>3. lock' = lock
    BY <2>2 DEF JobsInv, JobsInOrder
  <2>4. Jobs'
    BY <1>2, <2>3, JobsUntouched DEF Forget, jobVars
  <2> QED BY <1>2, <2>1, <2>4 DEF Forget
<1>3. ASSUME NEW d \in Device, Unreserve(d) PROVE ShelfInv'
  BY <1>3, JobsUntouched, RegistryUntouched DEF Unreserve
<1>4. ASSUME NEW d \in Device, PollStart(d) PROVE ShelfInv'
  <2>1. row' = [row EXCEPT ![d].age = 0] /\ \A x \in Device : row[x] \in Row
    BY <1>4 DEF PollStart, RowsInOrder
  <2>2. row' \in [Device -> Row]
    BY <2>1 DEF RowsInOrder, Row
  <2>3. \A x \in Device : row'[x].ahead = row[x].ahead /\ row'[x].declared = row[x].declared
    BY <2>1 DEF RowsInOrder, Row
  <2>4. \A x \in Device \ registered : row'[x] = row[x]
    BY <1>4, <2>1 DEF PollStart, RowsInOrder
  <2>5. Registry'
    BY <1>4, <2>2, <2>3, <2>4, RowsTouched DEF PollStart
  <2> QED BY <1>4, <2>5, JobsUntouched DEF PollStart, RowsInOrder
<1>5. ASSUME NEW d \in Device, PollEnd(d) PROVE ShelfInv'
  BY <1>5, JobsUntouched, RegistryUntouched DEF PollEnd
<1>6. ASSUME NEW d \in Device, NEW o \in {"none", "in", "out"}, EditPools(d, o) PROVE ShelfInv'
  <2>1. row' = [row EXCEPT ![d].override = o] /\ \A x \in Device : row[x] \in Row
    BY <1>6 DEF EditPools, RowsInOrder
  <2>2. row' \in [Device -> Row]
    BY <2>1 DEF RowsInOrder, Row
  <2>3. \A x \in Device : row'[x].ahead = row[x].ahead /\ row'[x].declared = row[x].declared
    BY <2>1 DEF RowsInOrder, Row
  <2>4. \A x \in Device \ registered : row'[x] = row[x]
    BY <1>6, <2>1 DEF EditPools, RowsInOrder
  <2>5. Registry'
    BY <1>6, <2>2, <2>3, <2>4, RowsTouched DEF EditPools
  <2> QED BY <1>6, <2>5, JobsUntouched DEF EditPools
<1>7. ASSUME NEW d \in Device, NEW l \in Label, Reserve(d, l) PROVE ShelfInv'
  BY <1>7, JobsUntouched, RegistryUntouched DEF Reserve
<1>8. CASE Tick
  <2> DEFINE older(r) == [r EXCEPT !.age = @ + 1]
  <2>1. \A d \in Device :
          row'[d] = IF d \in registered \intersect Silent /\ row[d].age < 2 THEN older(row[d]) ELSE row[d]
    BY <1>8 DEF Tick
  <2>2. \A r \in Row : r.age < 2 =>
          older(r) \in Row /\ older(r).ahead = r.ahead /\ older(r).declared = r.declared
    BY DEF Row
  <2>3. \A d \in Device : row[d] \in Row
    BY DEF RowsInOrder
  <2> HIDE DEF older
  <2>4. \A d \in Device : /\ row'[d] \in Row
                         /\ row'[d].ahead = row[d].ahead /\ row'[d].declared = row[d].declared
    BY <2>1, <2>2, <2>3
  <2>5. row' = [d \in Device |-> row'[d]]
    BY <1>8 DEF Tick
  <2>6. Registry'
    BY <1>8, <2>1, <2>4, <2>5, RowsTouched DEF Tick
  <2> QED BY <1>8, <2>6, JobsUntouched DEF Tick
<1>9. ASSUME NEW p \in Post, PostPlain(p) PROVE ShelfInv'
  <2> DEFINE j == <<p, None>>
  <2>1. status[j] = "absent" /\ status' = [status EXCEPT ![j] = "queued"] /\ UNCHANGED <<by, lock, told, drives>>
    BY <1>9 DEF PostPlain
  <2>2. \A k \in Job : status'[k] = IF k = j THEN "queued" ELSE status[k]
    <3> HIDE DEF j
    <3> QED BY <2>1 DEF JobsInOrder
  <2> HIDE DEF j
  <2>3. JobsInOrder'
    BY <2>1, <2>2 DEF JobsInOrder
  <2>4. WorkIsLocked' /\ OnlyHostsChoose'
    BY <2>1, <2>2 DEF WorkIsLocked, OnlyHostsChoose
  <2> QED BY <1>9, <2>3, <2>4, RegistryUntouched DEF PostPlain
<1>10. ASSUME NEW p \in Post, NEW upTo \in Device \union {None}, PostFanout(p, upTo) PROVE ShelfInv'
  <2>1. PICK minted : status' = [k \in Job |-> IF k[1] = p /\ k[2] \in minted /\ status[k] = "absent"
                                             THEN "queued" ELSE status[k]]
    BY <1>10 DEF PostFanout
  <2>2. UNCHANGED <<registryVars, reserved, by, lock, told, drives>> /\ polling' \in SUBSET Device
    BY <1>10 DEF PostFanout
  <2>3. JobsInOrder'
    BY <2>1, <2>2 DEF JobsInOrder
  <2>4. WorkIsLocked' /\ OnlyHostsChoose'
    BY <2>1, <2>2 DEF JobsInOrder, WorkIsLocked, OnlyHostsChoose
  <2> QED BY <2>2, <2>3, <2>4, RegistryUntouched
<1>11. ASSUME NEW d \in Device, NEW k \in Job, Claim(d, k) PROVE ShelfInv'
  <2>1. Jobs'
    BY <1>11, ClaimInOrder
  <2> QED BY <1>11, <2>1, RegistryUntouched DEF Claim
<1>12. ASSUME NEW e \in Executor, NEW k \in Job, ClaimHost(e, k) PROVE ShelfInv'
  <2>1. Jobs'
    BY <1>12, ClaimHostInOrder
  <2> QED BY <1>12, <2>1, RegistryUntouched DEF ClaimHost
<1>13. ASSUME NEW e \in Executor, NEW k \in Job, Select(e, k) PROVE ShelfInv'
  <2>1. Jobs'
    BY <1>13, SelectInOrder
  <2>2. UNCHANGED <<registryVars, reserved, polling>>
    BY <1>13 DEF Select
  <2> QED BY <2>1, <2>2, RegistryUntouched
<1>14. ASSUME NEW k \in Job, Finish(k) PROVE ShelfInv'
  <2>1. [x \in {k} |-> "closed"] \in [{k} -> {"queued", "closed"}] /\ {k} \in SUBSET Job
    OBVIOUS
  <2>2. Jobs'
    BY <1>14, <2>1, OverInOrder DEF Finish
  <2> QED BY <1>14, <2>2, RegistryUntouched DEF Finish
<1>15. ASSUME NEW lapsed \in SUBSET Job, Sweep(lapsed) PROVE ShelfInv'
  <2>1. Jobs'
    BY <1>15, OverInOrder DEF Sweep
  <2>2. \E gone \in SUBSET Device :
          registered' = registered \ gone /\ row' = RowsWithout(gone) /\ spoke' = spoke \ gone
    BY <1>15 DEF Sweep, RowsInOrder
  <2>3. Registry'
    BY <2>2, SomeGo
  <2> QED BY <1>15, <2>1, <2>3 DEF Sweep
<1>16. CASE UNCHANGED shelfVars
  BY <1>16, JobsUntouched, RegistryUntouched DEF shelfVars, jobVars, registryVars
<1> QED BY <1>1, <1>2, <1>3, <1>4, <1>5, <1>6, <1>7, <1>8, <1>9, <1>10, <1>11, <1>12, <1>13,
           <1>14, <1>15, <1>16 DEF ShelfNext

-----------------------------------------------------------------------------
(***************************************************************************)
(* The theorems                                                            *)
(***************************************************************************)

\* The invariant holds throughout.
THEOREM ShelfInvariant == ShelfSpec => []ShelfInv
BY InitInv, NextInv, PTL DEF ShelfSpec

\* The registry, its order, the jobs and the locks stay what they are meant to be
\* through registrations, deletions, sweeps and deaths of the collector.
THEOREM ShelfTypes == ShelfSpec => []ShelfTypeOK
<1>1. ShelfInv => ShelfTypeOK
  BY DEF ShelfInv
<1> QED BY <1>1, ShelfInvariant, PTL

\* Two claims never work on one device: the work of a claim is under its lock,
\* and a lock is one job's.
THEOREM OneJobPerDevice == ShelfSpec => []OneJobOnDevice
<1>1. ShelfInv => OneJobOnDevice
  BY DEF ShelfInv, JobsInv, WorkIsLocked, OneJobOnDevice
<1> QED BY <1>1, ShelfInvariant, PTL

\* The pool of a device is a fact.
LEMMA PoolIsFact == ASSUME NEW d \in Device PROVE InPool(d) \in BOOLEAN
<1>1. (d \in Reports) \in BOOLEAN
  OBVIOUS
<1>2. CASE row[d].override = "in"
  BY <1>2 DEF InPool
<1>3. CASE row[d].override = "out"
  BY <1>3 DEF InPool
<1>4. CASE row[d].override # "in" /\ row[d].override # "out"
  <2>1. InPool(d) = (d \in Reports)
    BY <1>4 DEF InPool
  <2> QED BY <1>1, <2>1
<1> QED BY <1>2, <1>3, <1>4

\* What a reservation lets through carries its label and names the device.
LEMMA AllowedHolds ==
    ASSUME NEW s, NEW d \in Device, NEW pool \in BOOLEAN, NEW label, label # None,
           Allows(s, d, label, pool)
    PROVE  s.reservation = label /\ NamedBy(s, d)
BY DEF Allows, Pins, NamedBy

\* Work is taken up by a device's own claim, or by an executor's choice.
LEMMA WorkBegins ==
    ASSUME ShelfInv, [ShelfNext]_shelfVars, NEW k \in Job, NEW d \in drives'[k] \ drives[k]
    PROVE  \/ Claim(d, k) /\ ~Asks[k[1]].host
           \/ Asks[k[1]].host /\ \E e \in Executor : d \in Targets(e, SpecOf(k), told[k])
<1> USE DEF ShelfInv, JobsInv
<1>1. drives' # drives /\ drives \in [Job -> SUBSET Device]
  BY DEF JobsInOrder
<1>2. \A ks, next : Over(ks, next) => drives'[k] \subseteq drives[k]
  BY DEF Over
<1>3. \/ \E x \in Device, j \in Job : Claim(x, j)
      \/ \E e \in Executor, j \in Job : Select(e, j)
  BY <1>1, <1>2 DEF ShelfNext, shelfVars, Register, Forget, Unreserve, PollStart, PollEnd, EditPools,
     Reserve, Tick, PostPlain, PostFanout, ClaimHost, Finish, Sweep, jobVars
<1>4. ASSUME NEW x \in Device, NEW j \in Job, Claim(x, j) PROVE Claim(d, k) /\ ~Asks[k[1]].host
  <2>1. j = k /\ x = d
    BY <1>1, <1>4 DEF Claim
  <2> QED BY <1>4, <2>1, SpecKeeps DEF Claim
<1>5. ASSUME NEW e \in Executor, NEW j \in Job, Select(e, j)
      PROVE  Asks[k[1]].host /\ d \in Targets(e, SpecOf(k), told[k])
  <2> DEFINE granted == {x \in Targets(e, SpecOf(j), told[j]) : lock[x] \in {None, j}}
  <2>1. granted # {} /\ drives' = [drives EXCEPT ![j] = granted]
    BY <1>2, <1>5 DEF Select
  <2>2. j = k /\ d \in granted
    <3> HIDE DEF granted
    <3> QED BY <1>1, <2>1
  <2>3. Asks[k[1]].host
    BY <1>5, <2>2 DEF Select, OnlyHostsChoose
  <2> QED BY <2>2, <2>3
<1> QED BY <1>3, <1>4, <1>5

\* A job comes to be by a plain post, or for a device that a fan-out matches.
LEMMA ChildBegins ==
    ASSUME ShelfInv, [ShelfNext]_shelfVars, NEW p \in Post, NEW d \in Device,
           status[<<p, d>>] = "absent", status'[<<p, d>>] # "absent"
    PROVE  d \in Matching(Asks[p])
<1> USE DEF ShelfInv, JobsInv
<1> DEFINE k == <<p, d>>
<1>1. k \in Job /\ d # None
  BY ShelfAssumption DEF Job
<1>2. status' # status
  OBVIOUS
<1>3. \A ks \in SUBSET {j \in Job : status[j] = "claimed"} : \A next : ~Over(ks, next)
  BY <1>1 DEF Over
<1>4. \E q \in Post, upTo \in Device \union {None} : PostFanout(q, upTo)
  <2>1. \A q \in Post : ~PostPlain(q)
    <3> SUFFICES ASSUME NEW q \in Post, PostPlain(q) PROVE FALSE
      OBVIOUS
    <3>1. status' = [status EXCEPT ![<<q, None>>] = "queued"]
      BY DEF PostPlain
    <3> QED BY <1>1, <3>1 DEF JobsInOrder
  <2>2. \A j \in Job, x \in Device : ~Claim(x, j)
    BY <1>1 DEF Claim, JobsInOrder
  <2>3. \A j \in Job, e \in Executor : ~ClaimHost(e, j)
    BY <1>1 DEF ClaimHost, JobsInOrder
  <2>4. \A j \in Job, e \in Executor : ~Select(e, j)
    BY <1>2, <1>3 DEF Select
  <2>5. \A j \in Job : ~Finish(j)
    BY <1>3 DEF Finish
  <2>6. \A lapsed \in SUBSET {j \in Job : status[j] = "claimed"} : ~Sweep(lapsed)
    BY <1>3 DEF Sweep
  <2> QED BY <1>2, <2>1, <2>2, <2>3, <2>4, <2>5, <2>6 DEF ShelfNext, shelfVars, Register, Forget,
             Unreserve, PollStart, PollEnd, EditPools, Reserve, Tick, jobVars
<1>5. PICK q \in Post, upTo \in Device \union {None} : PostFanout(q, upTo)
  BY <1>4
<1>6. q = p /\ d \in Picked(Asks[q])
  BY <1>1, <1>5 DEF PostFanout, JobsInOrder
<1> QED BY <1>6 DEF Picked

\* What an executor picks under the reservations it was told, they let through.
LEMMA ChosenHolds ==
    ASSUME NEW e \in Executor, NEW s, NEW labels, NEW d \in Targets(e, s, labels), labels[d] # None
    PROVE  s.reservation = labels[d] /\ NamedBy(s, d)
<1>1. d \in Device /\ Allows(s, d, labels[d], FALSE)
  BY ShelfAssumption DEF Targets
<1> QED BY <1>1, AllowedHolds

\* A reserved device that has a row is given only to a job that carries its label
\* and names it: by its own claim, by an executor's choice, or by a fan-out.
THEOREM ReservationsHonoured == ShelfSpec => ReservationHonoured
<1>1. ASSUME ShelfInv, [ShelfNext]_shelfVars, NEW d \in Device, reserved[d] # None,
             NEW k \in Job, d \in drives'[k] \ drives[k],
             IF Asks[k[1]].host THEN told[k][d] = reserved[d] ELSE d \in registered
      PROVE  HoldsReservation(SpecOf(k), d)
  <2>2. CASE Claim(d, k) /\ ~Asks[k[1]].host
    <3>1. Allows(SpecOf(k), d, reserved[d], InPool(d))
      BY <1>1, <2>2 DEF Claim, Eligible, Context
    <3>2. InPool(d) \in BOOLEAN
      BY PoolIsFact
    <3> QED BY <1>1, <3>1, <3>2, AllowedHolds DEF HoldsReservation
  <2>3. ASSUME Asks[k[1]].host, NEW e \in Executor, d \in Targets(e, SpecOf(k), told[k])
        PROVE  HoldsReservation(SpecOf(k), d)
    BY <1>1, <2>3, ChosenHolds DEF HoldsReservation
  <2> QED BY <1>1, <2>2, <2>3, WorkBegins
<1>2. ASSUME ShelfInv, [ShelfNext]_shelfVars, NEW p \in Post, NEW d \in Device, reserved[d] # None,
             status[<<p, d>>] = "absent", status'[<<p, d>>] # "absent"
      PROVE  HoldsReservation(Asks[p], d)
  <2>1. Allows(Asks[p], d, reserved[d], InPool(d))
    BY <1>2, ChildBegins DEF Matching
  <2>2. InPool(d) \in BOOLEAN
    BY PoolIsFact
  <2> QED BY <1>2, <2>1, <2>2, AllowedHolds DEF HoldsReservation
<1>3. ShelfInv /\ [ShelfNext]_shelfVars =>
        [\A d \in Device : reserved[d] # None =>
          /\ \A k \in Job :
                /\ d \in drives'[k] \ drives[k]
                /\ IF Asks[k[1]].host THEN told[k][d] = reserved[d] ELSE d \in registered
                => HoldsReservation(SpecOf(k), d)
          /\ \A p \in Post :
                status[<<p, d>>] = "absent" /\ status'[<<p, d>>] # "absent" =>
                HoldsReservation(Asks[p], d)]_shelfVars
  BY <1>1, <1>2
<1> QED BY <1>3, ShelfInvariant, PTL DEF ShelfSpec, ReservationHonoured

\* A child is minted only for a device that would be handed it.
THEOREM ChildrenTaken == ShelfSpec => ChildrenAreTaken
<1>1. ASSUME ShelfInv, [ShelfNext]_shelfVars, NEW p \in Post, NEW d \in Device, ~Asks[p].host,
             status[<<p, d>>] = "absent", status'[<<p, d>>] # "absent"
      PROVE  Eligible(d, SpecOf(<<p, d>>))
  <2> DEFINE s == Asks[p]
             t == SpecOf(<<p, d>>)
  <2>1. s \in Spec /\ d # None
    BY ShelfAssumption
  <2>2. t = [s EXCEPT !.device = d, !.fanout = "no"]
    BY <2>1 DEF SpecOf
  <2>3. t.device = d /\ t.reservation = s.reservation /\ t.pool = s.pool /\ t.workload = s.workload
        /\ t.match = s.match
    BY <2>1, <2>2 DEF Spec
  <2>4. /\ d \in registered
        /\ s.pool => InPool(d)
        /\ Capable(d, s.workload)
        /\ Allows(s, d, reserved[d], InPool(d))
        /\ <<d, Os[d], InPool(d)>> \in s.match
    BY <1>1, ChildBegins DEF Matching
  <2>5. Allows(t, d, reserved[d], InPool(d))
    BY <2>1, <2>3, <2>4 DEF Allows, Pins
  <2>6. s.workload \in Workload
    BY <2>1 DEF Spec
  <2>7. s.workload \in (IF row[d].declared THEN Runs[d] ELSE Workload)
    BY <2>4, <2>6 DEF Capable
  <2> HIDE DEF s, t
  <2>8. /\ Context(d).label = reserved[d] /\ Context(d).pool = InPool(d)
        /\ Context(d).runs = (IF row[d].declared THEN Runs[d] ELSE Workload)
        /\ Context(d).descriptor = <<d, Os[d], InPool(d)>>
    BY <2>4 DEF Context
  <2>9. Eligible(d, t)
    BY <2>3, <2>4, <2>5, <2>7, <2>8 DEF Eligible
  <2> QED BY <2>9 DEF t
<1>2. ShelfInv /\ [ShelfNext]_shelfVars =>
        [\A p \in Post, d \in Device :
          /\ ~Asks[p].host
          /\ status[<<p, d>>] = "absent" /\ status'[<<p, d>>] # "absent"
          => Eligible(d, SpecOf(<<p, d>>))]_shelfVars
  BY <1>1
<1> QED BY <1>2, ShelfInvariant, PTL DEF ShelfSpec, ChildrenAreTaken

\* A device that has said what it can run is handed nothing else, whichever builds
\* of its agent have registered since.
THEOREM WithinItsBuild == ShelfSpec => NeverBeyondItsBuild
<1>1. ASSUME ShelfInv, [ShelfNext]_shelfVars, NEW d \in spoke, NEW k \in Job,
             ~Asks[k[1]].host, d \in drives'[k] \ drives[k]
      PROVE  Asks[k[1]].workload \in Runs[d]
  <2>2. Claim(d, k)
    BY <1>1, WorkBegins
  <2>3. d \in registered /\ row[d].declared
    BY <1>1 DEF ShelfInv, ShelfTypeOK, SpokenIsDeclared
  <2>4. SpecOf(k).workload \in Runs[d]
    BY <2>2, <2>3 DEF Claim, Eligible, Context
  <2> QED BY <2>4, SpecKeeps
<1>2. ShelfInv /\ [ShelfNext]_shelfVars =>
        [\A d \in spoke, k \in Job :
          ~Asks[k[1]].host /\ d \in drives'[k] \ drives[k] => Asks[k[1]].workload \in Runs[d]]_shelfVars
  BY <1>1
<1> QED BY <1>2, ShelfInvariant, PTL DEF ShelfSpec, NeverBeyondItsBuild

=============================================================================
