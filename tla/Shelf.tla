-------------------------------- MODULE Shelf --------------------------------
(***************************************************************************)
(* The shelf: the registry of devices, their reservations and pools, who   *)
(* is offered which job, and fan-outs (collector/src/server.ts, queue.ts,  *)
(* reserved.ts, registry-hygiene.ts), together with the part of the host   *)
(* executor that picks the devices of a job (executor.ts).  The life of a  *)
(* job is JobQueue's; here it is queued, claimed and closed.  A handler of *)
(* the collector is one step; a device's long poll is many.                *)
(***************************************************************************)
EXTENDS Naturals, FiniteSets

CONSTANTS
    Device, Executor, Label, Family, Workload,
    Os,         \* the family of each device
    Agents,     \* the devices that run an agent of their own: they poll and declare themselves
    Runs,       \* the workloads each device's agent is built to run
    Cabled,     \* the devices each executor sees
    Reports,    \* the devices whose agents report the pool; there is one pool
    Ephemeral,  \* the devices that register with a ttl
    Simulator,  \* the devices that say they are simulators
    IpName,     \* the id a Roku has when it is known by its address only
    Post,       \* the job ids posted by clients
    Asks,       \* the spec of each
    Reservable, Silent, \* bounds: the devices that may be reserved, and those that may fall silent
    Edits,      \* bound: the edits of pools, each of a device and an override
    Another,    \* stands in for some other device id
    None

\* A match expression is the set of descriptors it is true of: a descriptor is
\* a device id, a family, and whether its pools hold the pool.  The absent
\* expression is true of all.
Descriptor == (Device \union {Another, None}) \X (Family \union {None}) \X BOOLEAN

Spec == [host : BOOLEAN, fanout : {"no", "all", "distinct"}, workload : Workload,
         device : Device \union {None}, executor : Executor \union {None},
         pool : BOOLEAN, match : SUBSET Descriptor, reservation : Label \union {None}]

ASSUME ShelfAssumption ==
    /\ IsFiniteSet(Device)
    /\ Os \in [Device -> Family] /\ Runs \in [Device -> SUBSET Workload]
    /\ Cabled \in [Executor -> SUBSET Device]
    /\ Agents \subseteq Device /\ Reports \subseteq Device /\ Ephemeral \subseteq Device /\ Simulator \subseteq Device
    /\ Reservable \subseteq Device /\ Silent \subseteq Device
    /\ IpName \in [Device -> Device \union {None}] /\ \A d \in Device : IpName[d] # d
    /\ Asks \in [Post -> Spec]
    /\ {Another, None} \intersect (Device \union Label \union Executor) = {}
    /\ Another # None
    /\ None \notin Post \X (Device \union {None})

\* A row of devices: declared once a build that knows of capabilities and ttls
\* has registered it; ahead are the rows inserted before it; age counts from its
\* last_seen: 0 is online, 1 is past ttl_s, 2 is past the days a simulator has.
Row == [declared : BOOLEAN, override : {"none", "in", "out"}, age : 0..2, ahead : SUBSET Device]
NewRow == [declared |-> FALSE, override |-> "none", age |-> 0, ahead |-> {}]

\* A job row: a post, and the device of a fan-out's child.
Job == Post \X (Device \union {None})

VARIABLES
    registered,   \* the devices that have a row
    row,          \* the rows
    reserved,     \* device_reservations
    status,       \* each job's status
    by,           \* claimed_by
    lock,         \* device_locks
    polling,      \* the devices whose long poll is being answered
    told,         \* the reservations a host job's claimant was told
    drives,       \* the devices the claimant of each job works on
    spoke         \* history: devices that have declared themselves since they were last forgotten

shelfVars == <<registered, row, reserved, status, by, lock, polling, told, drives, spoke>>
registryVars == <<registered, row, spoke>>
jobVars == <<status, by, lock, told, drives>>

Unreserved == [d \in Device |-> None]

ShelfInit ==
    /\ registered = {}
    /\ row = [d \in Device |-> NewRow]
    /\ reserved = Unreserved
    /\ status = [k \in Job |-> "absent"]
    /\ by = [k \in Job |-> None]
    /\ lock = [d \in Device |-> None]
    /\ polling = {}
    /\ told = [k \in Job |-> Unreserved]
    /\ drives = [k \in Job |-> {}]
    /\ spoke = {}

-----------------------------------------------------------------------------
(***************************************************************************)
(* Who suits what                                                          *)
(***************************************************************************)

\* The spec of a job row: a child is its parent pinned to its device.
SpecOf(k) ==
    LET s == Asks[k[1]]
    IN IF k[2] = None THEN s ELSE [s EXCEPT !.device = k[2], !.fanout = "no"]

\* effectivePools: the operator's override, or else the agent's report.
InPool(d) ==
    CASE row[d].override = "in" -> TRUE
      [] row[d].override = "out" -> FALSE
      [] OTHER -> d \in Reports

\* deviceCapabilities and capabilityMatches: no opinion is no refusal.
Capable(d, w) == row[d].declared => w \in Runs[d]

\* isExpired.  The ttl is declared, and kept, as the capabilities are.
Expired(d) == d \in Ephemeral /\ row[d].declared /\ row[d].age > 0

\* Slip: a match that selects the device pins it.
PinsIfMatched(s, d, pool) ==
    IF s.device # None THEN s.device = d ELSE <<d, Os[d], pool>> \in s.match

\* pinsDevice: named by id, or by a match that would not select the device under
\* another id.
Pins(s, d, pool) ==
    IF s.device # None THEN s.device = d
    ELSE <<d, Os[d], pool>> \in s.match /\ <<Another, Os[d], pool>> \notin s.match

\* reservationAllows: the label and the pin.
Allows(s, d, label, pool) == label = None \/ (s.reservation = label /\ Pins(s, d, pool))

\* Slip: fan-out goes by what agents report.
MatchingReported(s) ==
    {d \in registered :
        /\ ~Expired(d)
        /\ s.pool => d \in Reports
        /\ s.host \/ Capable(d, s.workload)
        /\ Allows(s, d, reserved[d], InPool(d))
        /\ <<d, Os[d], InPool(d)>> \in s.match}

\* matchingDevices.
Matching(s) ==
    {d \in registered :
        /\ ~Expired(d)
        /\ s.pool => InPool(d)
        /\ s.host \/ Capable(d, s.workload)
        /\ Allows(s, d, reserved[d], InPool(d))
        /\ <<d, Os[d], InPool(d)>> \in s.match}

\* claimantContext of a device: empty when its row is gone.
Context(d) ==
    IF d \in registered
    THEN [label |-> reserved[d], pool |-> InPool(d),
          runs |-> IF row[d].declared THEN Runs[d] ELSE Workload,
          descriptor |-> <<d, Os[d], InPool(d)>>]
    ELSE [label |-> None, pool |-> FALSE, runs |-> Workload,
          descriptor |-> <<None, None, FALSE>>]

\* specEligibleFor, of a device.
Eligible(d, s) ==
    LET ctx == Context(d)
    IN /\ s.device \in {None, d}
       /\ Allows(s, d, ctx.label, ctx.pool)
       /\ s.pool => ctx.pool
       /\ s.workload \in ctx.runs
       /\ ctx.descriptor \in s.match

\* executorsHolding: the executors an online device of which the job could use.
\* A descriptor as executors send it has no pools.
Holders(s) ==
    {e \in Executor :
        \E d \in Cabled[e] \intersect registered :
            /\ row[d].age = 0
            /\ s.device \in {None, d}
            /\ Allows(s, d, reserved[d], FALSE)
            /\ <<d, Os[d], FALSE>> \in s.match}

\* specEligibleFor, of an executor.
EligibleHost(e, s) ==
    IF s.executor # None THEN s.executor = e ELSE Holders(s) = {} \/ e \in Holders(s)

\* selectTargets, by executor e: what it sees, under the reservations it was told.
Targets(e, s, labels) ==
    {d \in Cabled[e] :
        /\ s.device \in {None, d}
        /\ Allows(s, d, labels[d], FALSE)
        /\ <<d, Os[d], FALSE>> \in s.match}

-----------------------------------------------------------------------------
(***************************************************************************)
(* The registry                                                            *)
(***************************************************************************)

\* Slip: a claim counts, a lock does not.
HeldByClaim(d) == \E k \in Job : status[k] = "claimed" /\ by[k] = d

\* A device that a claim or a lock holds.
Held(d) == lock[d] # None \/ \E k \in Job : status[k] = "claimed" /\ by[k] = d

\* A row from before which others have gone.
After(r, gone) == [r EXCEPT !.ahead = @ \ gone]

\* The rows, less those of gone.
RowsWithout(gone) == [x \in Device |-> IF x \in gone THEN NewRow ELSE After(row[x], gone)]

\* Slip: a registration states everything.
DeclaredAnew(d, full) == full

\* What is declared once stays declared when an older build registers.
Declared(d, full) == full \/ row[d].declared

\* POST /devices/register.  A full registration declares capabilities and ttl.
\* retireRokuIpDuplicate: the row of the same box under its address goes, unless
\* it is held.
Register(d, full) ==
    LET gone == {x \in registered : x = IpName[d] /\ ~Held(x)}
        rows == RowsWithout(gone)
    IN /\ full => d \in Agents
       /\ registered' = (registered \ gone) \union {d}
       /\ row' = [rows EXCEPT ![d] =
                    [declared |-> Declared(d, full), override |-> row[d].override, age |-> 0,
                     ahead |-> IF d \in registered THEN rows[d].ahead ELSE registered \ gone]]
       /\ spoke' = (spoke \ gone) \union (IF full THEN {d} ELSE {})
       /\ UNCHANGED <<reserved, polling, jobVars>>

\* Time passes.
Tick ==
    /\ row' = [d \in Device |->
                 IF d \in registered \intersect Silent /\ row[d].age < 2 THEN [row[d] EXCEPT !.age = @ + 1] ELSE row[d]]
    /\ UNCHANGED <<registered, spoke, reserved, polling, jobVars>>

\* PATCH /api/devices/:id, of the pools.
EditPools(d, o) ==
    /\ d \in registered /\ <<d, o>> \in Edits
    /\ row' = [row EXCEPT ![d].override = o]
    /\ UNCHANGED <<registered, spoke, reserved, polling, jobVars>>

\* DELETE /api/devices/:id.
Forget(d) ==
    /\ d \in registered
    /\ ~Held(d)
    /\ registered' = registered \ {d}
    /\ row' = RowsWithout({d})
    /\ spoke' = spoke \ {d}
    /\ lock' = [lock EXCEPT ![d] = None]
    /\ UNCHANGED <<reserved, polling, status, by, told, drives>>

\* reserve, of a device that need not be registered; another label is a conflict.
Reserve(d, l) ==
    /\ d \in Reservable
    /\ reserved[d] \in {None, l}
    /\ reserved' = [reserved EXCEPT ![d] = l]
    /\ UNCHANGED <<registryVars, polling, jobVars>>

\* unreserve.
Unreserve(d) ==
    /\ reserved[d] # None
    /\ reserved' = [reserved EXCEPT ![d] = None]
    /\ UNCHANGED <<registryVars, polling, jobVars>>

-----------------------------------------------------------------------------
(***************************************************************************)
(* Posts and fan-outs                                                      *)
(***************************************************************************)

\* reservedConflict: a pinned job that could never run is refused.  A device that
\* is not registered is judged by its id alone.
Conflicts(s) ==
    \E d \in Device :
        /\ reserved[d] \notin {None, s.reservation}
        /\ IF s.device # None THEN s.device = d
           ELSE LET about(x) == IF d \in registered THEN <<x, Os[d], FALSE>> ELSE <<x, None, FALSE>>
                IN about(d) \in s.match /\ about(Another) \notin s.match

\* The devices a fan-out goes to: all that match, or of each family the one whose
\* row was inserted first, which is the order a SELECT without ORDER BY returns.
Picked(s) ==
    IF s.fanout = "distinct"
    THEN {d \in Matching(s) : \A x \in row[d].ahead \intersect Matching(s) : Os[x] # Os[d]}
    ELSE Matching(s)

\* enqueueJob, of a plain job.
PostPlain(p) ==
    /\ Asks[p].fanout = "no"
    /\ ~Conflicts(Asks[p])
    /\ status[<<p, None>>] = "absent"
    /\ status' = [status EXCEPT ![<<p, None>>] = "queued"]
    /\ UNCHANGED <<registryVars, reserved, polling, by, lock, told, drives>>

\* enqueueJob, of a fan-out, however often it is posted.  Children are inserted
\* one by one in the order of the registry, one that exists is passed over, and
\* the collector may die after any of them, all the polls with it.
PostFanout(p, upTo) ==
    LET s == Asks[p]
        picked == Picked(s)
        minted == {d \in picked : upTo \notin picked \/ d = upTo \/ d \in row[upTo].ahead}
    IN /\ s.fanout # "no"
       /\ ~Conflicts(s)
       /\ picked # {}
       /\ upTo \in picked \union {None}
       /\ status' = [k \in Job |-> IF k[1] = p /\ k[2] \in minted /\ status[k] = "absent"
                                   THEN "queued" ELSE status[k]]
       /\ polling' = IF upTo = None THEN polling ELSE {}
       /\ UNCHANGED <<registryVars, reserved, by, lock, told, drives>>

-----------------------------------------------------------------------------
(***************************************************************************)
(* Claims                                                                  *)
(***************************************************************************)

\* GET /devices/:id/next-job: the row must be there when the poll begins.
PollStart(d) ==
    /\ d \in (registered \intersect Agents) \ polling
    /\ polling' = polling \union {d}
    /\ row' = [row EXCEPT ![d].age = 0]
    /\ UNCHANGED <<registered, spoke, reserved, jobVars>>

\* It ends empty-handed, or the device hangs up.
PollEnd(d) ==
    /\ d \in polling
    /\ polling' = polling \ {d}
    /\ UNCHANGED <<registryVars, reserved, jobVars>>

\* claimTx for a device, at any second of its poll: any eligible job, for their
\* order is JobQueue's.
Claim(d, k) ==
    /\ d \in polling
    /\ lock[d] = None
    /\ status[k] = "queued" /\ ~SpecOf(k).host
    /\ Eligible(d, SpecOf(k))
    /\ status' = [status EXCEPT ![k] = "claimed"]
    /\ by' = [by EXCEPT ![k] = d]
    /\ lock' = [lock EXCEPT ![d] = k]
    /\ drives' = [drives EXCEPT ![k] = {d}]
    /\ polling' = polling \ {d}
    /\ UNCHANGED <<registryVars, reserved, told>>

\* GET /executor/next-job: the reservations go out with the job.
ClaimHost(e, k) ==
    /\ status[k] = "queued" /\ SpecOf(k).host
    /\ EligibleHost(e, SpecOf(k))
    /\ status' = [status EXCEPT ![k] = "claimed"]
    /\ by' = [by EXCEPT ![k] = e]
    /\ told' = [told EXCEPT ![k] = reserved]
    /\ UNCHANGED <<registryVars, reserved, polling, lock, drives>>

\* What closes or requeues a claim drops its locks.
Over(ks, next) ==
    /\ status' = [k \in Job |-> IF k \in ks THEN next[k] ELSE status[k]]
    /\ by' = [k \in Job |-> IF k \in ks THEN None ELSE by[k]]
    /\ lock' = [d \in Device |-> IF lock[d] \in ks THEN None ELSE lock[d]]
    /\ told' = [k \in Job |-> IF k \in ks THEN Unreserved ELSE told[k]]
    /\ drives' = [k \in Job |-> IF k \in ks THEN {} ELSE drives[k]]

\* The executor picks the devices of its job and asks for their locks; acquireLocksTx
\* grants those that are free.  With none of them the job is over (skipped).
Select(e, k) ==
    LET targets == Targets(e, SpecOf(k), told[k])
        granted == {d \in targets : lock[d] \in {None, k}}
    IN /\ status[k] = "claimed" /\ by[k] = e /\ drives[k] = {}
       /\ IF granted = {}
          THEN Over({k}, [x \in {k} |-> "closed"])
          ELSE /\ lock' = [d \in Device |-> IF d \in granted THEN k ELSE lock[d]]
               /\ drives' = [drives EXCEPT ![k] = granted]
               /\ UNCHANGED <<status, by, told>>
       /\ UNCHANGED <<registryVars, reserved, polling>>

\* A final row.
Finish(k) ==
    /\ status[k] = "claimed" /\ drives[k] # {}
    /\ Over({k}, [x \in {k} |-> "closed"])
    /\ UNCHANGED <<registryVars, reserved, polling>>

\* sweepLeases: claims whose lease has lapsed are requeued or failed, and then
\* simulators offline for too long are forgotten.
Sweep(lapsed) ==
    /\ \E next \in [lapsed -> {"queued", "closed"}] : Over(lapsed, next)
    /\ LET held(d) == lock'[d] # None \/ \E k \in Job : status'[k] = "claimed" /\ by'[k] = d
           gone == {d \in registered \intersect Simulator : row[d].age = 2 /\ ~held(d)}
       IN /\ registered' = registered \ gone
          /\ row' = RowsWithout(gone)
          /\ spoke' = spoke \ gone
    /\ UNCHANGED <<reserved, polling>>

ShelfNext ==
    \/ \E d \in Device, full \in BOOLEAN : Register(d, full)
    \/ \E d \in Device : Forget(d) \/ Unreserve(d) \/ PollStart(d) \/ PollEnd(d)
    \/ \E d \in Device, o \in {"none", "in", "out"} : EditPools(d, o)
    \/ \E d \in Device, l \in Label : Reserve(d, l)
    \/ Tick
    \/ \E p \in Post : PostPlain(p)
    \/ \E p \in Post, upTo \in Device \union {None} : PostFanout(p, upTo)
    \/ \E d \in Device, k \in Job : Claim(d, k)
    \/ \E e \in Executor, k \in Job : ClaimHost(e, k) \/ Select(e, k)
    \/ \E k \in Job : Finish(k)
    \/ \E lapsed \in SUBSET {k \in Job : status[k] = "claimed"} : Sweep(lapsed)

ShelfSpec == ShelfInit /\ [][ShelfNext]_shelfVars

-----------------------------------------------------------------------------
(***************************************************************************)
(* Properties                                                              *)
(***************************************************************************)

\* The registry: a device has a row exactly while it is registered, and the rows
\* are in one order.
RowsInOrder ==
    /\ registered \in SUBSET Device
    /\ row \in [Device -> Row]
    /\ \A d \in Device \ registered : row[d] = NewRow
    /\ \A d \in Device : row[d].ahead \subseteq registered \ {d}
    /\ \A c, d \in registered : c # d => (c \in row[d].ahead <=> d \notin row[c].ahead)

\* The jobs and the locks; a job is claimed exactly while it is claimed by somebody.
JobsInOrder ==
    /\ status \in [Job -> {"absent", "queued", "claimed", "closed"}]
    /\ by \in [Job -> Device \union Executor \union {None}]
    /\ \A k \in Job : status[k] = "claimed" <=> by[k] # None
    /\ lock \in [Device -> Job \union {None}]
    /\ told \in [Job -> [Device -> Label \union {None}]]
    /\ drives \in [Job -> SUBSET Device]

\* The types, whatever is registered, renamed, forgotten, swept and killed.
ShelfTypeOK ==
    /\ RowsInOrder
    /\ JobsInOrder
    /\ reserved \in [Device -> Label \union {None}]
    /\ polling \in SUBSET Device
    /\ spoke \in SUBSET registered

\* Does the spec s name device d?  By id, or by a match that is true of it and
\* would not be of any other.
NamedBy(s, d) ==
    \/ s.device = d
    \/ /\ s.device = None
       /\ \E pool \in BOOLEAN : <<d, Os[d], pool>> \in s.match /\ <<Another, Os[d], pool>> \notin s.match

\* Is s that work the reservation of d is for?
HoldsReservation(s, d) == s.reservation = reserved[d] /\ NamedBy(s, d)

\* A reserved device that has a row is given only to a job that carries its label
\* and names it, whether it claims the job itself, an executor that was told of
\* the reservation picks it, or a fan-out would pin a child to it: then it is the
\* fan-out as posted that must have named it, which no child shows.
ReservationHonoured ==
    [][\A d \in Device : reserved[d] # None =>
          /\ \A k \in Job :
                /\ d \in drives'[k] \ drives[k]
                /\ IF Asks[k[1]].host THEN told[k][d] = reserved[d] ELSE d \in registered
                => HoldsReservation(SpecOf(k), d)
          /\ \A p \in Post :
                status[<<p, d>>] = "absent" /\ status'[<<p, d>>] # "absent" =>
                HoldsReservation(Asks[p], d)]_shelfVars

\* No two claims work on one device, on record, though the device may be forgotten
\* and come back in between, mid-poll, under a claim or under an executor's lock.
OneJobOnDevice ==
    \A j, k \in Job : j # k => drives[j] \intersect drives[k] = {}

\* A child is minted only for a device that would be handed it if it asked then:
\* fan-out and claim agree, though they see the device through different queries.
ChildrenAreTaken ==
    [][\A p \in Post, d \in Device :
          /\ ~Asks[p].host
          /\ status[<<p, d>>] = "absent" /\ status'[<<p, d>>] # "absent"
          => Eligible(d, SpecOf(<<p, d>>))]_shelfVars

\* A device that has said what it can run is not handed anything else, whichever
\* builds of its agent have registered it since, until it is forgotten.
NeverBeyondItsBuild ==
    [][\A d \in spoke, k \in Job :
          ~Asks[k[1]].host /\ d \in drives'[k] \ drives[k] => Asks[k[1]].workload \in Runs[d]]_shelfVars

=============================================================================
