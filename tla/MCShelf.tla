------------------------------- MODULE MCShelf -------------------------------
(***************************************************************************)
(* An executor with a phone, which is reserved for some work and runs an   *)
(* agent of its own, and a Roku, which is known by two names.              *)
(***************************************************************************)
EXTENDS Shelf

CONSTANTS phone, box, boxIp, e1, growth, test, bench

MCOs == [d \in Device |-> IF d \in {box, boxIp} THEN "roku" ELSE "android"]
MCRuns == [d \in Device |-> {test}]
MCCabled == [e \in Executor |-> Device]
OneBox == [d \in Device |-> IF d = box THEN boxIp ELSE None]

MCEdits == {phone} \X {"none", "out"}

All == Descriptor
Named == {x \in Descriptor : x[1] \in {phone, boxIp}}
NotTheBox == {x \in Descriptor : x[1] # box}

DeviceJob(match) ==
    [host |-> FALSE, fanout |-> "no", workload |-> test, device |-> None, executor |-> None,
     pool |-> FALSE, match |-> match, reservation |-> None]

HostJob(match) == [DeviceJob(match) EXCEPT !.host = TRUE]

\* The phone is asked for as the work it is reserved for; by a match that means it
\* by chance, to run what it cannot; and as one of each family in the pool.
ShelfAsks ==
    [p \in Post |->
        CASE p = "own" -> [HostJob(Named) EXCEPT !.reservation = growth]
          [] p = "loose" -> [DeviceJob(NotTheBox) EXCEPT !.workload = bench, !.reservation = growth]
          [] OTHER -> [DeviceJob(All) EXCEPT !.fanout = "distinct", !.pool = TRUE, !.reservation = growth]]

=============================================================================
