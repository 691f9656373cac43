------------------------------ MODULE Settling ------------------------------
(***************************************************************************)
(* settleWaiters of collector/src/api/mutations.ts as the recursion it is: *)
(* a call selects the waiters of a job that closed and comes to them in    *)
(* the order SQLite chose; failing or skipping one calls it again for the  *)
(* waiters of that one, before the next.  A waiter that was selected is    *)
(* looked at when its turn comes, whatever became of it in the meantime.   *)
(*                                                                         *)
(* JobQueue says in one step what a settlement may leave (Settlements).    *)
(* Nothing else runs between the steps of one, all in one transaction.     *)
(***************************************************************************)
EXTENDS JobQueue

\* now:    the statuses so far
\* depth:  the calls on the stack, the innermost having this number
\* ahead:  the waiters each call has selected and not come to yet
Walk == [now : [Jobs -> Status], depth : Nat, ahead : SUBSET (Nat \X Jobs)]

\* waitersOn: every waiting job that names c as a dependency.
WaitersOn(st, c) == {w \in Jobs : st[w] = "waiting" /\ c \in depends_on[w]}

WalkBegins(st, c) == [now |-> st, depth |-> 1, ahead |-> {1} \X WaitersOn(st, c)]

\* What becomes of waiter w by the statuses of its dependencies; "left" is the loop's
\* continue.  Unresolved are the jobs whose ${jobs...} references do not resolve.
Turn(Unresolved, st, w) ==
    LET Some(s) == \E d \in depends_on[w] : st[d] \in s
    IN  IF Some(Broken \union {"absent"}) THEN "failed"
        ELSE IF Some({"skipped"}) THEN "skipped"
        ELSE IF Some(Status \ {"done"}) THEN "left"
        ELSE IF w \in Unresolved THEN "failed" ELSE "queued"

\* The innermost call comes to waiter w: it is left alone, promoted, or closed and
\* its own waiters selected.
Comes(Unresolved, x, w, y) ==
    LET turn == Turn(Unresolved, x.now, w)
        now  == [x.now EXCEPT ![w] = turn]
        rest == x.ahead \ {<<x.depth, w>>}
        more == {x.depth + 1} \X WaitersOn(now, w)
    IN  /\ <<x.depth, w>> \in x.ahead
        /\ \/ turn = "left" /\ y = [now |-> x.now, depth |-> x.depth, ahead |-> rest]
           \/ turn = "queued" /\ y = [now |-> now, depth |-> x.depth, ahead |-> rest]
           \/ /\ turn \in {"failed", "skipped"}
              /\ y = [now |-> now, depth |-> x.depth + 1, ahead |-> rest \union more]

\* The innermost call has come to all its waiters.
Returns(x, y) ==
    /\ x.depth > 0 /\ \A w \in Jobs : <<x.depth, w>> \notin x.ahead
    /\ y = [now |-> x.now, depth |-> x.depth - 1, ahead |-> x.ahead]

WalkStep(Unresolved, x, y) ==
    Returns(x, y) \/ \E w \in Jobs : Comes(Unresolved, x, w, y)

\* walk settles the waiters of c, which closed with the statuses st, in steps 0, 1, ...
IsWalkOf(Unresolved, st, c, walk, steps) ==
    /\ walk[0] = WalkBegins(st, c)
    /\ \A k \in steps : WalkStep(Unresolved, walk[k], walk[k + 1])

=============================================================================
