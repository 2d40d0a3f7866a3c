------------------------------ MODULE TimerQueue ------------------------------
(***************************************************************************)
(* The timer queue of timerqueue.c: a red-black tree of timers and the     *)
(* cached earliest one.  Its users serialize the calls (comment at line 7),*)
(* so that one call is one step.                                           *)
(***************************************************************************)
EXTENDS RbTree

CONSTANTS Timer, Expires      \* the struct timerqueue_nodes, their expires
ASSUME TimerAssumption == /\ Expires \in [Timer -> Nat]
                          /\ NULL \notin Timer /\ IsFiniteSet(Timer)

VARIABLES tq,    \* timerqueue_head.head
          next   \* timerqueue_head.next
tqVars == <<tq, next>>

\* timerqueue_init_head, and timerqueue_init of every timer
TqInit == tq = EmptyTree(Timer) /\ next = NULL

Queued(n) == tq.par[n] # n

\* timerqueue_add: the walk goes left only of later timers
TimerAdd(n) ==
    /\ ~Queued(n)
    /\ tq' = InsertSorted(tq, n, {m \in Timer : Expires[n] < Expires[m]})
    /\ next' = IF next = NULL \/ Expires[n] < Expires[next] THEN n ELSE next

\* Mutant: the successor is asked for after the node has left the tree
TimerDelFirst(n) ==
    /\ Queued(n)
    /\ tq' = Forget(RbErase(tq, n), n)
    /\ next' = IF next = n THEN RbNext(tq', n) ELSE next

\* timerqueue_del
TimerDel(n) ==
    /\ Queued(n)
    /\ next' = IF next = n THEN RbNext(tq, n) ELSE next
    /\ tq' = Forget(RbErase(tq, n), n)

TqNext == \E n \in Timer : TimerAdd(n) \/ TimerDel(n)

-----------------------------------------------------------------------------
\* timerqueue_each_node with a callback that stops at the timers of `stop'
EachNode(stop) ==
    LET from[n \in Timer] == IF n \in stop \/ RbNext(tq, n) = NULL THEN <<n>>
                             ELSE <<n>> \o from[RbNext(tq, n)]
    IN IF tq.root = NULL THEN <<>> ELSE from[RbFirst(tq)]

-----------------------------------------------------------------------------
\* timerqueue_add and timerqueue_del keep the timers in order of expiry, equal
\* ones in order of arrival, and the cached timer the first of them, whatever
\* rotations rebalance the tree: that is what timerqueue_each_node, with a
\* callback that never stops, and timerqueue_next visit.
Order == INSTANCE TimerOrder WITH queue <- EachNode({}), next <- next
KeepsOrder == Order!Init /\ [][Order!Next]_tqVars

=============================================================================
