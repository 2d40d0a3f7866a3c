------------------------------ MODULE TimerOrder ------------------------------
(***************************************************************************)
(* What timerqueue.c promises: a queue of timers in order of expiry, first *)
(* come first served among equals, whose head timerqueue_getnext returns.  *)
(***************************************************************************)
EXTENDS Naturals, SequencesExt

CONSTANTS Timer, Expires, NULL
VARIABLES queue, next

Init == queue = <<>> /\ next = NULL

Becomes(q) == queue' = q /\ next' = IF q = <<>> THEN NULL ELSE Head(q)

\* n goes behind the first k timers: those that do not expire later
Add == \E n \in Timer \ ToSet(queue), k \in 0 .. Len(queue) :
           /\ \A i \in DOMAIN queue : Expires[n] < Expires[queue[i]] <=> i > k
           /\ Becomes(InsertAt(queue, k + 1, n))
Del == \E i \in DOMAIN queue : Becomes(RemoveAt(queue, i))

Next == Add \/ Del
Spec == Init /\ [][Next]_<<queue, next>>

=============================================================================
