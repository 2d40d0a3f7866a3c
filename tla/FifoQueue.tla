------------------------------ MODULE FifoQueue ------------------------------
(***************************************************************************)
(* What lf_queue_push and lf_queue_pop can promise: every call takes effect *)
(* in one step between its invocation and its return, and elements come    *)
(* out in the order in which they went in.  A pop may find nothing in a    *)
(* queue that is not empty, once before the queue is drained: the first    *)
(* node is a dummy, which the pop takes for an element.                    *)
(***************************************************************************)
EXTENDS Sequences

CONSTANTS Thread, Data, NULL

VARIABLES
    queue,         \* the elements, oldest first
    missed,        \* a pop has found nothing since the queue was last empty
    op, arg, ret   \* per thread: the call, its element, its outcome

vars == <<queue, missed, op, arg, ret>>

Init ==
    /\ queue = <<>> /\ missed = FALSE
    /\ op  = [t \in Thread |-> "none"]
    /\ arg = [t \in Thread |-> NULL]
    /\ ret = [t \in Thread |-> "none"]

Invoke(t, o, d) ==
    /\ op[t] = "none"
    /\ op'  = [op  EXCEPT ![t] = o]
    /\ arg' = [arg EXCEPT ![t] = d]
    /\ ret' = [ret EXCEPT ![t] = "pending"]
    /\ UNCHANGED <<queue, missed>>

\* the call of t takes effect with outcome r
Effect(t, o, r) ==
    /\ op[t] = o /\ ret[t] = "pending"
    /\ ret' = [ret EXCEPT ![t] = r]
    /\ UNCHANGED <<op, arg>>

Push(t) == Effect(t, "push", "ok") /\ queue' = Append(queue, arg[t]) /\ UNCHANGED missed

Pop(t) == /\ queue # <<>>
          /\ Effect(t, "pop", Head(queue))
          /\ queue' = Tail(queue)
          /\ missed' = (Tail(queue) # <<>>)

PopNothing(t) == /\ ~missed
                 /\ Effect(t, "pop", NULL)
                 /\ missed' = (queue # <<>>)
                 /\ UNCHANGED queue

NoMem(t) == /\ Effect(t, op[t], "nomem")
            /\ UNCHANGED <<queue, missed>>

Return(t) ==
    /\ ret[t] \notin {"none", "pending"}
    /\ op'  = [op  EXCEPT ![t] = "none"]
    /\ arg' = [arg EXCEPT ![t] = NULL]
    /\ ret' = [ret EXCEPT ![t] = "none"]
    /\ UNCHANGED <<queue, missed>>

\* lf_queue_deinit drops what is left, between calls
Discard ==
    /\ \A t \in Thread : op[t] = "none"
    /\ queue' = <<>> /\ missed' = FALSE
    /\ UNCHANGED <<op, arg, ret>>

Next ==
    \/ \E t \in Thread :
          \/ \E d \in Data : Invoke(t, "push", d)
          \/ Invoke(t, "pop", NULL)
          \/ Push(t) \/ Pop(t) \/ PopNothing(t) \/ NoMem(t) \/ Return(t)
    \/ Discard

Spec == Init /\ [][Next]_vars

=============================================================================
