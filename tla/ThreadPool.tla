------------------------------ MODULE ThreadPool ------------------------------
(***************************************************************************)
(* The thread pool of test/threadpool/threadpool.c (test/queue has the     *)
(* same one): workers that wait on a condition variable for tasks, clients *)
(* that add tasks and destroy the pool.  A task is its malloc'ed block.    *)
(* The queue and its size are touched under queue_lock only; shutdown is   *)
(* read under the lock and written without it, so every access to it is a  *)
(* step of its own.  Callbacks return, and malloc and pthread_create do    *)
(* not fail (the code does not check them).                                *)
(***************************************************************************)
EXTENDS Null, Naturals, Sequences

CONSTANTS
    Worker,     \* pool->threadid
    Client,     \* the threads that use the pool
    Task,       \* the blocks malloc can return
    NoThread

ASSUME SentinelAssumption == NULL \notin Task /\ NoThread \notin Worker \cup Client
ASSUME KindAssumption == Worker \cap Client = {}

VARIABLES
    open,       \* pool # NULL
    lock,       \* owner of queue_lock
    queue,      \* the list at queue_head
    size,       \* cur_queue_size
    shutdown,
    pc,         \* next step of every thread
    task,       \* per thread: newworker of a client, thread_worker of a worker
    late        \* per worker: tasks it took since shutdown was set

pool == <<queue, size>>
vars == <<open, lock, pool, shutdown, pc, task, late>>

Thread == Worker \cup Client

\* pthread_cond_wait: the threads that wait on queue_ready
Blocked == {w \in Worker : pc[w] = "blocked"}

Goto(t, l) == pc' = [pc EXCEPT ![t] = l]
InQueue(k) == \E i \in DOMAIN queue : queue[i] = k

-----------------------------------------------------------------------------
(* thread_routine *)

\* Mutant: the condition is not tested again after a wakeup
LockOnce(w) ==
    /\ pc[w] \in {"start", "woken"}
    /\ lock = NoThread /\ lock' = w
    /\ Goto(w, IF pc[w] = "woken" THEN "ready" ELSE "check")
    /\ UNCHANGED <<open, pool, shutdown, task, late>>

\* pthread_mutex_lock, or the second half of pthread_cond_wait
LockWorker(w) ==
    /\ pc[w] \in {"start", "woken"}
    /\ lock = NoThread /\ lock' = w
    /\ Goto(w, "check")
    /\ UNCHANGED <<open, pool, shutdown, task, late>>

Check(w) ==
    /\ pc[w] = "check"
    /\ Goto(w, IF size = 0 /\ ~shutdown THEN "wait" ELSE "ready")
    /\ UNCHANGED <<open, lock, pool, shutdown, task, late>>

\* Mutant: the mutex is released before the thread is queued on the condition
WaitLate(w) ==
    \/ /\ pc[w] = "wait" /\ lock = w
       /\ lock' = NoThread
       /\ UNCHANGED <<open, pool, shutdown, pc, task, late>>
    \/ /\ pc[w] = "wait" /\ lock # w
       /\ Goto(w, "blocked")
       /\ UNCHANGED <<open, lock, pool, shutdown, task, late>>

Wait(w) ==
    /\ pc[w] = "wait"
    /\ lock' = NoThread
    /\ Goto(w, "blocked")
    /\ UNCHANGED <<open, pool, shutdown, task, late>>

\* pthread_cond_wait may return for no reason
Spurious(w) ==
    /\ pc[w] = "blocked"
    /\ Goto(w, "woken")
    /\ UNCHANGED <<open, lock, pool, shutdown, task, late>>

Exit(w) ==
    /\ pc[w] = "ready" /\ shutdown
    /\ lock' = NoThread
    /\ Goto(w, "exited")
    /\ UNCHANGED <<open, pool, shutdown, task, late>>

\* Mutant: the queue is drained before the workers exit
StayBusy(w) ==
    /\ pc[w] = "ready" /\ (~shutdown \/ size # 0)
    /\ Goto(w, "take")
    /\ UNCHANGED <<open, lock, pool, shutdown, task, late>>

Stay(w) ==
    /\ pc[w] = "ready" /\ ~shutdown
    /\ Goto(w, "take")
    /\ UNCHANGED <<open, lock, pool, shutdown, task, late>>

\* Mutant: the task stays at the head of the queue
Peek(w) ==
    /\ pc[w] = "take" /\ queue # <<>>
    /\ size' = size - 1
    /\ task' = [task EXCEPT ![w] = Head(queue)]
    /\ lock' = NoThread
    /\ Goto(w, "run")
    /\ late' = [late EXCEPT ![w] = IF shutdown THEN @ + 1 ELSE @]
    /\ UNCHANGED <<open, queue, shutdown>>

\* the two assertions before it are the invariant Asserts
Take(w) ==
    /\ pc[w] = "take" /\ queue # <<>>
    /\ size' = size - 1
    /\ task' = [task EXCEPT ![w] = Head(queue)]
    /\ queue' = Tail(queue)
    /\ lock' = NoThread
    /\ Goto(w, "run")
    /\ late' = [late EXCEPT ![w] = IF shutdown THEN @ + 1 ELSE @]
    /\ UNCHANGED <<open, shutdown>>

\* the callback returns, the task is freed
Finish(w) ==
    /\ pc[w] = "run"
    /\ task' = [task EXCEPT ![w] = NULL]
    /\ Goto(w, "start")
    /\ UNCHANGED <<open, lock, pool, shutdown, late>>

-----------------------------------------------------------------------------
(* pool_add_worker *)

Free(k) == ~InQueue(k) /\ \A t \in Thread : task[t] # k

\* nobody adds a task while the pool is being destroyed
AddCall(c) ==
    /\ open /\ ~shutdown /\ pc[c] = "idle"
    /\ \A d \in Client : pc[d] \notin {"set", "broadcast", "join"}
    /\ \E k \in Task : Free(k) /\ task' = [task EXCEPT ![c] = k]
    /\ Goto(c, "add")
    /\ UNCHANGED <<open, lock, pool, shutdown, late>>

\* lock, append, unlock
Enqueue(c) ==
    /\ pc[c] = "add" /\ lock = NoThread
    /\ queue' = Append(queue, task[c])
    /\ size' = size + 1
    /\ task' = [task EXCEPT ![c] = NULL]
    /\ Goto(c, "signal")
    /\ UNCHANGED <<open, lock, shutdown, late>>

\* pthread_cond_signal wakes one of the waiting threads, if there is one
Signal(c) ==
    /\ pc[c] = "signal"
    /\ \/ Blocked = {} /\ Goto(c, "idle")
       \/ \E w \in Blocked : pc' = [pc EXCEPT ![c] = "idle", ![w] = "woken"]
    /\ UNCHANGED <<open, lock, pool, shutdown, task, late>>

-----------------------------------------------------------------------------
(* pool_destroy: its caller knows that no other client uses the pool, and   *)
(* does not call it again afterwards, when `pool' is NULL                   *)

Alone(c) == \A d \in Client \ {c} : pc[d] = "idle"

DestroyCall(c) ==
    /\ open /\ ~shutdown
    /\ pc[c] = "idle" /\ Alone(c)
    /\ Goto(c, "set")
    /\ UNCHANGED <<open, lock, pool, shutdown, task, late>>

SetShutdown(c) ==
    /\ pc[c] = "set"
    /\ shutdown' = TRUE
    /\ Goto(c, "broadcast")
    /\ UNCHANGED <<open, lock, pool, task, late>>

Broadcast(c) ==
    /\ pc[c] = "broadcast"
    /\ pc' = [t \in Thread |-> IF t = c THEN "join"
                               ELSE IF t \in Blocked THEN "woken" ELSE pc[t]]
    /\ UNCHANGED <<open, lock, pool, shutdown, task, late>>

\* all the threads are joined; the queue and the pool are freed
Joined(c) ==
    /\ pc[c] = "join" /\ \A w \in Worker : pc[w] = "exited"
    /\ queue' = <<>>
    /\ open' = FALSE
    /\ Goto(c, "idle")
    /\ UNCHANGED <<lock, size, shutdown, task, late>>

\* pool_init
PoolInit ==
    /\ ~open
    /\ open' = TRUE /\ queue' = <<>> /\ size' = 0 /\ shutdown' = FALSE
    /\ pc' = [t \in Thread |-> IF t \in Worker THEN "start" ELSE pc[t]]
    /\ late' = [w \in Worker |-> 0]
    /\ UNCHANGED <<lock, task>>

-----------------------------------------------------------------------------
Init ==
    /\ open = TRUE /\ lock = NoThread /\ queue = <<>> /\ size = 0
    /\ shutdown = FALSE
    /\ pc   = [t \in Thread |-> IF t \in Worker THEN "start" ELSE "idle"]
    /\ task = [t \in Thread |-> NULL]
    /\ late = [w \in Worker |-> 0]

Routine(w) == \/ LockWorker(w) \/ Check(w) \/ Wait(w) \/ Exit(w) \/ Stay(w)
              \/ Take(w) \/ Finish(w)

Calls(c) == AddCall(c) \/ DestroyCall(c)
Goes(c)  == \/ Enqueue(c) \/ Signal(c) \/ SetShutdown(c) \/ Broadcast(c)
            \/ Joined(c)

Next == \/ \E w \in Worker : Routine(w) \/ Spurious(w)
        \/ \E c \in Client : Calls(c) \/ Goes(c)
        \/ PoolInit

Spec == Init /\ [][Next]_vars

\* every thread keeps running; nobody has to call, and no wakeup is spurious
FairSpec == /\ Spec
            /\ \A w \in Worker : WF_vars(Routine(w))
            /\ \A c \in Client : WF_vars(Goes(c))

-----------------------------------------------------------------------------
(* Properties *)

\* The assertions of thread_routine and of pool_add_worker hold: whoever is about
\* to take a task finds one, and cur_queue_size counts the tasks of the list.
Asserts == /\ \A w \in Worker : pc[w] = "take" => size # 0 /\ queue # <<>>
           /\ open => size = Len(queue)

\* A task is in one place: once in the queue, or in the hands of one thread.
\* No task runs twice, and none is freed while somebody else has it.
OnePlace ==
    /\ \A i, j \in DOMAIN queue : queue[i] = queue[j] => i = j
    /\ \A t \in Thread : task[t] # NULL =>
          /\ ~InQueue(task[t])
          /\ \A u \in Thread : task[u] = task[t] => u = t

\* Once pool_destroy has set shutdown, a worker takes at most one more task, the
\* one it had already decided to take: what holds instead of QueueNotRun.
StopsSoon == \A w \in Worker : late[w] <= 1

\* The tasks that are in the queue when pool_destroy has set shutdown are not
\* run any more; those that run do so to their end (threadpool.c:102-103).
QueueNotRun == \A w \in Worker : late[w] = 0

\* A task that was added is eventually taken, or freed by pool_destroy.
Served == \A k \in Task : InQueue(k) ~> ~InQueue(k)

\* pool_destroy wakes all the waiting threads, they exit, and it returns.
DestroyReturns == \A c \in Client : pc[c] = "set" ~> pc[c] = "idle"

=============================================================================
