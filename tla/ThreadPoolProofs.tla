--------------------------- MODULE ThreadPoolProofs ---------------------------
(* Proofs about ThreadPool for every number of workers, clients and tasks. *)
EXTENDS ThreadPool, TLAPS

WorkerPC == {"start", "woken", "check", "wait", "blocked", "ready", "take", "run",
             "exited"}
ClientPC == {"idle", "add", "signal", "set", "broadcast", "join"}

\* What each variable is.
Types ==
    /\ open \in BOOLEAN /\ shutdown \in BOOLEAN
    /\ lock \in Worker \cup {NoThread}
    /\ queue \in Seq(Task) /\ size \in Nat
    /\ pc \in [Thread -> WorkerPC \cup ClientPC]
    /\ \A w \in Worker : pc[w] \in WorkerPC
    /\ \A c \in Client : pc[c] \in ClientPC
    /\ task \in [Thread -> Task \cup {NULL}]
    /\ late \in [Worker -> Nat]

\* A worker has the lock from the wakeup to the wait, the exit or the task.
Locks == \A w \in Worker : pc[w] \in {"check", "wait", "ready", "take"} <=> lock = w

\* The condition a worker has tested still holds when it acts on it.
Tested == \A w \in Worker : /\ pc[w] = "ready" => size # 0 \/ shutdown
                            /\ pc[w] = "take" => size # 0

Counts == open => size = Len(queue)

\* Before shutdown nothing is late; whoever is about to take a task is not yet.
Lateness == \A w \in Worker : /\ late[w] <= 1
                              /\ ~shutdown \/ pc[w] = "take" => late[w] = 0

\* A client that adds a task has it.
Adding == \A c \in Client : pc[c] = "add" => task[c] # NULL

\* The client that destroys the pool is alone, the pool it destroys is open.
Destroying == \A c \in Client : pc[c] \in {"set", "broadcast", "join"} => Alone(c)

\* Nobody uses a pool that was destroyed.
Closed == ~open => /\ \A w \in Worker : pc[w] = "exited"
                   /\ \A c \in Client : pc[c] = "idle"

IInv == /\ Types /\ Locks /\ Tested /\ Counts /\ Lateness /\ Adding
        /\ Destroying /\ Closed /\ OnePlace

In(k, q) == \E i \in DOMAIN q : q[i] = k

-----------------------------------------------------------------------------
\* Append puts the task at the end and moves no other.
LEMMA AppendPlaces ==
    ASSUME NEW S, NEW s \in Seq(S), NEW x \in S
    PROVE  /\ Append(s, x) \in Seq(S) /\ Len(Append(s, x)) = Len(s) + 1
           /\ Len(s) \in Nat /\ DOMAIN s = 1 .. Len(s)
           /\ DOMAIN Append(s, x) = 1 .. Len(s) + 1
           /\ Append(s, x)[Len(s) + 1] = x
           /\ \A i \in 1 .. Len(s) : Append(s, x)[i] = s[i]
  OBVIOUS

\* Taking the head shifts the others by one place.
LEMMA TailPlaces ==
    ASSUME NEW S, NEW s \in Seq(S), s # <<>>
    PROVE  /\ Tail(s) \in Seq(S) /\ Len(Tail(s)) = Len(s) - 1
           /\ Len(s) \in Nat \ {0} /\ DOMAIN s = 1 .. Len(s)
           /\ Head(s) = s[1] /\ Head(s) \in S
           /\ DOMAIN Tail(s) = 1 .. Len(s) - 1
           /\ \A i \in 1 .. Len(s) - 1 : Tail(s)[i] = s[i + 1]
  OBVIOUS

\* Workers and clients are different threads.
LEMMA Kinds ==
    /\ \A w \in Worker, c \in Client : w # c
    /\ \A w \in Worker : w \in Thread
    /\ \A c \in Client : c \in Thread
    /\ NULL \notin Task /\ \A w \in Worker : w # NoThread
  BY SentinelAssumption, KindAssumption DEF Thread

\* The pool starts with no task, and no worker has the lock.
LEMMA InitInv == Init => IInv
<1> SUFFICES ASSUME Init PROVE IInv
  OBVIOUS
<1>0. /\ \A w \in Worker : pc[w] = "start" /\ late[w] = 0
      /\ \A c \in Client : pc[c] = "idle"
      /\ \A t \in Thread : task[t] = NULL
      /\ open = TRUE /\ lock = NoThread /\ queue = <<>> /\ size = 0
      /\ shutdown = FALSE
  BY Kinds DEF Init
<1>1. Types
  <2>1. pc \in [Thread -> WorkerPC \cup ClientPC]
    BY DEF Init, WorkerPC, ClientPC
  <2>2. task \in [Thread -> Task \cup {NULL}] /\ late \in [Worker -> Nat]
    BY DEF Init
  <2>3. queue \in Seq(Task) /\ size \in Nat
    BY <1>0
  <2>4. /\ \A w \in Worker : pc[w] \in WorkerPC
        /\ \A c \in Client : pc[c] \in ClientPC
    BY <1>0 DEF WorkerPC, ClientPC
  <2>5. QED
    BY <1>0, <2>1, <2>2, <2>3, <2>4 DEF Types
<1>2. Locks /\ Tested /\ Lateness /\ Adding /\ Destroying
  BY <1>0, Kinds DEF Locks, Tested, Lateness, Adding, Destroying
<1>3. Counts /\ Closed /\ OnePlace
  BY <1>0 DEF Counts, Closed, OnePlace, InQueue
<1>4. QED
  BY <1>1, <1>2, <1>3 DEF IInv

-----------------------------------------------------------------------------
(* The workers *)

\* A worker that gets the lock has tested nothing yet.
LEMMA LockWorkerInv == ASSUME IInv, NEW w \in Worker, LockWorker(w) PROVE IInv'
<1> USE Kinds DEF IInv, LockWorker, Goto, pool
<1>1. Types'
  BY DEF Types, WorkerPC, ClientPC
<1>2. Locks' /\ Tested' /\ Lateness'
  BY DEF Types, Locks, Tested, Lateness
<1>3. Adding' /\ Destroying' /\ Closed' /\ Counts'
  BY DEF Types, Adding, Destroying, Alone, Closed, Counts
<1>4. OnePlace'
  BY DEF OnePlace, InQueue
<1>5. QED
  BY <1>1, <1>2, <1>3, <1>4

\* Check goes on to `ready' with a task in the queue or with shutdown set.
LEMMA CheckInv == ASSUME IInv, NEW w \in Worker, Check(w) PROVE IInv'
<1> USE Kinds DEF IInv, Check, Goto, pool
<1>1. Types'
  BY DEF Types, WorkerPC, ClientPC
<1>2. Locks' /\ Tested' /\ Lateness'
  BY DEF Types, Locks, Tested, Lateness
<1>3. Adding' /\ Destroying' /\ Closed' /\ Counts'
  BY DEF Types, Adding, Destroying, Alone, Closed, Counts
<1>4. OnePlace'
  BY DEF OnePlace, InQueue
<1>5. QED
  BY <1>1, <1>2, <1>3, <1>4

\* Wait, Spurious, Exit and Stay leave the queue alone.
LEMMA MoveInv ==
    ASSUME IInv, NEW w \in Worker, Wait(w) \/ Spurious(w) \/ Exit(w) \/ Stay(w)
    PROVE  IInv'
<1> USE Kinds DEF IInv, Wait, Spurious, Exit, Stay, Goto, pool
<1>1. Types'
  BY DEF Types, WorkerPC, ClientPC
<1>2. Locks'
  BY DEF Types, Locks
<1>3. Tested' /\ Lateness'
  BY DEF Types, Tested, Lateness
<1>4. Adding' /\ Destroying' /\ Closed' /\ Counts'
  BY DEF Types, Adding, Destroying, Alone, Closed, Counts
<1>5. OnePlace'
  BY DEF OnePlace, InQueue
<1>6. QED
  BY <1>1, <1>2, <1>3, <1>4, <1>5

\* Take removes the head under the lock, and only its taker has it.
LEMMA TakeInv == ASSUME IInv, NEW w \in Worker, Take(w) PROVE IInv'
<1> USE Kinds DEF IInv, Take, Goto, pool
<1>0. /\ lock = w /\ open /\ late[w] = 0 /\ size \in Nat \ {0}
      /\ size = Len(queue)
      /\ queue \in Seq(Task) /\ queue # <<>>
  BY DEF Types, Locks, Closed, Lateness, Counts, Tested
<1>a. /\ Tail(queue) \in Seq(Task) /\ Len(Tail(queue)) = Len(queue) - 1
      /\ Len(queue) \in Nat \ {0} /\ DOMAIN queue = 1 .. Len(queue)
      /\ Head(queue) = queue[1] /\ Head(queue) \in Task
      /\ DOMAIN Tail(queue) = 1 .. Len(queue) - 1
      /\ \A i \in 1 .. Len(queue) - 1 : Tail(queue)[i] = queue[i + 1]
  BY <1>0, TailPlaces
<1>1. Types'
  <2>1. late' \in [Worker -> Nat]
    BY DEF Types
  <2>2. /\ pc' \in [Thread -> WorkerPC \cup ClientPC]
        /\ \A v \in Worker : pc'[v] \in WorkerPC
        /\ \A c \in Client : pc'[c] \in ClientPC
    BY DEF Types, WorkerPC, ClientPC
  <2>3. task' \in [Thread -> Task \cup {NULL}]
    BY <1>a DEF Types
  <2>4. size' \in Nat
    BY <1>0
  <2>5. QED
    BY <2>1, <2>2, <2>3, <2>4, <1>a DEF Types
<1>2. Locks' /\ Tested'
  BY <1>0 DEF Types, Locks, Tested
<1>3. Lateness'
  BY <1>0 DEF Types, Lateness
<1>4. Counts'
  BY <1>0, <1>a DEF Counts
<1>5. Adding' /\ Destroying' /\ Closed'
  BY <1>0 DEF Types, Adding, Destroying, Alone, Closed
<1>6. OnePlace'
  <2>1. \A i, j \in DOMAIN queue' : queue'[i] = queue'[j] => i = j
    BY <1>a DEF OnePlace
  <2>2. ~In(Head(queue), Tail(queue)) /\ In(Head(queue), queue)
    BY <1>a, SMTT(30) DEF OnePlace, In
  <2>3. \A k : In(k, Tail(queue)) => In(k, queue)
    BY <1>a DEF In
  <2>4. \A t \in Thread : task'[t] = IF t = w THEN Head(queue) ELSE task[t]
    BY DEF Types
  <2>5. \A t \in Thread : task[t] # NULL => ~In(task[t], queue)
    BY DEF OnePlace, InQueue, In
  <2>6. ASSUME NEW t \in Thread, task'[t] # NULL
        PROVE  /\ ~In(task'[t], Tail(queue))
               /\ \A u \in Thread : task'[u] = task'[t] => u = t
    <3>1. ~In(task'[t], Tail(queue))
      BY <2>2, <2>3, <2>4, <2>5, <2>6
    <3>2. ASSUME NEW u \in Thread, task'[u] = task'[t] PROVE u = t
      <4>1. CASE t = w /\ u # w
        BY <1>a, <2>2, <2>4, <2>5, <3>2, <4>1
      <4>2. CASE t # w /\ u = w
        BY <1>a, <2>2, <2>4, <2>5, <2>6, <3>2, <4>2
      <4>3. CASE t # w /\ u # w
        BY <2>4, <2>6, <3>2, <4>3 DEF OnePlace
      <4>4. QED
        BY <4>1, <4>2, <4>3
    <3>3. QED
      BY <3>1, <3>2
  <2>7. QED
    BY <2>1, <2>6 DEF OnePlace, InQueue, In
<1>7. QED
  BY <1>1, <1>2, <1>3, <1>4, <1>5, <1>6

\* The task is freed when its callback has returned.
LEMMA FinishInv == ASSUME IInv, NEW w \in Worker, Finish(w) PROVE IInv'
<1> USE Kinds DEF IInv, Finish, Goto, pool
<1>1. Types'
  BY DEF Types, WorkerPC, ClientPC
<1>2. Locks' /\ Tested' /\ Lateness'
  BY DEF Types, Locks, Tested, Lateness
<1>3. Adding' /\ Destroying' /\ Closed' /\ Counts'
  BY DEF Types, Adding, Destroying, Alone, Closed, Counts
<1>4. OnePlace'
  BY DEF Types, OnePlace, InQueue
<1>5. QED
  BY <1>1, <1>2, <1>3, <1>4

-----------------------------------------------------------------------------
(* The clients *)

\* AddCall takes a block that nobody has.
LEMMA AddCallInv == ASSUME IInv, NEW c \in Client, AddCall(c) PROVE IInv'
<1> USE Kinds DEF IInv, AddCall, Goto, pool
<1>0. PICK k \in Task : Free(k) /\ task' = [task EXCEPT ![c] = k]
  OBVIOUS
<1>1. Types'
  BY <1>0 DEF Types, WorkerPC, ClientPC
<1>2. Locks' /\ Tested' /\ Lateness'
  BY DEF Types, Locks, Tested, Lateness
<1>3. Adding' /\ Destroying' /\ Closed' /\ Counts'
  BY <1>0 DEF Types, Adding, Destroying, Alone, Closed, Counts
<1>4. OnePlace'
  BY <1>0 DEF Types, OnePlace, InQueue, Free
<1>5. QED
  BY <1>1, <1>2, <1>3, <1>4

\* Enqueue moves the task from the client to the end of the queue.
LEMMA EnqueueInv == ASSUME IInv, NEW c \in Client, Enqueue(c) PROVE IInv'
<1> USE Kinds DEF IInv, Enqueue, Goto, pool
<1>0. open /\ task[c] \in Task
  BY DEF Types, Closed, Adding
<1>a. /\ queue' \in Seq(Task) /\ Len(queue') = Len(queue) + 1
      /\ Len(queue) \in Nat /\ DOMAIN queue = 1 .. Len(queue)
      /\ DOMAIN queue' = 1 .. Len(queue) + 1
      /\ queue'[Len(queue) + 1] = task[c]
      /\ \A i \in 1 .. Len(queue) : queue'[i] = queue[i]
  BY <1>0, AppendPlaces DEF Types
<1>1. Types'
  BY <1>a DEF Types, WorkerPC, ClientPC
<1>2. Locks' /\ Lateness'
  BY DEF Types, Locks, Lateness
<1>3. Tested'
  BY DEF Types, Tested
<1>4. Adding' /\ Destroying' /\ Closed'
  BY DEF Types, Adding, Destroying, Alone, Closed
<1>5. Counts'
  BY <1>0, <1>a DEF Counts
<1>6. OnePlace'
  <2>1. ~InQueue(task[c])
    BY <1>0 DEF OnePlace
  <2>2. \A i, j \in DOMAIN queue' : queue'[i] = queue'[j] => i = j
    BY <1>a, <2>1 DEF OnePlace, InQueue
  <2>3. \A k : In(k, queue') => In(k, queue) \/ k = task[c]
    BY <1>a DEF In
  <2>4. \A t \in Thread : task'[t] # NULL => t # c /\ task'[t] = task[t]
    BY DEF Types
  <2>5. ASSUME NEW t \in Thread, task'[t] # NULL
        PROVE  /\ ~In(task'[t], queue')
               /\ \A u \in Thread : task'[u] = task'[t] => u = t
    <3>1. t # c /\ task[t] # NULL /\ task'[t] = task[t]
      BY <2>4, <2>5
    <3>2. ~In(task[t], queue) /\ task[t] # task[c]
      BY <3>1 DEF OnePlace, InQueue, In
    <3>3. ~In(task'[t], queue')
      BY <2>3, <3>1, <3>2
    <3>4. \A u \in Thread : task'[u] = task'[t] => u = t
      BY <2>4, <2>5, <3>1 DEF OnePlace
    <3>5. QED
      BY <3>3, <3>4
  <2>6. QED
    BY <2>2, <2>5 DEF OnePlace, InQueue, In
<1>7. QED
  BY <1>1, <1>2, <1>3, <1>4, <1>5, <1>6

\* Signal, DestroyCall, SetShutdown and Broadcast leave the queue alone.
LEMMA SignalInv == ASSUME IInv, NEW c \in Client, Signal(c) PROVE IInv'
<1> USE Kinds DEF IInv, Signal, Goto, Blocked, pool
<1>0. \/ pc' = [pc EXCEPT ![c] = "idle"]
      \/ \E w \in Worker : /\ pc[w] = "blocked"
                           /\ pc' = [pc EXCEPT ![c] = "idle", ![w] = "woken"]
  OBVIOUS
<1>1. Types'
  BY <1>0 DEF Types, WorkerPC, ClientPC
<1>2. Locks' /\ Tested' /\ Lateness'
  BY <1>0 DEF Types, Locks, Tested, Lateness
<1>3. Adding' /\ Destroying' /\ Closed' /\ Counts'
  BY <1>0 DEF Types, Adding, Destroying, Alone, Closed, Counts
<1>4. OnePlace'
  BY DEF OnePlace, InQueue
<1>5. QED
  BY <1>1, <1>2, <1>3, <1>4

\* pool_destroy is called by a client that is alone; a worker may be anywhere.
LEMMA DestroyInv ==
    ASSUME IInv, NEW c \in Client, DestroyCall(c) \/ SetShutdown(c) PROVE IInv'
<1> USE Kinds DEF IInv, DestroyCall, SetShutdown, Goto, pool
<1>1. Types'
  BY DEF Types, WorkerPC, ClientPC
<1>2. Locks' /\ Tested' /\ Lateness'
  BY DEF Types, Locks, Tested, Lateness
<1>3. Adding' /\ Destroying' /\ Closed' /\ Counts'
  BY DEF Types, Adding, Destroying, Alone, Closed, Counts
<1>4. OnePlace'
  BY DEF OnePlace, InQueue
<1>5. QED
  BY <1>1, <1>2, <1>3, <1>4

\* Broadcast wakes whoever waits.
LEMMA BroadcastInv == ASSUME IInv, NEW c \in Client, Broadcast(c) PROVE IInv'
<1> USE Kinds DEF IInv, Broadcast, Blocked, pool
<1>0. /\ \A w \in Worker : pc'[w] = IF pc[w] = "blocked" THEN "woken" ELSE pc[w]
      /\ \A d \in Client : pc'[d] = IF d = c THEN "join" ELSE pc[d]
      /\ DOMAIN pc' = Thread
  OBVIOUS
<1>1. Types'
  <2>1. pc' \in [Thread -> WorkerPC \cup ClientPC]
    BY DEF Types, WorkerPC, ClientPC
  <2>2. QED
    BY <1>0, <2>1 DEF Types, WorkerPC, ClientPC
<1>2. Locks' /\ Tested' /\ Lateness'
  BY <1>0 DEF Locks, Tested, Lateness
<1>3. Adding' /\ Destroying' /\ Closed' /\ Counts'
  BY <1>0 DEF Adding, Destroying, Alone, Closed, Counts
<1>4. OnePlace'
  BY DEF OnePlace, InQueue
<1>5. QED
  BY <1>1, <1>2, <1>3, <1>4

\* The pool that is freed has neither workers nor clients.
LEMMA JoinedInv == ASSUME IInv, NEW c \in Client, Joined(c) PROVE IInv'
<1> USE Kinds DEF IInv, Joined, Goto, pool
<1>1. Types'
  <2>1. queue' \in Seq(Task)
    OBVIOUS
  <2>2. QED
    BY <2>1 DEF Types, WorkerPC, ClientPC
<1>2. Locks' /\ Tested' /\ Lateness'
  BY DEF Types, Locks, Tested, Lateness
<1>3. Adding' /\ Destroying' /\ Closed' /\ Counts'
  BY DEF Types, Adding, Destroying, Alone, Closed, Counts
<1>4. OnePlace'
  BY DEF OnePlace, InQueue
<1>5. QED
  BY <1>1, <1>2, <1>3, <1>4

\* pool_init makes a pool like the first one.
LEMMA PoolInitInv == ASSUME IInv, PoolInit PROVE IInv'
<1> USE Kinds DEF IInv, PoolInit, pool
<1>0. /\ \A w \in Worker : pc'[w] = "start" /\ late'[w] = 0 /\ lock # w
      /\ \A d \in Client : pc'[d] = "idle"
  BY DEF Closed, Locks
<1>1. Types'
  <2>1. pc' \in [Thread -> WorkerPC \cup ClientPC]
    BY DEF Types, WorkerPC, ClientPC
  <2>2. late' \in [Worker -> Nat]
    OBVIOUS
  <2>3. queue' \in Seq(Task) /\ size' \in Nat
    OBVIOUS
  <2>4. QED
    BY <1>0, <2>1, <2>2, <2>3 DEF Types, WorkerPC, ClientPC
<1>2. Locks' /\ Tested' /\ Lateness'
  BY <1>0 DEF Locks, Tested, Lateness
<1>3. Adding' /\ Destroying' /\ Closed' /\ Counts'
  BY <1>0 DEF Adding, Destroying, Alone, Closed, Counts
<1>4. OnePlace'
  BY DEF OnePlace, InQueue
<1>5. QED
  BY <1>1, <1>2, <1>3, <1>4

-----------------------------------------------------------------------------
\* The invariant is inductive.
THEOREM Inductive == Spec => []IInv
<1>1. Init => IInv
  BY InitInv
<1>2. IInv /\ [Next]_vars => IInv'
  <2> SUFFICES ASSUME IInv, [Next]_vars PROVE IInv'
    OBVIOUS
  <2>1. CASE UNCHANGED vars
    BY <2>1 DEF vars, pool, IInv, Types, Locks, Tested, Counts, Lateness, Adding,
       Destroying, Alone, Closed, OnePlace, InQueue
  <2>2. ASSUME NEW w \in Worker, Routine(w) \/ Spurious(w) PROVE IInv'
    BY <2>2, LockWorkerInv, CheckInv, MoveInv, TakeInv, FinishInv DEF Routine
  <2>3. ASSUME NEW c \in Client, Calls(c) \/ Goes(c) PROVE IInv'
    BY <2>3, AddCallInv, EnqueueInv, SignalInv, DestroyInv, BroadcastInv, JoinedInv
       DEF Calls, Goes
  <2>4. CASE PoolInit
    BY <2>4, PoolInitInv
  <2>5. QED
    BY <2>1, <2>2, <2>3, <2>4 DEF Next
<1>3. QED
  BY <1>1, <1>2, PTL DEF Spec

\* The assertions of thread_routine hold whatever wakeups and shutdowns come between
\* its test of the queue and its access to it.
THEOREM AssertionsHold == Spec => []Asserts
<1>1. IInv => Asserts
  <2> SUFFICES ASSUME IInv, NEW w \in Worker, pc[w] = "take" PROVE queue # <<>>
    BY DEF IInv, Asserts, Tested, Counts
  <2>1. open /\ size # 0
    BY DEF IInv, Tested, Closed
  <2>2. QED
    BY <2>1 DEF IInv, Counts
<1>2. QED
  BY <1>1, Inductive, PTL

\* A task is once in the queue or in the hands of one thread.
THEOREM TasksInOnePlace == Spec => []OnePlace
<1>1. IInv => OnePlace
  BY DEF IInv
<1>2. QED
  BY <1>1, Inductive, PTL

\* A worker takes at most one task after shutdown was set.
THEOREM WorkersStop == Spec => []StopsSoon
<1>1. IInv => StopsSoon
  BY DEF IInv, Lateness, StopsSoon
<1>2. QED
  BY <1>1, Inductive, PTL

=============================================================================
