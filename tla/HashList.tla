------------------------------- MODULE HashList -------------------------------
(***************************************************************************)
(* The concurrent hash table of hash_list.c: every bucket is a chain of    *)
(* malloc'ed nodes (an hlist of list.h), one lock protects all the chains. *)
(* A thread executes one public function at a time.  A step is what the    *)
(* function does between two points at which another thread can interfere: *)
(* taking the lock, looking a key up, linking, unlinking, freeing, reading *)
(* one node of a walk, calling the user's callback.                        *)
(*                                                                         *)
(* Data are abstracted: a user structure is its key, struct_head and the   *)
(* list node behind it are one Node.  hlist_add_head and hlist_del are     *)
(* operations on sequences; the `next' field an unlinked node keeps is the *)
(* variable stale, because an unlocked walk still follows it.              *)
(***************************************************************************)
EXTENDS Naturals, Sequences, SequencesExt

CONSTANTS
    Thread,     \* the callers
    Key,        \* what cmp_cb compares
    Node,       \* the blocks malloc can return
    HashSize,   \* opt->hash_size
    Hash,       \* opt->hash_val_cb, of the key
    NeedLock,   \* opt->need_lock # HASH_NEED_LOCK_NONE
    CbRet,      \* what the callback of a walk returns
    Ops,        \* the functions the callers use
    Ranges,     \* the <<begin, end>> of hash_table_each_node_by_range
    NULL,
    NoThread

Bucket == 0 .. HashSize - 1
OpName == {"add", "radd", "del", "dba", "rdel", "lookup", "each"}

ASSUME HashAssumption == HashSize \in Nat \ {0} /\ Hash \in [Key -> Bucket]
ASSUME SentinelAssumption == NULL \notin Node \cup Key /\ NoThread \notin Thread
ASSUME CallAssumption == /\ NeedLock \in BOOLEAN
                         /\ CbRet \subseteq {0, 1}
                         /\ Ops \subseteq OpName
                         /\ Ranges \subseteq Nat \X Nat

VARIABLES
    chain,  \* chain[b]: the nodes of bucket b, first to last
    stale,  \* stale[n]: list.next of n between hlist_del and free
    key,    \* key[n]: the key stored in n, NULL when n is not allocated
    live,   \* between hash_table_init and hash_table_flush
    lock,   \* the owner of hash_lock_spin / hash_lock_mutex
    fault,  \* the thread that used a block that is not its own, if any
    pc, op, arg,   \* per thread: next step, function, key argument
    ptr, nxt,      \* per thread: hash_list / tmp_node, safe_tmp_node
    bkt, end,      \* per thread: hash_val of a walk, and its bound
    ret            \* per thread: outcome of the call so far

table  == <<chain, stale, key, live>>
cursor == <<nxt, bkt, end>>
vars   == <<table, lock, fault, pc, op, arg, ptr, cursor, ret>>

PC == {"idle", "lock", "lookup", "insert", "unlink", "free", "visit", "cb",
       "relock", "nomem", "done"}

-----------------------------------------------------------------------------
(* The chains *)

Linked(n) == \E b \in Bucket : \E i \in DOMAIN chain[b] : chain[b][i] = n

First(b) == IF chain[b] = <<>> THEN NULL ELSE chain[b][1]

\* list.next of the i-th node of bucket b
After(b, i) == IF i < Len(chain[b]) THEN chain[b][i + 1] ELSE NULL

\* what pos->next yields, linked or not
IsNext(n, m) ==
    \/ ~Linked(n) /\ m = stale[n]
    \/ \E b \in Bucket : \E i \in DOMAIN chain[b] : chain[b][i] = n /\ m = After(b, i)

Matches(b, i, k) == i \in DOMAIN chain[b] /\ key[chain[b][i]] = k

\* a block malloc returned and hlist_add_head has not linked yet: its list
\* field is uninitialized
Raw(n) == \E t \in Thread : /\ op[t] \in {"add", "radd"}
                            /\ pc[t] \in {"lock", "lookup", "insert", "free"}
                            /\ ptr[t] = n

Readable(n) == key[n] # NULL /\ ~Raw(n)

\* hlist_add_head
LinkHead(n, b) == chain' = [chain EXCEPT ![b] = <<n>> \o @]

\* hlist_del of the i-th node of bucket b; the node keeps its next field
UnlinkAt(b, i) ==
    /\ stale' = [stale EXCEPT ![chain[b][i]] = After(b, i)]
    /\ chain' = [chain EXCEPT ![b] = RemoveAt(@, i)]

-----------------------------------------------------------------------------
(* The lock.  Unlocking does not look at the owner: pthread_spin_unlock and *)
(* a default pthread mutex release the lock whoever holds it.               *)

\* Mutant: taking the lock does not wait for it
NoWait(t) == lock' = IF NeedLock THEN t ELSE lock

Acquire(t) == IF NeedLock THEN lock = NoThread /\ lock' = t ELSE lock' = lock
Release    == lock' = IF NeedLock THEN NoThread ELSE lock

Goto(t, l)   == pc' = [pc EXCEPT ![t] = l]
Result(t, r) == ret' = [ret EXCEPT ![t] = r]

-----------------------------------------------------------------------------
(* Calls.  A call evaluates the hash of its argument and, for the adding     *)
(* functions, allocates and fills the node before it takes the lock.         *)

\* hash_table_del_by_addr before it has unlinked its node
AtAddr(t) == op[t] = "dba" /\ pc[t] \in {"lock", "unlink"}

\* hash_table_del, hash_table_reusable_del while they may still delete
AtKey(t) == op[t] \in {"del", "rdel"} /\ pc[t] \in {"lock", "lookup", "unlink", "visit"}

Call(t, o, k) ==
    /\ live /\ pc[t] = "idle" /\ o \in Ops
    /\ op'  = [op EXCEPT ![t] = o]
    /\ arg' = [arg EXCEPT ![t] = k]
    /\ Result(t, "pending")

CallAdd(t) == \E k \in Key, o \in {"add", "radd"}, n \in Node :
    /\ Call(t, o, k)
    /\ key[n] = NULL
    /\ key' = [key EXCEPT ![n] = k]
    /\ ptr' = [ptr EXCEPT ![t] = n]
    /\ Goto(t, "lock")
    /\ UNCHANGED <<chain, stale, live, lock, fault, cursor>>

\* Mutant: the result of malloc is not checked
NullNode(t) == \E k \in Key, o \in {"add", "radd"} :
    /\ Call(t, o, k)
    /\ Goto(t, "lock")
    /\ UNCHANGED <<table, lock, fault, ptr, cursor>>

\* malloc returns NULL
CallAddNoMem(t) == \E k \in Key, o \in {"add", "radd"} :
    /\ Call(t, o, k)
    /\ Goto(t, "nomem")
    /\ UNCHANGED <<table, lock, fault, ptr, cursor>>

\* nobody deletes by key an element whose address another thread is passing
CallDel(t) == \E k \in Key, o \in {"del", "rdel"} :
    /\ \A u \in Thread : AtAddr(u) => arg[u] # k
    /\ Call(t, o, k)
    /\ Goto(t, "lock")
    /\ UNCHANGED <<table, lock, fault, ptr, cursor>>

\* hash_table_del_by_addr: the caller passes the address of an element of the
\* table that no other thread is deleting
CallDelByAddr(t) == \E k \in Key, n \in Node :
    /\ Linked(n) /\ key[n] = k
    /\ \A u \in Thread : (AtAddr(u) => ptr[u] # n) /\ (AtKey(u) => arg[u] # k)
    /\ Call(t, "dba", k)
    /\ ptr' = [ptr EXCEPT ![t] = n]
    /\ Goto(t, "lock")
    /\ UNCHANGED <<table, lock, fault, cursor>>

\* hash_table_lookup_user takes no lock: it reads the head of the bucket at once
CallLookup(t) == \E k \in Key :
    /\ Call(t, "lookup", k)
    /\ ptr' = [ptr EXCEPT ![t] = First(Hash[k])]
    /\ Goto(t, "visit")
    /\ UNCHANGED <<table, lock, fault, cursor>>

\* hash_table_each_node is the range <<0, HashSize>>
CallEach(t) == \E r \in Ranges :
    /\ r[2] <= HashSize
    /\ Call(t, "each", NULL)
    /\ bkt' = [bkt EXCEPT ![t] = r[1]]
    /\ end' = [end EXCEPT ![t] = r[2]]
    /\ Goto(t, "lock")
    /\ UNCHANGED <<table, lock, fault, ptr, nxt>>

-----------------------------------------------------------------------------
(* The body of a call.  A step that ends in hash_table_unlock releases the   *)
(* lock; nothing else of the call touches the chains after it.               *)

NoMem(t) ==
    /\ pc[t] = "nomem"
    /\ Result(t, "nomem")
    /\ Goto(t, "done")
    /\ UNCHANGED <<table, lock, fault, op, arg, ptr, cursor>>

LockThenSearch(t) ==
    /\ pc[t] = "lock" /\ op[t] \in {"add", "del"}
    /\ Acquire(t)
    /\ Goto(t, "lookup")
    /\ UNCHANGED <<table, fault, op, arg, ptr, cursor, ret>>

LockThenLink(t) ==
    /\ pc[t] = "lock" /\ op[t] = "radd"
    /\ Acquire(t)
    /\ Goto(t, "insert")
    /\ UNCHANGED <<table, fault, op, arg, ptr, cursor, ret>>

\* Mutant: hash_table_del_by_addr does not lock
UnlinkUnlocked(t) ==
    /\ pc[t] = "lock" /\ op[t] = "dba"
    /\ Goto(t, "unlink")
    /\ UNCHANGED <<table, lock, fault, op, arg, ptr, cursor, ret>>

LockThenUnlink(t) ==
    /\ pc[t] = "lock" /\ op[t] = "dba"
    /\ Acquire(t)
    /\ Goto(t, "unlink")
    /\ UNCHANGED <<table, fault, op, arg, ptr, cursor, ret>>

LockThenWalk(t) ==
    /\ pc[t] = "lock"
    /\ \/ op[t] = "rdel" /\ ptr' = [ptr EXCEPT ![t] = First(Hash[arg[t]])]
       \/ op[t] = "each" /\ bkt[t] \in Bucket
                         /\ ptr' = [ptr EXCEPT ![t] = First(bkt[t])]
    /\ Acquire(t)
    /\ Goto(t, "visit")
    /\ UNCHANGED <<table, fault, op, arg, cursor, ret>>

\* hash_table_lookup returns the first node of the bucket that compares equal
Found(b, i, k) == Matches(b, i, k) /\ \A j \in 1 .. i - 1 : ~Matches(b, j, k)
Absent(b, k)   == \A i \in DOMAIN chain[b] : ~Matches(b, i, k)

\* Mutant: a refused node is not freed
RefusedLeaks(t) ==
    /\ pc[t] = "lookup" /\ op[t] = "add"
    /\ ~Absent(Hash[arg[t]], arg[t])
    /\ Release
    /\ Result(t, "fail")
    /\ Goto(t, "done")
    /\ UNCHANGED <<table, fault, op, arg, ptr, cursor>>

\* hash_table_add: a duplicate is refused, its node freed after the unlock
AddFound(t) ==
    /\ pc[t] = "lookup" /\ op[t] = "add"
    /\ ~Absent(Hash[arg[t]], arg[t])
    /\ Release
    /\ Result(t, "fail")
    /\ Goto(t, "free")
    /\ UNCHANGED <<table, fault, op, arg, ptr, cursor>>

\* Mutant: the lock is given up between the search and the insertion
CheckThenAct(t) ==
    /\ pc[t] = "lookup" /\ op[t] = "add"
    /\ Absent(Hash[arg[t]], arg[t])
    /\ Release
    /\ Goto(t, "insert")
    /\ UNCHANGED <<table, fault, op, arg, ptr, cursor, ret>>

AddAbsent(t) ==
    /\ pc[t] = "lookup" /\ op[t] = "add"
    /\ Absent(Hash[arg[t]], arg[t])
    /\ Goto(t, "insert")
    /\ UNCHANGED <<table, lock, fault, op, arg, ptr, cursor, ret>>

\* hash_table_add, hash_table_reusable_add
Insert(t) ==
    /\ pc[t] = "insert"
    /\ LinkHead(ptr[t], Hash[arg[t]])
    /\ Release
    /\ Result(t, "ok")
    /\ Goto(t, "done")
    /\ UNCHANGED <<stale, key, live, fault, op, arg, ptr, cursor>>

\* Mutant: the lock is given up between the search and the removal
FindThenUnlock(t) ==
    /\ pc[t] = "lookup" /\ op[t] = "del"
    /\ \E i \in DOMAIN chain[Hash[arg[t]]] :
          /\ Found(Hash[arg[t]], i, arg[t])
          /\ ptr' = [ptr EXCEPT ![t] = chain[Hash[arg[t]]][i]]
    /\ Release
    /\ Goto(t, "unlink")
    /\ UNCHANGED <<table, fault, op, arg, cursor, ret>>

DelFound(t) ==
    /\ pc[t] = "lookup" /\ op[t] = "del"
    /\ \E i \in DOMAIN chain[Hash[arg[t]]] :
          /\ Found(Hash[arg[t]], i, arg[t])
          /\ ptr' = [ptr EXCEPT ![t] = chain[Hash[arg[t]]][i]]
    /\ Goto(t, "unlink")
    /\ UNCHANGED <<table, lock, fault, op, arg, cursor, ret>>

\* Mutant: the early return of hash_table_del keeps the lock
AbsentKeepsLock(t) ==
    /\ pc[t] = "lookup" /\ op[t] = "del"
    /\ Absent(Hash[arg[t]], arg[t])
    /\ Result(t, "fail")
    /\ Goto(t, "done")
    /\ UNCHANGED <<table, lock, fault, op, arg, ptr, cursor>>

DelAbsent(t) ==
    /\ pc[t] = "lookup" /\ op[t] = "del"
    /\ Absent(Hash[arg[t]], arg[t])
    /\ Release
    /\ Result(t, "fail")
    /\ Goto(t, "done")
    /\ UNCHANGED <<table, fault, op, arg, ptr, cursor>>

\* hash_table_del, hash_table_del_by_addr: the node is freed after the unlock
Unlink(t) ==
    /\ pc[t] = "unlink"
    /\ \E b \in Bucket : \E i \in DOMAIN chain[b] :
          chain[b][i] = ptr[t] /\ UnlinkAt(b, i)
    /\ Release
    /\ Result(t, "ok")
    /\ Goto(t, "free")
    /\ UNCHANGED <<key, live, fault, op, arg, ptr, cursor>>

Free(t) ==
    /\ pc[t] = "free" /\ key[ptr[t]] # NULL
    /\ key' = [key EXCEPT ![ptr[t]] = NULL]
    /\ stale' = [stale EXCEPT ![ptr[t]] = NULL]
    /\ Goto(t, "done")
    /\ UNCHANGED <<chain, live, lock, fault, op, arg, ptr, cursor, ret>>

\* hash_table_reusable_del: unlink and free every match, under the lock
VisitDel(t) ==
    /\ pc[t] = "visit" /\ op[t] = "rdel" /\ ptr[t] # NULL /\ Readable(ptr[t])
    /\ \E m \in Node \cup {NULL} : IsNext(ptr[t], m) /\ ptr' = [ptr EXCEPT ![t] = m]
    /\ \/ /\ key[ptr[t]] # arg[t]
          /\ UNCHANGED <<chain, key>>
       \/ /\ key[ptr[t]] = arg[t]
          /\ \E b \in Bucket : \E i \in DOMAIN chain[b] :
                chain[b][i] = ptr[t] /\ chain' = [chain EXCEPT ![b] = RemoveAt(@, i)]
          /\ key' = [key EXCEPT ![ptr[t]] = NULL]
    /\ UNCHANGED <<stale, live, lock, fault, pc, op, arg, cursor, ret>>

EndDel(t) ==
    /\ pc[t] = "visit" /\ op[t] = "rdel" /\ ptr[t] = NULL
    /\ Release
    /\ Result(t, "ok")
    /\ Goto(t, "done")
    /\ UNCHANGED <<table, fault, op, arg, ptr, cursor>>

\* hash_table_lookup_user: compare a node, then follow its next pointer
VisitLookup(t) ==
    /\ pc[t] = "visit" /\ op[t] = "lookup"
    /\ \/ ptr[t] = NULL /\ Result(t, "fail") /\ Goto(t, "done") /\ UNCHANGED ptr
       \/ /\ ptr[t] # NULL /\ Readable(ptr[t])
          /\ \/ /\ key[ptr[t]] = arg[t]
                /\ Result(t, "ok") /\ Goto(t, "done") /\ UNCHANGED ptr
             \/ /\ key[ptr[t]] # arg[t]
                /\ \E m \in Node \cup {NULL} :
                      IsNext(ptr[t], m) /\ ptr' = [ptr EXCEPT ![t] = m]
                /\ UNCHANGED <<pc, ret>>
    /\ UNCHANGED <<table, lock, fault, op, arg, cursor>>

\* hash_table_each_node: save the next node, unlock
VisitEach(t) ==
    /\ pc[t] = "visit" /\ op[t] = "each" /\ ptr[t] # NULL /\ Readable(ptr[t])
    /\ \E m \in Node \cup {NULL} : IsNext(ptr[t], m) /\ nxt' = [nxt EXCEPT ![t] = m]
    /\ Release
    /\ Goto(t, "cb")
    /\ UNCHANGED <<table, fault, op, arg, ptr, bkt, end, ret>>

\* the callback reads the node; a result of 1 breaks out of this bucket only,
\* and without the lock
Callback(t) ==
    /\ pc[t] = "cb" /\ Readable(ptr[t])
    /\ \E r \in CbRet : /\ Goto(t, IF r = 1 THEN "visit" ELSE "relock")
                        /\ ptr' = IF r = 1 THEN [ptr EXCEPT ![t] = NULL] ELSE ptr
    /\ UNCHANGED <<table, lock, fault, op, arg, cursor, ret>>

\* Mutant: the walk goes on without the lock after the callback
NoRelock(t) ==
    /\ pc[t] = "relock"
    /\ ptr' = [ptr EXCEPT ![t] = nxt[t]]
    /\ Goto(t, "visit")
    /\ UNCHANGED <<table, lock, fault, op, arg, cursor, ret>>

Relock(t) ==
    /\ pc[t] = "relock"
    /\ Acquire(t)
    /\ ptr' = [ptr EXCEPT ![t] = nxt[t]]
    /\ Goto(t, "visit")
    /\ UNCHANGED <<table, fault, op, arg, cursor, ret>>

NextBucket(t) ==
    /\ pc[t] = "visit" /\ op[t] = "each" /\ ptr[t] = NULL /\ bkt[t] + 1 < end[t]
    /\ bkt' = [bkt EXCEPT ![t] = @ + 1]
    /\ ptr' = [ptr EXCEPT ![t] = First(bkt[t] + 1)]
    /\ UNCHANGED <<table, lock, fault, pc, op, arg, nxt, end, ret>>

EndEach(t) ==
    /\ pc[t] = "visit" /\ op[t] = "each" /\ ptr[t] = NULL /\ bkt[t] + 1 >= end[t]
    /\ Release
    /\ Result(t, "ok")
    /\ Goto(t, "done")
    /\ UNCHANGED <<table, fault, op, arg, ptr, cursor>>

Return(t) ==
    /\ pc[t] = "done"
    /\ Goto(t, "idle")
    /\ op'  = [op  EXCEPT ![t] = "none"]
    /\ arg' = [arg EXCEPT ![t] = NULL]
    /\ ptr' = [ptr EXCEPT ![t] = NULL]
    /\ nxt' = [nxt EXCEPT ![t] = NULL]
    /\ bkt' = [bkt EXCEPT ![t] = 0]
    /\ end' = [end EXCEPT ![t] = 0]
    /\ Result(t, "none")
    /\ UNCHANGED <<table, lock, fault>>

\* the undefined behaviours: reading or freeing a freed block, unlinking a node
\* that is in no chain, reading a bucket head behind the array.  The model stops.
Crash(t) ==
    /\ \/ pc[t] = "visit" /\ ptr[t] # NULL /\ ~Readable(ptr[t])
       \/ pc[t] = "cb" /\ ~Readable(ptr[t])
       \/ pc[t] = "unlink" /\ ~Linked(ptr[t])
       \/ /\ pc[t] = "visit" /\ op[t] = "rdel" /\ ptr[t] # NULL
          /\ key[ptr[t]] = arg[t] /\ ~Linked(ptr[t])
       \/ pc[t] = "free" /\ key[ptr[t]] = NULL
       \/ pc[t] = "lock" /\ op[t] = "each" /\ bkt[t] \notin Bucket
    /\ fault' = t
    /\ UNCHANGED <<table, lock, pc, op, arg, ptr, cursor, ret>>

-----------------------------------------------------------------------------
(* hash_table_flush frees the nodes and the array of heads: its caller knows *)
(* that nobody uses the table.  hash_table_init builds an empty table again. *)

Flush ==
    /\ live /\ \A t \in Thread : pc[t] = "idle"
    /\ NeedLock => lock = NoThread
    /\ key'   = [n \in Node |-> IF Linked(n) THEN NULL ELSE key[n]]
    /\ chain' = [b \in Bucket |-> <<>>]
    /\ live'  = FALSE
    /\ UNCHANGED <<stale, lock, fault, pc, op, arg, ptr, cursor, ret>>

TableInit ==
    /\ ~live
    /\ live' = TRUE
    /\ chain' = [b \in Bucket |-> <<>>]
    /\ lock' = NoThread
    /\ UNCHANGED <<stale, key, fault, pc, op, arg, ptr, cursor, ret>>

-----------------------------------------------------------------------------
Init ==
    /\ chain = [b \in Bucket |-> <<>>]
    /\ stale = [n \in Node |-> NULL]
    /\ key   = [n \in Node |-> NULL]
    /\ live  = TRUE
    /\ lock  = NoThread
    /\ fault = NoThread
    /\ pc    = [t \in Thread |-> "idle"]
    /\ op    = [t \in Thread |-> "none"]
    /\ arg   = [t \in Thread |-> NULL]
    /\ ptr   = [t \in Thread |-> NULL]
    /\ nxt   = [t \in Thread |-> NULL]
    /\ bkt   = [t \in Thread |-> 0]
    /\ end   = [t \in Thread |-> 0]
    /\ ret   = [t \in Thread |-> "none"]

Calls(t) == \/ CallAdd(t) \/ CallAddNoMem(t) \/ CallDel(t) \/ CallDelByAddr(t)
            \/ CallLookup(t) \/ CallEach(t)

Step(t) == \/ NoMem(t) \/ LockThenSearch(t) \/ LockThenLink(t) \/ LockThenUnlink(t)
           \/ LockThenWalk(t) \/ AddFound(t) \/ AddAbsent(t) \/ Insert(t)
           \/ DelFound(t) \/ DelAbsent(t)
           \/ Unlink(t) \/ Free(t) \/ VisitDel(t) \/ EndDel(t) \/ VisitLookup(t)
           \/ VisitEach(t) \/ Callback(t) \/ Relock(t) \/ NextBucket(t)
           \/ EndEach(t) \/ Return(t) \/ Crash(t)

Next == /\ fault = NoThread
        /\ \/ \E t \in Thread : Calls(t) \/ Step(t)
           \/ Flush
           \/ TableInit

Spec == Init /\ [][Next]_vars

\* every started call keeps running (the callbacks return)
FairSpec == Spec /\ \A t \in Thread : WF_vars(fault = NoThread /\ Step(t))

-----------------------------------------------------------------------------
(* Properties *)

\* Type correctness: every pointer of every thread is NULL or a block, every
\* chain holds blocks only.
TypeOK ==
    /\ chain \in [Bucket -> Seq(Node)]
    /\ stale \in [Node -> Node \cup {NULL}]
    /\ key   \in [Node -> Key \cup {NULL}]
    /\ live  \in BOOLEAN
    /\ lock  \in Thread \cup {NoThread}
    /\ fault \in Thread \cup {NoThread}
    /\ pc    \in [Thread -> PC]
    /\ op    \in [Thread -> Ops \cup {"none"}]
    /\ arg   \in [Thread -> Key \cup {NULL}]
    /\ ptr   \in [Thread -> Node \cup {NULL}]
    /\ nxt   \in [Thread -> Node \cup {NULL}]
    /\ bkt   \in [Thread -> Nat]
    /\ end   \in [Thread -> 0 .. HashSize]
    /\ ret   \in [Thread -> {"none", "pending", "ok", "fail", "nomem"}]

\* the steps of a call that run between hash_table_lock and hash_table_unlock
InCS(t) == \/ pc[t] \in {"lookup", "insert", "unlink"}
           \/ pc[t] = "visit" /\ op[t] \in {"rdel", "each"}

\* No two threads are between hash_table_lock and hash_table_unlock.
MutualExclusion == \A t, u \in Thread : InCS(t) /\ InCS(u) => t = u

\* the block only thread t knows: allocated, not linked yet or not any more
Holds(t, n) ==
    /\ ptr[t] = n
    /\ \/ pc[t] = "free"
       \/ op[t] \in {"add", "radd"} /\ pc[t] \in {"lock", "lookup", "insert"}

\* No block is leaked, freed twice or linked after it was freed: every
\* allocated block is in exactly one place of one chain, or held by exactly
\* one thread; a linked block is allocated and hangs in the bucket of its key.
LinkedOnce ==
    \A b, c \in Bucket : \A i \in DOMAIN chain[b], j \in DOMAIN chain[c] :
        chain[b][i] = chain[c][j] => b = c /\ i = j
LinkedAllocated ==
    \A b \in Bucket : \A i \in DOMAIN chain[b] :
        key[chain[b][i]] \in Key /\ Hash[key[chain[b][i]]] = b
HeldPrivately ==
    \A t \in Thread : \A n \in Node : Holds(t, n) =>
        /\ key[n] # NULL /\ ~Linked(n)
        /\ \A u \in Thread : Holds(u, n) => u = t
NoLeak ==
    \A n \in Node : key[n] # NULL => Linked(n) \/ \E t \in Thread : Holds(t, n)
Ownership == LinkedOnce /\ LinkedAllocated /\ HeldPrivately /\ NoLeak

\* hash_table_add refuses duplicates, whatever the threads interleave: two
\* linked nodes never compare equal.
UniqueKeys ==
    \A b \in Bucket : \A i, j \in DOMAIN chain[b] :
        key[chain[b][i]] = key[chain[b][j]] => i = j

\* The functions that hold the lock while they use a node never touch a block
\* that is not allocated or a node that is not linked; only the walks that
\* read nodes outside the lock (hash_table_lookup_user, the callback and the
\* saved next pointer of hash_table_each_node) can.
LockedUseSafe == fault # NoThread => op[fault] \in {"lookup", "each"}

\* Whoever takes the lock gives it back, unless the program crashes: no return
\* path keeps it.
LockReleased == \A t \in Thread : lock = t ~> lock # t \/ fault # NoThread

\* hash_table_add and hash_table_del are atomic: each call takes effect at once
\* between its start and its return, and tells its caller what it did.
Table == INSTANCE KeyTable WITH
             present <- {k \in Key : \E b \in Bucket : ~Absent(b, k)}
Linearizable == Table!Spec

-----------------------------------------------------------------------------
(* The inductive invariant behind the safety properties.  It needs the table *)
(* to be used as it is meant to: with a lock and callbacks that do not break *)
(* a walk.                                                                   *)

Discipline == NeedLock /\ 1 \notin CbRet

\* which function can be at which step, and what it has evaluated by then
Control == \A t \in Thread :
    /\ pc[t] = "idle"   <=> op[t] = "none"
    /\ pc[t] = "lock"   => op[t] \in {"add", "radd", "del", "dba", "rdel", "each"}
    /\ pc[t] = "lookup" => op[t] \in {"add", "del"}
    /\ pc[t] \in {"insert", "nomem"} => op[t] \in {"add", "radd"}
    /\ pc[t] = "unlink" => op[t] \in {"del", "dba"}
    /\ pc[t] = "free"   => op[t] \in {"add", "del", "dba"}
    /\ pc[t] = "visit"  => op[t] \in {"rdel", "each", "lookup"}
    /\ pc[t] \in {"cb", "relock"} => op[t] = "each"
    /\ op[t] \notin {"none", "each"} => arg[t] \in Key
    /\ op[t] \in {"add", "radd", "dba"} /\ pc[t] \in {"lock", "lookup", "insert"}
          => ptr[t] \in Node
    /\ pc[t] \in {"unlink", "free", "cb"} => ptr[t] \in Node

LockHeld == \A t \in Thread : InCS(t) => lock = t

\* a node about to be linked carries the key it will be searched by
HeldKey == \A t \in Thread :
    op[t] \in {"add", "radd"} /\ pc[t] \in {"lock", "lookup", "insert"}
        => key[ptr[t]] = arg[t]

\* what a thread is about to unlink is linked, and compares equal to what it was
\* asked to delete
Targets == \A t \in Thread, n \in Node : ptr[t] = n =>
    /\ pc[t] = "unlink" => Linked(n) /\ key[n] = arg[t]
    /\ AtAddr(t) => /\ Linked(n) /\ key[n] = arg[t]
                    /\ \A u \in Thread : AtAddr(u) /\ ptr[u] = n => u = t
    /\ pc[t] = "visit" /\ op[t] = "rdel" => Linked(n)

\* nobody deletes the key of an element whose address is being passed
Apart == \A t, u \in Thread : AtAddr(t) /\ AtKey(u) => arg[t] # arg[u]

\* when duplicates are refused, a thread that is about to link has seen none
Unique == "radd" \notin Ops =>
    /\ UniqueKeys
    /\ \A t \in Thread, k \in Key :
          pc[t] = "insert" /\ arg[t] = k => Absent(Hash[k], k)

Flushed == ~live => /\ \A b \in Bucket : chain[b] = <<>>
                    /\ \A t \in Thread : pc[t] = "idle"

IInv == /\ TypeOK /\ Control /\ LockHeld /\ HeldKey /\ Targets /\ Apart
        /\ Ownership /\ Unique /\ Flushed /\ LockedUseSafe

=============================================================================
