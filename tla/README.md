# jclib in TLA+

jclib is a C library of small, separate parts ("basic operations"): a hash table for
arbitrary structures, a lock-free queue, a buffer cache, red-black trees and what is
built on them, a timer queue, a dictionary with an INI parser, string and system
helpers, and test programs, two of which (a thread pool and a timer library) are parts
in their own right. Parts hardly call each other; what they share is the intrusive lists
of `include/list.h` and the habit of protecting a structure with one lock. The hard
behaviour is therefore inside the parts: what threads interleave around that lock, who
owns a malloc'ed block, and what long sequences of legal calls lead to.

## Inventory

| Part | State | Operations | Hard behaviour | What makes it correct |
|---|---|---|---|---|
| Hash table `hash_list.c` | bucket heads, chains of nodes, one spin lock or mutex | init, add, del, del_by_addr, lookup_user, next_by_user, each_node(_by_range), reusable_add, reusable_del, flush | search and update under the lock; `free` after it; walks that unlock for their callback; lookups without the lock | additions and deletions are atomic; no duplicates; every node has one owner; no freed node is used; the lock is given back |
| Kernel hash table `hash_list_kernel.c` | the same, one global table | add, del, lookup, flush | failing `kmalloc` under the lock; lookups without it | additions, deletions and flushes are atomic; one owner per node; the lock is given back |
| Queue `lfqueue.c` | singly linked list with a dummy node, `head`, `tail` | init, deinit, push, pop | no lock: the order of two stores; the node a pop replaces | FIFO; no node lost, leaked or used after free |
| Thread pool `test/threadpool` (again in `test/queue`) | task list, its size, `shutdown`, mutex, condition variable | pool_init, pool_add_worker, pool_destroy, thread_routine | waits and wakeups; `shutdown` written outside the mutex | assertions; every task runs once; pool_destroy returns |
| Buffer cache `cache.c` | block of slots, bit map, counter, spin lock | init, deinit, destory, get, put, malloc, free | the counter is tested before the lock | no buffer has two owners; all buffers inside the block; none is lost |
| Red-black tree `rbtree.c` | nodes with parent, colour, children | insert colour, erase, next, prev, first, last, replace, augment | rebalancing; which nodes an augmented tree must visit again | order, colours, black height, parent links, values of subtrees |
| Tree container `rbtree_com.c` | a tree of malloc'ed blocks and a lock | init, insert, search, delete, flush, deinit | search without the lock, root read before the lock | a set of keys; one owner per block; only disturbed readers use freed blocks |
| Timer queue `timerqueue.c` | a tree ordered by time, the cached first node | add, del, next, each_node | the cache after each change, equal times | in order of time, first come first served; the cache is the first |
| Timer library `test/timer` | list of timers, interval timer, ticker thread, mutex | init, destroy, add, rem, the ticker | callbacks and signals while timers come and go; one interval timer for all | the ticker reads only timers that exist; an argument is freed once; a timer is served |
| Dictionary `dictionary.c` | three parallel arrays, size, count | new, del, get, set, unset | growth of three arrays, failing allocations | a finite map |
| INI parser `iniparser.c` | a dictionary | load, get, set, unset, getnsec, getsecname, find_entry, dump, freedict | multi-line values, errors in the middle of a file | the dictionary is what the file means, or NULL |
| String, number helpers `string.c`, `kernel.c` | none | conversions, checksum | boundaries | agree with a reference definition |
| Wrappers `system.c`, `net.c`, `log.c`, `time.c` | none | system calls | none that is theirs | not modelled |

`PROJECT.json` lists the parts with their status, and under `hazards` every place where
a test would hardly reach what can go wrong.

## Modules

| Module | Models | Extends, instantiates |
|---|---|---|
| `HashList` | `hash_list.c`, all functions but `next_by_user`, for any number of threads | instantiates `KeyTable` |
| `KeyTable` | the promise of add, del and flush of the three containers: an atomic set of keys | |
| `HashWalk` | `hash_table_next_by_user`, called in a loop between other threads' updates, over tables with and without equal elements | extends `Null` |
| `KernelHash` | `hash_list_kernel.c` | extends `Null`, instantiates `KeyTable` |
| `LfQueue` | `lfqueue.c` | extends `Null`, instantiates `FifoQueue` |
| `FifoQueue` | the promise of push and pop: a queue | |
| `ThreadPool` | `test/threadpool/threadpool.c` | |
| `CacheStore` | `cache.c` | extends `Null` |
| `RbTree` | `rbtree.c`, `rbtree.h`: the operations, as operators on a tree | extends `Null` |
| `RbClient` | a program that uses `rbtree.h` as its comment demands, with an augmented tree | extends `RbTree` |
| `RbContainer` | `rbtree_com.c` | extends `RbTree`, instantiates `KeyTable` |
| `TimerQueue` | `timerqueue.c` | extends `RbTree`, instantiates `TimerOrder` |
| `TimerOrder` | the promise of the timer queue | |
| `TimerLib` | `test/timer/timerlib.c` | extends `Null` |
| `Dictionary` | `dictionary.c`, as operators on a dictionary | extends `Null` |
| `IniParser` | `iniparser.c` | extends `Dictionary`, instantiates `Assoc` |
| `Assoc` | the promise of `dictionary.h`: a map | |
| `ListLemmas` | what linking and unlinking do to a chain or a queue; the least of a set of numbers | extends TLAPS |
| `ChainProofs` | theorems about `KernelHash` and `LfQueue` | extends both |
| `ComponentProofs` | theorems about `HashWalk`, `TimerLib` and `IniParser`, which share no memory | extends the three |
| `RbTreeProofs` | theorems about the operators of `RbTree` | extends it |
| `TreeUserProofs` | theorems about `RbClient`, `TimerQueue` and `RbContainer` | extends the three and `RbTreeProofs` |
| `HashListProofs`, `ThreadPoolProofs`, `CacheStoreProofs` | theorems about the module of that name | extend it |
| `MCHashList`, `MCHashWalk`, `MCIniParser` | instances of the module of that name | extend it |
| `MCLibrary` | the containers side by side: the tree and its users, the kernel's table, the walk, the linked queue, the parser | extends all of them |
| `MCThreads` | the thread pool, the timer library and the buffer cache side by side | extends the three |

A definition whose comment begins with `Mutant:` is a plausible bug; no specification
uses it. Putting it in the place of the definition after it breaks the property
`PROJECT.json` names with it, which shows that the property can see that bug.

### HashList

A user structure is its key; `struct_head` and the list node behind it are one `Node`,
and `chain[b]` is the sequence of nodes of bucket b. `key[n] = NULL` is a free block.
`hlist_add_head` and `hlist_del` become operations on `chain`; what an unlinked node
still holds in its `next` field is in `stale`, because walks without the lock follow it.
The local pointers of every thread are `ptr` (`hash_list`, `tmp_node`), `nxt`
(`safe_tmp_node`), `bkt` and `end`.

A step is what a function does between two points at which somebody else can interfere:
the call up to the lock (hash value, `malloc`, copy), taking the lock, searching,
linking or unlinking with the unlock that follows, freeing, reading one node of a walk,
running the callback. Taking a lock that is not free is not enabled. Unlocking does not
look at the owner, which is what glibc's spin locks and default mutexes do. Undefined
behaviour (a freed block read, freed or unlinked, a bucket head behind the array read)
is the action `Crash`: it records the thread in `fault` and the model stops, so that
properties can say who may cause it.

Callers behave as the interface demands: an address passed to `hash_table_del_by_addr`
is that of a linked node that no other thread deletes at the same time, by address or by
a key that compares equal (`AtAddr`, `AtKey`), and `hash_table_flush` and
`hash_table_init` are called when nobody uses the table. A callback that calls the table
itself is covered as one that waits for another thread: it runs without the lock.

### HashWalk

Every function of the table is one step here, because `HashList` shows that updates are
atomic and `hash_table_next_by_user` works under the lock from its first look to its
last. An element is its key; `WAdd` is `hash_table_add`, which refuses a key that is
there, `ReusableAdd` is `hash_table_reusable_add`, which does not look, and `Del` and
`ReusableDel` remove the first or every element that is equal. Positions of the table
are ordered by bucket and place; `NextByUser(u)` is the first element that is not equal
to u behind one that is. `seen` and `stable` record what the walk has returned and what
has been there all the time, `dup` whether two equal elements have been in the table
during the walk. Nobody deletes the element the walker stands on, because the walker
still reads it.

With equal elements the walk is still complete (`Complete`), but it can return an
element again, which is why `OnlyOnce` speaks of walks without `dup`, and when they are
not neighbours in their chain it never ends: `hash_table_next_by_user` looks its
argument up by value and goes on behind the first that is equal. `walk_reusable` finds
that, for the loop of `test/hash/test.c` over the table the same test fills.

### LfQueue

Each access to a field both threads use is a step. `alloc` is the set of nodes that are
allocated; using another one is a `fault`, and the model stops. `lf_queue_init` returns
0 where it means the queue; the model starts from the queue it has built.

`QueueDeinit` is `lf_queue_deinit` between two calls, on any queue: the loop frees the
nodes from `lf->head` to the one before `lf->tail`, then the node `lf->head` points to is
freed, which the loop does not move. So a list of one node is freed; of a longer one the
first node is freed twice and the last one never. `FreedTwice` says that this is the
only way in which one thread's queue frees or uses a freed node, `NodesHeld` what is
allocated between calls and left behind. Nothing in the repository says that the
function may be called on such a queue, or may not; so the properties state what
happens, and no run is devoted to it.

The queue of `FifoQueue` is the elements found from `lf->head` on; `Discard` is what
becomes of them in `lf_queue_deinit`. Its variable `missed` says how the dummy node
shows: a pop may come back empty from a queue that is not, but only once before the
queue is drained. A pop whose `malloc` fails returns NULL as well; the model gives it an
outcome of its own, because otherwise any pop could come back empty and `missed` would
say nothing. Memory accesses are taken in program order; a compiler or processor that
reorders them adds behaviours to those that already lose elements.

### ThreadPool

The queue and its size are touched under the mutex only, so taking a task and adding one
are steps; `shutdown` is not, so its two tests and its assignment are steps of their
own. `pthread_cond_wait` is release and block in one step, wake, reacquire; it may wake
for no reason. A task is its malloc'ed block and can be used again once it is free. The
caller of `pool_destroy` knows that no other client is inside the pool, and calls it
once: afterwards `pool` is NULL, and the guard against a second call reads through it,
so its `return -1` is not modelled. `late` counts the tasks a worker takes after
`shutdown` was set: the comment of `pool_destroy` says none (`QueueNotRun`, which
`pool_late` refutes), `StopsSoon` says what holds.

### CacheStore

A buffer is its slot number or a heap block of `cache_malloc`. The counter is read
without the lock, the search and the update are the two steps under it. Callers give
back only what they hold. `dropped` records the slots passed to `cache_free`, which
leaves their bits set for good.

### KernelHash

The table of `hash_list_kernel.c` with the same view of chains and nodes. Its functions
allocate, search, link and unlock in other places than those of `hash_list.c`, so it has
a module of its own: `add_base_hash_table` calls `kmalloc` inside the critical section,
and when it fails returns without unlocking (`KInsertNoMem`, line 126). `kNoMem`
remembers that. The lookup reads one node a step, without the lock; a node that is read
after it left its chain ends the behaviour (`kFault`), also when it is not yet freed.
`kClean` says of a lookup that no other thread has changed a chain since it began, so
that a property can say what an undisturbed lookup returns.

### RbTree, RbClient

A tree is a record of functions: children by side, parent, the set of black nodes. The
source writes every case of `rb_insert_color` and `__rb_erase_color` twice, mirrored;
here it is written once, with the side it is about. A walk (`Outermost`, `Ascend`) is a
recursive function of the node it has reached. A rebalancing loop is a function of the
number of its turns (`InsertTurn`, `EraseTurn`), applied as often as there are nodes: a
turn after the last one changes nothing, and the proofs show that the loop is over by
then. Where the program would follow a null pointer TLC stops with an error, so the
rebalancing is checked for that as well. The fields of a node that left the tree are
reset by the model (`Forget`): the program never reads them.

The header asks its users to search, link and recolour themselves. `RbClient` does what
its comment says (`rbtree.h:27-92`), refuses equal keys, replaces nodes by nodes with
the same key, and keeps the size of every subtree with the augment calls. `AugmentTurn`
is one turn of `rb_augment_path`: the node, its sibling, then up to the parent.

### RbContainer

`container_insert`, `container_delete` and `container_flush` are a call up to the lock,
taking the lock and searching, changing the tree, unlocking, freeing. The place where a
new block is linked is remembered from the search (`cAt`), as `link` and `parent` are.
The rebalancing happens inside one critical section and is one step, so an unlocked
search sees the tree before or after it: the model has fewer behaviours than the program
there, and `UnlockedReads` claims nothing about a disturbed search. `container_flush`
reads the root before it takes the lock (line 203, `ReadRoot`): a block that left the
tree meanwhile is a `cFault`, which ends the behaviour; a block that is still linked is
erased, and the loop goes on with the true root.

### TimerQueue

One call is one step, since the callers serialize them (comment at line 7). `next` is
the cached earliest timer. `TimerOrder` is the promise: a queue in order of time, equal
times in order of arrival, with its head cached; the refinement mapping takes the queue
from `timerqueue_each_node` with a callback that never stops.

### TimerLib

Every function holds the mutex from its first access to the queue to its last, so it is
one step; the ticker thread `cronometer` has one step per stretch between two points at
which it waits or releases the mutex (`tlPc`). Time is relative: `due[t]` is what is left
of a timer's delay, and `Tick` passes one microsecond at any moment. A second has
`Second` microseconds, so that the borrow of `TV_MINUS` and its loss of a microsecond
happen. `alarmFor` and `pendingFor` remember for which timer the interval timer was set
and the signal was raised; the program does not know it, only `NotEarly` uses it.
`NeverEarly` is what the comment at line 213 says, that the first timer is due when
`sigwait` returns; `timer_early` refutes it, and `NotEarly` is what holds instead.
`removed` are the timers in use that `timer_rem` has returned for, `arg` what happened
to the argument. `timer_init` that gives up after five seconds ends in `stuck`: it
cancels the ticker and joins it while it holds the mutex the ticker waits for.
`timer_destroy` cancels the ticker where `pthread_cancel` reaches it; that it joins a
thread detached by then is taken as the wait it is meant to be.

### Dictionary, IniParser

A dictionary is a record of three sequences, the count, and the set of the arrays that
`dictionary_new` or a failed `mem_double` has left NULL (`gone`, any subset of the
three). `Sets`, `SetFails`, `Unset`, `Get` are its functions, with every outcome of the
allocations in them: a key that could not be copied is counted, and its slot stays
empty. A call that goes on with a missing array and reads it ends in `crash`
(`SearchFaults`, `DelFaults`); one that does not read it goes on.

A physical line is a kind (what `iniparser_line` and its `sscanf` patterns make of it),
a name, a text and how it ends. A logical line is joined from physical ones (`Join`), of
whatever kind: a comment swallows what follows, a value grows until a comment ends it,
a piece of a section or of junk in front of an `=` becomes part of the key (`Glue` is
the name that the two make), and several pieces without an `=` are a section when the
first begins with a bracket and the last ends in one, junk otherwise (`broken` until
then). The model starts a load with `Open`, reads one line a step as the loop does, and
ends it with `Eof`, a refusal or a failed allocation. Faults the program really has end
the behaviour: `crash` is a NULL array or value that is read, `stray` is the byte in
front of the line buffer that an empty line reads (line 586) when it happens to be a
backslash. `IniMeaning` compares the result of a load with what the file means, written
without a parser's state: the physical lines of the logical line that ends at j, what
they make together, and the last logical line that names k. It follows the code in two
places: entries are stored under their plain names, and an error is forgotten when a
section or value line follows. That the names should be `section:key` is `SectionKeys`,
which `ini_section` refutes.

What is taken as given about lines: comments, section names and junk contain no `=`,
only section lines end in a bracket, white space is not told apart, and the name of a
section of several pieces is the name of its first. Values are not quoted and characters are not modelled. `strlwc` copies (its `tolower` is
commented out), so names are compared as they are.

## Runs

| Run | Instance | Shows |
|---|---|---|
| `hash_locked` | 3 threads, 3 nodes, 3 keys, 2 buckets; add, del | types, ownership, no duplicates, linearizability |
| `hash_all` | 2 threads, 2 nodes, 2 keys of one bucket, all functions; whole, proper, empty and out-of-range walks | mutual exclusion, locked functions never use freed nodes although walks do, the lock is given back, the inductive invariant |
| `hash_break` (violated) | 2 threads, callbacks that return 1 | walk and update inside the lock together |
| `library` | the tree with 10 nodes of 8 keys, 7 timers with 4 times, the container and the kernel's table with 2 threads, 3 blocks and 3 keys, walks over 3 keys in 2 buckets of up to 3 elements, the linked queue of one thread with 4 nodes, files of up to 3 lines and dictionaries of up to 4 slots | balance, order and augmented values; the timer queue, both containers, the linked queue and the dictionary implement their promises; ownership; what unlocked readers may rely on; the lock left behind; walks are complete; what `lf_queue_deinit` frees twice and leaks; what a file means |
| `threads` | the pool with 3 workers, 2 clients, 3 tasks; 3 timers, delays of up to 3, seconds of 2 microseconds; the cache with 2 callers, 2 slots, 1 heap block | assertions, one owner per task, at most one late task, every task is served; the ticker reads timers that exist, arguments have one owner, no handler after removal, timers are early by more than a microsecond only by a foreign alarm, all are served; no shared buffer, counter right, no lost slot |
| `walk_reusable` (violated) | 3 keys, 2 buckets, up to 3 elements in one | a walk over equal elements never ends |
| `lf_one_to_one` (violated) | one pusher, one popper, 4 nodes | an element is lost |
| `pool_late` (violated) | 2 workers, 1 client, 2 tasks | a queued task runs after `pool_destroy` has begun |
| `pool_destroy` (violated) | 1 worker, 1 client | lost wakeup |
| `cache_full` (violated) | 2 threads, 2 slots | a buffer behind the block |
| `timer_early` (violated) | 2 timers, seconds of 100 microseconds | a timer is run before it is due |
| `ini_section` (violated) | files of up to 3 lines | a value below a section has no section in its name |

The bounds are small but hold the interesting cases. Three threads are one more than any
race here needs (holder, waiter, and a third that reads or frees); three nodes fill a
bucket with a first, a middle and a last node, and memory runs out while two calls hold
a node each; keys 0 and 2 share a bucket of two, key 1 does not. `hash_all` has all the
functions and therefore the smaller instance: a walk, its node and the next one it
saved, and one thread that frees either. A queue of four nodes has dummy, first, middle
and last. Two slots are the fewest at which a stale counter and the extra bit meet.
Blocks (nodes, tasks, heap blocks) are reused after they are freed, so nothing is
bounded in time.

In `library` and in `threads` the parts share no memory, so a behaviour exercises one of
them (`part`) and the others stay as they were initialized: each run explores what one
run for every part would. In `threads` the fairness of each part is asked of the
behaviours that exercise it. Eight keys make trees of three full levels, in which every
case of the two rebalancing loops occurs, also the one that climbs; two keys have two
nodes, for replacement. Seven timers, two of them three and two times equal, do the same
for the queue. Three lines are a continued line of three parts, a value that replaces
another, or an error before and behind an entry (`MaxLines`); two slots that double once
and fill (`DictMinSz`, `MaxSize`) grow with and without failure; `EditVal` is the value
users set, one because `IniMeaning` speaks of loads and `DictIsMap` of names. A load
meets at most one failing allocation. A walk meets chains of three (`MaxLen`), the
shortest with equal elements around another one, and two buckets, so that it goes from
one to the next. Memory blocks are symmetric in this run; it checks no liveness, so that
symmetry is sound.

In `threads` delays are longer than a second (`MaxDelay`, `Second`), so that they cross
the borrow of `TV_MINUS`, and an interval that is due more than the lost microsecond
later can be told from one that is due within it; three timers are a first one, a new
first one and one behind both. Two callers and two slots are the race for a slot, one
heap block is a cache that was full.

`CHECK_DEADLOCK FALSE` stands where the system really stops: where `Crash`, a fault,
`crash` or `stray` ends the model on purpose, where bounded memory, the lock left behind
by the kernel's table or a lost wakeup leaves a state without a step, and in liveness
runs of such instances.

## Fairness

`HashList!FairSpec`: a thread inside a function keeps running, callbacks return. Nothing
is assumed about who gets a contended lock (weak fairness only), so starvation is
possible, as it is with spin locks, and only the return of the lock is claimed.
`HashWalk!WalkFairSpec`: the walker calls again. `ThreadPool!FairSpec`: workers and
clients inside a call keep running, callbacks return; no client has to call, no wakeup
is spurious on demand. `TimerLib!tlSpec`: the ticker thread is scheduled, handlers
return and time passes, weakly; no user has to call. `MCThreads!ThSpec` takes both, each
for the part it is about.

## Findings

1. `hash_break`: a callback that returns 1 breaks `hash_table_each_node` out of its loop
   between unlock and lock; the final unlock frees another thread's lock.
2. `walk_reusable`: over the table `test/hash/test.c` builds with
   `hash_table_reusable_add`, the loop around `hash_table_next_by_user` in the same file
   (now commented out) never ends when equal elements are not neighbours.
3. `lf_one_to_one`: "Thread support only 1-to-1" does not hold.
4. `pool_late`: the comment of `pool_destroy` says that tasks in the queue are not run any
   more; a worker that has just tested `shutdown` runs one.
5. `pool_destroy`: `pool_destroy` can wait for ever for a worker that missed the
   broadcast.
6. `cache_full`: a buffer behind the block when two threads race for the last slot.
7. `timer_early`: `timerlib.c:213` says a timer never expires early. A signal raised for a
   timer that was removed, or that lost the first place, runs the new first one early;
   and `TV_MINUS` adds `MAX_USEC` (999999) where it borrows, one microsecond less than a
   second.
8. `ini_section`: the comments say that a key is stored as `section:key`
   (`iniparser.c:112`, `264`); line 604 stores it as `key`.

Other places where code and text differ, or where the code does what nobody can have
wanted, were met while modelling; the models follow the code, and no run is devoted to
them:

- `iniparser.c:599-604`: a section or value line overwrites the count of syntax errors
  before it, so that the file is accepted.
- `iniparser_set` adds an entry that is missing, and the comment at line 423 says it
  returns -1.
- `dictionary.c:219-222` says that setting a key to NULL is equivalent to deleting it and
  that no key is without a value; `dictionary_set` keeps such a key, and the parser stores sections that way.
- `dictionary_set` returns 0 when a copy fails, and its comment (line 224) promises
  non-zero for a failure.
- `hash_list_kernel.c:126` returns with the lock held.
- `lfqueue.c:53` frees the first node of a queue that is not empty a second time.

## Proofs

TLAPS checks every theorem below, for every value of the constants the module's
assumptions allow.

`HashListProofs` proves, for every set of threads, keys, nodes, every table size and
hash function:

- `TypeCorrect`: `Spec => []TypeOK`.
- `Exclusion`, `Inductive`, `OwnershipHolds`, `KeysDistinct`, `LockedUse`:
  `MutualExclusion`, `IInv`, `Ownership`, `UniqueKeys` (without `reusable_add`) and
  `LockedUseSafe`, from the assumption `Discipline`.

`Discipline` says how the table is meant to be used: with a lock, and with callbacks
that do not return 1. Both parts are needed: without the lock or with a breaking
callback two threads are in the critical section (`hash_break`).

- `TableLinearizable`: `Linearizable`, the refinement of `KeyTable`, for programs that
  add and delete by key (`Ops \subseteq {"add", "del"}`), as in `hash_locked`.

None of the safety properties is inductive. `Ownership` alone does not know that a
thread about to link a node holds the lock, nor that a thread about to unlink found a
node that is still linked. `IInv` adds what the code relies on: which function can be at
which step (`Control`), that a thread between lock and unlock owns the lock
(`LockHeld`), that a node to be linked carries its key (`HeldKey`), that what is about
to be unlinked is linked and compares equal, and no other caller is after the same
address (`Targets`) or the key behind it (`Apart`), that a thread about to insert has
seen no duplicate (`Unique`), that a flushed table is empty and unused (`Flushed`). The
proof has a lemma per action for the parts an action disturbs, and frame lemmas
(`SilentOwnership`, `SilentTargets`) for the others; `LinkEffect` and `UnlinkEffect` say
what the two list operations do to the set of linked nodes.

The simulation adds to `IInv` where the answer of every call is settled (`Answered`): an
addition takes effect where it links its node, finds an equal one or gets no memory, a
deletion where it unlinks or has found nothing under the lock. Every other step of the
code is a stutter of `KeyTable`.

`ComponentProofs` has three parts. About `HashWalk` it proves `Complete` and `OnlyOnce`
(theorems `WalkComplete`, `NothingTwice`), for tables filled by either way of adding. A
walk has no place of its own, only the element it returned last, while additions shift
places. The invariant `WInv` therefore speaks of elements: they are in the chain they
hash to (`WHashed`); what has been there all the time was returned or comes after the
first element that is equal to the walker's (`WOn`), which is where the search of the
next call goes on; and without equal elements nothing that was returned comes after it,
not even when it is deleted and comes back, because `hlist_add_head` puts it in front
(`WApart`). `LinkKeeps` and `UnlinkKeeps` show that updates keep the order of the others,
`WNext` that a call returns the first element ahead.

`ChainProofs` has two parts. About `KernelHash` it proves `LockLeftBehind`,
`KernelOwned`, `KernelIsSet` and `KernelLookup` (theorems `KernelLock`, `KernelNodes`,
`KernelImplementsSet`, `KernelLookups`). The first two need each other: keys are unique
only because whoever inserts holds the lock, and has found no equal key (`KAbsent`). The
refinement has one lemma per action that takes effect (`KInsertPresent`,
`KUnlinkPresent`), and its own invariant of what a call may return where (`KCalls`). For
the lookup the invariant `KSeen` says that a walk nobody disturbed (`kClean`) stands at
a node of its own chain and has passed no node with its key, or has found it.

About `LfQueue` it proves `FreedTwice`, `NodesHeld` and `Fifo` (theorems `NodesLive`,
`NodesKept`, `QueueIsFifo`) for one thread that pushes and pops (`Pusher = Popper`), any
number of nodes and elements. That hypothesis is the whole claim that is left:
`lf_one_to_one` refutes `Fifo` for a pusher and a popper. The invariant `LfInv` says
that the allocated nodes are a list `q` that starts at `lf->head` and follows `next`
without repetition (`Apart`), where `lf->tail` and the thread's own reads stand in it at
each step of its call (`TailAt`, `SeenBy`, `CallAt`), and that only the first node can
be without an element. `WalkFinds` shows that the walk `Path`, from which `Fifo` reads
its queue, finds exactly that list; `lf_queue_deinit` frees its nodes but the last, and
the first of them twice unless it is the last.

`ThreadPoolProofs` proves `Asserts`, `OnePlace` and `StopsSoon` (theorems
`AssertionsHold`, `TasksInOnePlace`, `WorkersStop`) for every set of workers, clients
and tasks, from the assumption that these sets do not overlap. The assertion of
`thread_routine` does not follow from itself: the inductive invariant adds that a worker
between wakeup and task holds the lock (`Locks`), that what it tested still holds
(`Tested`: at `ready` there is a task or shutdown is set, and at `take`, which it
reaches only if it saw shutdown unset, there is a task), that a worker about to take has
taken nothing since shutdown (`Lateness`), that the client that destroys the pool is
alone and that nobody uses a pool that was freed (`Destroying`, `Closed`).

`CacheStoreProofs` proves `Exclusive`, `NumCounts` and `NoSlotLost` (theorems
`OneCaller`, `CounterExact`, `SlotsKept`) for every number of threads, slots and heap
blocks. The invariant adds that the slot the search found stays free until it is marked
(`Found`), that a slot on its way back is marked and nobody holds it (`GivenBack`), and
that slots given to `cache_free` stay marked (`Dropped`). That every buffer lies inside
the block (`InBlock`) is not among them: it is false (`cache_full`).

About `TimerLib`, `ComponentProofs` proves `FirstInUse`, `ArgOnce`, `NeverAfterRemoval`,
`NotEarly` and `TypeOK` (theorems `FirstStays`, `ArgFreedOnce`, `RemovedStays`,
`FiresOnTime`, `TimerTypes`). The invariant `QInv` adds that the queue is sorted and
repeats no timer (`QSorted`, `QDistinct`), that flags belong to queued timers and a
removed one is cancelled (`QFlags`): without it a handler could start for a timer whose
removal is forgotten. `NotEarly` needs `AInv`: an alarm that runs goes off at most one
microsecond before the timer it was set for is due, and once it has gone off that timer
is due within one. `TypeOK` is in no cfg; `TimerTypes` covers it. `NeverEarly` is not
among them: it is false (`timer_early`).

About `IniParser` it proves `IniShape`, `DictIsMap`, `IniSections` and `IniMeaning`
(theorems `ShapeKept`, `DictImplementsMap`, `SectionsNamed`, `FileMeaning`) for every
set of names and lines, every hash and every length of the arrays. `IniInv` adds what a
growth relies on (the count is never below the number of names, so that a dictionary
that does not grow has an empty slot) and that the line being put together is one of
those a value may be. `SectionsNamed` counts by rank: section number n is the slot with
n section slots in front of it, which is what the loop of `iniparser_getsecname` stops
at. `FileMeaning` follows a load line by line (`FileInv`): as long as memory lasts, the
dictionary, the line being joined and the count of errors are what the lines read so far
mean; `JoinMakes` says that a logical line and a piece joined to it make what its pieces
make together. That `Absent`, the answer for a key that is missing, is no value is one
of the module's assumptions.

`RbTreeProofs` is about `rbtree.c` as such: any tree over any finite set of nodes. A
tree is described by a function `sub` from each node to the set of nodes below it
(`Tree`: the children's sets are disjoint and make up the rest of the node's own, links
and parents agree), by the order of the values (`Ordered`), by a function `bh` that
counts the black nodes on the paths down (`Level`) and by the absence of a red node with
a red child (`RbShape`); `Good` says that there are such a `sub` and `bh`. These are
functions of the state like any other, so every step of the program gets a lemma that
says which `sub` and `bh` hold after it (`RotateKeepsTree`, `RotateLevels`,
`PaintKeepsWhole`), and no induction over the shape of a tree is needed.
`rb_insert_color` keeps the tree good but for one red node with a red parent, which
moves up (`InsertClimbs`) or is settled by one or two rotations (`InsertStraight`,
`InsertSettles`); `__rb_erase_color` keeps it good but for one node whose paths lack a
black node (`Lacking`), which moves up (`EraseClimbs`) or is refilled
(`SiblingGetsBlack`, `NephewGetsRed`, `Refills`). The set below the node in hand grows
with every turn that moves up, which bounds the loops. The theorems are `LinkNodeGrows`
and `RbErases`: a node is added or taken away, and the tree is good again. The lemmas
keep account of the subtrees as well: `Stirs` says that an insertion changes, besides
the nodes above the new one, only two children of one of them, `Tracks` that an erasure
changes only nodes above `Deepest` and siblings of those (`Covers`), however the loop
went on. `OutermostIs` and `SuccessorKin` are about the walk to the successor that
`rb_erase` puts in the place of a node with two children; `MembersAre` says that
`Members`, with which the properties speak of a tree, is `sub`; `Descends` that the
search for a place ends where the new node fits.

`TreeUserProofs` begins with what a good tree looks like to its users: a list. `Lists(t,
N, q)` says that t is a good tree of the nodes of the sequence q, ordered by their
places in it. `ListWalks` then says what `rb_first`, `rb_last`, `rb_next` and `rb_prev`
return (`NeighbourIs`, `AscendIs` and `OutermostIs` are the walks they are made of), and
`ListInserts`, `ListErases` and `ListReplaces` that the search for a place with
`rb_insert_color`, `rb_erase` and `rb_replace_node` insert, remove and replace one
element of q. With that the proofs about the two users that share no memory are short:

- `ClientTreeHolds`: `ClientTree`, for every set of keys and finite set of nodes. The
  inductive invariant `ClientInv` says that the tree lists its nodes with growing keys.
- `AugmentedHolds`: `Augmented`, for the same client. `rb_augment_path` walks up one path
  once, while the rotations have changed subtrees beside it too. `InsertCovers` and
  `ErasesAbove` say that what changed is on the way up from the node it starts from or a
  sibling of a node there, `AugmentTurns` that each turn leaves right what only the
  lower node covered, so that children are right before their parent is computed, and
  `AugmentsRight` that nothing wrong is left at the root. The inductive invariant
  `AugInv` says that `size` is the number of nodes in `sub`, and 0 outside the tree.
- `QueueKeepsOrder`: `KeepsOrder`, the refinement of `TimerOrder`, for every finite set
  of timers and any times. The inductive invariant `TimerInv` says that the tree lists
  the timers by time, and that `next` is the first of them: what `timerqueue_add`
  compares with and `timerqueue_del` takes the successor of.

It also proves `ContainerOwned`, `UnlockedReads` and `ContainerIsSet`
(theorems `BlocksOwned`, `UndisturbedReads`, `ContainerImplementsSet`) for every set of
threads and keys and every finite set of blocks. The invariant `CInv` has the tree
(`CShape`), distinct keys (`CDistinct`), who holds the lock (`CLocked`), and for each
thread where it stands in its call (`LocalOf`), what nobody can change under it
(`HeapOf`: the place an insertion has found stays right while it has the lock) and what
it knows as long as nobody disturbs it (`SeenOf`: a search that was not disturbed stands
above every node with its key). The refinement lets a refused call take effect where it
looks its key up, the others where they link or unlink; a flush of an empty tree where
it reads the root, before the lock, which is why `container_flush` may do that.

`ListLemmas` has what the proofs share about `RemoveAt`, `InsertAt`, a node put in
front of a chain, and the least of a set of numbers (`Least`), which every search of a
first slot or node relies on.

The inductive invariants were model-checked on the instances of the runs before they
were proved, except those about trees (`ClientInv`, `TimerInv`, `AugInv`): they say that
there is a function or a sequence, which TLC would have to guess; it checks the
properties that follow from them.

Only the liveness properties (`LockReleased`, `Served`, `TimersServed`) are
model-checked without a proof: temporal reasoning with fairness is out of the prover's
reach. The properties of the violated runs have no theorem, because they are false.

## Not modelled

`system.c`, `net.c`, `log.c`, `time.c` are calls of the operating system and formatting,
without a state. `string.c` and `kernel.c` are conversions of one buffer into another,
without state, order or failure of others: their hazards are boundaries that a unit test
reaches. The demonstration programs under `test/` show the parts above at work;
`test/queue/queue.c` does not compile. `dictionary_dump`, `iniparser_dump`,
`timer_print` and the debug functions print and change nothing.
