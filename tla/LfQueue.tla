------------------------------- MODULE LfQueue -------------------------------
(***************************************************************************)
(* The linked queue of lfqueue.c, without locks or atomics: one thread     *)
(* pushes, one pops (they may be the same).  A step is one access to       *)
(* memory both threads use; accesses to a node only one thread knows go    *)
(* with the next shared one.  The compiler and the processor are assumed   *)
(* not to reorder the accesses.                                            *)
(***************************************************************************)
EXTENDS Null, Naturals, Sequences, FiniteSets

CONSTANTS
    Pusher, Popper,  \* the threads: one each, or one for both
    Data,            \* what is pushed: never NULL
    Node             \* the blocks malloc can return for nodes

QThread == Pusher \cup Popper

ASSUME OneToOne ==
    (\E t \in Pusher : Pusher = {t}) /\ (\E t \in Popper : Popper = {t})
ASSUME NodeAssumption == IsFiniteSet(Node)
ASSUME SentinelAssumption ==
    /\ NULL \notin Node \cup Data
    /\ {"none", "pending", "ok", "nomem"} \cap (Data \cup {NULL}) = {}

VARIABLES
    head, tail,       \* lf->head, lf->tail
    nxt, data,        \* the fields of every node
    alloc,            \* the nodes that are allocated
    open,             \* between lf_queue_init and lf_queue_deinit
    fault,            \* a freed node was used: the model stops
    pc, op, arg, ret, \* per thread: next step, call, argument, outcome
    node, tmp         \* per thread: the local pointers

list  == <<head, tail, nxt, data, alloc>>
local == <<node, tmp>>
lfVars  == <<list, open, fault, pc, op, arg, ret, local>>

Goto(t, l)   == pc' = [pc EXCEPT ![t] = l]
Result(t, r) == ret' = [ret EXCEPT ![t] = r]

Malloc(n, d) == /\ n \notin alloc
                /\ alloc' = alloc \cup {n}
                /\ data' = [data EXCEPT ![n] = d]
                /\ nxt' = [nxt EXCEPT ![n] = NULL]

\* free; what the block held is lost
Release(n) == /\ alloc' = alloc \ {n}
              /\ data' = [data EXCEPT ![n] = NULL]
              /\ nxt' = [nxt EXCEPT ![n] = NULL]

\* the block at n is used; undefined when it was freed
Uses(n) == fault' = (n \notin alloc)

QCall(t, o, d) ==
    /\ open /\ pc[t] = "idle"
    /\ op'  = [op EXCEPT ![t] = o]
    /\ arg' = [arg EXCEPT ![t] = d]
    /\ Result(t, "pending")
    /\ Goto(t, o)
    /\ UNCHANGED <<list, open, fault, local>>

CallPush(t) == t \in Pusher /\ \E d \in Data : QCall(t, "push", d)
CallPop(t)  == t \in Popper /\ QCall(t, "pop", NULL)

-----------------------------------------------------------------------------
(* lf_queue_push *)

NewNode(t) ==
    /\ pc[t] = "push"
    /\ \E n \in Node : Malloc(n, arg[t]) /\ node' = [node EXCEPT ![t] = n]
    /\ Goto(t, "tmp")
    /\ UNCHANGED <<head, tail, open, fault, op, arg, ret, tmp>>

ReadTail(t) ==
    /\ pc[t] = "tmp"
    /\ tmp' = [tmp EXCEPT ![t] = tail]
    /\ Goto(t, "tail")
    /\ UNCHANGED <<list, open, fault, op, arg, ret, node>>

SetTail(t) ==
    /\ pc[t] = "tail"
    /\ tail' = node[t]
    /\ Goto(t, "link")
    /\ UNCHANGED <<head, nxt, data, alloc, open, fault, op, arg, ret, local>>

\* Mutant: the new node is linked behind the first one
LinkBehindHead(t) ==
    /\ pc[t] = "link"
    /\ Uses(tmp[t])
    /\ nxt' = [nxt EXCEPT ![head] = node[t]]
    /\ Result(t, "ok")
    /\ Goto(t, "done")
    /\ UNCHANGED <<head, tail, data, alloc, open, op, arg, local>>

LinkNew(t) ==
    /\ pc[t] = "link"
    /\ Uses(tmp[t])
    /\ nxt' = [nxt EXCEPT ![tmp[t]] = node[t]]
    /\ Result(t, "ok")
    /\ Goto(t, "done")
    /\ UNCHANGED <<head, tail, data, alloc, open, op, arg, local>>

-----------------------------------------------------------------------------
(* lf_queue_pop *)

\* is there a second node, or at least an element in the first one
Look(t) ==
    /\ pc[t] = "pop"
    /\ Uses(head)
    /\ node' = [node EXCEPT ![t] = head]
    /\ \/ nxt[head] # NULL /\ Goto(t, "advance") /\ UNCHANGED ret
       \/ nxt[head] = NULL /\ data[head] # NULL /\ Goto(t, "replace") /\ UNCHANGED ret
       \/ nxt[head] = NULL /\ data[head] = NULL /\ Goto(t, "done") /\ Result(t, NULL)
    /\ UNCHANGED <<list, open, op, arg, tmp>>

Advance(t) ==
    /\ pc[t] = "advance"
    /\ head' = nxt[head]
    /\ Result(t, data[node[t]])
    /\ Goto(t, "free")
    /\ UNCHANGED <<tail, nxt, data, alloc, open, fault, op, arg, local>>

\* the last node goes, an empty one takes its place
Replace(t) ==
    /\ pc[t] = "replace"
    /\ \E n \in Node : Malloc(n, NULL) /\ head' = n
    /\ Result(t, data[node[t]])
    /\ Goto(t, "settail")
    /\ UNCHANGED <<tail, open, fault, op, arg, local>>

ReplaceTail(t) ==
    /\ pc[t] = "settail"
    /\ tail' = head
    /\ Goto(t, "free")
    /\ UNCHANGED <<head, nxt, data, alloc, open, fault, op, arg, ret, local>>

\* Mutant: the popped node is not freed
Keep(t) ==
    /\ pc[t] = "free"
    /\ Goto(t, "done")
    /\ UNCHANGED <<list, open, fault, op, arg, ret, local>>

\* Mutant: pop frees the node lf->head points to by now
FreeHead(t) ==
    /\ pc[t] = "free"
    /\ Uses(head) /\ Release(head)
    /\ Goto(t, "done")
    /\ UNCHANGED <<head, tail, open, op, arg, ret, local>>

FreeNode(t) ==
    /\ pc[t] = "free"
    /\ Uses(node[t]) /\ Release(node[t])
    /\ Goto(t, "done")
    /\ UNCHANGED <<head, tail, open, op, arg, ret, local>>

\* malloc returns NULL, in lf_queue_push, which returns -1, or in lf_queue_pop,
\* which returns NULL as if there were no element; the model tells the two apart, so
\* that Fifo can bound the pops that find nothing
QNoMem(t) ==
    /\ pc[t] \in {"push", "replace"}
    /\ Result(t, "nomem")
    /\ Goto(t, "done")
    /\ UNCHANGED <<list, open, fault, op, arg, local>>

QReturn(t) ==
    /\ pc[t] = "done"
    /\ Goto(t, "idle")
    /\ op'  = [op EXCEPT ![t] = "none"]
    /\ arg' = [arg EXCEPT ![t] = NULL]
    /\ Result(t, "none")
    /\ node' = [node EXCEPT ![t] = NULL]
    /\ tmp'  = [tmp EXCEPT ![t] = NULL]
    /\ UNCHANGED <<list, open, fault>>

-----------------------------------------------------------------------------
(* The nodes from lf->head on, and the elements in them *)

Reach[k \in 0 .. Cardinality(Node)] ==
    IF k = 0 THEN <<head>>
    ELSE LET p == Reach[k - 1] IN
         IF nxt[p[Len(p)]] = NULL THEN p ELSE Append(p, nxt[p[Len(p)]])

Path == IF head = NULL THEN <<>> ELSE Reach[Cardinality(Node)]

\* only the first node can be empty
Contents ==
    LET all == [i \in DOMAIN Path |-> data[Path[i]]]
    IN  IF Path # <<>> /\ data[head] = NULL THEN Tail(all) ELSE all

Idle == \A t \in QThread : pc[t] = "idle"

\* lf_queue_deinit: the loop frees the nodes before lf->tail with their elements,
\* and then the node lf->head points to is freed, which the loop may have freed.
\* Undefined behaviour: the model stops there.
QueueDeinit ==
    /\ open /\ Idle
    /\ LET before == {Path[i] : i \in {i \in DOMAIN Path : \A j \in 1 .. i : Path[j] # tail}}
           freed  == before \cup {head}
       IN  /\ fault' = (head \in before \/ ~ (freed \subseteq alloc))
           /\ alloc' = alloc \ freed
           /\ data' = [n \in Node |-> IF n \in freed THEN NULL ELSE data[n]]
           /\ nxt'  = [n \in Node |-> IF n \in freed THEN NULL ELSE nxt[n]]
    /\ open' = FALSE /\ head' = NULL
    /\ UNCHANGED <<tail, pc, op, arg, ret, local>>

\* lf_queue_init: one empty node
QueueInit ==
    /\ ~open
    /\ \E n \in Node : Malloc(n, NULL) /\ head' = n /\ tail' = n
    /\ open' = TRUE
    /\ UNCHANGED <<fault, pc, op, arg, ret, local>>

lfInit ==
    /\ head = NULL /\ tail = NULL
    /\ nxt = [n \in Node |-> NULL]
    /\ data = [n \in Node |-> NULL]
    /\ alloc = {} /\ open = FALSE /\ fault = FALSE
    /\ pc   = [t \in QThread |-> "idle"]
    /\ op   = [t \in QThread |-> "none"]
    /\ arg  = [t \in QThread |-> NULL]
    /\ ret  = [t \in QThread |-> "none"]
    /\ node = [t \in QThread |-> NULL]
    /\ tmp  = [t \in QThread |-> NULL]

QStep(t) == \/ CallPush(t) \/ CallPop(t)
            \/ NewNode(t) \/ ReadTail(t) \/ SetTail(t) \/ LinkNew(t)
            \/ Look(t) \/ Advance(t) \/ Replace(t) \/ ReplaceTail(t) \/ FreeNode(t)
            \/ QNoMem(t) \/ QReturn(t)

lfNext == /\ ~fault
          /\ \/ \E t \in QThread : QStep(t)
             \/ QueueDeinit \/ QueueInit

lfSpec == lfInit /\ [][lfNext]_lfVars

-----------------------------------------------------------------------------
(* Properties *)

\* lf_queue_push and lf_queue_pop are atomic and first in, first out, for one
\* pushing and one popping thread (lfqueue.c, line 1).
Queue == INSTANCE FifoQueue WITH
             Thread <- QThread,
             queue <- Contents, missed <- head # NULL /\ data[head] # NULL
Fifo == Queue!Spec

\* Between calls the allocated nodes are those of the list, which ends at
\* lf->tail.  lf_queue_deinit leaves no node of a list of one, and the last of a
\* longer one.
NodesHeld == Idle => /\ open => /\ alloc = {Path[i] : i \in DOMAIN Path}
                                 /\ Path[Len(Path)] = tail
                     /\ ~open => alloc = IF fault THEN {tail} ELSE {}

\* lf_queue_push and lf_queue_pop never use or free a node that was freed;
\* lf_queue_deinit frees one twice when the list has more than one node, and
\* only then.
FreedTwice == [][~fault /\ fault' <=> QueueDeinit /\ head # tail]_lfVars

=============================================================================
