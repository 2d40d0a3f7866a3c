------------------------------ MODULE RbContainer ------------------------------
(***************************************************************************)
(* The tree container of rbtree_com.c: a red-black tree of malloc'ed       *)
(* copies of the users' data, one spin lock around insertion, deletion and *)
(* flush; container_search takes no lock, and container_flush reads the    *)
(* root before it takes it.  User data are the keys the comparison         *)
(* callback tells apart.                                                   *)
(***************************************************************************)
EXTENDS RbTree

CONSTANTS Thread, Key, Block
ASSUME BlockAssumption == /\ Key \subseteq Nat /\ NULL \notin Block \cup Thread \cup Key
                          /\ IsFiniteSet(Block)

VARIABLES
    cTree,  \* rb_root
    cKey,   \* cKey[b]: the data in b, NULL when b is not allocated
    cLive,  \* between rbtree_contarner_init and container_deinit
    cLock,  \* the owner of rbtree_container_lock
    cFault, \* the thread that used a block that had left the tree, if any
    cPc, cOp, cArg, cRet,  \* per thread: next step, function, key, outcome
    cPtr,   \* per thread: the block in hand (rbtree_new, rbtree_mem, node)
    cAt,    \* per thread: parent and side rb_link_node will use
    cClean  \* per thread: no other thread changed anything since its search
            \* or flush began

cHeap == <<cTree, cKey>>
cVars == <<cHeap, cLive, cLock, cFault, cPc, cOp, cArg, cRet, cPtr, cAt, cClean>>

cInit == /\ cTree = EmptyTree(Block)
         /\ cKey = [b \in Block |-> NULL]
         /\ cLive = FALSE /\ cLock = NULL /\ cFault = NULL
         /\ cPc  = [t \in Thread |-> "idle"]
         /\ cOp  = [t \in Thread |-> "none"]
         /\ cRet = [t \in Thread |-> "none"]
         /\ cArg = [t \in Thread |-> NULL]
         /\ cPtr = [t \in Thread |-> NULL]
         /\ cAt  = [t \in Thread |-> <<NULL, "L">>]
         /\ cClean = [t \in Thread |-> TRUE]

\* the next step, the block in hand, the outcome of t
Goes(t, l, b, r) == /\ cPc'  = [cPc  EXCEPT ![t] = l]
                    /\ cPtr' = [cPtr EXCEPT ![t] = b]
                    /\ cRet' = [cRet EXCEPT ![t] = r]

\* the tree or the blocks change under the feet of those who read it unlocked
Disturbs(t) == cClean' = [u \in Thread |-> cClean[u] /\ (u = t \/ cOp[u] \notin {"search", "flush"})]

\* Mutant: the lock is taken whoever holds it
LockAnyway(t) == cLock' = t
Lock(t) == cLock = NULL /\ cLock' = t

\* Mutant: the comparison is taken the other way round
BelowReversed(n, k) == cTree.kid[IF k < cKey[n] THEN "R" ELSE "L"][n]

\* where a search for k goes from a node with another key
Below(n, k) == cTree.kid[IF k < cKey[n] THEN "L" ELSE "R"][n]

\* the walk of container_search2 and container_insert: the node that compares
\* equal, or NULL and the place where it would be
Find(n, k) ==
    LET find[m \in Block \cup {NULL}] == IF m = NULL \/ cKey[m] = k THEN m ELSE find[Below(m, k)]
    IN find[n]
Larger(k) == {b \in Block : cKey[b] # NULL /\ k < cKey[b]}
PlaceOf(k) == IF cTree.root = NULL THEN <<NULL, "L">> ELSE DescendFrom(cTree, cTree.root, Larger(k))

ContainerInit == /\ ~cLive /\ cLive' = TRUE
                 /\ UNCHANGED <<cHeap, cLock, cFault, cPc, cOp, cArg, cRet, cPtr, cAt, cClean>>

Call(t, o, k) == /\ cLive /\ cPc[t] = "idle"
                 /\ cOp' = [cOp EXCEPT ![t] = o] /\ cArg' = [cArg EXCEPT ![t] = k]
                 /\ UNCHANGED <<cLive, cLock, cFault, cAt>>

\* container_insert up to the lock; a size of 0 or malloc's NULL ends it
InsertCall(t, k) ==
    /\ Call(t, "add", k)
    /\ \/ \E b \in Block : /\ cKey[b] = NULL
                           /\ cKey' = [cKey EXCEPT ![b] = k]
                           /\ Goes(t, "lock", b, "pending") /\ Disturbs(t)
       \/ Goes(t, "nomem", NULL, "pending") /\ UNCHANGED <<cKey, cClean>>
    /\ UNCHANGED cTree

DeleteCall(t, k) == Call(t, "del", k) /\ Goes(t, "lock", NULL, "pending") /\ UNCHANGED <<cHeap, cClean>>
FlushCall(t)     == Call(t, "flush", NULL) /\ Goes(t, "root", NULL, "pending") /\ UNCHANGED <<cHeap, cClean>>
\* container_search reads the root as its first step
SearchCall(t, k) == /\ Call(t, "search", k) /\ Goes(t, "walk", cTree.root, "pending")
                    /\ UNCHANGED <<cHeap, cClean>>

NoMem(t) == /\ cPc[t] = "nomem" /\ Goes(t, "done", NULL, "nomem")
            /\ UNCHANGED <<cHeap, cLive, cLock, cFault, cOp, cArg, cAt, cClean>>

\* line 203: the root is read before the lock is taken
ReadRoot(t) == /\ cPc[t] = "root" /\ Goes(t, "lock", cTree.root, IF cTree.root = NULL THEN "ok" ELSE "pending")
               /\ UNCHANGED <<cHeap, cLive, cLock, cFault, cOp, cArg, cAt, cClean>>

\* the lock is taken and the key looked up
LockFind(t) ==
    /\ cPc[t] = "lock" /\ Lock(t)
    /\ LET b == IF cOp[t] = "flush" THEN NULL ELSE Find(cTree.root, cArg[t])
       IN /\ CASE cOp[t] = "add" /\ b = NULL -> Goes(t, "link", cPtr[t], "pending")
               [] cOp[t] = "add" /\ b # NULL -> Goes(t, "unlock", cPtr[t], "fail")
               [] cOp[t] = "del" /\ b = NULL -> Goes(t, "unlock", NULL, "fail")
               [] cOp[t] = "del" /\ b # NULL -> Goes(t, "erase", b, "pending")
               [] cOp[t] = "flush" -> Goes(t, "flush", cPtr[t], cRet[t])
          /\ cAt' = [cAt EXCEPT ![t] = IF cOp[t] = "add" /\ b = NULL THEN PlaceOf(cArg[t]) ELSE @]
    /\ UNCHANGED <<cHeap, cLive, cFault, cOp, cArg, cClean>>

\* rb_link_node and rb_insert_color
LinkBlock(t) ==
    /\ cPc[t] = "link" /\ Goes(t, "unlock", NULL, "ok")
    /\ cTree' = LinkNode(cTree, cPtr[t], cAt[t][1], cAt[t][2])
    /\ Disturbs(t)
    /\ UNCHANGED <<cKey, cLive, cLock, cFault, cOp, cArg, cAt>>

EraseBlock(t) ==
    /\ cPc[t] = "erase" /\ Goes(t, "unlock", cPtr[t], "ok")
    /\ cTree' = Forget(RbErase(cTree, cPtr[t]), cPtr[t])
    /\ Disturbs(t)
    /\ UNCHANGED <<cKey, cLive, cLock, cFault, cOp, cArg, cAt>>

\* the loop of container_flush: erase the node in hand, go on with the root
FlushTurn(x) == LET t == Forget(RbErase(x.tree, x.node), x.node)
                IN IF x.node = NULL THEN x ELSE [tree |-> t, node |-> t.root]
FlushFrom(t, n) ==
    LET loop[i \in Nat] == IF i = 0 THEN [tree |-> t, node |-> n]
                           ELSE FlushTurn(loop[i - 1])
    IN loop[Cardinality(Block)].tree
Flushed(n) == {b \in Block : n # NULL /\ b \in Linked(cTree)}

\* a node read before the lock may have left the tree since
FlushLocked(t) ==
    /\ cPc[t] = "flush"
    /\ IF cPtr[t] = NULL \/ cPtr[t] \in Linked(cTree)
       THEN /\ cTree' = FlushFrom(cTree, cPtr[t])
            /\ cKey' = [b \in Block |-> IF b \in Flushed(cPtr[t]) THEN NULL ELSE cKey[b]]
            /\ Goes(t, "unlock", NULL, "ok") /\ Disturbs(t) /\ UNCHANGED cFault
       ELSE /\ cFault' = t /\ UNCHANGED <<cHeap, cPc, cPtr, cRet, cClean>>
    /\ UNCHANGED <<cLive, cLock, cOp, cArg, cAt>>

\* Mutant: the block of a refused insertion or of a deletion is not freed
UnlockKeeps(t) ==
    /\ cPc[t] = "unlock" /\ cLock' = NULL
    /\ Goes(t, "done", NULL, cRet[t])
    /\ cAt' = [cAt EXCEPT ![t] = <<NULL, "L">>]
    /\ UNCHANGED <<cHeap, cLive, cFault, cOp, cArg, cClean>>

\* rbtree_unlock; a duplicate and a deleted block are freed after it
Unlock(t) ==
    /\ cPc[t] = "unlock" /\ cLock' = NULL
    /\ Goes(t, IF cPtr[t] = NULL THEN "done" ELSE "free", cPtr[t], cRet[t])
    /\ cAt' = [cAt EXCEPT ![t] = <<NULL, "L">>]
    /\ UNCHANGED <<cHeap, cLive, cFault, cOp, cArg, cClean>>

Free(t) ==
    /\ cPc[t] = "free" /\ Goes(t, "done", NULL, cRet[t])
    /\ cKey' = [cKey EXCEPT ![cPtr[t]] = NULL] /\ Disturbs(t)
    /\ UNCHANGED <<cTree, cLive, cLock, cFault, cOp, cArg, cAt>>

\* one turn of the loop of container_search
Walk(t) ==
    /\ cPc[t] = "walk"
    /\ LET n == cPtr[t]  k == cArg[t]
       IN CASE n = NULL -> Goes(t, "done", NULL, "fail") /\ UNCHANGED cFault
            [] n # NULL /\ n \notin Linked(cTree) -> cFault' = t /\ UNCHANGED <<cPc, cPtr, cRet>>
            [] n # NULL /\ n \in Linked(cTree) /\ cKey[n] = k -> Goes(t, "done", n, "ok") /\ UNCHANGED cFault
            [] OTHER -> /\ Goes(t, "walk", Below(n, k), "pending")
                        /\ UNCHANGED cFault
    /\ UNCHANGED <<cHeap, cLive, cLock, cOp, cArg, cAt, cClean>>

Return(t) == /\ cPc[t] = "done" /\ Goes(t, "idle", NULL, "none")
             /\ cOp' = [cOp EXCEPT ![t] = "none"] /\ cArg' = [cArg EXCEPT ![t] = NULL]
             /\ cClean' = [cClean EXCEPT ![t] = TRUE]
             /\ UNCHANGED <<cHeap, cLive, cLock, cFault, cAt>>

\* container_deinit, by the last user: a flush without interference, then the
\* root itself is freed
ContainerDeinit ==
    /\ cLive /\ \A t \in Thread : cPc[t] = "idle"
    /\ cTree' = FlushFrom(cTree, cTree.root)
    /\ cKey' = [b \in Block |-> IF b \in Flushed(cTree.root) THEN NULL ELSE cKey[b]]
    /\ cLive' = FALSE
    /\ UNCHANGED <<cLock, cFault, cPc, cOp, cArg, cRet, cPtr, cAt, cClean>>

ThreadNext(t) == \/ \E k \in Key : InsertCall(t, k) \/ DeleteCall(t, k) \/ SearchCall(t, k)
                 \/ FlushCall(t) \/ NoMem(t) \/ ReadRoot(t) \/ LockFind(t) \/ LinkBlock(t)
                 \/ EraseBlock(t) \/ FlushLocked(t) \/ Unlock(t) \/ Free(t) \/ Walk(t) \/ Return(t)

\* after a use of freed memory the program has no defined next step
cNext == cFault = NULL /\ (ContainerInit \/ ContainerDeinit \/ \E t \in Thread : ThreadNext(t))

-----------------------------------------------------------------------------
\* the block t has allocated or unlinked and must still link or free
InHand(t) == IF \/ cOp[t] = "add" /\ cPc[t] \in {"lock", "link", "unlock", "free"}
                \/ cOp[t] = "del" /\ cPc[t] \in {"unlock", "free"}
             THEN {cPtr[t]} \ {NULL} ELSE {}

\* Every block that malloc returned is in the tree or in the hands of exactly
\* one container_insert or container_delete, whatever the threads do in
\* between: nothing leaks, nothing is linked after it was freed or freed twice.
ContainerOwned ==
    /\ {b \in Block : cKey[b] # NULL} = Linked(cTree) \cup UNION {InHand(t) : t \in Thread}
    /\ \A t \in Thread : /\ InHand(t) \cap Linked(cTree) = {}
                         /\ \A u \in Thread \ {t} : InHand(t) \cap InHand(u) = {}

\* Memory that left the tree is used only by a container_search or a
\* container_flush during which another thread changed the container, and a
\* search during which nobody did finds its key exactly when it is there.
UnlockedReads ==
    /\ cFault # NULL => ~cClean[cFault]
    /\ \A t \in Thread : cOp[t] = "search" /\ cPc[t] = "done" /\ cClean[t] =>
           (cRet[t] = "ok" <=> \E b \in Linked(cTree) : cKey[b] = cArg[t])

\* container_insert, container_delete and container_flush are the operations
\* of a set of keys, each taking effect at one moment between its call and its
\* return ("fail" of a deletion is only logged: its caller gets 0 either way).
Set == INSTANCE KeyTable WITH
    present <- {cKey[b] : b \in Linked(cTree)},
    op  <- [t \in Thread |-> IF cOp[t] = "search" THEN "none" ELSE cOp[t]],
    arg <- [t \in Thread |-> IF cOp[t] = "search" THEN NULL ELSE cArg[t]],
    ret <- [t \in Thread |-> IF cOp[t] = "search" THEN "none" ELSE cRet[t]]
ContainerIsSet == Set!Init /\ [][Set!Next]_(Set!vars)

=============================================================================
