------------------------------ MODULE KernelHash ------------------------------
(***************************************************************************)
(* The kernel's hash table, hash_list_kernel.c: chains of kmalloc'ed nodes *)
(* under one spin lock.  Unlike hash_list.c an addition allocates inside   *)
(* the critical section and, when kmalloc fails, returns from there;       *)
(* lookup_user_struct_by_hash_table walks a chain without the lock.        *)
(***************************************************************************)
EXTENDS Null, Naturals, Sequences, SequencesExt

CONSTANTS Cpu,     \* the callers
          KKey,    \* what compare_struct_cb tells apart
          KNode,   \* the blocks kmalloc can return
          KSize,   \* g_base_hash_table_size
          KHash    \* calculate_hash_val_cb
KBucket == 0 .. KSize - 1
ASSUME KernelAssumption == /\ KSize \in 1 .. 16       \* BASE_HASH_TABLE_MAX
                           /\ KHash \in [KKey -> KBucket]
                           /\ NULL \notin KNode \cup Cpu \cup KKey

VARIABLES
    kChain,  \* hash_table_head
    kKey,    \* kKey[n]: the user structure in n, NULL when n is not allocated
    kLock,   \* the owner of hash_table_lock
    kNoMem,  \* an addition has met kmalloc's NULL
    kFault,  \* the thread that read a node that had left its chain, if any
    kPc, kOp, kArg, kRet, kPtr,  \* per thread: next step, function, key,
                                 \* outcome, node in hand
    kClean   \* per thread: no other thread changed a chain since its lookup began

kHeap == <<kChain, kKey>>
kVars == <<kHeap, kLock, kNoMem, kFault, kPc, kOp, kArg, kRet, kPtr, kClean>>

\* init_base_hash_table
kInit == /\ kChain = [b \in KBucket |-> <<>>]
         /\ kKey = [n \in KNode |-> NULL]
         /\ kLock = NULL /\ kNoMem = FALSE /\ kFault = NULL
         /\ kPc  = [t \in Cpu |-> "idle"]
         /\ kOp  = [t \in Cpu |-> "none"]
         /\ kRet = [t \in Cpu |-> "none"]
         /\ kArg = [t \in Cpu |-> NULL]
         /\ kPtr = [t \in Cpu |-> NULL]
         /\ kClean = [t \in Cpu |-> TRUE]

KGoes(t, l, n, r) == /\ kPc'  = [kPc  EXCEPT ![t] = l]
                     /\ kPtr' = [kPtr EXCEPT ![t] = n]
                     /\ kRet' = [kRet EXCEPT ![t] = r]
KDisturbs(t) == kClean' = [u \in Cpu |-> kClean[u] /\ (u = t \/ kOp[u] # "lookup")]

KLinked == {n \in KNode : \E b \in KBucket : n \in ToSet(kChain[b])}
KAfter(b, i) == IF i < Len(kChain[b]) THEN kChain[b][i + 1] ELSE NULL
\* Mutant: the walk begins behind the first node
KHeadNext(b) == IF Len(kChain[b]) < 2 THEN NULL ELSE kChain[b][2]
KHead(b) == IF kChain[b] = <<>> THEN NULL ELSE kChain[b][1]

\* lookup_base_hash_table under the lock: the positions in k's chain that match
Matching(k) == {i \in DOMAIN kChain[KHash[k]] : kKey[kChain[KHash[k]][i]] = k}

KCall(t) == \E o \in {"add", "del", "lookup", "flush"}, k \in KKey \cup {NULL} :
    /\ kPc[t] = "idle" /\ (k = NULL <=> o = "flush")
    /\ kOp' = [kOp EXCEPT ![t] = o] /\ kArg' = [kArg EXCEPT ![t] = k]
    /\ IF o = "lookup" THEN KGoes(t, "walk", KHead(KHash[k]), "pending")
                       ELSE KGoes(t, "lock", NULL, "pending")
    /\ UNCHANGED <<kHeap, kLock, kNoMem, kFault, kClean>>

\* Mutant: the lock is not waited for
KLockAnyway(t) == kLock' = t
KTake(t) == kLock = NULL /\ kLock' = t       \* lock_hash_table

KLockFind(t) ==
    /\ kPc[t] = "lock" /\ KTake(t)
    /\ LET hit == kOp[t] # "flush" /\ Matching(kArg[t]) # {}
       IN CASE kOp[t] = "add" /\ ~hit  -> KGoes(t, "insert", NULL, "pending")
            [] kOp[t] = "del" /\ hit   -> KGoes(t, "unlink", NULL, "pending")
            [] kOp[t] = "flush"        -> KGoes(t, "flush", NULL, "pending")
            [] OTHER                   -> KGoes(t, "leave", NULL, "fail")
    /\ UNCHANGED <<kHeap, kNoMem, kFault, kOp, kArg, kClean>>

\* kmalloc, hlist_add_head, unlock
KInsert(t) == \E n \in KNode :
    /\ kPc[t] = "insert" /\ kKey[n] = NULL
    /\ kKey' = [kKey EXCEPT ![n] = kArg[t]]
    /\ kChain' = [kChain EXCEPT ![KHash[kArg[t]]] = <<n>> \o @]
    /\ kLock' = NULL
    /\ KGoes(t, "done", NULL, "ok") /\ KDisturbs(t)
    /\ UNCHANGED <<kNoMem, kFault, kOp, kArg>>

\* line 126: kmalloc's NULL, and the return that keeps the lock
KInsertNoMem(t) == /\ kPc[t] = "insert" /\ kNoMem' = TRUE
                   /\ KGoes(t, "done", NULL, "nomem")
                   /\ UNCHANGED <<kHeap, kLock, kFault, kOp, kArg, kClean>>

\* Mutant: the node is freed before it is unlinked
KUnlinkFreed(t) == kPc[t] = "unlink" /\ \E i \in Matching(kArg[t]) :
    /\ kLock' = NULL
    /\ kKey' = [kKey EXCEPT ![kChain[KHash[kArg[t]]][i]] = NULL]
    /\ KGoes(t, "done", NULL, "ok") /\ KDisturbs(t)
    /\ UNCHANGED <<kChain, kNoMem, kFault, kOp, kArg>>

\* hlist_del of what the lookup found first, unlock
KUnlink(t) == kPc[t] = "unlink" /\ \E i \in Matching(kArg[t]) :
    /\ \A j \in Matching(kArg[t]) : i <= j
    /\ kChain' = [kChain EXCEPT ![KHash[kArg[t]]] = RemoveAt(@, i)]
    /\ kLock' = NULL
    /\ KGoes(t, "free", kChain[KHash[kArg[t]]][i], "ok") /\ KDisturbs(t)
    /\ UNCHANGED <<kKey, kNoMem, kFault, kOp, kArg>>

\* kfree, outside the lock
KFree(t) == /\ kPc[t] = "free" /\ kKey' = [kKey EXCEPT ![kPtr[t]] = NULL]
            /\ KGoes(t, "done", NULL, kRet[t])
            /\ UNCHANGED <<kChain, kLock, kNoMem, kFault, kOp, kArg, kClean>>

\* flush_base_hash_table: every chain is emptied node by node
KFlush(t) == /\ kPc[t] = "flush" /\ kLock' = NULL
             /\ kKey' = [n \in KNode |-> IF n \in KLinked THEN NULL ELSE kKey[n]]
             /\ kChain' = [b \in KBucket |-> <<>>]
             /\ KGoes(t, "done", NULL, "ok") /\ KDisturbs(t)
             /\ UNCHANGED <<kNoMem, kFault, kOp, kArg>>

\* Mutant: a duplicate keeps the lock
KLeaveLocked(t) == /\ kPc[t] = "leave" /\ kLock' = (IF kOp[t] = "add" THEN kLock ELSE NULL)
                   /\ KGoes(t, "done", NULL, kRet[t])
                   /\ UNCHANGED <<kHeap, kNoMem, kFault, kOp, kArg, kClean>>

\* unlock and return -1
KLeave(t) == /\ kPc[t] = "leave" /\ kLock' = NULL /\ KGoes(t, "done", NULL, kRet[t])
             /\ UNCHANGED <<kHeap, kNoMem, kFault, kOp, kArg, kClean>>

\* one turn of the unlocked walk: next is read, then the node is compared
KWalk(t) ==
    /\ kPc[t] = "walk"
    /\ \/ kPtr[t] = NULL /\ KGoes(t, "done", NULL, "fail") /\ UNCHANGED kFault
       \/ \E b \in KBucket : \E i \in DOMAIN kChain[b] :
              /\ kChain[b][i] = kPtr[t] /\ UNCHANGED kFault
              /\ IF kKey[kPtr[t]] = kArg[t] THEN KGoes(t, "done", kPtr[t], "ok")
                                            ELSE KGoes(t, "walk", KAfter(b, i), "pending")
       \/ kPtr[t] \in KNode \ KLinked /\ kFault' = t /\ UNCHANGED <<kPc, kPtr, kRet>>
    /\ UNCHANGED <<kHeap, kLock, kNoMem, kOp, kArg, kClean>>

KReturn(t) == /\ kPc[t] = "done" /\ KGoes(t, "idle", NULL, "none")
              /\ kOp' = [kOp EXCEPT ![t] = "none"] /\ kArg' = [kArg EXCEPT ![t] = NULL]
              /\ kClean' = [kClean EXCEPT ![t] = TRUE]
              /\ UNCHANGED <<kHeap, kLock, kNoMem, kFault>>

KStep(t) == \/ KCall(t) \/ KLockFind(t) \/ KInsert(t) \/ KInsertNoMem(t) \/ KUnlink(t)
            \/ KFree(t) \/ KFlush(t) \/ KLeave(t) \/ KWalk(t) \/ KReturn(t)
kNext == kFault = NULL /\ \E t \in Cpu : KStep(t)
KernelSpec == kInit /\ [][kNext]_kVars

-----------------------------------------------------------------------------
KCritical == {"insert", "unlink", "flush", "leave"}

\* An allocated node is in the one chain its key hashes to, once, or in the
\* hands of the one thread that has unlinked it; no two linked nodes have equal
\* keys.
KernelOwned ==
    /\ \A n \in KNode : kKey[n] # NULL <=>
           n \in KLinked \/ \E t \in Cpu : kPc[t] = "free" /\ kPtr[t] = n
    /\ \A b \in KBucket, c \in KBucket : \A i \in DOMAIN kChain[b], j \in DOMAIN kChain[c] :
           /\ kKey[kChain[b][i]] = kKey[kChain[c][j]] => b = c /\ i = j
           /\ kKey[kChain[b][i]] # NULL => KHash[kKey[kChain[b][i]]] = b
    /\ \A t \in Cpu : kPc[t] = "free" =>
           /\ kPtr[t] \notin KLinked
           /\ \A u \in Cpu \ {t} : kPc[u] = "free" => kPtr[u] # kPtr[t]

\* The lock is left behind by an addition that met kmalloc's NULL, once and for
\* ever, and by nothing else: every other path, over duplicates and missing
\* keys too, releases it, and no thread is in a critical section without it.
LockLeftBehind ==
    /\ kNoMem <=> kLock # NULL /\ kPc[kLock] \notin KCritical
    /\ \A t \in Cpu : kPc[t] \in KCritical => kLock = t

\* An unlocked lookup during which no other thread changed a chain reads no
\* freed node and finds its key exactly when it is there.
KernelLookup ==
    /\ kFault # NULL => ~kClean[kFault]
    /\ \A t \in Cpu : kOp[t] = "lookup" /\ kPc[t] = "done" /\ kClean[t] =>
           (kRet[t] = "ok" <=> Matching(kArg[t]) # {})

\* Additions, deletions and flushes are those of a set of keys, each taking
\* effect at one moment between its call and its return.
KSet == INSTANCE KeyTable WITH Thread <- Cpu, Key <- KKey,
    present <- {kKey[n] : n \in KLinked},
    op  <- [t \in Cpu |-> IF kOp[t] = "lookup" THEN "none" ELSE kOp[t]],
    arg <- [t \in Cpu |-> IF kOp[t] = "lookup" THEN NULL ELSE kArg[t]],
    ret <- [t \in Cpu |-> IF kOp[t] = "lookup" THEN "none" ELSE kRet[t]]
KernelIsSet == KSet!Init /\ [][KSet!Next]_(KSet!vars)

=============================================================================
