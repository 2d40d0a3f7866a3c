------------------------------ MODULE CacheStore ------------------------------
(***************************************************************************)
(* The pool of fixed-size buffers of cache.c: one block of CACHE_MAX_NUM   *)
(* slots, a bit map of the slots in use, a counter, a spin lock.  A buffer *)
(* is the index of its slot, or a heap block that cache_malloc falls back  *)
(* to; data_head + i * CACHE_SIZE and check_addr_is_cache_addr convert     *)
(* between the two.  Callers give back what they hold, once.               *)
(***************************************************************************)
EXTENDS Null, Naturals, FiniteSets

CONSTANTS
    Caller,     \* the callers
    MaxNum,     \* CACHE_MAX_NUM
    Heap,       \* the blocks malloc can return to cache_malloc
    Ops         \* the functions the callers use

Slot == 0 .. MaxNum   \* the bits get_cache_store looks at: one more than there are slots

ASSUME MaxAssumption == MaxNum \in Nat
ASSUME CallerAssumption == /\ NULL \notin Caller /\ Heap \cap Nat = {}
                           /\ Ops \subseteq {"get", "put", "malloc", "free"}

VARIABLES
    map,        \* the bits that are set
    num,        \* the counter
    cacheLock,  \* its owner, NULL while it is free
    csOpen,     \* between cache_init and cache_deinit
    heap,       \* the blocks cache_malloc got from malloc
    csFault,    \* free() was called with an address inside the block of slots
    csPc, csOp, csArg,  \* per thread: next step, function, slot
    held,       \* per thread: the buffers it uses
    dropped     \* the slots that were passed to cache_free

csVars == <<map, num, cacheLock, csOpen, heap, csFault, csPc, csOp, csArg, held, dropped>>

csGoto(t, l) == csPc' = [csPc EXCEPT ![t] = l]
Keeps(t, a) == held' = [held EXCEPT ![t] = @ \cup {a}]
Gives(t, a) == held' = [held EXCEPT ![t] = @ \ {a}]

\* check_addr_is_cache_addr
IsCacheAddr(a) == a \in 0 .. MaxNum - 1

-----------------------------------------------------------------------------
(* get_cache_store, cache_malloc *)

Full(n) == n >= MaxNum

\* the counter is read before the lock is taken
CallGet(t) == \E o \in {"get", "malloc"} \cap Ops :
    /\ csOpen /\ csPc[t] = "idle"
    /\ csOp' = [csOp EXCEPT ![t] = o]
    /\ \/ ~Full(num) /\ csGoto(t, "search")
       \/ Full(num) /\ csGoto(t, "none")
    /\ UNCHANGED <<map, num, cacheLock, csOpen, heap, csFault, csArg, held, dropped>>

\* Mutant: the search does not wait for the lock
SearchUnlocked(t) ==
    /\ csPc[t] = "search"
    /\ cacheLock' = t
    /\ \/ \E i \in Slot \ map : /\ \A j \in Slot \ map : i <= j
                                /\ csArg' = [csArg EXCEPT ![t] = i]
                                /\ csGoto(t, "take")
       \/ Slot \subseteq map /\ csGoto(t, "unlock") /\ UNCHANGED csArg
    /\ UNCHANGED <<map, num, csOpen, heap, csFault, csOp, held, dropped>>

\* the first bit that is not set, of MaxNum + 1 bits
Search(t) ==
    /\ csPc[t] = "search"
    /\ cacheLock = NULL /\ cacheLock' = t
    /\ \/ \E i \in Slot \ map : /\ \A j \in Slot \ map : i <= j
                                /\ csArg' = [csArg EXCEPT ![t] = i]
                                /\ csGoto(t, "take")
       \/ Slot \subseteq map /\ csGoto(t, "unlock") /\ UNCHANGED csArg
    /\ UNCHANGED <<map, num, csOpen, heap, csFault, csOp, held, dropped>>

TakeSlot(t) ==
    /\ csPc[t] = "take"
    /\ map' = map \cup {csArg[t]}
    /\ num' = num + 1
    /\ cacheLock' = NULL
    /\ Keeps(t, csArg[t])
    /\ csGoto(t, "idle")
    /\ UNCHANGED <<csOpen, heap, csFault, csOp, csArg, dropped>>

GiveUp(t) ==
    /\ csPc[t] = "unlock"
    /\ cacheLock' = NULL
    /\ csGoto(t, "none")
    /\ UNCHANGED <<map, num, csOpen, heap, csFault, csOp, csArg, held, dropped>>

\* get_cache_store returns NULL; cache_malloc turns to malloc, which may fail
NoSlot(t) ==
    /\ csPc[t] = "none"
    /\ \/ UNCHANGED <<heap, held>>
       \/ /\ csOp[t] = "malloc"
          /\ \E h \in Heap \ heap : heap' = heap \cup {h} /\ Keeps(t, h)
    /\ csGoto(t, "idle")
    /\ UNCHANGED <<map, num, cacheLock, csOpen, csFault, csOp, csArg, dropped>>

-----------------------------------------------------------------------------
(* put_cache_store, cache_free *)

CallPut(t) == \E a \in held[t] :
    /\ "put" \in Ops /\ csOpen /\ csPc[t] = "idle" /\ IsCacheAddr(a)
    /\ Gives(t, a)
    /\ csOp'  = [csOp EXCEPT ![t] = "put"]
    /\ csArg' = [csArg EXCEPT ![t] = a]
    /\ csGoto(t, "clear")
    /\ UNCHANGED <<map, num, cacheLock, csOpen, heap, csFault, dropped>>

\* an address that is not a slot is refused; the caller keeps the buffer
CallPutElse(t) ==
    /\ "put" \in Ops /\ csOpen /\ csPc[t] = "idle"
    /\ \E a \in held[t] : ~IsCacheAddr(a)
    /\ csOp' = [csOp EXCEPT ![t] = "put"]
    /\ UNCHANGED <<map, num, cacheLock, csOpen, heap, csFault, csPc, csArg, held, dropped>>

\* Mutant: the counter is not decremented
ClearBit(t) ==
    /\ csPc[t] = "clear" /\ cacheLock = NULL
    /\ map' = map \ {csArg[t]}
    /\ csGoto(t, "idle")
    /\ UNCHANGED <<num, cacheLock, csOpen, heap, csFault, csOp, csArg, held, dropped>>

\* Mutant: only the counter is decremented
ClearNum(t) ==
    /\ csPc[t] = "clear" /\ cacheLock = NULL
    /\ num' = num - 1
    /\ csGoto(t, "idle")
    /\ UNCHANGED <<map, cacheLock, csOpen, heap, csFault, csOp, csArg, held, dropped>>

\* lock, clear the bit, decrement the counter, unlock
Clear(t) ==
    /\ csPc[t] = "clear" /\ cacheLock = NULL
    /\ map' = map \ {csArg[t]}
    /\ num' = num - 1
    /\ csGoto(t, "idle")
    /\ UNCHANGED <<cacheLock, csOpen, heap, csFault, csOp, csArg, held, dropped>>

\* cache_free frees what is not a slot; a slot stays marked as used
CallFree(t) == \E a \in held[t] :
    /\ "free" \in Ops /\ csOpen /\ csPc[t] = "idle"
    /\ Gives(t, a)
    /\ csOp' = [csOp EXCEPT ![t] = "free"]
    /\ \/ IsCacheAddr(a) /\ dropped' = dropped \cup {a} /\ UNCHANGED <<heap, csFault>>
       \/ a \in Heap /\ heap' = heap \ {a} /\ UNCHANGED <<dropped, csFault>>
       \/ a = MaxNum /\ csFault' = TRUE /\ UNCHANGED <<dropped, heap>>
    /\ UNCHANGED <<map, num, cacheLock, csOpen, csPc, csArg>>

-----------------------------------------------------------------------------
NobodyUses == \A t \in Caller : csPc[t] = "idle" /\ held[t] \subseteq Heap

\* cache_deinit: nobody uses a slot any more
CacheDeinit ==
    /\ csOpen /\ NobodyUses
    /\ csOpen' = FALSE
    /\ UNCHANGED <<map, num, cacheLock, heap, csFault, csPc, csOp, csArg, held, dropped>>

\* cache_destory clears the map of a store that has lost its block
Destory ==
    /\ csOpen /\ NobodyUses
    /\ csOpen' = FALSE /\ map' = {} /\ num' = 0
    /\ UNCHANGED <<cacheLock, heap, csFault, csPc, csOp, csArg, held, dropped>>

CacheInit ==
    /\ ~csOpen
    /\ csOpen' = TRUE /\ map' = {} /\ num' = 0 /\ cacheLock' = NULL /\ dropped' = {}
    /\ UNCHANGED <<heap, csFault, csPc, csOp, csArg, held>>

csInit ==
    /\ map = {} /\ num = 0 /\ cacheLock = NULL /\ csOpen = TRUE
    /\ heap = {} /\ csFault = FALSE /\ dropped = {}
    /\ csPc   = [t \in Caller |-> "idle"]
    /\ csOp   = [t \in Caller |-> "none"]
    /\ csArg  = [t \in Caller |-> 0]
    /\ held = [t \in Caller |-> {}]

csStep(t) == \/ CallGet(t) \/ Search(t) \/ TakeSlot(t) \/ GiveUp(t) \/ NoSlot(t)
             \/ CallPut(t) \/ CallPutElse(t) \/ Clear(t) \/ CallFree(t)

csNext == /\ ~csFault
          /\ (\E t \in Caller : csStep(t)) \/ CacheDeinit \/ Destory \/ CacheInit

csSpec == csInit /\ [][csNext]_csVars

-----------------------------------------------------------------------------
(* Properties *)

Slots(t) == held[t] \cap Slot

\* No buffer is given to two callers at a time, and no slot whose bit is clear is
\* in use.
Exclusive ==
    /\ \A t, u \in Caller : t # u => held[t] \cap held[u] = {}
    /\ csOpen => \A t \in Caller : Slots(t) \subseteq map

\* Whenever the lock is free, num is the number of bits set in map: the test of
\* num before the lock and the search of map under it count the same buffers.
NumCounts == cacheLock = NULL => num = Cardinality(map)

\* No slot is lost: a bit that is set belongs to a buffer a caller holds or is
\* giving back, or to one that went to cache_free, which keeps it for good.
NoSlotLost ==
    csOpen /\ ~csFault => \A i \in map :
        \/ \E t \in Caller : i \in held[t] \/ (csPc[t] = "clear" /\ csArg[t] = i)
        \/ i \in dropped

\* Every buffer lies inside the block of CACHE_MAX_NUM slots: the test `cache is
\* full' of get_cache_store keeps the callers from getting more.
InBlock == \A t \in Caller : MaxNum \notin held[t]

=============================================================================
