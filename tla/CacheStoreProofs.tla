--------------------------- MODULE CacheStoreProofs ---------------------------
(* Proofs about CacheStore for every number of threads, slots and blocks. *)
EXTENDS CacheStore, FiniteSetTheorems, TLAPS

\* What each variable is.
Types ==
    /\ map \in SUBSET Slot /\ dropped \in SUBSET Slot
    /\ cacheLock \in Caller \cup {NULL}
    /\ heap \in SUBSET Heap
    /\ csOpen \in BOOLEAN /\ csFault \in BOOLEAN
    /\ csPc \in [Caller -> {"idle", "search", "take", "unlock", "none", "clear"}]
    /\ csOp \in [Caller -> {"none", "get", "put", "malloc", "free"}]
    /\ csArg \in [Caller -> Slot]
    /\ held \in [Caller -> SUBSET (Slot \cup Heap)]

\* The counter follows the map.
Counts == num = Cardinality(map)

\* The lock is held between the search and the end of get_cache_store.
Locks == \A t \in Caller : csPc[t] \in {"take", "unlock"} <=> cacheLock = t

\* The slot that was found is still free, and nobody has it.
Found == \A t \in Caller : csPc[t] = "take" => csArg[t] \notin map

\* A slot that is given back is marked as used, and one thread gives it back.
GivenBack ==
    \A t \in Caller : csPc[t] = "clear" =>
        /\ csArg[t] \in map \ dropped
        /\ \A u \in Caller :
              /\ csArg[t] \notin held[u]
              /\ u # t => ~(csPc[u] = "clear" /\ csArg[u] = csArg[t])

\* What callers hold is marked as used, and held once.
Held ==
    \A t \in Caller :
        /\ held[t] \subseteq map \cup heap
        /\ held[t] \cap dropped \subseteq {}
        /\ \A u \in Caller : t # u => held[t] \cap held[u] = {}

\* A slot that went to cache_free stays marked until the store is closed.
Dropped == csOpen => dropped \subseteq map

\* Nobody is inside a function of a closed store.
Closed == ~csOpen => NobodyUses

IInv == /\ Types /\ Counts /\ Locks /\ Found /\ GivenBack /\ Held
        /\ Dropped /\ Closed /\ NoSlotLost

-----------------------------------------------------------------------------
\* A slot is never a heap block, and there are finitely many slots.
LEMMA SlotFacts ==
    /\ Slot \subseteq Nat /\ Slot \cap Heap = {} /\ IsFiniteSet(Slot)
    /\ \A m \in SUBSET Slot : IsFiniteSet(m) /\ Cardinality(m) \in Nat
<1>1. Slot \subseteq Nat /\ Slot \cap Heap = {}
  BY CallerAssumption, MaxAssumption DEF Slot
<1>2. IsFiniteSet(Slot)
  BY FS_Interval, MaxAssumption DEF Slot
<1>3. ASSUME NEW m \in SUBSET Slot
      PROVE  IsFiniteSet(m) /\ Cardinality(m) \in Nat
  <2>1. m \subseteq Slot
    OBVIOUS
  <2>2. IsFiniteSet(m)
    BY <1>2, <2>1, FS_Subset, Zenon
  <2>3. QED
    BY <2>2, FS_CardinalityType, Zenon
<1>4. QED
  BY <1>1, <1>2, <1>3

\* The store starts empty.
LEMMA InitInv == csInit => IInv
<1> SUFFICES ASSUME csInit PROVE IInv
  OBVIOUS
<1>1. Types
  <2>1. 0 \in Slot
    BY MaxAssumption DEF Slot
  <2>2. /\ csPc \in [Caller -> {"idle", "search", "take", "unlock", "none", "clear"}]
        /\ csOp \in [Caller -> {"none", "get", "put", "malloc", "free"}]
    BY DEF csInit
  <2>3. csArg \in [Caller -> Slot] /\ held \in [Caller -> SUBSET (Slot \cup Heap)]
    BY <2>1 DEF csInit
  <2>4. QED
    BY <2>2, <2>3 DEF csInit, Types
<1>2. Counts
  BY FS_EmptySet DEF csInit, Counts
<1>3. QED
  BY <1>1, <1>2, CallerAssumption DEF csInit, IInv, Locks, Found, GivenBack, Held, Dropped,
     Closed, NoSlotLost

\* CallGet touches neither the map nor what is held.
LEMMA CallGetInv == ASSUME IInv, NEW t \in Caller, CallGet(t) PROVE IInv'
<1> USE DEF IInv, CallGet, csGoto
<1>1. Types'
  BY DEF Types
<1>2. Counts'
  BY DEF Counts
<1>3. Locks' /\ Found' /\ GivenBack'
  BY DEF Types, Locks, Found, GivenBack
<1>4. Held' /\ Dropped' /\ Closed'
  BY DEF Held, Dropped, Closed
<1>5. NoSlotLost'
  BY DEF Types, NoSlotLost
<1>6. QED
  BY <1>1, <1>2, <1>3, <1>4, <1>5

\* Search finds a free slot and takes the lock.
LEMMA SearchInv == ASSUME IInv, NEW t \in Caller, Search(t) PROVE IInv'
<1> USE DEF IInv, Search, csGoto
<1>1. Types'
  BY DEF Types
<1>2. Counts'
  BY DEF Counts
<1>3. Locks'
  BY CallerAssumption DEF Types, Locks
<1>4. Found' /\ GivenBack'
  BY DEF Types, Found, GivenBack
<1>5. Held' /\ Dropped' /\ Closed'
  BY DEF Types, Held, Dropped, Closed, NobodyUses
<1>6. NoSlotLost'
  BY DEF Types, NoSlotLost
<1>7. QED
  BY <1>1, <1>2, <1>3, <1>4, <1>5, <1>6

\* Take marks a slot that was free: the counter grows with the map.
LEMMA TakeInv == ASSUME IInv, NEW t \in Caller, TakeSlot(t) PROVE IInv'
<1> USE DEF IInv, TakeSlot, csGoto, Keeps
<1>0. csArg[t] \in Slot /\ csArg[t] \notin map /\ cacheLock = t /\ csOpen
  BY DEF Types, Found, Locks, Closed, NobodyUses
<1>1. Types'
  BY <1>0 DEF Types
<1>2. Counts'
  BY <1>0, FS_AddElement, SlotFacts DEF Types, Counts
<1>3. Locks'
  BY CallerAssumption DEF Types, Locks
<1>4. Found'
  BY <1>0 DEF Types, Found, Locks
<1>5. GivenBack'
  BY <1>0 DEF Types, GivenBack
<1>6. Held'
  <2>1. \A u \in Caller : csArg[t] \notin held[u]
    BY <1>0, SlotFacts DEF Types, Held
  <2>2. csArg[t] \notin dropped
    BY <1>0 DEF Dropped
  <2>3. QED
    BY <1>0, <2>1, <2>2 DEF Types, Held
<1>7. Dropped' /\ Closed'
  BY <1>0 DEF Dropped, Closed
<1>8. NoSlotLost'
  BY <1>0 DEF Types, NoSlotLost
<1>9. QED
  BY <1>1, <1>2, <1>3, <1>4, <1>5, <1>6, <1>7, <1>8

\* Unlock gives up without a slot.
LEMMA UnlockInv == ASSUME IInv, NEW t \in Caller, GiveUp(t) PROVE IInv'
<1> USE DEF IInv, GiveUp, csGoto
<1>1. Types'
  BY DEF Types
<1>2. Counts'
  BY DEF Counts
<1>3. Locks'
  BY CallerAssumption DEF Types, Locks
<1>4. Found' /\ GivenBack'
  BY DEF Types, Found, GivenBack
<1>5. Held' /\ Dropped' /\ Closed'
  BY DEF Types, Held, Dropped, Closed, NobodyUses
<1>6. NoSlotLost'
  BY DEF Types, NoSlotLost
<1>7. QED
  BY <1>1, <1>2, <1>3, <1>4, <1>5, <1>6

\* NoSlot hands out a heap block that nobody has, or nothing.
LEMMA NoSlotInv == ASSUME IInv, NEW t \in Caller, NoSlot(t) PROVE IInv'
<1> USE DEF IInv, NoSlot, csGoto, Keeps
<1>0. csOpen
  BY DEF Closed, NobodyUses
<1>1. Types'
  BY DEF Types
<1>2. Counts'
  BY DEF Counts
<1>3. Locks' /\ Found'
  BY DEF Types, Locks, Found
<1>4. GivenBack'
  BY SlotFacts DEF Types, GivenBack
<1>5. Held'
  <2>1. CASE UNCHANGED <<heap, held>>
    BY <2>1 DEF Held
  <2>2. ASSUME NEW h \in Heap \ heap, heap' = heap \cup {h}, Keeps(t, h)
        PROVE  Held'
    <3>1. \A u \in Caller : h \notin held[u]
      BY <2>2, SlotFacts DEF Types, Held
    <3>2. h \notin dropped
      BY <2>2, SlotFacts DEF Types
    <3>3. QED
      BY <2>2, <3>1, <3>2 DEF Types, Held
  <2>3. QED
    BY <2>1, <2>2
<1>6. Dropped' /\ Closed'
  BY <1>0 DEF Dropped, Closed
<1>7. NoSlotLost'
  BY DEF Types, NoSlotLost
<1>8. QED
  BY <1>1, <1>2, <1>3, <1>4, <1>5, <1>6, <1>7

\* CallPut moves a slot from the caller's hands to the function's.
LEMMA CallPutInv == ASSUME IInv, NEW t \in Caller, CallPut(t) PROVE IInv'
<1> USE DEF IInv
<1>0. PICK a \in held[t] : CallPut(t)!(a)
  BY DEF CallPut
<1> USE <1>0 DEF csGoto, Gives
<1>1. a \in Slot /\ a \in map \ dropped
  BY SlotFacts, MaxAssumption DEF IsCacheAddr, Slot, Types, Held
<1>2. Types'
  BY <1>1 DEF Types
<1>3. Counts'
  BY DEF Counts
<1>4. Locks' /\ Found'
  BY DEF Types, Locks, Found
<1>5. GivenBack'
  BY <1>1 DEF Types, GivenBack, Held
<1>6. Held'
  BY DEF Types, Held
<1>7. Dropped' /\ Closed'
  BY DEF Dropped, Closed
<1>8. NoSlotLost'
  BY DEF Types, NoSlotLost
<1>9. QED
  BY <1>2, <1>3, <1>4, <1>5, <1>6, <1>7, <1>8

\* A refused address changes nothing.
LEMMA CallPutElseInv == ASSUME IInv, NEW t \in Caller, CallPutElse(t) PROVE IInv'
  BY DEF IInv, CallPutElse, Types, Counts, Locks, Found, GivenBack, Held, Dropped,
     Closed, NobodyUses, NoSlotLost

\* Clear unmarks a slot that was marked: the counter shrinks with the map.
LEMMA ClearInv == ASSUME IInv, NEW t \in Caller, Clear(t) PROVE IInv'
<1> USE DEF IInv, Clear, csGoto
<1>0. csArg[t] \in map \ dropped /\ \A u \in Caller : csArg[t] \notin held[u]
  BY DEF GivenBack
<1>1. Types'
  BY DEF Types
<1>2. Counts'
  BY <1>0, FS_RemoveElement, SlotFacts DEF Types, Counts
<1>3. Locks' /\ Found'
  BY CallerAssumption DEF Types, Locks, Found
<1>4. GivenBack'
  BY <1>0 DEF Types, GivenBack
<1>5. Held'
  BY <1>0 DEF Types, Held
<1>6. Dropped' /\ Closed'
  BY <1>0 DEF Dropped, Closed, NobodyUses
<1>7. NoSlotLost'
  BY <1>0 DEF Types, NoSlotLost
<1>8. QED
  BY <1>1, <1>2, <1>3, <1>4, <1>5, <1>6, <1>7

\* CallFree frees a heap block, or leaves a slot marked for good.
LEMMA CallFreeInv == ASSUME IInv, NEW t \in Caller, CallFree(t) PROVE IInv'
<1> USE DEF IInv
<1>0. PICK a \in held[t] : CallFree(t)!(a)
  BY DEF CallFree
<1> USE <1>0 DEF Gives
<1>1. /\ a \in Slot \/ a \in Heap
      /\ a \in Slot => a \in map \ dropped
      /\ IsCacheAddr(a) => a \in Slot
      /\ a = MaxNum => a \in Slot
  BY SlotFacts, MaxAssumption DEF IsCacheAddr, Slot, Types, Held
<1>2. Types'
  BY <1>1 DEF Types
<1>3. Counts'
  BY DEF Counts
<1>4. Locks' /\ Found'
  BY DEF Types, Locks, Found
<1>5. GivenBack'
  BY <1>1 DEF Types, GivenBack
<1>6. Held'
  BY <1>1, SlotFacts DEF Types, Held
<1>7. Dropped' /\ Closed'
  BY <1>1 DEF Dropped, Closed
<1>8. NoSlotLost'
  BY <1>1, SlotFacts DEF Types, NoSlotLost
<1>9. QED
  BY <1>2, <1>3, <1>4, <1>5, <1>6, <1>7, <1>8

\* The store is closed and opened again when nobody uses a slot.
LEMMA LifeInv == ASSUME IInv, CacheDeinit \/ Destory \/ CacheInit PROVE IInv'
<1> USE DEF IInv
<1>0. NobodyUses /\ NobodyUses'
  BY DEF CacheDeinit, Destory, CacheInit, Closed, NobodyUses
<1>1. \A t \in Caller : held[t] \subseteq heap
  BY <1>0, SlotFacts DEF Types, Held, NobodyUses
<1>2. cacheLock = NULL
  BY <1>0 DEF NobodyUses, Locks, Types
<1> USE DEF CacheDeinit, Destory, CacheInit
<1>3. Types'
  BY DEF Types
<1>4. Counts'
  BY FS_EmptySet DEF Counts
<1>5. Locks' /\ Found' /\ GivenBack'
  BY <1>0, <1>2, CallerAssumption DEF NobodyUses, Locks, Found, GivenBack
<1>6. Held'
  BY <1>1 DEF Held
<1>7. Dropped' /\ Closed'
  BY <1>0 DEF Dropped, Closed
<1>8. NoSlotLost'
  BY DEF NoSlotLost
<1>9. QED
  BY <1>3, <1>4, <1>5, <1>6, <1>7, <1>8

\* The invariant is inductive.
THEOREM Inductive == csSpec => []IInv
<1>1. csInit => IInv
  BY InitInv
<1>2. IInv /\ [csNext]_csVars => IInv'
  <2> SUFFICES ASSUME IInv, [csNext]_csVars PROVE IInv'
    OBVIOUS
  <2>1. CASE UNCHANGED csVars
    BY <2>1 DEF csVars, IInv, Types, Counts, Locks, Found, GivenBack, Held, Dropped,
       Closed, NobodyUses, NoSlotLost
  <2>2. ASSUME NEW t \in Caller, csStep(t) PROVE IInv'
    BY <2>2, CallGetInv, SearchInv, TakeInv, UnlockInv, NoSlotInv, CallPutInv,
       CallPutElseInv, ClearInv, CallFreeInv DEF csStep
  <2>3. CASE CacheDeinit \/ Destory \/ CacheInit
    BY <2>3, LifeInv
  <2>4. QED
    BY <2>1, <2>2, <2>3 DEF csNext
<1>3. QED
  BY <1>1, <1>2, PTL DEF csSpec

\* No buffer is given to two callers, and a slot in use is marked: a free slot is
\* never somebody's, whatever the callers do at the same time.
THEOREM OneCaller == csSpec => []Exclusive
<1>1. IInv => Exclusive
  BY SlotFacts DEF IInv, Types, Held, Exclusive, Slots
<1>2. QED
  BY <1>1, Inductive, PTL

\* The counter that is tested before the lock counts the bits of the map.
THEOREM CounterExact == csSpec => []NumCounts
<1>1. IInv => NumCounts
  BY DEF IInv, Counts, NumCounts
<1>2. QED
  BY <1>1, Inductive, PTL

\* Every bit that is set belongs to somebody: slots are lost to cache_free only.
THEOREM SlotsKept == csSpec => []NoSlotLost
<1>1. IInv => NoSlotLost
  BY DEF IInv
<1>2. QED
  BY <1>1, Inductive, PTL

=============================================================================
