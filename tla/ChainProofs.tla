------------------------------ MODULE ChainProofs ------------------------------
(***************************************************************************)
(* Proofs about two linked structures that have no name in common:         *)
(* KernelHash, for every number of callers, nodes and chains, and LfQueue, *)
(* for one thread and every number of nodes and elements.                  *)
(***************************************************************************)
EXTENDS KernelHash, LfQueue, ListLemmas, FiniteSetTheorems

KPcs == {"idle", "lock", "insert", "unlink", "flush", "leave", "free", "walk", "done"}
KOps == {"none", "add", "del", "lookup", "flush"}

\* What each variable is.
KTypes ==
    /\ kChain \in [KBucket -> Seq(KNode)]
    /\ kKey \in [KNode -> KKey \cup {NULL}]
    /\ kLock \in Cpu \cup {NULL} /\ kNoMem \in BOOLEAN
    /\ kPc \in [Cpu -> KPcs] /\ kOp \in [Cpu -> KOps]
    /\ kArg \in [Cpu -> KKey \cup {NULL}]
    /\ kPtr \in [Cpu -> KNode \cup {NULL}]

\* Which function is at which step, and what it has in hand there.
ControlOf(t) ==
    /\ kOp[t] \in {"add", "del", "lookup"} => kArg[t] \in KKey
    /\ kPc[t] = "lock" => kOp[t] \in {"add", "del", "flush"}
    /\ kPc[t] = "insert" => kOp[t] = "add"
    /\ kPc[t] = "unlink" => kOp[t] = "del"
    /\ kPc[t] = "walk" => kOp[t] = "lookup"
    /\ kPc[t] = "free" => kPtr[t] \in KNode
KControl == \A t \in Cpu : ControlOf(t)

\* Nobody can have added the key of a thread that is about to insert it.
KAbsent == \A t \in Cpu : kPc[t] = "insert" => Matching(kArg[t]) = {}

KInv == KTypes /\ KControl /\ LockLeftBehind /\ KAbsent /\ KernelOwned

-----------------------------------------------------------------------------
\* Heads and successors of chains are nodes, or missing.
LEMMA KChainTypes ==
    ASSUME KTypes, NEW b \in KBucket
    PROVE  /\ KHead(b) \in KNode \cup {NULL}
           /\ \A i \in DOMAIN kChain[b] : kChain[b][i] \in KNode /\ KAfter(b, i) \in KNode \cup {NULL}
  BY DEF KTypes, KHead, KAfter

\* A key hashes to a chain.
LEMMA KHashTypes == \A k \in KKey : KHash[k] \in KBucket
  BY KernelAssumption

\* The parts of the invariant about steps and the lock hold at the beginning.
LEMMA KInitInv == kInit => KInv
<1> SUFFICES ASSUME kInit PROVE KInv
  OBVIOUS
<1> USE KernelAssumption DEF kInit
<1>1. KTypes
  <2>1. <<>> \in Seq(KNode)
    OBVIOUS
  <2>2. kChain \in [KBucket -> Seq(KNode)]
    BY <2>1
  <2>3. /\ kPc \in [Cpu -> KPcs] /\ kOp \in [Cpu -> KOps]
        /\ kArg \in [Cpu -> KKey \cup {NULL}]
        /\ kPtr \in [Cpu -> KNode \cup {NULL}]
        /\ kKey \in [KNode -> KKey \cup {NULL}]
    BY DEF KPcs, KOps
  <2>4. QED
    BY <2>2, <2>3 DEF KTypes
<1>2. KControl /\ LockLeftBehind /\ KAbsent
  BY DEF KControl, ControlOf, LockLeftBehind, KAbsent, KCritical
<1>3. KLinked = {}
  BY DEF KLinked, ToSet
<1>4. \A b \in KBucket : DOMAIN kChain[b] = {}
  OBVIOUS
<1>5. KernelOwned
  BY <1>3, <1>4 DEF KernelOwned
<1>6. QED
  BY <1>1, <1>2, <1>5 DEF KInv

\* A turn of the unlocked walk moves its thread on and changes nothing else.
LEMMA KWalkMoves ==
    ASSUME KTypes, NEW t \in Cpu, KWalk(t)
    PROVE  /\ kPc[t] = "walk" /\ UNCHANGED <<kChain, kKey, kLock, kNoMem, kOp, kArg>>
           /\ \E l \in {"walk", "done"}, n \in KNode \cup {NULL} :
                  kPc' = [kPc EXCEPT ![t] = l] /\ kPtr' = [kPtr EXCEPT ![t] = n]
<1>1. kPc[t] = "walk" /\ UNCHANGED <<kChain, kKey, kLock, kNoMem, kOp, kArg>>
  BY DEF KWalk, kHeap
<1>2. CASE kPtr[t] = NULL /\ KGoes(t, "done", NULL, "fail")
  BY <1>1, <1>2 DEF KGoes
<1>3. ASSUME NEW b \in KBucket, NEW i \in DOMAIN kChain[b], kChain[b][i] = kPtr[t],
             IF kKey[kPtr[t]] = kArg[t] THEN KGoes(t, "done", kPtr[t], "ok")
                                        ELSE KGoes(t, "walk", KAfter(b, i), "pending")
      PROVE  \E l \in {"walk", "done"}, n \in KNode \cup {NULL} :
                 kPc' = [kPc EXCEPT ![t] = l] /\ kPtr' = [kPtr EXCEPT ![t] = n]
  <2>1. KAfter(b, i) \in KNode \cup {NULL} /\ kPtr[t] \in KNode
    BY <1>3, KChainTypes
  <2>2. QED
    BY <1>3, <2>1 DEF KGoes
<1>4. CASE UNCHANGED <<kPc, kPtr>>
  <2>1. kPc' = [kPc EXCEPT ![t] = "walk"] /\ kPtr' = [kPtr EXCEPT ![t] = kPtr[t]]
    BY <1>1, <1>4 DEF KTypes
  <2>2. kPtr[t] \in KNode \cup {NULL}
    BY DEF KTypes
  <2>3. QED
    BY <1>1, <2>1, <2>2
<1>5. QED
  BY <1>1, <1>2, <1>3, <1>4 DEF KWalk

\* Types and the control state are inductive.
LEMMA KTypesStep ==
    ASSUME KTypes, KControl, [kNext]_kVars
    PROVE  KTypes' /\ KControl'
<1> USE KernelAssumption, KHashTypes DEF KTypes, KControl, KPcs, KOps, KGoes, kHeap
<1>1. CASE UNCHANGED kVars
  BY <1>1 DEF kVars, ControlOf
<1>2. ASSUME NEW t \in Cpu, KCall(t) PROVE KTypes' /\ KControl'
  <2>1. PICK o \in {"add", "del", "lookup", "flush"}, k \in KKey \cup {NULL} :
            /\ kPc[t] = "idle" /\ (k = NULL <=> o = "flush")
            /\ kOp' = [kOp EXCEPT ![t] = o] /\ kArg' = [kArg EXCEPT ![t] = k]
            /\ IF o = "lookup" THEN KGoes(t, "walk", KHead(KHash[k]), "pending")
                               ELSE KGoes(t, "lock", NULL, "pending")
            /\ UNCHANGED <<kHeap, kLock, kNoMem, kFault, kClean>>
    BY <1>2 DEF KCall
  <2>2. o = "lookup" => KHead(KHash[k]) \in KNode \cup {NULL}
    BY <2>1, KChainTypes
  <2>3. /\ kPtr' \in [Cpu -> KNode \cup {NULL}]
        /\ kPc' \in [Cpu -> KPcs] /\ kOp' \in [Cpu -> KOps]
        /\ kArg' \in [Cpu -> KKey \cup {NULL}]
    <3>1. kOp' \in [Cpu -> KOps] /\ kArg' \in [Cpu -> KKey \cup {NULL}]
      BY <2>1
    <3>2. PICK l \in {"walk", "lock"}, n \in KNode \cup {NULL} :
              kPc' = [kPc EXCEPT ![t] = l] /\ kPtr' = [kPtr EXCEPT ![t] = n]
      BY <2>1, <2>2
    <3>3. QED
      BY <3>1, <3>2
  <2>4. KTypes'
    BY <2>1, <2>3
  <2>5. ASSUME NEW u \in Cpu PROVE ControlOf(u)'
    <3>1. CASE u = t /\ o = "lookup"
      BY <2>1, <3>1 DEF ControlOf
    <3>2. CASE u = t /\ o # "lookup"
      BY <2>1, <3>2 DEF ControlOf
    <3>3. CASE u # t
      BY <2>1, <3>3 DEF ControlOf
    <3>4. QED
      BY <3>1, <3>2, <3>3
  <2>6. QED
    BY <2>4, <2>5
<1>3. ASSUME NEW t \in Cpu, KLockFind(t) PROVE KTypes' /\ KControl'
  <2>1. PICK l \in {"insert", "unlink", "flush", "leave"}, r \in {"pending", "fail"} :
            /\ KGoes(t, l, NULL, r)
            /\ l = "insert" => kOp[t] = "add"
            /\ l = "unlink" => kOp[t] = "del"
    BY <1>3 DEF KLockFind
  <2>2. kPc[t] = "lock" /\ kLock' = t /\ UNCHANGED <<kHeap, kNoMem, kFault, kOp, kArg, kClean>>
    BY <1>3 DEF KLockFind, KTake
  <2>3. KTypes'
    BY <2>1, <2>2
  <2>4. ASSUME NEW u \in Cpu PROVE ControlOf(u)'
    <3>1. CASE u = t
      BY <2>1, <2>2, <3>1 DEF ControlOf
    <3>2. CASE u # t
      BY <2>1, <2>2, <3>2 DEF ControlOf
    <3>3. QED
      BY <3>1, <3>2
  <2>5. QED
    BY <2>3, <2>4
<1>4. ASSUME NEW t \in Cpu, KInsert(t) PROVE KTypes' /\ KControl'
  <2>1. PICK n \in KNode :
            /\ kKey' = [kKey EXCEPT ![n] = kArg[t]]
            /\ kChain' = [kChain EXCEPT ![KHash[kArg[t]]] = <<n>> \o @]
    BY <1>4 DEF KInsert, ControlOf
  <2>2. kArg[t] \in KKey /\ KHash[kArg[t]] \in KBucket
    BY <1>4 DEF KInsert, ControlOf
  <2>3. kChain' \in [KBucket -> Seq(KNode)]
    BY <2>1, <2>2, LinkHeadPlaces
  <2>4. QED
    BY <1>4, <2>1, <2>3 DEF KInsert, ControlOf
<1>5. ASSUME NEW t \in Cpu, KInsertNoMem(t) PROVE KTypes' /\ KControl'
  BY <1>5 DEF KInsertNoMem, ControlOf
<1>6. ASSUME NEW t \in Cpu, KUnlink(t) PROVE KTypes' /\ KControl'
  <2>1. kArg[t] \in KKey /\ KHash[kArg[t]] \in KBucket
    BY <1>6 DEF KUnlink, ControlOf
  <2>2. PICK i \in DOMAIN kChain[KHash[kArg[t]]] :
            /\ kChain' = [kChain EXCEPT ![KHash[kArg[t]]] = RemoveAt(@, i)]
            /\ KGoes(t, "free", kChain[KHash[kArg[t]]][i], "ok")
    BY <1>6 DEF KUnlink, Matching
  <2>3. RemoveAt(kChain[KHash[kArg[t]]], i) \in Seq(KNode)
    BY <2>1, <2>2, RemovePlaces
  <2>4. kChain' \in [KBucket -> Seq(KNode)]
    BY <2>2, <2>3
  <2>5. kChain[KHash[kArg[t]]][i] \in KNode
    BY <2>1, <2>2, KChainTypes
  <2>6. QED
    BY <1>6, <2>2, <2>4, <2>5 DEF KUnlink, ControlOf
<1>7. ASSUME NEW t \in Cpu, KFree(t) PROVE KTypes' /\ KControl'
  BY <1>7 DEF KFree, ControlOf
<1>8. ASSUME NEW t \in Cpu, KFlush(t) PROVE KTypes' /\ KControl'
  BY <1>8 DEF KFlush, ControlOf
<1>9. ASSUME NEW t \in Cpu, KLeave(t) PROVE KTypes' /\ KControl'
  BY <1>9 DEF KLeave, ControlOf
<1>10. ASSUME NEW t \in Cpu, KWalk(t) PROVE KTypes' /\ KControl'
  <2>1. PICK l \in {"walk", "done"}, n \in KNode \cup {NULL} :
            kPc' = [kPc EXCEPT ![t] = l] /\ kPtr' = [kPtr EXCEPT ![t] = n]
    BY <1>10, KWalkMoves
  <2>2. kPc[t] = "walk" /\ UNCHANGED <<kChain, kKey, kLock, kNoMem, kOp, kArg>>
    BY <1>10, KWalkMoves
  <2>3. QED
    BY <2>1, <2>2 DEF ControlOf
<1>11. ASSUME NEW t \in Cpu, KReturn(t) PROVE KTypes' /\ KControl'
  BY <1>11 DEF KReturn, ControlOf
<1>12. QED
  BY <1>1, <1>2, <1>3, <1>4, <1>5, <1>6, <1>7, <1>8, <1>9, <1>10, <1>11 DEF kNext, KStep

\* The lock, over every step.
LEMMA KLockStep ==
    ASSUME KTypes, KControl, LockLeftBehind, [kNext]_kVars
    PROVE  LockLeftBehind'
<1> USE KernelAssumption DEF KTypes, KControl, ControlOf, LockLeftBehind, KCritical, KPcs, KGoes
<1>1. CASE UNCHANGED kVars
  BY <1>1 DEF kVars
<1>2. ASSUME NEW t \in Cpu, KCall(t) PROVE LockLeftBehind'
  BY <1>2 DEF KCall
<1>3. ASSUME NEW t \in Cpu, KLockFind(t) PROVE LockLeftBehind'
  BY <1>3 DEF KLockFind, KTake
<1>4. ASSUME NEW t \in Cpu, KInsert(t) PROVE LockLeftBehind'
  BY <1>4 DEF KInsert
<1>5. ASSUME NEW t \in Cpu, KInsertNoMem(t) PROVE LockLeftBehind'
  BY <1>5 DEF KInsertNoMem
<1>6. ASSUME NEW t \in Cpu, KUnlink(t) PROVE LockLeftBehind'
  BY <1>6 DEF KUnlink
<1>7. ASSUME NEW t \in Cpu, KFree(t) PROVE LockLeftBehind'
  BY <1>7 DEF KFree
<1>8. ASSUME NEW t \in Cpu, KFlush(t) PROVE LockLeftBehind'
  BY <1>8 DEF KFlush
<1>9. ASSUME NEW t \in Cpu, KLeave(t) PROVE LockLeftBehind'
  BY <1>9 DEF KLeave
<1>10. ASSUME NEW t \in Cpu, KWalk(t) PROVE LockLeftBehind'
  BY <1>10, KWalkMoves
<1>11. ASSUME NEW t \in Cpu, KReturn(t) PROVE LockLeftBehind'
  BY <1>11 DEF KReturn
<1>12. QED
  BY <1>1, <1>2, <1>3, <1>4, <1>5, <1>6, <1>7, <1>8, <1>9, <1>10, <1>11 DEF kNext, KStep

-----------------------------------------------------------------------------
(* Who owns a node *)

\* A node is held by the thread that unlinked it and has not freed it.
Holds(t, n) == kPc[t] = "free" /\ kPtr[t] = n
At(n, b, i) == i \in DOMAIN kChain[b] /\ kChain[b][i] = n

\* A linked node is at some place of some chain.
LEMMA KPlaces ==
    \A n \in KNode : n \in KLinked <=> \E b \in KBucket : \E i \in DOMAIN kChain[b] : At(n, b, i)
  BY DEF KLinked, ToSet, At

\* The conjuncts of KernelOwned.
OwnedNodes == \A n \in KNode : kKey[n] # NULL <=> n \in KLinked \/ \E t \in Cpu : Holds(t, n)
OwnedPlaces ==
    \A b \in KBucket, c \in KBucket : \A i \in DOMAIN kChain[b], j \in DOMAIN kChain[c] :
        /\ kKey[kChain[b][i]] = kKey[kChain[c][j]] => b = c /\ i = j
        /\ kKey[kChain[b][i]] # NULL => KHash[kKey[kChain[b][i]]] = b
OwnedHands ==
    \A t \in Cpu : kPc[t] = "free" =>
        kPtr[t] \notin KLinked /\ \A u \in Cpu \ {t} : kPc[u] = "free" => kPtr[u] # kPtr[t]

\* They are KernelOwned.
LEMMA KOwnedParts == KernelOwned <=> OwnedNodes /\ OwnedPlaces /\ OwnedHands
  BY Zenon DEF KernelOwned, OwnedNodes, OwnedPlaces, OwnedHands, Holds

\* A step that changes no chain and no key, and neither makes nor frees a held
\* node, changes no owner.
LEMMA KOwnedQuiet ==
    ASSUME KernelOwned, UNCHANGED <<kChain, kKey>>,
           \A u \in Cpu : /\ kPc'[u] = "free" <=> kPc[u] = "free"
                          /\ kPc[u] = "free" => kPtr'[u] = kPtr[u]
    PROVE  KernelOwned'
<1>1. KLinked' = KLinked
  BY DEF KLinked
<1>2. QED
  BY <1>1 DEF KernelOwned

\* kmalloc and hlist_add_head.
LEMMA KOwnedInsert ==
    ASSUME KTypes, KControl, KAbsent, KernelOwned, NEW t \in Cpu, KInsert(t)
    PROVE  /\ KernelOwned'
           /\ \E n \in KNode \ KLinked : /\ KLinked' = KLinked \cup {n}
                                        /\ kKey' = [kKey EXCEPT ![n] = kArg[t]]
<1>1. PICK n \in KNode :
          /\ kPc[t] = "insert" /\ kKey[n] = NULL
          /\ kKey' = [kKey EXCEPT ![n] = kArg[t]]
          /\ kChain' = [kChain EXCEPT ![KHash[kArg[t]]] = <<n>> \o @]
          /\ KGoes(t, "done", NULL, "ok")
  BY DEF KInsert
<1> DEFINE k == kArg[t]
           h == KHash[k]
<1>2. k \in KKey /\ k # NULL /\ h \in KBucket
  BY <1>1, KHashTypes, KernelAssumption DEF KControl, ControlOf
<1>3. /\ DOMAIN kChain'[h] = 1 .. Len(kChain[h]) + 1
      /\ kChain'[h][1] = n
      /\ \A i \in 1 .. Len(kChain[h]) : kChain'[h][i + 1] = kChain[h][i]
      /\ \A c \in KBucket \ {h} : kChain'[c] = kChain[c]
      /\ DOMAIN kChain[h] = 1 .. Len(kChain[h]) /\ Len(kChain[h]) \in Nat
  BY <1>1, <1>2, LinkHeadPlaces DEF KTypes
<1>4. n \notin KLinked /\ \A u \in Cpu : ~Holds(u, n)
  BY <1>1, KOwnedParts DEF OwnedNodes
<1>5. \A c \in KBucket : \A i \in DOMAIN kChain[c] :
          /\ kChain[c][i] \in KNode \ {n} /\ kChain[c][i] \in KLinked
          /\ kKey'[kChain[c][i]] = kKey[kChain[c][i]] /\ kKey[kChain[c][i]] \notin {k, NULL}
  <2> SUFFICES ASSUME NEW c \in KBucket, NEW i \in DOMAIN kChain[c]
               PROVE  /\ kChain[c][i] \in KNode \ {n} /\ kChain[c][i] \in KLinked
                      /\ kKey'[kChain[c][i]] = kKey[kChain[c][i]]
                      /\ kKey[kChain[c][i]] \notin {k, NULL}
    OBVIOUS
  <2>1. kChain[c][i] \in KNode
    BY KChainTypes
  <2>2. kChain[c][i] \in KLinked
    BY <2>1, KPlaces DEF At
  <2>3. kKey[kChain[c][i]] # NULL /\ KHash[kKey[kChain[c][i]]] = c
    BY <2>1, <2>2, KOwnedParts DEF OwnedNodes, OwnedPlaces
  <2>4. ~(c = h /\ kKey[kChain[c][i]] = k)
    BY <1>1 DEF KAbsent, Matching
  <2>5. QED
    BY <1>1, <1>4, <2>1, <2>2, <2>3, <2>4 DEF KTypes
<1>6. KLinked' = KLinked \cup {n}
  <2>1. ASSUME NEW m \in KNode, m \in KLinked' PROVE m \in KLinked \cup {n}
    <3>1. PICK c \in KBucket : \E p \in DOMAIN kChain'[c] : kChain'[c][p] = m
      BY <2>1 DEF KLinked, ToSet
    <3> PICK i \in DOMAIN kChain'[c] : kChain'[c][i] = m
      BY <3>1
    <3>2. CASE c # h
      BY <1>3, <1>5, <3>1, <3>2
    <3>3. CASE c = h /\ i # 1
      <4>1. i - 1 \in 1 .. Len(kChain[h]) /\ (i - 1) + 1 = i
        BY <1>3, <3>1, <3>3
      <4>2. kChain[h][i - 1] = m
        BY <1>3, <3>1, <3>3, <4>1
      <4>3. QED
        BY <1>2, <1>3, <1>5, <4>1, <4>2
    <3>4. CASE c = h /\ i = 1
      BY <1>3, <3>1, <3>4
    <3>5. QED
      BY <3>2, <3>3, <3>4
  <2>2. ASSUME NEW m \in KNode, m \in KLinked PROVE m \in KLinked'
    <3>1. PICK c \in KBucket : \E p \in DOMAIN kChain[c] : kChain[c][p] = m
      BY <2>2 DEF KLinked, ToSet
    <3> PICK i \in DOMAIN kChain[c] : kChain[c][i] = m
      BY <3>1
    <3>2. CASE c # h
      BY <1>3, <3>1, <3>2 DEF KLinked, ToSet
    <3>3. CASE c = h
      <4>1. i \in 1 .. Len(kChain[h]) /\ kChain[h][i] = m
        BY <1>3, <3>3
      <4>2. i + 1 \in DOMAIN kChain'[h] /\ kChain'[h][i + 1] = m
        BY <1>3, <4>1
      <4>3. QED
        BY <1>2, <4>2 DEF KLinked, ToSet
    <3>4. QED
      BY <3>2, <3>3
  <2>3. n \in KLinked'
    <3>1. 1 \in DOMAIN kChain'[h] /\ kChain'[h][1] = n
      BY <1>3
    <3>2. QED
      BY <1>2, <3>1 DEF KLinked, ToSet
  <2>4. QED
    BY <2>1, <2>2, <2>3 DEF KLinked
<1>7. \A u \in Cpu, m \in KNode : Holds(u, m)' <=> Holds(u, m)
  BY <1>1 DEF Holds, KGoes, KTypes
<1>8. OwnedNodes'
  <2> SUFFICES ASSUME NEW m \in KNode
               PROVE  kKey'[m] # NULL <=> m \in KLinked' \/ \E u \in Cpu : Holds(u, m)'
    BY DEF OwnedNodes
  <2>1. CASE m = n
    BY <1>1, <1>2, <1>6, <2>1 DEF KTypes
  <2>2. CASE m # n
    <3>1. kKey'[m] = kKey[m]
      BY <1>1, <2>2 DEF KTypes
    <3>2. QED
      BY <1>6, <1>7, <2>2, <3>1, KOwnedParts DEF OwnedNodes
  <2>3. QED
    BY <2>1, <2>2
<1>9. OwnedPlaces'
  <2>1. \A c \in KBucket : \A i \in DOMAIN kChain'[c] :
            \/ c = h /\ i = 1 /\ kKey'[kChain'[c][i]] = k
            \/ /\ i # 1 \/ c # h
               /\ \E p \in DOMAIN kChain[c] :
                      /\ i = (IF c = h THEN p + 1 ELSE p)
                      /\ kKey'[kChain'[c][i]] = kKey[kChain[c][p]]
    <3> SUFFICES ASSUME NEW c \in KBucket, NEW i \in DOMAIN kChain'[c]
                 PROVE  \/ c = h /\ i = 1 /\ kKey'[kChain'[c][i]] = k
                        \/ /\ i # 1 \/ c # h
                           /\ \E p \in DOMAIN kChain[c] :
                                  /\ i = (IF c = h THEN p + 1 ELSE p)
                                  /\ kKey'[kChain'[c][i]] = kKey[kChain[c][p]]
      OBVIOUS
    <3>1. CASE c # h
      BY <1>3, <1>5, <3>1
    <3>2. CASE c = h /\ i # 1
      <4>1. i - 1 \in DOMAIN kChain[h] /\ (i - 1) + 1 = i
        BY <1>3, <3>2
      <4>2. kChain'[h][i] = kChain[h][i - 1]
        BY <1>3, <4>1
      <4>3. QED
        BY <1>2, <1>5, <3>2, <4>1, <4>2
    <3>3. CASE c = h /\ i = 1
      BY <1>1, <1>3, <3>3 DEF KTypes
    <3>4. QED
      BY <3>1, <3>2, <3>3
  <2> HIDE DEF k, h
  <2>2. \A c \in KBucket : \A p \in DOMAIN kChain[c] : kKey[kChain[c][p]] \notin {k, NULL}
    BY <1>5
  <2>3. ASSUME NEW b \in KBucket, NEW c \in KBucket, NEW i \in DOMAIN kChain'[b],
               NEW j \in DOMAIN kChain'[c]
        PROVE  /\ kKey'[kChain'[b][i]] = kKey'[kChain'[c][j]] => b = c /\ i = j
               /\ kKey'[kChain'[b][i]] # NULL => KHash[kKey'[kChain'[b][i]]] = b
    <3>1. KHash[k] = h
      BY DEF h, k
    <3>2. OwnedPlaces
      BY KOwnedParts
    <3>3. kKey'[kChain'[b][i]] = kKey'[kChain'[c][j]] => b = c /\ i = j
      BY <2>1, <2>2, <3>2 DEF OwnedPlaces
    <3>4. kKey'[kChain'[b][i]] # NULL => KHash[kKey'[kChain'[b][i]]] = b
      BY <2>1, <2>2, <3>1, <3>2 DEF OwnedPlaces
    <3>5. QED
      BY <3>3, <3>4
  <2>4. QED
    BY <2>3 DEF OwnedPlaces
<1>10. OwnedHands'
  <2>1. \A u \in Cpu : kPc'[u] = "free" => kPc[u] = "free" /\ kPtr'[u] = kPtr[u] /\ kPtr[u] # n
    BY <1>1, <1>4 DEF KGoes, KTypes, Holds
  <2>2. QED
    BY <1>6, <2>1, KOwnedParts DEF OwnedHands
<1>11. (KernelOwned <=> OwnedNodes /\ OwnedPlaces /\ OwnedHands)'
  BY KOwnedParts, PTL
<1>12. QED
  BY <1>1, <1>4, <1>6, <1>8, <1>9, <1>10, <1>11

\* hlist_del of the node the lookup found.
LEMMA KOwnedUnlink ==
    ASSUME KTypes, KControl, KernelOwned, NEW t \in Cpu, KUnlink(t)
    PROVE  /\ KernelOwned'
           /\ \E n \in KLinked : KLinked' = KLinked \ {n} /\ kKey[n] = kArg[t] /\ UNCHANGED kKey
<1> DEFINE k == kArg[t]
           h == KHash[k]
<1>1. PICK i \in DOMAIN kChain[h] :
          /\ kPc[t] = "unlink" /\ kKey[kChain[h][i]] = k
          /\ kChain' = [kChain EXCEPT ![h] = RemoveAt(@, i)]
          /\ KGoes(t, "free", kChain[h][i], "ok") /\ UNCHANGED kKey
  BY DEF KUnlink, Matching
<1> DEFINE x == kChain[h][i]
<1>2. k \in KKey /\ k # NULL /\ h \in KBucket
  BY <1>1, KHashTypes, KernelAssumption DEF KControl, ControlOf
<1>3. /\ DOMAIN kChain[h] = 1 .. Len(kChain[h]) /\ Len(kChain[h]) \in Nat
      /\ DOMAIN kChain'[h] = 1 .. Len(kChain[h]) - 1
      /\ \A j \in 1 .. Len(kChain[h]) - 1 : kChain'[h][j] = kChain[h][IF j < i THEN j ELSE j + 1]
      /\ \A c \in KBucket \ {h} : kChain'[c] = kChain[c]
  BY <1>1, <1>2, RemovePlaces DEF KTypes
<1>4. /\ x \in KNode /\ x \in KLinked /\ kKey[x] = k
      /\ \A u \in Cpu : ~Holds(u, x)
  <2>1. x \in KNode /\ kKey[x] = k
    BY <1>1, <1>2, KChainTypes
  <2>2. x \in KLinked
    BY <1>1, <1>2, <2>1, KPlaces DEF At
  <2>3. OwnedHands
    BY KOwnedParts
  <2>4. \A u \in Cpu : ~Holds(u, x)
    BY <2>2, <2>3, Zenon DEF OwnedHands, Holds
  <2>5. QED
    BY <2>1, <2>2, <2>4
<1>5. ASSUME NEW c \in KBucket, NEW j \in DOMAIN kChain'[c]
      PROVE  \E p \in DOMAIN kChain[c] :
                 /\ kChain'[c][j] = kChain[c][p] /\ (c = h => p # i)
                 /\ p = IF c = h /\ j >= i THEN j + 1 ELSE j
  <2>1. CASE c # h
    BY <1>3, <2>1
  <2>2. CASE c = h /\ j < i
    <3>1. j \in DOMAIN kChain[h] /\ ~(j >= i) /\ j # i
      BY <1>1, <1>3, <2>2
    <3>2. QED
      BY <1>3, <2>2, <3>1
  <2>3. CASE c = h /\ j >= i
    <3>1. j + 1 \in DOMAIN kChain[h] /\ ~(j < i) /\ j + 1 # i
      BY <1>1, <1>3, <2>3
    <3>2. QED
      BY <1>3, <2>3, <3>1
  <2>4. j < i \/ j >= i \/ c # h
    BY <1>1, <1>3
  <2>5. QED
    BY <2>1, <2>2, <2>3, <2>4
<1>6. ASSUME NEW b \in KBucket, NEW c \in KBucket, NEW p \in DOMAIN kChain[b], NEW q \in DOMAIN kChain[c],
             kKey[kChain[b][p]] = kKey[kChain[c][q]]
      PROVE  b = c /\ p = q
  BY <1>6, KOwnedParts DEF OwnedPlaces
<1>7. KLinked' = KLinked \ {x}
  <2>1. ASSUME NEW m \in KNode, m \in KLinked' PROVE m \in KLinked \ {x}
    <3>1. PICK c \in KBucket : \E j \in DOMAIN kChain'[c] : kChain'[c][j] = m
      BY <2>1 DEF KLinked, ToSet
    <3>2. PICK p \in DOMAIN kChain[c] : kChain[c][p] = m /\ (c = h => p # i)
      BY <1>5, <3>1
    <3>3. m \in KLinked
      BY <3>2 DEF KLinked, ToSet
    <3>4. m # x
      BY <1>1, <1>2, <1>6, <3>2
    <3>5. QED
      BY <3>3, <3>4
  <2>2. ASSUME NEW m \in KNode, m \in KLinked, m # x PROVE m \in KLinked'
    <3>1. PICK c \in KBucket : \E p \in DOMAIN kChain[c] : kChain[c][p] = m
      BY <2>2 DEF KLinked, ToSet
    <3> PICK p \in DOMAIN kChain[c] : kChain[c][p] = m
      BY <3>1
    <3>2. CASE c # h
      BY <1>3, <3>2 DEF KLinked, ToSet
    <3>3. CASE c = h /\ p < i
      <4>1. p \in DOMAIN kChain'[h] /\ kChain'[h][p] = m
        BY <1>1, <1>3, <3>3
      <4>2. QED
        BY <1>2, <4>1 DEF KLinked, ToSet
    <3>4. CASE c = h /\ p > i
      <4>1. /\ p - 1 \in 1 .. Len(kChain[h]) - 1 /\ ~(p - 1 < i)
            /\ (p - 1) + 1 = p
        BY <1>1, <1>3, <3>4
      <4>2. p - 1 \in DOMAIN kChain'[h] /\ kChain'[h][p - 1] = m
        BY <1>3, <3>4, <4>1
      <4>3. QED
        BY <1>2, <4>2 DEF KLinked, ToSet
    <3>5. c = h => p < i \/ p > i
      BY <1>1, <1>3, <2>2
    <3>6. QED
      BY <3>2, <3>3, <3>4, <3>5
  <2>3. QED
    BY <2>1, <2>2 DEF KLinked
<1>8. \A u \in Cpu, m \in KNode : Holds(u, m)' <=> Holds(u, m) \/ (u = t /\ m = x)
  BY <1>1 DEF Holds, KGoes, KTypes
<1>9. OwnedNodes'
  <2> SUFFICES ASSUME NEW m \in KNode
               PROVE  kKey'[m] # NULL <=> m \in KLinked' \/ \E u \in Cpu : Holds(u, m)'
    BY DEF OwnedNodes
  <2>1. CASE m = x
    BY <1>1, <1>2, <1>4, <1>8, <2>1
  <2>2. CASE m # x
    <3>1. \A u \in Cpu : Holds(u, m)' <=> Holds(u, m)
      BY <1>8, <2>2
    <3>2. kKey[m] # NULL <=> m \in KLinked \/ \E u \in Cpu : Holds(u, m)
      BY KOwnedParts DEF OwnedNodes
    <3>3. QED
      BY <1>1, <1>7, <2>2, <3>1, <3>2
  <2>3. QED
    BY <2>1, <2>2
<1>10. OwnedPlaces'
  <2>1. ASSUME NEW b \in KBucket, NEW c \in KBucket, NEW j \in DOMAIN kChain'[b],
               NEW l \in DOMAIN kChain'[c]
        PROVE  /\ kKey'[kChain'[b][j]] = kKey'[kChain'[c][l]] => b = c /\ j = l
               /\ kKey'[kChain'[b][j]] # NULL => KHash[kKey'[kChain'[b][j]]] = b
    <3>1. PICK p \in DOMAIN kChain[b] :
              kChain'[b][j] = kChain[b][p] /\ p = IF b = h /\ j >= i THEN j + 1 ELSE j
      BY <1>5
    <3>2. PICK q \in DOMAIN kChain[c] :
              kChain'[c][l] = kChain[c][q] /\ q = IF c = h /\ l >= i THEN l + 1 ELSE l
      BY <1>5
    <3>3. /\ kKey'[kChain'[b][j]] = kKey[kChain[b][p]]
          /\ kKey'[kChain'[c][l]] = kKey[kChain[c][q]]
      BY <1>1, <3>1, <3>2
    <3>4. kKey[kChain[b][p]] = kKey[kChain[c][q]] => b = c /\ p = q
      BY <1>6
    <3>5. ASSUME b = c, p = q PROVE j = l
      <4>1. CASE b # h
        BY <3>1, <3>2, <3>5, <4>1
      <4>2. CASE b = h
        <5>1. j \in Nat /\ l \in Nat /\ i \in Nat
          BY <1>1, <1>3, <3>5, <4>2
        <5>2. QED
          BY <3>1, <3>2, <3>5, <4>2, <5>1
      <4>3. QED
        BY <4>1, <4>2
    <3>6. kKey[kChain[b][p]] # NULL => KHash[kKey[kChain[b][p]]] = b
      BY KOwnedParts DEF OwnedPlaces
    <3>7. QED
      BY <3>3, <3>4, <3>5, <3>6
  <2>2. QED
    BY <2>1 DEF OwnedPlaces
<1>11. OwnedHands'
  <2>1. \A u \in Cpu : kPc'[u] = "free" =>
            IF u = t THEN kPtr'[u] = x ELSE kPc[u] = "free" /\ kPtr'[u] = kPtr[u] /\ kPtr[u] # x
    BY <1>1, <1>4 DEF KGoes, KTypes, Holds
  <2>2. QED
    BY <1>7, <2>1, KOwnedParts DEF OwnedHands
<1>12. (KernelOwned <=> OwnedNodes /\ OwnedPlaces /\ OwnedHands)'
  BY KOwnedParts, PTL
<1>13. QED
  BY <1>1, <1>4, <1>7, <1>9, <1>10, <1>11, <1>12

\* kfree of the node in hand.
LEMMA KOwnedFree ==
    ASSUME KTypes, KControl, KernelOwned, NEW t \in Cpu, KFree(t)
    PROVE  /\ KernelOwned'
           /\ \A b \in KBucket : \A i \in DOMAIN kChain[b] : kKey'[kChain[b][i]] = kKey[kChain[b][i]]
<1> DEFINE x == kPtr[t]
<1>1. /\ kPc[t] = "free" /\ kKey' = [kKey EXCEPT ![x] = NULL]
      /\ KGoes(t, "done", NULL, kRet[t]) /\ UNCHANGED kChain
  BY DEF KFree
<1>2. x \in KNode /\ x \notin KLinked /\ \A u \in Cpu \ {t} : ~Holds(u, x)
  BY <1>1, KOwnedParts DEF KControl, ControlOf, OwnedHands, Holds
<1>3. KLinked' = KLinked
  BY <1>1 DEF KLinked
<1>4. \A u \in Cpu, m \in KNode : Holds(u, m)' <=> Holds(u, m) /\ u # t
  BY <1>1 DEF Holds, KGoes, KTypes
<1>5. \A m \in KNode : kKey'[m] = IF m = x THEN NULL ELSE kKey[m]
  BY <1>1 DEF KTypes
<1>6. \A b \in KBucket : \A i \in DOMAIN kChain[b] :
          kChain[b][i] \in KNode /\ kKey'[kChain[b][i]] = kKey[kChain[b][i]]
  BY <1>2, <1>5, KChainTypes, KPlaces DEF At
<1>7. OwnedNodes'
  <2> SUFFICES ASSUME NEW m \in KNode
               PROVE  kKey'[m] # NULL <=> m \in KLinked' \/ \E u \in Cpu : Holds(u, m)'
    BY DEF OwnedNodes
  <2>1. CASE m = x
    BY <1>2, <1>3, <1>4, <1>5, <2>1
  <2>2. CASE m # x
    <3>1. ~Holds(t, m)
      BY <2>2 DEF Holds
    <3>2. kKey[m] # NULL <=> m \in KLinked \/ \E u \in Cpu : Holds(u, m)
      BY KOwnedParts DEF OwnedNodes
    <3>3. QED
      BY <1>3, <1>4, <1>5, <2>2, <3>1, <3>2
  <2>3. QED
    BY <2>1, <2>2
<1>8. OwnedPlaces'
  BY <1>1, <1>6, KOwnedParts DEF OwnedPlaces
<1>9. OwnedHands'
  <2>1. \A u \in Cpu : kPc'[u] = "free" => kPc[u] = "free" /\ kPtr'[u] = kPtr[u]
    BY <1>1 DEF KGoes, KTypes
  <2>2. QED
    BY <1>3, <2>1, KOwnedParts DEF OwnedHands
<1>10. (KernelOwned <=> OwnedNodes /\ OwnedPlaces /\ OwnedHands)'
  BY KOwnedParts, PTL
<1>11. QED
  BY <1>6, <1>7, <1>8, <1>9, <1>10

\* The flush frees every linked node and none that is held.
LEMMA KOwnedFlush ==
    ASSUME KTypes, KernelOwned, NEW t \in Cpu, KFlush(t)
    PROVE  KernelOwned'
<1>1. /\ kPc[t] = "flush" /\ KGoes(t, "done", NULL, "ok")
      /\ kKey' = [n \in KNode |-> IF n \in KLinked THEN NULL ELSE kKey[n]]
      /\ kChain' = [b \in KBucket |-> <<>>]
  BY DEF KFlush
<1>2. KLinked' = {} /\ \A b \in KBucket : DOMAIN kChain'[b] = {}
  BY <1>1 DEF KLinked, ToSet
<1>3. \A u \in Cpu : /\ kPc'[u] = "free" <=> kPc[u] = "free"
                     /\ kPc[u] = "free" => kPtr'[u] = kPtr[u]
  BY <1>1 DEF KGoes, KTypes
<1>4. OwnedNodes'
  <2> SUFFICES ASSUME NEW m \in KNode
               PROVE  kKey'[m] # NULL <=> m \in KLinked' \/ \E u \in Cpu : Holds(u, m)'
    BY DEF OwnedNodes
  <2>1. (\E u \in Cpu : Holds(u, m)') <=> (\E u \in Cpu : Holds(u, m))
    BY <1>3 DEF Holds
  <2>2. (\E u \in Cpu : Holds(u, m)) => m \notin KLinked
    BY KOwnedParts DEF OwnedHands, Holds
  <2>3. kKey[m] # NULL <=> m \in KLinked \/ \E u \in Cpu : Holds(u, m)
    BY KOwnedParts DEF OwnedNodes
  <2>4. kKey'[m] = IF m \in KLinked THEN NULL ELSE kKey[m]
    BY <1>1
  <2>5. QED
    BY <1>2, <2>1, <2>2, <2>3, <2>4
<1>5. OwnedPlaces'
  BY <1>2 DEF OwnedPlaces
<1>6. OwnedHands'
  BY <1>2, <1>3, KOwnedParts DEF OwnedHands
<1>7. (KernelOwned <=> OwnedNodes /\ OwnedPlaces /\ OwnedHands)'
  BY KOwnedParts, PTL
<1>8. QED
  BY <1>4, <1>5, <1>6, <1>7

-----------------------------------------------------------------------------
(* The invariant *)

\* Who owns what, over every step.
LEMMA KOwnedStep ==
    ASSUME KInv, [kNext]_kVars
    PROVE  KernelOwned'
<1> USE DEF KInv, KTypes, KPcs, KGoes, kHeap
<1>1. CASE UNCHANGED kVars
  BY <1>1, KOwnedQuiet DEF kVars
<1>2. ASSUME NEW t \in Cpu, KCall(t) PROVE KernelOwned'
  BY <1>2, KOwnedQuiet DEF KCall
<1>3. ASSUME NEW t \in Cpu, KLockFind(t) PROVE KernelOwned'
  BY <1>3, KOwnedQuiet DEF KLockFind
<1>4. ASSUME NEW t \in Cpu, KInsertNoMem(t) PROVE KernelOwned'
  BY <1>4, KOwnedQuiet DEF KInsertNoMem
<1>5. ASSUME NEW t \in Cpu, KLeave(t) PROVE KernelOwned'
  BY <1>5, KOwnedQuiet DEF KLeave
<1>6. ASSUME NEW t \in Cpu, KWalk(t) PROVE KernelOwned'
  BY <1>6, KWalkMoves, KOwnedQuiet
<1>7. ASSUME NEW t \in Cpu, KReturn(t) PROVE KernelOwned'
  BY <1>7, KOwnedQuiet DEF KReturn
<1>8. QED
  BY <1>1, <1>2, <1>3, <1>4, <1>5, <1>6, <1>7, KOwnedInsert, KOwnedUnlink, KOwnedFree, KOwnedFlush
     DEF kNext, KStep

\* The key of a thread about to insert it stays absent: who could add it needs
\* the lock.
LEMMA KAbsentStep ==
    ASSUME KInv, [kNext]_kVars
    PROVE  KAbsent'
<1> USE DEF KInv
<1>0. ASSUME UNCHANGED <<kChain, kKey>>,
             \A u \in Cpu : kPc'[u] = "insert" => kArg'[u] = kArg[u] /\ Matching(kArg[u]) = {}
      PROVE  KAbsent'
  <2> SUFFICES ASSUME NEW u \in Cpu, kPc'[u] = "insert" PROVE Matching(kArg[u])' = {}
    BY DEF KAbsent
  <2>1. kArg'[u] = kArg[u] /\ Matching(kArg[u]) = {}
    BY <1>0
  <2>2. QED
    BY <1>0, <2>1 DEF Matching
<1>1. ASSUME UNCHANGED <<kChain, kKey, kArg>>, \A u \in Cpu : kPc'[u] = "insert" => kPc[u] = "insert"
      PROVE  KAbsent'
  BY <1>0, <1>1 DEF KAbsent
<1>2. ASSUME NEW t \in Cpu, kPc[t] \in KCritical,
             \A u \in Cpu : kPc'[u] = "insert" => u # t /\ kPc[u] = "insert"
      PROVE  KAbsent'
  BY <1>2 DEF KAbsent, LockLeftBehind, KCritical
<1> USE DEF KTypes, KGoes, kHeap
<1>3. CASE UNCHANGED kVars
  BY <1>1, <1>3 DEF kVars
<1>4. ASSUME NEW t \in Cpu, KCall(t) PROVE KAbsent'
  <2>1. PICK o \in {"add", "del", "lookup", "flush"}, k \in KKey \cup {NULL},
             l \in {"walk", "lock"} :
            /\ kArg' = [kArg EXCEPT ![t] = k] /\ kPc' = [kPc EXCEPT ![t] = l]
            /\ UNCHANGED <<kChain, kKey>>
    BY <1>4 DEF KCall
  <2>2. \A u \in Cpu : kPc'[u] = "insert" => kPc[u] = "insert" /\ kArg'[u] = kArg[u]
    BY <2>1
  <2>3. QED
    BY <1>0, <2>1, <2>2 DEF KAbsent
<1>5. ASSUME NEW t \in Cpu, KLockFind(t) PROVE KAbsent'
  <2>1. UNCHANGED <<kChain, kKey, kArg>>
    BY <1>5 DEF KLockFind
  <2>2. PICK l \in {"insert", "unlink", "flush", "leave"} :
            /\ kPc' = [kPc EXCEPT ![t] = l]
            /\ l = "insert" => Matching(kArg[t]) = {}
    BY <1>5 DEF KLockFind
  <2>3. QED
    BY <1>0, <2>1, <2>2 DEF KAbsent
<1>6. ASSUME NEW t \in Cpu, KInsert(t) PROVE KAbsent'
  BY <1>2, <1>6 DEF KInsert, KCritical
<1>7. ASSUME NEW t \in Cpu, KInsertNoMem(t) PROVE KAbsent'
  BY <1>1, <1>7 DEF KInsertNoMem
<1>8. ASSUME NEW t \in Cpu, KUnlink(t) PROVE KAbsent'
  BY <1>2, <1>8 DEF KUnlink, KCritical
<1>9. ASSUME NEW t \in Cpu, KFree(t) PROVE KAbsent'
  <2>1. \A b \in KBucket : \A i \in DOMAIN kChain[b] : kKey'[kChain[b][i]] = kKey[kChain[b][i]]
    BY <1>9, KOwnedFree
  <2>2. /\ UNCHANGED <<kChain, kArg>>
        /\ \A u \in Cpu : kPc'[u] = "insert" => kPc[u] = "insert"
    BY <1>9 DEF KFree
  <2>3. ASSUME NEW u \in Cpu, kPc'[u] = "insert" PROVE Matching(kArg[u])' = {}
    <3>1. kPc[u] = "insert" /\ Matching(kArg[u]) = {}
      BY <2>2, <2>3 DEF KAbsent
    <3>2. KHash[kArg[u]] \in KBucket
      BY <3>1, KHashTypes DEF KControl, ControlOf
    <3>3. QED
      BY <2>1, <2>2, <3>1, <3>2 DEF Matching
  <2>4. QED
    BY <2>2, <2>3 DEF KAbsent
<1>10. ASSUME NEW t \in Cpu, KFlush(t) PROVE KAbsent'
  BY <1>2, <1>10 DEF KFlush, KCritical
<1>11. ASSUME NEW t \in Cpu, KLeave(t) PROVE KAbsent'
  BY <1>1, <1>11 DEF KLeave
<1>12. ASSUME NEW t \in Cpu, KWalk(t) PROVE KAbsent'
  BY <1>1, <1>12, KWalkMoves
<1>13. ASSUME NEW t \in Cpu, KReturn(t) PROVE KAbsent'
  <2>1. /\ UNCHANGED <<kChain, kKey>>
        /\ \A u \in Cpu : kPc'[u] = "insert" => kPc[u] = "insert" /\ kArg'[u] = kArg[u]
    BY <1>13 DEF KReturn
  <2>2. QED
    BY <1>0, <2>1 DEF KAbsent
<1>14. QED
  BY <1>3, <1>4, <1>5, <1>6, <1>7, <1>8, <1>9, <1>10, <1>11, <1>12, <1>13 DEF kNext, KStep

\* The inductive invariant of the kernel's table: the lock and its one leak
\* (hash_list_kernel.c:126), and the ownership of nodes, need each other, since
\* keys stay unique only because whoever inserts holds the lock.
THEOREM KernelInvariant == KernelSpec => []KInv
<1>1. KInv /\ [kNext]_kVars => KInv'
  BY KTypesStep, KLockStep, KOwnedStep, KAbsentStep DEF KInv
<1>2. QED
  BY <1>1, KInitInv, PTL DEF KernelSpec

\* The lock of the kernel's table is left behind by an addition without memory,
\* and by nothing else.
THEOREM KernelLock == KernelSpec => []LockLeftBehind
<1>1. KInv => LockLeftBehind
  BY DEF KInv
<1>2. QED
  BY <1>1, KernelInvariant, PTL

\* Every node of the kernel's table has one owner, and keys are unique, in the
\* chains they hash to.
THEOREM KernelNodes == KernelSpec => []KernelOwned
<1>1. KInv => KernelOwned
  BY DEF KInv
<1>2. QED
  BY <1>1, KernelInvariant, PTL

-----------------------------------------------------------------------------
(* The table is a set of keys *)

KOutcomes == {"ok", "fail", "nomem"}

\* What a thread's call looks like at each step of it.
CallOf(t) ==
    /\ kPc[t] = "idle" => kOp[t] = "none" /\ kArg[t] = NULL /\ kRet[t] = "none"
    /\ kPc[t] \in {"lock", "insert", "unlink", "flush"} => kRet[t] = "pending"
    /\ kPc[t] \in {"leave", "free", "done"} => kRet[t] \in KOutcomes
    /\ kPc[t] \in KCritical \cup {"free"} => kOp[t] # "lookup"
    /\ kPc[t] = "flush" => kOp[t] = "flush"
KCalls == kRet \in [Cpu -> KOutcomes \cup {"none", "pending"}] /\ \A t \in Cpu : CallOf(t)
KRefInv == KInv /\ KCalls

\* The keys in the table.
Present == {kKey[n] : n \in KLinked}

\* A locked search finds a key exactly when it is in the table.
LEMMA KMatchingPresent ==
    ASSUME KTypes, KernelOwned, NEW k \in KKey
    PROVE  Matching(k) # {} <=> k \in Present
<1>1. k # NULL /\ KHash[k] \in KBucket
  BY KHashTypes, KernelAssumption
<1>2. ASSUME NEW i \in Matching(k) PROVE k \in Present
  <2>1. i \in DOMAIN kChain[KHash[k]] /\ kKey[kChain[KHash[k]][i]] = k
    BY DEF Matching
  <2>2. kChain[KHash[k]][i] \in KNode
    BY <1>1, <2>1, KChainTypes
  <2>3. kChain[KHash[k]][i] \in KLinked
    BY <1>1, <2>1, <2>2, KPlaces DEF At
  <2>4. QED
    BY <2>1, <2>3 DEF Present
<1>3. ASSUME NEW n \in KLinked, kKey[n] = k PROVE Matching(k) # {}
  <2>1. PICK b \in KBucket : \E i \in DOMAIN kChain[b] : kChain[b][i] = n
    BY <1>3, KPlaces DEF At, KLinked
  <2>2. KHash[k] = b
    BY <1>1, <1>3, <2>1, KOwnedParts DEF OwnedPlaces
  <2>3. QED
    BY <1>3, <2>1, <2>2 DEF Matching
<1>4. QED
  BY <1>2, <1>3 DEF Present

\* hlist_add_head makes a key present that was not.
LEMMA KInsertPresent ==
    ASSUME KInv, NEW t \in Cpu, KInsert(t)
    PROVE  kArg[t] \notin Present /\ Present' = Present \cup {kArg[t]}
<1>1. PICK n \in KNode \ KLinked :
          KLinked' = KLinked \cup {n} /\ kKey' = [kKey EXCEPT ![n] = kArg[t]]
  BY KOwnedInsert DEF KInv
<1>2. kKey'[n] = kArg[t] /\ \A m \in KLinked : kKey'[m] = kKey[m]
  BY <1>1 DEF KInv, KTypes, KLinked
<1>3. kArg[t] \in KKey /\ Matching(kArg[t]) = {}
  BY DEF KInv, KInsert, KControl, ControlOf, KAbsent
<1>4. kArg[t] \notin Present
  BY <1>3, KMatchingPresent DEF KInv
<1>5. QED
  BY <1>1, <1>2, <1>4 DEF Present

\* hlist_del takes the looked up key away, and no other.
LEMMA KUnlinkPresent ==
    ASSUME KInv, NEW t \in Cpu, KUnlink(t)
    PROVE  kArg[t] \in Present /\ Present' = Present \ {kArg[t]}
<1>1. PICK n \in KLinked : KLinked' = KLinked \ {n} /\ kKey[n] = kArg[t] /\ UNCHANGED kKey
  BY KOwnedUnlink DEF KInv
<1>2. ASSUME NEW m \in KLinked, kKey[m] = kKey[n] PROVE m = n
  <2>1. PICK b \in KBucket : \E i \in DOMAIN kChain[b] : kChain[b][i] = m
    BY KPlaces DEF At, KLinked
  <2>2. PICK c \in KBucket : \E j \in DOMAIN kChain[c] : kChain[c][j] = n
    BY KPlaces DEF At, KLinked
  <2>3. QED
    BY <1>2, <2>1, <2>2, KOwnedParts DEF KInv, OwnedPlaces
<1>3. QED
  BY <1>1, <1>2 DEF Present

\* The calls, over every step.
LEMMA KCallsStep ==
    ASSUME KTypes, KControl, KCalls, [kNext]_kVars
    PROVE  KCalls'
<1> USE DEF KTypes, KControl, ControlOf, KCalls, KOutcomes, KCritical, KGoes
<1>1. CASE UNCHANGED kVars
  BY <1>1 DEF kVars, CallOf
<1>2. ASSUME NEW t \in Cpu, NEW r \in KOutcomes \cup {"none", "pending"}, NEW l \in KPcs,
             kRet' = [kRet EXCEPT ![t] = r], kPc' = [kPc EXCEPT ![t] = l], CallOf(t)',
             \A u \in Cpu \ {t} : kOp'[u] = kOp[u] /\ kArg'[u] = kArg[u]
      PROVE  KCalls'
  <2>1. ASSUME NEW u \in Cpu, u # t PROVE CallOf(u)'
    BY <1>2, <2>1 DEF CallOf
  <2>2. QED
    BY <1>2, <2>1
<1>3. ASSUME NEW t \in Cpu, KCall(t) PROVE KCalls'
  <2>1. PICK o \in {"add", "del", "lookup", "flush"}, k \in KKey \cup {NULL}, l \in {"walk", "lock"} :
            /\ kOp' = [kOp EXCEPT ![t] = o] /\ kArg' = [kArg EXCEPT ![t] = k]
            /\ kPc' = [kPc EXCEPT ![t] = l] /\ kRet' = [kRet EXCEPT ![t] = "pending"]
    BY <1>3 DEF KCall
  <2>2. CallOf(t)'
    BY <2>1 DEF CallOf
  <2>3. QED
    BY <1>2, <2>1, <2>2 DEF KPcs
<1>4. ASSUME NEW t \in Cpu, KLockFind(t) PROVE KCalls'
  <2>1. PICK l \in KCritical, r \in {"pending", "fail"} :
            /\ kPc' = [kPc EXCEPT ![t] = l] /\ kRet' = [kRet EXCEPT ![t] = r]
            /\ kOp[t] # "lookup" /\ (l = "flush" => kOp[t] = "flush")
            /\ r = "fail" <=> l = "leave"
            /\ UNCHANGED <<kOp, kArg>>
    BY <1>4 DEF KLockFind
  <2>2. CallOf(t)'
    BY <2>1 DEF CallOf
  <2>3. QED
    BY <1>2, <2>1, <2>2 DEF KPcs
<1>5. ASSUME NEW t \in Cpu, KInsert(t) PROVE KCalls'
  <2>1. /\ kPc' = [kPc EXCEPT ![t] = "done"] /\ kRet' = [kRet EXCEPT ![t] = "ok"]
        /\ UNCHANGED <<kOp, kArg>>
    BY <1>5 DEF KInsert
  <2>2. CallOf(t)'
    BY <2>1 DEF CallOf
  <2>3. QED
    BY <1>2, <2>1, <2>2 DEF KPcs
<1>6. ASSUME NEW t \in Cpu, KInsertNoMem(t) PROVE KCalls'
  <2>1. /\ kPc' = [kPc EXCEPT ![t] = "done"] /\ kRet' = [kRet EXCEPT ![t] = "nomem"]
        /\ UNCHANGED <<kOp, kArg>>
    BY <1>6 DEF KInsertNoMem
  <2>2. CallOf(t)'
    BY <2>1 DEF CallOf
  <2>3. QED
    BY <1>2, <2>1, <2>2 DEF KPcs
<1>7. ASSUME NEW t \in Cpu, KUnlink(t) PROVE KCalls'
  <2>1. /\ kPc' = [kPc EXCEPT ![t] = "free"] /\ kRet' = [kRet EXCEPT ![t] = "ok"]
        /\ UNCHANGED <<kOp, kArg>> /\ kPc[t] = "unlink"
    BY <1>7 DEF KUnlink
  <2>2. CallOf(t)'
    BY <2>1 DEF CallOf
  <2>3. QED
    BY <1>2, <2>1, <2>2 DEF KPcs
<1>8. ASSUME NEW t \in Cpu, KFree(t) PROVE KCalls'
  <2>1. /\ kPc' = [kPc EXCEPT ![t] = "done"] /\ kRet' = [kRet EXCEPT ![t] = kRet[t]]
        /\ UNCHANGED <<kOp, kArg>> /\ kRet[t] \in KOutcomes
    BY <1>8 DEF KFree, CallOf
  <2>2. CallOf(t)'
    BY <2>1 DEF CallOf
  <2>3. QED
    BY <1>2, <2>1, <2>2 DEF KPcs
<1>9. ASSUME NEW t \in Cpu, KFlush(t) PROVE KCalls'
  <2>1. /\ kPc' = [kPc EXCEPT ![t] = "done"] /\ kRet' = [kRet EXCEPT ![t] = "ok"]
        /\ UNCHANGED <<kOp, kArg>>
    BY <1>9 DEF KFlush
  <2>2. CallOf(t)'
    BY <2>1 DEF CallOf
  <2>3. QED
    BY <1>2, <2>1, <2>2 DEF KPcs
<1>10. ASSUME NEW t \in Cpu, KLeave(t) PROVE KCalls'
  <2>1. /\ kPc' = [kPc EXCEPT ![t] = "done"] /\ kRet' = [kRet EXCEPT ![t] = kRet[t]]
        /\ UNCHANGED <<kOp, kArg>> /\ kRet[t] \in KOutcomes
    BY <1>10 DEF KLeave, CallOf
  <2>2. CallOf(t)'
    BY <2>1 DEF CallOf
  <2>3. QED
    BY <1>2, <2>1, <2>2 DEF KPcs
<1>11. ASSUME NEW t \in Cpu, KWalk(t) PROVE KCalls'
  <2>1. \/ UNCHANGED <<kPc, kRet>>
        \/ \E l \in {"walk", "done"}, r \in KOutcomes \cup {"pending"} :
               /\ kPc' = [kPc EXCEPT ![t] = l] /\ kRet' = [kRet EXCEPT ![t] = r]
               /\ l = "done" => r \in KOutcomes
    BY <1>11 DEF KWalk
  <2>2. UNCHANGED <<kOp, kArg>>
    BY <1>11 DEF KWalk
  <2>3. CASE UNCHANGED <<kPc, kRet>>
    BY <2>2, <2>3 DEF CallOf
  <2>4. ASSUME NEW l \in {"walk", "done"}, NEW r \in KOutcomes \cup {"pending"},
               kPc' = [kPc EXCEPT ![t] = l], kRet' = [kRet EXCEPT ![t] = r],
               l = "done" => r \in KOutcomes
        PROVE  KCalls'
    <3>1. CallOf(t)'
      BY <2>2, <2>4 DEF CallOf
    <3>2. QED
      BY <1>2, <2>2, <2>4, <3>1 DEF KPcs
  <2>5. QED
    BY <2>1, <2>3, <2>4
<1>12. ASSUME NEW t \in Cpu, KReturn(t) PROVE KCalls'
  BY <1>2, <1>12 DEF KReturn, CallOf, KPcs
<1>13. QED
  BY <1>1, <1>3, <1>4, <1>5, <1>6, <1>7, <1>8, <1>9, <1>10, <1>11, <1>12 DEF kNext, KStep

\* The table's calls as KeyTable sees them: a lookup, which takes no lock, is
\* no call of it.
mOp  == [t \in Cpu |-> IF kOp[t] = "lookup" THEN "none" ELSE kOp[t]]
mArg == [t \in Cpu |-> IF kOp[t] = "lookup" THEN NULL ELSE kArg[t]]
mRet == [t \in Cpu |-> IF kOp[t] = "lookup" THEN "none" ELSE kRet[t]]

\* A step of t changes the call of t alone.
LEMMA KOneCall ==
    ASSUME NEW t \in Cpu,
           \A u \in Cpu \ {t} : kOp'[u] = kOp[u] /\ kArg'[u] = kArg[u] /\ kRet'[u] = kRet[u]
    PROVE  /\ mOp'  = [mOp  EXCEPT ![t] = mOp'[t]]
           /\ mArg' = [mArg EXCEPT ![t] = mArg'[t]]
           /\ mRet' = [mRet EXCEPT ![t] = mRet'[t]]
  BY DEF mOp, mArg, mRet

\* The steps of KeyTable, over these.
LEMMA KSetSteps ==
    ASSUME NEW t \in Cpu
    PROVE  /\ UNCHANGED <<Present, mOp, mArg, mRet>> => UNCHANGED KSet!vars
           /\ (/\ mOp[t] = "none" /\ UNCHANGED Present
               /\ mRet' = [mRet EXCEPT ![t] = "pending"]
               /\ \/ \E o \in {"add", "del"}, k \in KKey : /\ mOp' = [mOp EXCEPT ![t] = o]
                                                          /\ mArg' = [mArg EXCEPT ![t] = k]
                  \/ mOp' = [mOp EXCEPT ![t] = "flush"] /\ UNCHANGED mArg) => KSet!Next
           /\ (/\ mRet[t] \notin {"none", "pending"} /\ UNCHANGED Present
               /\ mOp' = [mOp EXCEPT ![t] = "none"] /\ mArg' = [mArg EXCEPT ![t] = NULL]
               /\ mRet' = [mRet EXCEPT ![t] = "none"]) => KSet!Next
           /\ \A r \in KOutcomes :
                (/\ mRet[t] = "pending" /\ mRet' = [mRet EXCEPT ![t] = r] /\ UNCHANGED <<mOp, mArg>>
                 /\ \/ mOp[t] = "add" /\ r = "fail" /\ mArg[t] \in Present /\ UNCHANGED Present
                    \/ mOp[t] = "add" /\ r = "ok" /\ mArg[t] \notin Present /\ Present' = Present \cup {mArg[t]}
                    \/ mOp[t] = "add" /\ r = "nomem" /\ UNCHANGED Present
                    \/ mOp[t] = "del" /\ r = "ok" /\ mArg[t] \in Present /\ Present' = Present \ {mArg[t]}
                    \/ mOp[t] = "del" /\ r = "fail" /\ mArg[t] \notin Present /\ UNCHANGED Present
                    \/ mOp[t] = "flush" /\ r = "ok" /\ Present' = {}) => KSet!Next
<1> USE DEF Present, mOp, mArg, mRet
<1>1. UNCHANGED <<Present, mOp, mArg, mRet>> => UNCHANGED KSet!vars
  BY DEF KSet!vars
<1>2. (/\ mOp[t] = "none" /\ UNCHANGED Present
       /\ mRet' = [mRet EXCEPT ![t] = "pending"]
       /\ \/ \E o \in {"add", "del"}, k \in KKey : /\ mOp' = [mOp EXCEPT ![t] = o]
                                                  /\ mArg' = [mArg EXCEPT ![t] = k]
          \/ mOp' = [mOp EXCEPT ![t] = "flush"] /\ UNCHANGED mArg) => KSet!Next
  BY Zenon DEF KSet!Next, KSet!Invoke, KSet!InvokeFlush
<1>3. (/\ mRet[t] \notin {"none", "pending"} /\ UNCHANGED Present
       /\ mOp' = [mOp EXCEPT ![t] = "none"] /\ mArg' = [mArg EXCEPT ![t] = NULL]
       /\ mRet' = [mRet EXCEPT ![t] = "none"]) => KSet!Next
  BY Zenon DEF KSet!Next, KSet!Return
<1>4. ASSUME NEW r \in KOutcomes, mRet[t] = "pending", mRet' = [mRet EXCEPT ![t] = r],
             UNCHANGED <<mOp, mArg>>,
             \/ mOp[t] = "add" /\ r = "fail" /\ mArg[t] \in Present /\ UNCHANGED Present
             \/ mOp[t] = "add" /\ r = "ok" /\ mArg[t] \notin Present /\ Present' = Present \cup {mArg[t]}
             \/ mOp[t] = "add" /\ r = "nomem" /\ UNCHANGED Present
             \/ mOp[t] = "del" /\ r = "ok" /\ mArg[t] \in Present /\ Present' = Present \ {mArg[t]}
             \/ mOp[t] = "del" /\ r = "fail" /\ mArg[t] \notin Present /\ UNCHANGED Present
             \/ mOp[t] = "flush" /\ r = "ok" /\ Present' = {}
      PROVE  KSet!Next
  <2>1. KSet!Add(t) \/ KSet!AddNoMem(t) \/ KSet!Del(t) \/ KSet!FlushNow(t)
    BY <1>4, Zenon DEF KSet!Add, KSet!AddNoMem, KSet!Del, KSet!FlushNow, KSet!Effect
  <2>2. QED
    BY <2>1, Zenon DEF KSet!Next
<1>5. QED
  BY <1>1, <1>2, <1>3, <1>4, Zenon

\* Every step of the kernel's table is a step of KeyTable, or changes nothing
\* that KeyTable sees.
LEMMA KRefinesStep ==
    ASSUME KRefInv, [kNext]_kVars
    PROVE  [KSet!Next]_(KSet!vars)
<1> DEFINE Others(t) == \A u \in Cpu \ {t} : kOp'[u] = kOp[u] /\ kArg'[u] = kArg[u] /\ kRet'[u] = kRet[u]
           Takes(t) == /\ mOp' = mOp /\ mArg' = mArg /\ mRet' = [mRet EXCEPT ![t] = kRet'[t]]
                       /\ mRet[t] = "pending" /\ mOp[t] = kOp[t] /\ mArg[t] = kArg[t]
<1> USE DEF KRefInv, KInv, KTypes, KControl, ControlOf, KCalls, CallOf, KCritical, KGoes
<1>1. ASSUME UNCHANGED <<kChain, kKey>> PROVE KLinked' = KLinked /\ Present' = Present
  BY <1>1 DEF KLinked, Present
<1>2. ASSUME NEW t \in Cpu, Others(t), mOp'[t] = mOp[t], mArg'[t] = mArg[t], mRet'[t] = mRet[t]
      PROVE  UNCHANGED <<mOp, mArg, mRet>>
  BY <1>2 DEF mOp, mArg, mRet
<1>3. ASSUME NEW t \in Cpu, Others(t), UNCHANGED <<kOp, kArg>>, kOp[t] # "lookup", kRet[t] = "pending"
      PROVE  Takes(t)
  BY <1>3 DEF mOp, mArg, mRet
<1>4. CASE UNCHANGED kVars
  <2>1. UNCHANGED <<kChain, kKey, kOp, kArg, kRet>>
    BY <1>4 DEF kVars, kHeap
  <2>2. UNCHANGED <<mOp, mArg, mRet>>
    BY <2>1 DEF mOp, mArg, mRet
  <2>3. UNCHANGED Present
    BY <1>1, <2>1
  <2>4. UNCHANGED KSet!vars
    BY <2>2, <2>3 DEF KSet!vars, mOp, mArg, mRet, Present
  <2>5. QED
    BY <2>4
<1>5. ASSUME NEW t \in Cpu, KCall(t) PROVE [KSet!Next]_(KSet!vars)
  <2>1. PICK o \in {"add", "del", "lookup", "flush"}, k \in KKey \cup {NULL} :
            /\ kPc[t] = "idle" /\ (k = NULL <=> o = "flush")
            /\ kOp' = [kOp EXCEPT ![t] = o] /\ kArg' = [kArg EXCEPT ![t] = k]
            /\ kRet' = [kRet EXCEPT ![t] = "pending"] /\ UNCHANGED <<kChain, kKey>>
    BY <1>5 DEF KCall, kHeap
  <2>2. kOp[t] = "none" /\ kArg[t] = NULL /\ kRet[t] = "none" /\ Others(t) /\ UNCHANGED Present
    BY <1>1, <2>1
  <2>3. CASE o = "lookup"
    <3>1. mOp'[t] = mOp[t] /\ mArg'[t] = mArg[t] /\ mRet'[t] = mRet[t]
      BY <2>1, <2>2, <2>3 DEF mOp, mArg, mRet
    <3>2. QED
      BY <1>2, <2>2, <3>1, KSetSteps
  <2>4. CASE o # "lookup"
    <3>1. /\ mOp[t] = "none" /\ mArg[t] = NULL
          /\ mOp'[t] = o /\ mArg'[t] = k /\ mRet'[t] = "pending"
      BY <2>1, <2>2, <2>4 DEF mOp, mArg, mRet
    <3>2. /\ mOp'  = [mOp  EXCEPT ![t] = o]
          /\ mArg' = [mArg EXCEPT ![t] = k]
          /\ mRet' = [mRet EXCEPT ![t] = "pending"]
      BY <2>2, <3>1, KOneCall
    <3>3. CASE o = "flush"
      <4>1. mArg' = mArg
        BY <2>1, <3>1, <3>2, <3>3 DEF mArg
      <4>2. QED
        BY <2>2, <3>1, <3>2, <3>3, <4>1, KSetSteps
    <3>4. CASE o \in {"add", "del"}
      <4>1. k \in KKey
        BY <2>1, <3>4
      <4>2. \E p \in {"add", "del"}, q \in KKey : /\ mOp' = [mOp EXCEPT ![t] = p]
                                                   /\ mArg' = [mArg EXCEPT ![t] = q]
        BY <3>2, <3>4, <4>1, Zenon
      <4>3. QED
        BY <2>2, <3>1, <3>2, <4>2, KSetSteps, Zenon
    <3>5. QED
      BY <2>4, <3>3, <3>4
  <2>5. QED
    BY <2>3, <2>4
<1>6. ASSUME NEW t \in Cpu, KLockFind(t) PROVE [KSet!Next]_(KSet!vars)
  <2>1. /\ kPc[t] = "lock" /\ UNCHANGED <<kChain, kKey, kOp, kArg>> /\ kOp[t] # "lookup"
        /\ kRet[t] = "pending" /\ Others(t)
    BY <1>6 DEF KLockFind, kHeap
  <2>2. UNCHANGED Present /\ Takes(t)
    BY <1>1, <1>3, <2>1
  <2>3. CASE kRet'[t] = "pending"
    <3>1. mRet'[t] = mRet[t] /\ mOp'[t] = mOp[t] /\ mArg'[t] = mArg[t]
      BY <2>1, <2>3 DEF mOp, mArg, mRet
    <3>2. QED
      BY <1>2, <2>1, <2>2, <3>1, KSetSteps
  <2>4. CASE kRet'[t] # "pending"
    <3>1. /\ kRet'[t] = "fail"
          /\ \/ kOp[t] = "add" /\ Matching(kArg[t]) # {}
             \/ kOp[t] = "del" /\ Matching(kArg[t]) = {}
      BY <1>6, <2>1, <2>4 DEF KLockFind
    <3>2. Matching(kArg[t]) # {} <=> kArg[t] \in Present
      BY <3>1, KMatchingPresent
    <3>3. \/ mOp[t] = "add" /\ mArg[t] \in Present
          \/ mOp[t] = "del" /\ mArg[t] \notin Present
      BY <2>2, <3>1, <3>2
    <3>4. QED
      BY <2>2, <3>1, <3>3, KSetSteps DEF KOutcomes
  <2>5. QED
    BY <2>3, <2>4
<1>7. ASSUME NEW t \in Cpu, KInsert(t) PROVE [KSet!Next]_(KSet!vars)
  <2>1. /\ kPc[t] = "insert" /\ UNCHANGED <<kOp, kArg>> /\ kOp[t] = "add"
        /\ kRet[t] = "pending" /\ kRet'[t] = "ok" /\ Others(t)
    BY <1>7 DEF KInsert
  <2>2. Takes(t)
    BY <1>3, <2>1
  <2>3. QED
    BY <1>7, <2>1, <2>2, KInsertPresent, KSetSteps DEF KOutcomes
<1>8. ASSUME NEW t \in Cpu, KInsertNoMem(t) PROVE [KSet!Next]_(KSet!vars)
  <2>1. /\ kPc[t] = "insert" /\ UNCHANGED <<kChain, kKey, kOp, kArg>> /\ kOp[t] = "add"
        /\ kRet[t] = "pending" /\ kRet'[t] = "nomem" /\ Others(t)
    BY <1>8 DEF KInsertNoMem, kHeap
  <2>2. UNCHANGED Present /\ Takes(t)
    BY <1>1, <1>3, <2>1
  <2>3. QED
    BY <2>1, <2>2, KSetSteps DEF KOutcomes
<1>9. ASSUME NEW t \in Cpu, KUnlink(t) PROVE [KSet!Next]_(KSet!vars)
  <2>1. /\ kPc[t] = "unlink" /\ UNCHANGED <<kOp, kArg>> /\ kOp[t] = "del"
        /\ kRet[t] = "pending" /\ kRet'[t] = "ok" /\ Others(t)
    BY <1>9 DEF KUnlink
  <2>2. Takes(t)
    BY <1>3, <2>1
  <2>3. QED
    BY <1>9, <2>1, <2>2, KUnlinkPresent, KSetSteps DEF KOutcomes
<1>10. ASSUME NEW t \in Cpu, KFree(t) PROVE [KSet!Next]_(KSet!vars)
  <2>1. /\ kPtr[t] \in KNode \ KLinked /\ kKey' = [kKey EXCEPT ![kPtr[t]] = NULL]
        /\ UNCHANGED <<kChain, kOp, kArg>> /\ kRet' = [kRet EXCEPT ![t] = kRet[t]]
    BY <1>10, KOwnedParts DEF KFree, OwnedHands
  <2>2. KLinked' = KLinked /\ \A n \in KLinked : kKey'[n] = kKey[n]
    BY <2>1 DEF KLinked
  <2>3. UNCHANGED Present
    <3>1. Present' = {kKey'[n] : n \in KLinked}
      BY <2>2 DEF Present
    <3>2. {kKey'[n] : n \in KLinked} = {kKey[n] : n \in KLinked}
      BY <2>2, ZenonT(60)
    <3>3. QED
      BY <3>1, <3>2 DEF Present
  <2>4. kRet' = kRet
    BY <2>1
  <2>5. QED
    BY <2>1, <2>3, <2>4, KSetSteps DEF mOp, mArg, mRet
<1>11. ASSUME NEW t \in Cpu, KFlush(t) PROVE [KSet!Next]_(KSet!vars)
  <2>1. /\ kPc[t] = "flush" /\ UNCHANGED <<kOp, kArg>> /\ kOp[t] = "flush"
        /\ kRet[t] = "pending" /\ kRet'[t] = "ok" /\ Others(t)
        /\ kChain' = [b \in KBucket |-> <<>>]
    BY <1>11 DEF KFlush
  <2>2. Takes(t)
    BY <1>3, <2>1
  <2>3. Present' = {}
    BY <2>1 DEF Present, KLinked, ToSet
  <2>4. QED
    BY <2>1, <2>2, <2>3, KSetSteps DEF KOutcomes
<1>12. ASSUME NEW t \in Cpu, KLeave(t) PROVE [KSet!Next]_(KSet!vars)
  <2>1. UNCHANGED <<kChain, kKey, kOp, kArg>> /\ kRet' = [kRet EXCEPT ![t] = kRet[t]]
    BY <1>12 DEF KLeave, kHeap
  <2>2. kRet' = kRet
    BY <2>1
  <2>3. QED
    BY <1>1, <2>1, <2>2, KSetSteps DEF mOp, mArg, mRet
<1>13. ASSUME NEW t \in Cpu, KWalk(t) PROVE [KSet!Next]_(KSet!vars)
  <2>1. kOp[t] = "lookup" /\ UNCHANGED <<kChain, kKey, kOp, kArg>>
    BY <1>13, KWalkMoves
  <2>2. \A u \in Cpu \ {t} : kRet'[u] = kRet[u]
    BY <1>13 DEF KWalk
  <2>3. Others(t) /\ UNCHANGED Present
    BY <1>1, <2>1, <2>2
  <2>4. mOp'[t] = mOp[t] /\ mArg'[t] = mArg[t] /\ mRet'[t] = mRet[t]
    BY <2>1 DEF mOp, mArg, mRet
  <2>5. QED
    BY <1>2, <2>3, <2>4, KSetSteps
<1>14. ASSUME NEW t \in Cpu, KReturn(t) PROVE [KSet!Next]_(KSet!vars)
  <2>1. /\ kPc[t] = "done" /\ UNCHANGED <<kChain, kKey>>
        /\ kOp' = [kOp EXCEPT ![t] = "none"] /\ kArg' = [kArg EXCEPT ![t] = NULL]
        /\ kRet' = [kRet EXCEPT ![t] = "none"]
    BY <1>14 DEF KReturn, kHeap
  <2>2. Others(t) /\ UNCHANGED Present /\ kRet[t] \notin {"none", "pending"}
    BY <1>1, <2>1 DEF KOutcomes
  <2>3. mOp'[t] = "none" /\ mArg'[t] = NULL /\ mRet'[t] = "none"
    BY <2>1 DEF mOp, mArg, mRet
  <2>4. CASE kOp[t] = "lookup"
    <3>1. mOp[t] = "none" /\ mArg[t] = NULL /\ mRet[t] = "none"
      BY <2>4 DEF mOp, mArg, mRet
    <3>2. QED
      BY <1>2, <2>2, <2>3, <3>1, KSetSteps
  <2>5. CASE kOp[t] # "lookup"
    <3>1. mRet[t] = kRet[t]
      BY <2>5 DEF mRet
    <3>2. QED
      BY <2>2, <2>3, <3>1, KOneCall, KSetSteps
  <2>6. QED
    BY <2>4, <2>5
<1>15. QED
  BY <1>4, <1>5, <1>6, <1>7, <1>8, <1>9, <1>10, <1>11, <1>12, <1>13, <1>14 DEF kNext, KStep

\* KernelHash implements KeyTable: additions, deletions and flushes take effect
\* one at a time, on a set of keys, and answer accordingly, for every number of
\* callers (hash_list_kernel.c:92-190).
THEOREM KernelImplementsSet == KernelSpec => KernelIsSet
<1>1. kInit => KRefInv
  <2>1. kInit => KCalls
    BY DEF kInit, KCalls, CallOf, KCritical
  <2>2. QED
    BY <2>1, KInitInv DEF KRefInv
<1>2. KRefInv /\ [kNext]_kVars => KRefInv'
  BY KTypesStep, KLockStep, KOwnedStep, KAbsentStep, KCallsStep DEF KRefInv, KInv
<1>3. kInit => KSet!Init
  <2> SUFFICES ASSUME kInit PROVE KSet!Init
    OBVIOUS
  <2>1. KLinked = {}
    BY DEF kInit, KLinked, ToSet
  <2>2. {kKey[n] : n \in KLinked} = {}
    BY <2>1
  <2>3. QED
    BY <2>2 DEF kInit, KSet!Init
<1>4. KRefInv /\ [kNext]_kVars => [KSet!Next]_(KSet!vars)
  BY KRefinesStep
<1>5. QED
  BY <1>1, <1>2, <1>3, <1>4, PTL DEF KernelSpec, KernelIsSet

-----------------------------------------------------------------------------
(* The unlocked lookup *)

\* A walk that nobody has disturbed stands at a node of its own chain and has
\* passed no match, or is behind the last node and there is none; what it
\* reports is what the chain says.
SeenOf(t) == \A k \in KKey : kOp[t] = "lookup" /\ kClean[t] /\ kArg[t] = k =>
    /\ kPc[t] = "walk" =>
           \/ kPtr[t] = NULL /\ Matching(k) = {}
           \/ \E i \in DOMAIN kChain[KHash[k]] :
                  kChain[KHash[k]][i] = kPtr[t] /\ \A j \in Matching(k) : j >= i
    /\ kPc[t] = "done" => (kRet[t] = "ok" <=> Matching(k) # {})
KSeen == /\ kClean \in [Cpu -> BOOLEAN] /\ (kFault # NULL => ~kClean[kFault])
         /\ \A t \in Cpu : SeenOf(t)

\* Steps that leave the chains and the keys of linked nodes alone leave the
\* matches of every key alone.
LEMMA KMatchingSame ==
    ASSUME KTypes, UNCHANGED kChain, \A n \in KLinked : kKey'[n] = kKey[n]
    PROVE  \A k \in KKey : Matching(k)' = Matching(k)
<1> SUFFICES ASSUME NEW k \in KKey PROVE Matching(k)' = Matching(k)
  OBVIOUS
<1>1. KHash[k] \in KBucket
  BY KHashTypes
<1>2. \A i \in DOMAIN kChain[KHash[k]] : kChain[KHash[k]][i] \in KLinked
  BY <1>1, KChainTypes, KPlaces DEF At
<1>3. \A i \in DOMAIN kChain[KHash[k]] :
          kKey'[kChain[KHash[k]][i]] = kKey[kChain[KHash[k]][i]]
  BY <1>2
<1>4. \A i : i \in Matching(k)' <=> i \in Matching(k)
  BY <1>3 DEF Matching
<1>5. QED
  BY <1>4

\* a step of t leaves the calls of the others alone
Leaves(t) == \A u \in Cpu \ {t} : /\ kOp'[u] = kOp[u] /\ kArg'[u] = kArg[u] /\ kPc'[u] = kPc[u]
                                  /\ kPtr'[u] = kPtr[u] /\ kRet'[u] = kRet[u]
                                  /\ kClean'[u] = kClean[u]

\* The others' walks go on undisturbed by a step of t that leaves the chains and
\* the keys of linked nodes alone.
LEMMA KSeenOthers ==
    ASSUME KTypes, KSeen, NEW t \in Cpu, UNCHANGED kChain,
           \A n \in KLinked : kKey'[n] = kKey[n], Leaves(t)
    PROVE  \A u \in Cpu \ {t} : SeenOf(u)'
<1>1. \A k \in KKey : Matching(k)' = Matching(k)
  BY KMatchingSame
<1> SUFFICES ASSUME NEW u \in Cpu \ {t}, NEW k \in KKey,
                    kOp'[u] = "lookup", kClean'[u], kArg'[u] = k
             PROVE  /\ kPc'[u] = "walk" =>
                           \/ kPtr'[u] = NULL /\ Matching(k)' = {}
                           \/ \E i \in DOMAIN kChain'[KHash[k]] :
                                  kChain'[KHash[k]][i] = kPtr'[u] /\ \A j \in Matching(k)' : j >= i
                    /\ kPc'[u] = "done" => (kRet'[u] = "ok" <=> Matching(k)' # {})
  BY DEF SeenOf
<1>2. SeenOf(u) /\ kOp[u] = "lookup" /\ kClean[u] /\ kArg[u] = k /\ Matching(k)' = Matching(k)
  BY <1>1 DEF KSeen, Leaves
<1>3. QED
  BY <1>2 DEF SeenOf, Leaves

\* A turn of an undisturbed walk finds the match it stands at, or passes a node
\* that does not match; it never stands at a node that has left the chain.
LEMMA KSeenWalk ==
    ASSUME KTypes, KernelOwned, KSeen, KControl, NEW t \in Cpu, KWalk(t),
           kRet \in [Cpu -> KOutcomes \cup {"none", "pending"}]
    PROVE  SeenOf(t)' /\ (kFault' # kFault => ~kClean[t])
<1>1. /\ kPc[t] = "walk" /\ kOp[t] = "lookup" /\ kArg[t] \in KKey
      /\ UNCHANGED <<kChain, kKey, kOp, kArg, kClean>>
  BY DEF KWalk, KControl, ControlOf, kHeap
<1>2. CASE ~kClean[t]
  BY <1>1, <1>2 DEF SeenOf
<1>3. CASE kClean[t]
  <2> DEFINE k == kArg[t]
             h == KHash[k]
  <2>1. PICK k0 \in KKey : k0 = kArg[t]
    BY <1>1
  <2>2. h \in KBucket /\ k = k0 /\ Matching(k0)' = Matching(k0)
    BY <1>1, <2>1, KHashTypes, KMatchingSame
  <2>3. \/ kPtr[t] = NULL /\ Matching(k0) = {}
        \/ \E i \in DOMAIN kChain[h] : kChain[h][i] = kPtr[t] /\ \A j \in Matching(k0) : j >= i
    BY <1>1, <1>3, <2>1 DEF KSeen, SeenOf
  <2>4. \A i \in DOMAIN kChain[h] : kChain[h][i] \in KNode /\ kChain[h][i] \in KLinked
    BY <2>2, KChainTypes, KPlaces DEF At
  <2>5. NULL \notin KNode
    BY KernelAssumption
  \* what is left to show of the walk, in terms of its key
  <2>6. ASSUME \/ /\ kPc'[t] = "walk"
                  /\ \/ kPtr'[t] = NULL /\ Matching(k0) = {}
                     \/ \E i \in DOMAIN kChain[h] :
                            kChain[h][i] = kPtr'[t] /\ \A j \in Matching(k0) : j >= i
               \/ kPc'[t] = "done" /\ (kRet'[t] = "ok" <=> Matching(k0) # {})
        PROVE  SeenOf(t)'
    BY <1>1, <2>1, <2>2, <2>6 DEF SeenOf
  <2>7. CASE kPtr[t] = NULL /\ Matching(k0) = {}
    <3>1. /\ KGoes(t, "done", NULL, "fail") /\ UNCHANGED kFault
      BY <2>5, <2>7, KChainTypes DEF KWalk
    <3>2. kPc'[t] = "done" /\ kRet'[t] = "fail"
      BY <3>1 DEF KGoes, KTypes
    <3>3. QED
      BY <2>6, <2>7, <3>1, <3>2
  <2>8. CASE kPtr[t] # NULL
    <3>1. PICK i \in DOMAIN kChain[h] : kChain[h][i] = kPtr[t] /\ \A j \in Matching(k0) : j >= i
      BY <2>3, <2>8
    <3>2. PICK b \in KBucket : \E p \in DOMAIN kChain[b] :
              /\ kChain[b][p] = kPtr[t] /\ UNCHANGED kFault
              /\ IF kKey[kPtr[t]] = kArg[t] THEN KGoes(t, "done", kPtr[t], "ok")
                                            ELSE KGoes(t, "walk", KAfter(b, p), "pending")
      BY <2>4, <2>8, <3>1 DEF KWalk
    <3>3. PICK p \in DOMAIN kChain[b] :
              /\ kChain[b][p] = kPtr[t] /\ UNCHANGED kFault
              /\ IF kKey[kPtr[t]] = kArg[t] THEN KGoes(t, "done", kPtr[t], "ok")
                                            ELSE KGoes(t, "walk", KAfter(b, p), "pending")
      BY <3>2
    <3>4. b = h /\ p = i
      <4>1. kKey[kChain[b][p]] = kKey[kChain[h][i]]
        BY <3>1, <3>3
      <4>2. QED
        BY <2>2, <4>1, KOwnedParts DEF OwnedPlaces
    <3>5. /\ DOMAIN kChain[h] = 1 .. Len(kChain[h]) /\ Len(kChain[h]) \in Nat
          /\ Matching(k0) \subseteq DOMAIN kChain[h]
      BY <2>1, <2>2 DEF KTypes, Matching
    <3>6. CASE kKey[kPtr[t]] = kArg[t]
      <4>1. i \in Matching(k0)
        BY <2>1, <3>1, <3>6 DEF Matching
      <4>2. kPc'[t] = "done" /\ kRet'[t] = "ok"
        BY <3>3, <3>6 DEF KGoes, KTypes
      <4>3. QED
        BY <2>6, <3>3, <4>1, <4>2
    <3>7. CASE kKey[kPtr[t]] # kArg[t]
      <4>1. /\ kPc'[t] = "walk" /\ kPtr'[t] = KAfter(h, i)
        BY <3>3, <3>4, <3>7 DEF KGoes, KTypes
      <4>2. i \notin Matching(k0)
        BY <2>1, <3>1, <3>7 DEF Matching
      <4>3. \A j \in Matching(k0) : j >= i + 1
        BY <3>1, <3>5, <4>2
      <4>4. CASE i < Len(kChain[h])
        <5>1. i + 1 \in DOMAIN kChain[h] /\ KAfter(h, i) = kChain[h][i + 1]
          BY <3>5, <4>4 DEF KAfter
        <5>2. \E q \in DOMAIN kChain[h] :
                  kChain[h][q] = kPtr'[t] /\ \A j \in Matching(k0) : j >= q
          BY <4>1, <4>3, <5>1
        <5>3. QED
          BY <2>6, <3>3, <4>1, <5>2
      <4>5. CASE ~(i < Len(kChain[h]))
        <5>1. KAfter(h, i) = NULL /\ Matching(k0) = {}
          BY <3>5, <4>3, <4>5 DEF KAfter
        <5>2. QED
          BY <2>6, <3>3, <4>1, <5>1
      <4>6. QED
        BY <4>4, <4>5
    <3>8. QED
      BY <3>6, <3>7
  <2>9. QED
    BY <2>3, <2>4, <2>5, <2>7, <2>8
<1>4. QED
  BY <1>2, <1>3

\* What undisturbed walks have seen, over every step.
LEMMA KSeenStep ==
    ASSUME KTypes, KControl, KernelOwned, KCalls, KSeen, [kNext]_kVars
    PROVE  KSeen'
<1> USE DEF KTypes, KGoes
<1>0. \A t \in Cpu : \A l, n, r : KGoes(t, l, n, r) =>
          \A u \in Cpu \ {t} : kPc'[u] = kPc[u] /\ kPtr'[u] = kPtr[u] /\ kRet'[u] = kRet[u]
  BY DEF KCalls
<1>1. CASE UNCHANGED kVars
  <2>1. UNCHANGED <<kChain, kKey, kFault, kPc, kOp, kArg, kRet, kPtr, kClean>>
    BY <1>1 DEF kVars, kHeap
  <2>2. \A k \in KKey : Matching(k)' = Matching(k)
    BY <2>1, KMatchingSame
  <2>3. ASSUME NEW t \in Cpu PROVE SeenOf(t)'
    <3> SUFFICES ASSUME NEW k \in KKey, kOp'[t] = "lookup", kClean'[t], kArg'[t] = k
                 PROVE  /\ kPc'[t] = "walk" =>
                               \/ kPtr'[t] = NULL /\ Matching(k)' = {}
                               \/ \E i \in DOMAIN kChain'[KHash[k]] :
                                      /\ kChain'[KHash[k]][i] = kPtr'[t]
                                      /\ \A j \in Matching(k)' : j >= i
                        /\ kPc'[t] = "done" => (kRet'[t] = "ok" <=> Matching(k)' # {})
      BY DEF SeenOf
    <3>1. SeenOf(t) /\ Matching(k)' = Matching(k)
      BY <2>2 DEF KSeen
    <3>2. QED
      BY <2>1, <3>1 DEF SeenOf
  <2>4. QED
    BY <2>1, <2>3 DEF KSeen
<1>2. ASSUME kFault = NULL, UNCHANGED <<kFault, kClean>>, \A u \in Cpu : SeenOf(u)'
      PROVE  KSeen'
  BY <1>2 DEF KSeen
\* the changes of a chain disturb every lookup
<1>3. ASSUME NEW t \in Cpu, kFault = NULL, UNCHANGED kFault, KDisturbs(t), UNCHANGED kOp, kOp[t] # "lookup"
      PROVE  KSeen'
  <2>1. kClean' = [u \in Cpu |-> kClean[u] /\ (u = t \/ kOp[u] # "lookup")]
    BY <1>3 DEF KDisturbs
  <2>2. kClean' \in [Cpu -> BOOLEAN]
    BY <2>1 DEF KSeen
  <2>3. \A u \in Cpu : ~(kOp'[u] = "lookup" /\ kClean'[u])
    BY <1>3, <2>1
  <2>4. \A u \in Cpu : SeenOf(u)'
    BY <2>3 DEF SeenOf
  <2>5. QED
    BY <1>3, <2>2, <2>4 DEF KSeen
<1>4. ASSUME NEW t \in Cpu, kFault = NULL, KInsert(t) \/ KUnlink(t) \/ KFlush(t) PROVE KSeen'
  <2>1. UNCHANGED <<kFault, kOp>> /\ KDisturbs(t) /\ kPc[t] \in {"insert", "unlink", "flush"}
    BY <1>4 DEF KInsert, KUnlink, KFlush
  <2>2. kOp[t] # "lookup"
    BY <2>1 DEF KCalls, CallOf, KCritical
  <2>3. QED
    BY <1>3, <1>4, <2>1, <2>2
<1>5. ASSUME NEW t \in Cpu, kFault = NULL, KCall(t) PROVE KSeen'
  <2>1. PICK o \in {"add", "del", "lookup", "flush"}, q \in KKey \cup {NULL} :
            /\ (q = NULL <=> o = "flush")
            /\ kOp' = [kOp EXCEPT ![t] = o] /\ kArg' = [kArg EXCEPT ![t] = q]
            /\ IF o = "lookup" THEN KGoes(t, "walk", KHead(KHash[q]), "pending")
                               ELSE KGoes(t, "lock", NULL, "pending")
            /\ UNCHANGED <<kChain, kKey, kFault, kClean>>
    BY <1>5 DEF KCall, kHeap
  <2>6. Leaves(t)
    <3>1. \A u \in Cpu \ {t} : kPc'[u] = kPc[u] /\ kPtr'[u] = kPtr[u] /\ kRet'[u] = kRet[u]
      <4> HIDE DEF KGoes
      <4>1. \E l, n, r : KGoes(t, l, n, r)
        BY <2>1
      <4>2. QED
        BY <1>0, <4>1
    <3>2. QED
      BY <2>1, <3>1 DEF Leaves
  <2>2. \A u \in Cpu \ {t} : SeenOf(u)'
    BY <2>1, <2>6, KSeenOthers
  <2>3. ASSUME o = "lookup", NEW k \in KKey, k = q
        PROVE  \/ kPtr'[t] = NULL /\ Matching(k)' = {}
               \/ \E i \in DOMAIN kChain'[KHash[k]] :
                      kChain'[KHash[k]][i] = kPtr'[t] /\ \A j \in Matching(k)' : j >= i
    <3>1. kPtr'[t] = KHead(KHash[k]) /\ KHash[k] \in KBucket
      BY <2>1, <2>3, KHashTypes
    <3>2. /\ Matching(k)' = Matching(k) /\ Matching(k) \subseteq DOMAIN kChain[KHash[k]]
          /\ DOMAIN kChain[KHash[k]] = 1 .. Len(kChain[KHash[k]]) /\ Len(kChain[KHash[k]]) \in Nat
      BY <2>1, <3>1, KMatchingSame DEF Matching
    <3>3. CASE kChain[KHash[k]] = <<>>
      BY <3>1, <3>2, <3>3 DEF KHead
    <3>4. CASE kChain[KHash[k]] # <<>>
      <4>1. 1 \in DOMAIN kChain[KHash[k]] /\ KHead(KHash[k]) = kChain[KHash[k]][1]
        BY <3>1, <3>2, <3>4 DEF KHead
      <4>2. \A j \in Matching(k)' : j >= 1
        BY <3>2
      <4>3. 1 \in DOMAIN kChain'[KHash[k]] /\ kChain'[KHash[k]][1] = kPtr'[t]
        BY <2>1, <3>1, <4>1
      <4>4. QED
        BY <4>2, <4>3
    <3>5. QED
      BY <3>3, <3>4
  <2>4. SeenOf(t)'
    <3>1. o = "lookup" => kPc'[t] = "walk"
      BY <2>1
    <3>2. kOp'[t] = o /\ kArg'[t] = q
      BY <2>1
    <3>3. QED
      BY <2>3, <3>1, <3>2 DEF SeenOf
  <2>5. QED
    BY <1>2, <1>5, <2>1, <2>2, <2>4
<1>6. ASSUME NEW t \in Cpu, kFault = NULL, KLockFind(t) \/ KInsertNoMem(t) \/ KLeave(t) \/ KFree(t)
      PROVE  KSeen'
  <2>1. /\ UNCHANGED <<kChain, kOp, kArg, kFault, kClean>>
        /\ kPc[t] \in {"lock", "insert", "leave", "free"}
        /\ Leaves(t)
    <3> HIDE DEF KGoes
    <3>1. \E l, n, r : KGoes(t, l, n, r)
      BY <1>6 DEF KLockFind, KInsertNoMem, KLeave, KFree
    <3>2. /\ UNCHANGED <<kChain, kOp, kArg, kFault, kClean>>
          /\ kPc[t] \in {"lock", "insert", "leave", "free"}
      BY <1>6 DEF KLockFind, KInsertNoMem, KLeave, KFree, kHeap
    <3>3. \A u \in Cpu \ {t} : kPc'[u] = kPc[u] /\ kPtr'[u] = kPtr[u] /\ kRet'[u] = kRet[u]
      BY <1>0, <3>1
    <3>4. QED
      BY <3>2, <3>3 DEF Leaves
  <2>2. \A n \in KLinked : kKey'[n] = kKey[n]
    <3>1. CASE kPc[t] = "free"
      <4>1. kKey' = [kKey EXCEPT ![kPtr[t]] = NULL] /\ kPtr[t] \notin KLinked
        BY <1>6, <3>1, KOwnedParts DEF KLockFind, KInsertNoMem, KLeave, KFree, OwnedHands
      <4>2. QED
        BY <4>1 DEF KLinked
    <3>2. CASE kPc[t] # "free"
      BY <1>6, <3>2 DEF KLockFind, KInsertNoMem, KLeave, KFree, kHeap
    <3>3. QED
      BY <3>1, <3>2
  <2>3. \A u \in Cpu \ {t} : SeenOf(u)'
    BY <2>1, <2>2, KSeenOthers
  <2>4. kOp[t] # "lookup"
    BY <1>6, <2>1 DEF KControl, ControlOf, KCalls, CallOf, KCritical
  <2>5. SeenOf(t)'
    BY <2>1, <2>4 DEF SeenOf
  <2>6. QED
    BY <1>2, <1>6, <2>1, <2>3, <2>5
<1>7. ASSUME NEW t \in Cpu, kFault = NULL, KWalk(t) PROVE KSeen'
  <2>1. /\ UNCHANGED <<kChain, kKey, kOp, kArg, kClean>> /\ kFault' \in {kFault, t}
        /\ Leaves(t)
    <3> HIDE DEF KGoes
    <3>1. (\E l, n, r : KGoes(t, l, n, r)) \/ UNCHANGED <<kPc, kPtr, kRet>>
      BY <1>7 DEF KWalk
    <3>2. UNCHANGED <<kChain, kKey, kOp, kArg, kClean>> /\ kFault' \in {kFault, t}
      BY <1>7 DEF KWalk, kHeap
    <3>3. \A u \in Cpu \ {t} : kPc'[u] = kPc[u] /\ kPtr'[u] = kPtr[u] /\ kRet'[u] = kRet[u]
      BY <1>0, <3>1
    <3>4. QED
      BY <3>2, <3>3 DEF Leaves
  <2>2. \A u \in Cpu \ {t} : SeenOf(u)'
    BY <2>1, KSeenOthers
  <2>3. SeenOf(t)' /\ (kFault' # kFault => ~kClean[t])
    BY <1>7, KSeenWalk DEF KCalls
  <2>4. QED
    BY <1>7, <2>1, <2>2, <2>3 DEF KSeen
<1>8. ASSUME NEW t \in Cpu, kFault = NULL, KReturn(t) PROVE KSeen'
  <2>1. /\ UNCHANGED <<kChain, kKey, kFault>> /\ kClean' = [kClean EXCEPT ![t] = TRUE]
        /\ kOp' = [kOp EXCEPT ![t] = "none"]
        /\ Leaves(t)
    BY <1>8 DEF KReturn, kHeap, KSeen, Leaves
  <2>2. \A u \in Cpu \ {t} : SeenOf(u)'
    BY <2>1, KSeenOthers
  <2>3. SeenOf(t)'
    BY <2>1 DEF SeenOf
  <2>4. kClean' \in [Cpu -> BOOLEAN]
    BY <2>1 DEF KSeen
  <2>5. QED
    BY <1>8, <2>1, <2>2, <2>3, <2>4 DEF KSeen
<1>9. QED
  BY <1>1, <1>4, <1>5, <1>6, <1>7, <1>8 DEF kNext, KStep

\* A lookup without the lock, during which no other thread changed a chain, reads
\* no node that has left its chain and finds its key exactly when it is there
\* (hash_list_kernel.c:192-222).
THEOREM KernelLookups == KernelSpec => []KernelLookup
<1>1. kInit => KRefInv /\ KSeen
  <2>1. kInit => KCalls
    BY DEF kInit, KCalls, CallOf, KCritical
  <2>2. kInit => KSeen
    BY DEF kInit, KSeen, SeenOf
  <2>3. QED
    BY <2>1, <2>2, KInitInv DEF KRefInv
<1>2. KRefInv /\ KSeen /\ [kNext]_kVars => (KRefInv /\ KSeen)'
  <2>1. KRefInv /\ [kNext]_kVars => KRefInv'
    BY KTypesStep, KLockStep, KOwnedStep, KAbsentStep, KCallsStep DEF KRefInv, KInv
  <2>2. KRefInv /\ KSeen /\ [kNext]_kVars => KSeen'
    BY KSeenStep DEF KRefInv, KInv
  <2>3. QED
    BY <2>1, <2>2
<1>3. KRefInv /\ KSeen => KernelLookup
  <2> SUFFICES ASSUME KRefInv, KSeen PROVE KernelLookup
    OBVIOUS
  <2>1. ASSUME NEW t \in Cpu, kOp[t] = "lookup", kPc[t] = "done", kClean[t]
        PROVE  kRet[t] = "ok" <=> Matching(kArg[t]) # {}
    <3>1. kArg[t] \in KKey
      BY <2>1 DEF KRefInv, KInv, KControl, ControlOf
    <3>2. QED
      BY <2>1, <3>1 DEF KSeen, SeenOf
  <2>2. QED
    BY <2>1 DEF KernelLookup, KSeen
<1>4. QED
  BY <1>1, <1>2, <1>3, PTL DEF KernelSpec

-----------------------------------------------------------------------------
(* LfQueue *)

\* q is the list from lf->head on.
Chained(q) ==
    /\ q \in Seq(Node) /\ Len(q) > 0 /\ head = q[1]
    /\ \A i, j \in 1 .. Len(q) : q[i] = q[j] => i = j
    /\ \A i \in 1 .. Len(q) - 1 : nxt[q[i]] = q[i + 1]
    /\ nxt[q[Len(q)]] = NULL

Linked(q) == {q[i] : i \in 1 .. Len(q)}

LfPcs == {"idle", "push", "tmp", "tail", "link", "pop", "advance", "replace",
          "settail", "free", "done"}

\* What each variable is.
LfTypes ==
    /\ head \in Node \cup {NULL} /\ tail \in Node \cup {NULL}
    /\ nxt \in [Node -> Node \cup {NULL}] /\ data \in [Node -> Data \cup {NULL}]
    /\ alloc \in SUBSET Node /\ open \in BOOLEAN
    /\ pc \in [QThread -> LfPcs] /\ op \in [QThread -> {"none", "push", "pop"}]
    /\ arg \in [QThread -> Data \cup {NULL}]
    /\ ret \in [QThread -> Data \cup {NULL, "none", "pending", "ok", "nomem"}]
    /\ node \in [QThread -> Node \cup {NULL}] /\ tmp \in [QThread -> Node \cup {NULL}]

\* Between malloc and the link, and between the unlink and free, the thread has a
\* node the list has not.
Apart(q, t) ==
    IF pc[t] \in {"tmp", "tail", "link", "settail", "free"}
    THEN node[t] \in Node \ Linked(q) /\ alloc = Linked(q) \cup {node[t]}
    ELSE alloc = Linked(q)

\* lf->tail is the last node, except between the two stores that move it.
TailAt(q, t) ==
    /\ pc[t] \notin {"link", "settail"} => tail = q[Len(q)]
    /\ pc[t] = "link" => tail = node[t]
    /\ pc[t] \in {"tail", "link"} => tmp[t] = q[Len(q)]
    /\ pc[t] \in {"tmp", "tail", "link"} =>
          nxt[node[t]] = NULL /\ data[node[t]] = arg[t]

\* What pop has seen of the list still holds.
SeenBy(q, t) ==
    /\ pc[t] \in {"advance", "replace"} => node[t] = head
    /\ pc[t] = "advance" => Len(q) > 1
    /\ pc[t] \in {"replace", "settail"} => Len(q) = 1
    /\ pc[t] = "replace" => data[head] \in Data
    /\ pc[t] = "settail" => data[head] = NULL

\* Which call is at which step, and whether it has taken effect.
CallAt(t) ==
    /\ pc[t] = "idle" => op[t] = "none"
    /\ pc[t] \in {"push", "tmp", "tail", "link"} => op[t] = "push" /\ arg[t] \in Data
    /\ pc[t] \in {"pop", "advance", "replace", "settail", "free"} => op[t] = "pop"
    /\ pc[t] \in {"push", "tmp", "tail", "link", "pop", "advance", "replace"} =>
          ret[t] = "pending"
    /\ pc[t] \in {"settail", "free", "done"} => ret[t] \notin {"none", "pending"}

\* The queue between lf_queue_init and lf_queue_deinit: only the first node may be
\* empty.
InUse(q) ==
    /\ open /\ Chained(q)
    /\ \A i \in 2 .. Len(q) : data[q[i]] \in Data
    /\ \A t \in QThread : Apart(q, t) /\ TailAt(q, t) /\ SeenBy(q, t)

Unused == ~open /\ head = NULL /\ alloc = {} /\ \A t \in QThread : pc[t] = "idle"

\* lf_queue_deinit has freed a node twice and left the last one.
Broken == fault /\ ~open /\ alloc = {tail}

\* What does not mention the list.
LfBase == LfTypes /\ ~fault /\ \A t \in QThread : CallAt(t)

LfInv == Broken \/ (LfBase /\ (Unused \/ \E q \in Seq(Node) : InUse(q)))

-----------------------------------------------------------------------------
(* The walk finds the list *)


\* A list without repetition is no longer than there are nodes.
LEMMA LengthBound ==
    ASSUME NEW q, Chained(q)
    PROVE  Cardinality(Node) \in Nat /\ Len(q) \in Nat /\ Len(q) <= Cardinality(Node)
<1>1. /\ Len(q) \in Nat /\ q \in [1 .. Len(q) -> Node]
      /\ \A i, j \in 1 .. Len(q) : q[i] = q[j] => i = j
  BY DEF Chained
<1>2. q \in Injection(1 .. Len(q), Node)
  BY <1>1 DEF Injection, IsInjective
<1>3. Cardinality(1 .. Len(q)) <= Cardinality(Node)
  BY <1>2, NodeAssumption, FS_Injection
<1>4. Cardinality(1 .. Len(q)) = Len(q)
  <2>1. \A l \in Int : Cardinality(1 .. l) = IF 1 > l THEN 0 ELSE l - 1 + 1
    BY FS_Interval
  <2>2. QED
    BY <1>1, <2>1
<1>5. Cardinality(Node) \in Nat
  BY NodeAssumption, FS_CardinalityType
<1>6. QED
  BY <1>1, <1>3, <1>4, <1>5

\* The part of the list a walk of k steps has seen.
Walked(q, k) == SubSeq(q, 1, IF k < Len(q) THEN k + 1 ELSE Len(q))

\* One step of the walk sees one more node, up to the last.
LEMMA WalkStep ==
    ASSUME NEW q, Chained(q), NEW k \in Nat, k > 0
    PROVE  Walked(q, k) =
             (IF nxt[Walked(q, k - 1)[Len(Walked(q, k - 1))]] = NULL
              THEN Walked(q, k - 1)
              ELSE Append(Walked(q, k - 1),
                          nxt[Walked(q, k - 1)[Len(Walked(q, k - 1))]]))
<1>0. q \in Seq(Node) /\ Len(q) \in Nat /\ Len(q) > 0
  BY DEF Chained
<1> DEFINE p == Walked(q, k - 1)
           m == IF k - 1 < Len(q) THEN k ELSE Len(q)
<1>1. m \in 1 .. Len(q) /\ p = SubSeq(q, 1, m)
  BY <1>0 DEF Walked
<1> HIDE DEF m
<1>2. /\ p \in Seq(Node) /\ Len(p) = m /\ p[Len(p)] = q[m]
      /\ \A i \in 1 .. m : p[i] = q[i]
  BY <1>0, <1>1
<1>3. CASE k < Len(q)
  <2>1. m = k /\ Walked(q, k) = SubSeq(q, 1, k + 1)
    BY <1>0, <1>3 DEF Walked, m
  <2>2. nxt[q[k]] = q[k + 1] /\ q[k + 1] \in Node
    BY <1>0, <1>3 DEF Chained
  <2>3. nxt[p[Len(p)]] # NULL /\ nxt[p[Len(p)]] = q[k + 1]
    BY <1>2, <2>1, <2>2, SentinelAssumption
  <2>4. Append(p, q[k + 1]) = SubSeq(q, 1, k + 1)
    <3>1. Append(SubSeq(q, 1, k), q[k + 1]) = SubSeq(q, 1, k + 1)
      BY <1>0, <1>3, <2>2
    <3>2. QED
      BY <1>1, <2>1, <3>1
  <2>5. QED
    BY <2>1, <2>3, <2>4
<1>4. CASE k >= Len(q)
  <2>1. m = Len(q) /\ Walked(q, k) = SubSeq(q, 1, Len(q))
    BY <1>0, <1>4 DEF Walked, m
  <2>2. nxt[p[Len(p)]] = NULL
    BY <1>2, <2>1 DEF Chained
  <2>3. QED
    BY <1>1, <2>1, <2>2
<1>5. k < Len(q) \/ k >= Len(q)
  BY <1>0
<1>6. QED
  BY <1>3, <1>4, <1>5

\* The nodes one finds from lf->head on are the list.
LEMMA WalkFinds == \A q \in Seq(Node) : Chained(q) => Path = q
<1> SUFFICES ASSUME NEW q \in Seq(Node), Chained(q) PROVE Path = q
  OBVIOUS
<1> DEFINE N == Cardinality(Node)
           More(p) == IF nxt[p[Len(p)]] = NULL THEN p ELSE Append(p, nxt[p[Len(p)]])
           Rule(f) == f = [k \in 0 .. N |-> IF k = 0 THEN <<head>> ELSE More(f[k - 1])]
           w == [k \in 0 .. N |-> Walked(q, k)]
<1>0. N \in Nat /\ Len(q) \in Nat /\ Len(q) <= N /\ Len(q) > 0 /\ head = q[1]
  BY LengthBound DEF Chained
<1>1. \A k \in 0 .. N : w[k] = IF k = 0 THEN <<head>> ELSE More(w[k - 1])
  <2> SUFFICES ASSUME NEW k \in 0 .. N
               PROVE  w[k] = IF k = 0 THEN <<head>> ELSE More(w[k - 1])
    OBVIOUS
  <2>1. CASE k = 0
    <3>1. SubSeq(q, 1, 1) = <<q[1]>>
      <4> DEFINE u == SubSeq(q, 1, 1)
                 v == <<q[1]>>
      <4>1. u \in Seq(Node) /\ Len(u) = 1 /\ u[1] = q[1]
        BY <1>0
      <4>2. v \in Seq(Node) /\ Len(v) = 1 /\ v[1] = q[1]
        BY <1>0
      <4> HIDE DEF u, v
      <4>3. \A i \in 1 .. Len(u) : u[i] = v[i]
        BY <4>1, <4>2
      <4>4. u = v
        BY <4>1, <4>2, <4>3, SeqEqual
      <4>5. QED
        BY <4>4 DEF u, v
    <3>2. Walked(q, 0) = SubSeq(q, 1, 1)
      BY <1>0 DEF Walked
    <3>3. QED
      BY <1>0, <2>1, <3>1, <3>2
  <2>2. CASE k # 0
    <3>1. k \in Nat /\ k > 0 /\ k - 1 \in 0 .. N
      BY <1>0, <2>2
    <3>2. w[k] = Walked(q, k) /\ w[k - 1] = Walked(q, k - 1)
      BY <3>1
    <3>3. Walked(q, k) = More(Walked(q, k - 1))
      BY <3>1, WalkStep
    <3>4. QED
      BY <2>2, <3>2, <3>3
  <2>3. QED
    BY <2>1, <2>2
<1>2. Rule(w)
  <2> HIDE DEF More
  <2>1. QED
    BY <1>1
<1>3. Rule(Reach)
  <2>1. Reach = CHOOSE f : Rule(f)
    BY DEF Reach
  <2> HIDE DEF Rule, w
  <2>2. QED
    BY <1>2, <2>1, Zenon
<1>4. \A k \in 0 .. N : Reach[k] = IF k = 0 THEN <<head>> ELSE More(Reach[k - 1])
  <2> HIDE DEF More, N
  <2>1. QED
    BY <1>3
<1> DEFINE S == {k \in 0 .. N : Reach[k] # w[k]}
<1>5. S = {}
  <2> SUFFICES ASSUME S # {} PROVE FALSE
    OBVIOUS
  <2>1. S \in SUBSET Nat
    BY <1>0
  <2> HIDE DEF w, More, N
  <2>2. PICK k \in S : \A j \in S : k <= j
    BY <2>1, Least
  <2>3. k \in 0 .. N /\ k \in Nat /\ Reach[k] # w[k]
    BY <1>0
  <2>4. k # 0
    BY <1>1, <1>4, <2>3
  <2>5. k - 1 \in 0 .. N /\ ~ (k <= k - 1)
    BY <1>0, <2>3, <2>4
  <2>6. Reach[k - 1] = w[k - 1]
    BY <2>2, <2>5
  <2>7. QED
    BY <1>1, <1>4, <2>3, <2>4, <2>6
<1>6. Reach[N] = Walked(q, N)
  <2>1. N \in 0 .. N
    BY <1>0
  <2>2. Reach[N] = w[N]
    BY <1>5, <2>1
  <2>3. QED
    BY <2>1, <2>2
<1>7. Walked(q, N) = q
  <2>1. Walked(q, N) = SubSeq(q, 1, Len(q))
    BY <1>0 DEF Walked
  <2>2. QED
    BY <1>0, <2>1
<1>8. head # NULL
  BY <1>0, SentinelAssumption
<1>9. QED
  BY <1>6, <1>7, <1>8 DEF Path

-----------------------------------------------------------------------------
(* One thread calls both functions: what each step does to the list *)

Solo == Pusher = Popper

\* The thread that calls is the only one.
LEMMA OnlyThread == ASSUME Solo, NEW t \in QThread PROVE \A u \in QThread : u = t
  BY OneToOne DEF Solo, QThread

\* An element or NULL is told apart from the other outcomes, and from each other.
LEMMA Outcomes ==
    /\ \A d \in Data : d \notin {"none", "pending", "ok", "nomem"} /\ d # NULL
    /\ NULL \notin {"none", "pending", "ok", "nomem"}
  BY SentinelAssumption

\* The last node of the list, the first one, and those the list has.
LEMMA Ends ==
    ASSUME NEW q, Chained(q)
    PROVE  /\ q \in Seq(Node) /\ Len(q) \in Nat /\ Len(q) > 0
           /\ q[Len(q)] \in Node /\ q[Len(q)] \in Linked(q)
           /\ head = q[1] /\ head \in Node /\ head \in Linked(q)
           /\ (nxt[head] = NULL <=> Len(q) = 1)
           /\ \A i \in 1 .. Len(q) : q[i] \in Node /\ q[i] \in Linked(q)
<1>1. q \in Seq(Node) /\ Len(q) \in Nat /\ Len(q) > 0 /\ head = q[1]
  BY DEF Chained
<1>2. \A i \in 1 .. Len(q) : q[i] \in Node /\ q[i] \in Linked(q)
  BY <1>1 DEF Linked
<1>3. 1 \in 1 .. Len(q) /\ Len(q) \in 1 .. Len(q)
  BY <1>1
<1>4. nxt[head] = NULL <=> Len(q) = 1
  <2>1. CASE Len(q) = 1
    BY <1>1, <2>1 DEF Chained
  <2>2. CASE Len(q) # 1
    <3> DEFINE l == Len(q)
    <3>0. l \in Nat /\ l > 0 /\ l # 1
      BY <1>1, <2>2
    <3> HIDE DEF l
    <3>1. 1 \in 1 .. l - 1 /\ 1 + 1 \in 1 .. l
      BY <3>0
    <3>2. nxt[q[1]] = q[1 + 1]
      BY <3>1 DEF Chained, l
    <3>3. nxt[q[1]] \in Node
      BY <1>2, <3>1, <3>2 DEF l
    <3>4. QED
      BY <1>1, <2>2, <3>3, SentinelAssumption
  <2>3. QED
    BY <2>1, <2>2
<1>5. QED
  BY <1>1, <1>2, <1>3, <1>4

\* A step that leaves the list and its elements alone.
LEMMA SameList ==
    ASSUME NEW q, InUse(q), UNCHANGED <<head, open>>,
           \A n \in Linked(q) : nxt'[n] = nxt[n] /\ data'[n] = data[n]
    PROVE  open' /\ Chained(q)' /\ \A i \in 2 .. Len(q) : data'[q[i]] \in Data
<1>1. Chained(q) /\ open
  BY DEF InUse
<1>2. /\ Len(q) \in Nat /\ Len(q) > 0
      /\ \A i \in 1 .. Len(q) : nxt'[q[i]] = nxt[q[i]] /\ data'[q[i]] = data[q[i]]
  BY <1>1, Ends
<1>3. Chained(q)'
  BY <1>1, <1>2 DEF Chained
<1>4. \A i \in 2 .. Len(q) : data'[q[i]] \in Data
  BY <1>2 DEF InUse
<1>5. QED
  BY <1>1, <1>3, <1>4

\* A call begins.
LEMMA CallKeeps ==
    ASSUME Solo, LfBase, NEW q, InUse(q), NEW t \in QThread, CallPush(t) \/ CallPop(t)
    PROVE  LfBase' /\ InUse(q)'
<1>0. Chained(q) /\ (\A u \in QThread : u = t) /\ LfTypes /\ CallAt(t) /\ ~fault
      /\ Apart(q, t) /\ TailAt(q, t) /\ SeenBy(q, t)
  BY OnlyThread DEF LfBase, InUse
<1> USE DEF CallPush, CallPop, QCall, Goto, Result, list, local
<1>1. open' /\ Chained(q)' /\ \A i \in 2 .. Len(q) : data'[q[i]] \in Data
  BY <1>0, SameList
<1>2. LfTypes' /\ ~fault'
  <2>1. ~fault'
    BY <1>0
  <2>2. /\ head' \in Node \cup {NULL} /\ tail' \in Node \cup {NULL}
        /\ open' \in BOOLEAN /\ alloc' \in SUBSET Node
    BY <1>0 DEF LfTypes
  <2>3. nxt' \in [Node -> Node \cup {NULL}] /\ data' \in [Node -> Data \cup {NULL}]
    BY <1>0 DEF LfTypes
  <2>4. pc' \in [QThread -> LfPcs]
    BY <1>0 DEF LfTypes, LfPcs
  <2>5. /\ op' \in [QThread -> {"none", "push", "pop"}]
        /\ arg' \in [QThread -> Data \cup {NULL}]
        /\ ret' \in [QThread -> Data \cup {NULL, "none", "pending", "ok", "nomem"}]
    BY <1>0 DEF LfTypes
  <2>6. /\ node' \in [QThread -> Node \cup {NULL}]
        /\ tmp' \in [QThread -> Node \cup {NULL}]
    BY <1>0 DEF LfTypes
  <2>7. QED
    BY <2>1, <2>2, <2>3, <2>4, <2>5, <2>6 DEF LfTypes
<1>3. CallAt(t)'
  BY <1>0, Outcomes DEF CallAt, LfTypes
<1>4. Apart(q, t)' /\ TailAt(q, t)' /\ SeenBy(q, t)'
  <2>1. Apart(q, t)'
    BY <1>0 DEF Apart, LfTypes, Linked
  <2>2. TailAt(q, t)'
    BY <1>0 DEF Apart, TailAt, SeenBy, CallAt, LfTypes
  <2>3. SeenBy(q, t)'
    BY <1>0 DEF Apart, SeenBy, CallAt, LfTypes
  <2>4. QED
    BY <2>1, <2>2, <2>3
<1>5. QED
  BY <1>0, <1>1, <1>2, <1>3, <1>4 DEF LfBase, InUse

\* tmp = lf->tail.
LEMMA ReadTailKeeps ==
    ASSUME Solo, LfBase, NEW q, InUse(q), NEW t \in QThread, ReadTail(t)
    PROVE  LfBase' /\ InUse(q)'
<1>0. Chained(q) /\ (\A u \in QThread : u = t) /\ LfTypes /\ CallAt(t) /\ ~fault
      /\ Apart(q, t) /\ TailAt(q, t) /\ SeenBy(q, t)
  BY OnlyThread DEF LfBase, InUse
<1> USE DEF ReadTail, Goto, list, local
<1>1. open' /\ Chained(q)' /\ \A i \in 2 .. Len(q) : data'[q[i]] \in Data
  BY <1>0, SameList
<1>2. LfTypes' /\ ~fault'
  <2>1. ~fault'
    BY <1>0
  <2>2. /\ head' \in Node \cup {NULL} /\ tail' \in Node \cup {NULL}
        /\ open' \in BOOLEAN /\ alloc' \in SUBSET Node
    BY <1>0 DEF LfTypes
  <2>3. nxt' \in [Node -> Node \cup {NULL}] /\ data' \in [Node -> Data \cup {NULL}]
    BY <1>0 DEF LfTypes
  <2>4. pc' \in [QThread -> LfPcs]
    BY <1>0 DEF LfTypes, LfPcs
  <2>5. /\ op' \in [QThread -> {"none", "push", "pop"}]
        /\ arg' \in [QThread -> Data \cup {NULL}]
        /\ ret' \in [QThread -> Data \cup {NULL, "none", "pending", "ok", "nomem"}]
    BY <1>0 DEF LfTypes
  <2>6. /\ node' \in [QThread -> Node \cup {NULL}]
        /\ tmp' \in [QThread -> Node \cup {NULL}]
    BY <1>0 DEF LfTypes
  <2>7. QED
    BY <2>1, <2>2, <2>3, <2>4, <2>5, <2>6 DEF LfTypes
<1>3. CallAt(t)'
  BY <1>0, Outcomes DEF CallAt, LfTypes
<1>4. Apart(q, t)' /\ TailAt(q, t)' /\ SeenBy(q, t)'
  <2>1. Apart(q, t)'
    BY <1>0 DEF Apart, LfTypes, Linked
  <2>2. TailAt(q, t)'
    BY <1>0 DEF Apart, TailAt, SeenBy, CallAt, LfTypes
  <2>3. SeenBy(q, t)'
    BY <1>0 DEF Apart, SeenBy, CallAt, LfTypes
  <2>4. QED
    BY <2>1, <2>2, <2>3
<1>5. QED
  BY <1>0, <1>1, <1>2, <1>3, <1>4 DEF LfBase, InUse

\* lf->tail = node.
LEMMA SetTailKeeps ==
    ASSUME Solo, LfBase, NEW q, InUse(q), NEW t \in QThread, SetTail(t)
    PROVE  LfBase' /\ InUse(q)'
<1>0. Chained(q) /\ (\A u \in QThread : u = t) /\ LfTypes /\ CallAt(t) /\ ~fault
      /\ Apart(q, t) /\ TailAt(q, t) /\ SeenBy(q, t)
  BY OnlyThread DEF LfBase, InUse
<1> USE DEF SetTail, Goto, list, local
<1>1. open' /\ Chained(q)' /\ \A i \in 2 .. Len(q) : data'[q[i]] \in Data
  BY <1>0, SameList
<1>2. LfTypes' /\ ~fault'
  <2>1. ~fault'
    BY <1>0
  <2>2. /\ head' \in Node \cup {NULL} /\ tail' \in Node \cup {NULL}
        /\ open' \in BOOLEAN /\ alloc' \in SUBSET Node
    BY <1>0 DEF LfTypes
  <2>3. nxt' \in [Node -> Node \cup {NULL}] /\ data' \in [Node -> Data \cup {NULL}]
    BY <1>0 DEF LfTypes
  <2>4. pc' \in [QThread -> LfPcs]
    BY <1>0 DEF LfTypes, LfPcs
  <2>5. /\ op' \in [QThread -> {"none", "push", "pop"}]
        /\ arg' \in [QThread -> Data \cup {NULL}]
        /\ ret' \in [QThread -> Data \cup {NULL, "none", "pending", "ok", "nomem"}]
    BY <1>0 DEF LfTypes
  <2>6. /\ node' \in [QThread -> Node \cup {NULL}]
        /\ tmp' \in [QThread -> Node \cup {NULL}]
    BY <1>0 DEF LfTypes
  <2>7. QED
    BY <2>1, <2>2, <2>3, <2>4, <2>5, <2>6 DEF LfTypes
<1>3. CallAt(t)'
  BY <1>0, Outcomes DEF CallAt, LfTypes
<1>4. Apart(q, t)' /\ TailAt(q, t)' /\ SeenBy(q, t)'
  <2>1. Apart(q, t)'
    BY <1>0 DEF Apart, LfTypes, Linked
  <2>2. TailAt(q, t)'
    BY <1>0 DEF Apart, TailAt, SeenBy, CallAt, LfTypes
  <2>3. SeenBy(q, t)'
    BY <1>0 DEF Apart, SeenBy, CallAt, LfTypes
  <2>4. QED
    BY <2>1, <2>2, <2>3
<1>5. QED
  BY <1>0, <1>1, <1>2, <1>3, <1>4 DEF LfBase, InUse

\* lf->tail = new.
LEMMA ReplaceTailKeeps ==
    ASSUME Solo, LfBase, NEW q, InUse(q), NEW t \in QThread, ReplaceTail(t)
    PROVE  LfBase' /\ InUse(q)'
<1>0. Chained(q) /\ (\A u \in QThread : u = t) /\ LfTypes /\ CallAt(t) /\ ~fault
      /\ Apart(q, t) /\ TailAt(q, t) /\ SeenBy(q, t)
  BY OnlyThread DEF LfBase, InUse
<1> USE DEF ReplaceTail, Goto, list, local
<1>a. head = q[1]
  BY <1>0, Ends
<1>1. open' /\ Chained(q)' /\ \A i \in 2 .. Len(q) : data'[q[i]] \in Data
  BY <1>0, SameList
<1>2. LfTypes' /\ ~fault'
  <2>1. ~fault'
    BY <1>0
  <2>2. /\ head' \in Node \cup {NULL} /\ tail' \in Node \cup {NULL}
        /\ open' \in BOOLEAN /\ alloc' \in SUBSET Node
    BY <1>0 DEF LfTypes
  <2>3. nxt' \in [Node -> Node \cup {NULL}] /\ data' \in [Node -> Data \cup {NULL}]
    BY <1>0 DEF LfTypes
  <2>4. pc' \in [QThread -> LfPcs]
    BY <1>0 DEF LfTypes, LfPcs
  <2>5. /\ op' \in [QThread -> {"none", "push", "pop"}]
        /\ arg' \in [QThread -> Data \cup {NULL}]
        /\ ret' \in [QThread -> Data \cup {NULL, "none", "pending", "ok", "nomem"}]
    BY <1>0 DEF LfTypes
  <2>6. /\ node' \in [QThread -> Node \cup {NULL}]
        /\ tmp' \in [QThread -> Node \cup {NULL}]
    BY <1>0 DEF LfTypes
  <2>7. QED
    BY <2>1, <2>2, <2>3, <2>4, <2>5, <2>6 DEF LfTypes
<1>3. CallAt(t)'
  BY <1>0, Outcomes DEF CallAt, LfTypes
<1>4. Apart(q, t)' /\ TailAt(q, t)' /\ SeenBy(q, t)'
  <2>1. Apart(q, t)'
    BY <1>0, <1>a DEF Apart, LfTypes, Linked
  <2>2. TailAt(q, t)'
    BY <1>0, <1>a DEF Apart, TailAt, SeenBy, CallAt, LfTypes
  <2>3. SeenBy(q, t)'
    BY <1>0, <1>a DEF Apart, SeenBy, CallAt, LfTypes
  <2>4. QED
    BY <2>1, <2>2, <2>3
<1>5. QED
  BY <1>0, <1>1, <1>2, <1>3, <1>4 DEF LfBase, InUse

\* No memory: the call gives up and changes nothing.
LEMMA NoMemKeeps ==
    ASSUME Solo, LfBase, NEW q, InUse(q), NEW t \in QThread, QNoMem(t)
    PROVE  LfBase' /\ InUse(q)'
<1>0. Chained(q) /\ (\A u \in QThread : u = t) /\ LfTypes /\ CallAt(t) /\ ~fault
      /\ Apart(q, t) /\ TailAt(q, t) /\ SeenBy(q, t)
  BY OnlyThread DEF LfBase, InUse
<1> USE DEF QNoMem, Goto, Result, list, local
<1>1. open' /\ Chained(q)' /\ \A i \in 2 .. Len(q) : data'[q[i]] \in Data
  BY <1>0, SameList
<1>2. LfTypes' /\ ~fault'
  <2>1. ~fault'
    BY <1>0
  <2>2. /\ head' \in Node \cup {NULL} /\ tail' \in Node \cup {NULL}
        /\ open' \in BOOLEAN /\ alloc' \in SUBSET Node
    BY <1>0 DEF LfTypes
  <2>3. nxt' \in [Node -> Node \cup {NULL}] /\ data' \in [Node -> Data \cup {NULL}]
    BY <1>0 DEF LfTypes
  <2>4. pc' \in [QThread -> LfPcs]
    BY <1>0 DEF LfTypes, LfPcs
  <2>5. /\ op' \in [QThread -> {"none", "push", "pop"}]
        /\ arg' \in [QThread -> Data \cup {NULL}]
        /\ ret' \in [QThread -> Data \cup {NULL, "none", "pending", "ok", "nomem"}]
    BY <1>0 DEF LfTypes
  <2>6. /\ node' \in [QThread -> Node \cup {NULL}]
        /\ tmp' \in [QThread -> Node \cup {NULL}]
    BY <1>0 DEF LfTypes
  <2>7. QED
    BY <2>1, <2>2, <2>3, <2>4, <2>5, <2>6 DEF LfTypes
<1>3. CallAt(t)'
  BY <1>0, Outcomes DEF CallAt, LfTypes
<1>4. Apart(q, t)' /\ TailAt(q, t)' /\ SeenBy(q, t)'
  <2>1. Apart(q, t)'
    BY <1>0 DEF Apart, LfTypes, Linked
  <2>2. TailAt(q, t)'
    BY <1>0 DEF Apart, TailAt, SeenBy, CallAt, LfTypes
  <2>3. SeenBy(q, t)'
    BY <1>0 DEF Apart, SeenBy, CallAt, LfTypes
  <2>4. QED
    BY <2>1, <2>2, <2>3
<1>5. QED
  BY <1>0, <1>1, <1>2, <1>3, <1>4 DEF LfBase, InUse

\* A call returns.
LEMMA ReturnKeeps ==
    ASSUME Solo, LfBase, NEW q, InUse(q), NEW t \in QThread, QReturn(t)
    PROVE  LfBase' /\ InUse(q)'
<1>0. Chained(q) /\ (\A u \in QThread : u = t) /\ LfTypes /\ CallAt(t) /\ ~fault
      /\ Apart(q, t) /\ TailAt(q, t) /\ SeenBy(q, t)
  BY OnlyThread DEF LfBase, InUse
<1> USE DEF QReturn, Goto, Result, list, local
<1>1. open' /\ Chained(q)' /\ \A i \in 2 .. Len(q) : data'[q[i]] \in Data
  BY <1>0, SameList
<1>2. LfTypes' /\ ~fault'
  <2>1. ~fault'
    BY <1>0
  <2>2. /\ head' \in Node \cup {NULL} /\ tail' \in Node \cup {NULL}
        /\ open' \in BOOLEAN /\ alloc' \in SUBSET Node
    BY <1>0 DEF LfTypes
  <2>3. nxt' \in [Node -> Node \cup {NULL}] /\ data' \in [Node -> Data \cup {NULL}]
    BY <1>0 DEF LfTypes
  <2>4. pc' \in [QThread -> LfPcs]
    BY <1>0 DEF LfTypes, LfPcs
  <2>5. /\ op' \in [QThread -> {"none", "push", "pop"}]
        /\ arg' \in [QThread -> Data \cup {NULL}]
        /\ ret' \in [QThread -> Data \cup {NULL, "none", "pending", "ok", "nomem"}]
    BY <1>0 DEF LfTypes
  <2>6. /\ node' \in [QThread -> Node \cup {NULL}]
        /\ tmp' \in [QThread -> Node \cup {NULL}]
    BY <1>0 DEF LfTypes
  <2>7. QED
    BY <2>1, <2>2, <2>3, <2>4, <2>5, <2>6 DEF LfTypes
<1>3. CallAt(t)'
  BY <1>0, Outcomes DEF CallAt, LfTypes
<1>4. Apart(q, t)' /\ TailAt(q, t)' /\ SeenBy(q, t)'
  <2>1. Apart(q, t)'
    BY <1>0 DEF Apart, LfTypes, Linked
  <2>2. TailAt(q, t)'
    BY <1>0 DEF Apart, TailAt, SeenBy, CallAt, LfTypes
  <2>3. SeenBy(q, t)'
    BY <1>0 DEF Apart, SeenBy, CallAt, LfTypes
  <2>4. QED
    BY <2>1, <2>2, <2>3
<1>5. QED
  BY <1>0, <1>1, <1>2, <1>3, <1>4 DEF LfBase, InUse

\* malloc returns a node that is in nobody's hands.
LEMMA NewNodeKeeps ==
    ASSUME Solo, LfBase, NEW q, InUse(q), NEW t \in QThread, NewNode(t)
    PROVE  LfBase' /\ InUse(q)'
<1>0. Chained(q) /\ (\A u \in QThread : u = t) /\ LfTypes /\ CallAt(t) /\ ~fault
      /\ Apart(q, t) /\ TailAt(q, t) /\ SeenBy(q, t)
  BY OnlyThread DEF LfBase, InUse
<1> USE DEF NewNode, Malloc, Goto
<1>a. PICK n \in Node : Malloc(n, arg[t]) /\ node' = [node EXCEPT ![t] = n]
  BY <1>0
<1>b. n \notin Linked(q) /\ \A m \in Linked(q) : m \in Node /\ m # n
  BY <1>0, <1>a, Ends DEF Apart, Linked
<1>c. \A m \in Linked(q) : nxt'[m] = nxt[m] /\ data'[m] = data[m]
  BY <1>0, <1>a, <1>b DEF LfTypes
<1>1. open' /\ Chained(q)' /\ \A i \in 2 .. Len(q) : data'[q[i]] \in Data
  BY <1>0, SameList, <1>c
<1>2. LfTypes' /\ ~fault'
  <2>1. ~fault'
    BY <1>0, <1>a
  <2>2. /\ head' \in Node \cup {NULL} /\ tail' \in Node \cup {NULL}
        /\ open' \in BOOLEAN /\ alloc' \in SUBSET Node
    BY <1>0, <1>a DEF LfTypes
  <2>3. nxt' \in [Node -> Node \cup {NULL}] /\ data' \in [Node -> Data \cup {NULL}]
    BY <1>0, <1>a DEF LfTypes
  <2>4. pc' \in [QThread -> LfPcs]
    BY <1>0 DEF LfTypes, LfPcs
  <2>5. /\ op' \in [QThread -> {"none", "push", "pop"}]
        /\ arg' \in [QThread -> Data \cup {NULL}]
        /\ ret' \in [QThread -> Data \cup {NULL, "none", "pending", "ok", "nomem"}]
    BY <1>0 DEF LfTypes
  <2>6. /\ node' \in [QThread -> Node \cup {NULL}]
        /\ tmp' \in [QThread -> Node \cup {NULL}]
    BY <1>0, <1>a DEF LfTypes
  <2>7. QED
    BY <2>1, <2>2, <2>3, <2>4, <2>5, <2>6 DEF LfTypes
<1>3. CallAt(t)'
  BY <1>0, Outcomes DEF CallAt, LfTypes
<1>4. Apart(q, t)' /\ TailAt(q, t)' /\ SeenBy(q, t)'
  <2>1. Apart(q, t)'
    BY <1>0, <1>a, <1>b DEF Apart, LfTypes, Linked
  <2>2. TailAt(q, t)'
    BY <1>0, <1>a, <1>b DEF Apart, TailAt, SeenBy, CallAt, LfTypes
  <2>3. SeenBy(q, t)'
    BY <1>0, <1>a, <1>b DEF Apart, SeenBy, CallAt, LfTypes
  <2>4. QED
    BY <2>1, <2>2, <2>3
<1>5. QED
  BY <1>0, <1>1, <1>2, <1>3, <1>4 DEF LfBase, InUse

\* A pop looks at the first node and at the link behind it.
LEMMA LookKeeps ==
    ASSUME Solo, LfBase, NEW q, InUse(q), NEW t \in QThread, Look(t)
    PROVE  LfBase' /\ InUse(q)'
<1>0. Chained(q) /\ (\A u \in QThread : u = t) /\ LfTypes /\ CallAt(t) /\ ~fault
      /\ Apart(q, t) /\ TailAt(q, t) /\ SeenBy(q, t)
  BY OnlyThread DEF LfBase, InUse
<1> USE DEF Look, Uses, Goto, Result, list
<1>a. /\ head \in Linked(q) /\ head \in Node /\ Len(q) \in Nat /\ Len(q) > 0
      /\ nxt[head] = NULL <=> Len(q) = 1
  BY <1>0, Ends
<1>b. head \in alloc
  BY <1>0, <1>a DEF Apart
<1>1. open' /\ Chained(q)' /\ \A i \in 2 .. Len(q) : data'[q[i]] \in Data
  BY <1>0, SameList
<1>2. LfTypes' /\ ~fault'
  <2>1. ~fault'
    BY <1>0, <1>a, <1>b
  <2>2. /\ head' \in Node \cup {NULL} /\ tail' \in Node \cup {NULL}
        /\ open' \in BOOLEAN /\ alloc' \in SUBSET Node
    BY <1>0, <1>a, <1>b DEF LfTypes
  <2>3. nxt' \in [Node -> Node \cup {NULL}] /\ data' \in [Node -> Data \cup {NULL}]
    BY <1>0, <1>a, <1>b DEF LfTypes
  <2>4. pc' \in [QThread -> LfPcs]
    BY <1>0 DEF LfTypes, LfPcs
  <2>5. /\ op' \in [QThread -> {"none", "push", "pop"}]
        /\ arg' \in [QThread -> Data \cup {NULL}]
        /\ ret' \in [QThread -> Data \cup {NULL, "none", "pending", "ok", "nomem"}]
    BY <1>0 DEF LfTypes
  <2>6. /\ node' \in [QThread -> Node \cup {NULL}]
        /\ tmp' \in [QThread -> Node \cup {NULL}]
    BY <1>0, <1>a, <1>b DEF LfTypes
  <2>7. QED
    BY <2>1, <2>2, <2>3, <2>4, <2>5, <2>6 DEF LfTypes
<1>3. CallAt(t)'
  BY <1>0, Outcomes DEF CallAt, LfTypes
<1>4. Apart(q, t)' /\ TailAt(q, t)' /\ SeenBy(q, t)'
  <2>1. Apart(q, t)'
    BY <1>0, <1>a DEF Apart, LfTypes, Linked
  <2>2. TailAt(q, t)'
    BY <1>0, <1>a DEF Apart, TailAt, SeenBy, CallAt, LfTypes
  <2>3. SeenBy(q, t)'
    <3>1. node'[t] = head' /\ head' = head /\ data' = data
      BY <1>0 DEF LfTypes
    <3>2. CASE nxt[head] # NULL
      <4>1. pc'[t] = "advance"
        BY <1>0, <1>a, <3>2 DEF LfTypes
      <4>2. Len(q) > 1
        <5> DEFINE l == Len(q)
        <5>1. l # 1 /\ l \in Nat /\ l > 0
          BY <1>a, <3>2
        <5> HIDE DEF l
        <5>2. l > 1
          BY <5>1
        <5>3. QED
          BY <5>2 DEF l
      <4>3. QED
        BY <3>1, <4>1, <4>2 DEF SeenBy
    <3>3. CASE nxt[head] = NULL /\ data[head] # NULL
      <4>1. pc'[t] = "replace" /\ Len(q) = 1 /\ data[head] \in Data
        BY <1>0, <1>a, <3>3 DEF LfTypes
      <4>2. QED
        BY <3>1, <4>1 DEF SeenBy
    <3>4. CASE nxt[head] = NULL /\ data[head] = NULL
      <4>1. pc'[t] = "done"
        BY <1>0, <3>4 DEF LfTypes
      <4>2. QED
        BY <4>1 DEF SeenBy
    <3>5. QED
      BY <3>2, <3>3, <3>4
  <2>4. QED
    BY <2>1, <2>2, <2>3
<1>5. QED
  BY <1>0, <1>1, <1>2, <1>3, <1>4 DEF LfBase, InUse

\* The node that was unlinked is freed.
LEMMA FreeKeeps ==
    ASSUME Solo, LfBase, NEW q, InUse(q), NEW t \in QThread, FreeNode(t)
    PROVE  LfBase' /\ InUse(q)'
<1>0. Chained(q) /\ (\A u \in QThread : u = t) /\ LfTypes /\ CallAt(t) /\ ~fault
      /\ Apart(q, t) /\ TailAt(q, t) /\ SeenBy(q, t)
  BY OnlyThread DEF LfBase, InUse
<1> USE DEF FreeNode, Uses, Release, Goto, local
<1>a. \A m \in Linked(q) : m \in Node /\ m # node[t]
  BY <1>0, Ends DEF Apart, Linked
<1>b. \A m \in Linked(q) : nxt'[m] = nxt[m] /\ data'[m] = data[m]
  BY <1>0, <1>a DEF LfTypes
<1>c. node[t] \in alloc
  BY <1>0 DEF Apart
<1>1. open' /\ Chained(q)' /\ \A i \in 2 .. Len(q) : data'[q[i]] \in Data
  BY <1>0, SameList, <1>b
<1>2. LfTypes' /\ ~fault'
  <2>1. ~fault'
    BY <1>0, <1>c
  <2>2. /\ head' \in Node \cup {NULL} /\ tail' \in Node \cup {NULL}
        /\ open' \in BOOLEAN /\ alloc' \in SUBSET Node
    BY <1>0, <1>c DEF LfTypes
  <2>3. nxt' \in [Node -> Node \cup {NULL}] /\ data' \in [Node -> Data \cup {NULL}]
    BY <1>0, <1>c DEF LfTypes
  <2>4. pc' \in [QThread -> LfPcs]
    BY <1>0 DEF LfTypes, LfPcs
  <2>5. /\ op' \in [QThread -> {"none", "push", "pop"}]
        /\ arg' \in [QThread -> Data \cup {NULL}]
        /\ ret' \in [QThread -> Data \cup {NULL, "none", "pending", "ok", "nomem"}]
    BY <1>0 DEF LfTypes
  <2>6. /\ node' \in [QThread -> Node \cup {NULL}]
        /\ tmp' \in [QThread -> Node \cup {NULL}]
    BY <1>0, <1>c DEF LfTypes
  <2>7. QED
    BY <2>1, <2>2, <2>3, <2>4, <2>5, <2>6 DEF LfTypes
<1>3. CallAt(t)'
  BY <1>0, Outcomes DEF CallAt, LfTypes
<1>4. Apart(q, t)' /\ TailAt(q, t)' /\ SeenBy(q, t)'
  <2>1. Apart(q, t)'
    BY <1>0, <1>a, <1>c DEF Apart, LfTypes, Linked
  <2>2. TailAt(q, t)'
    BY <1>0, <1>a, <1>c DEF Apart, TailAt, SeenBy, CallAt, LfTypes
  <2>3. SeenBy(q, t)'
    BY <1>0, <1>a, <1>c DEF Apart, SeenBy, CallAt, LfTypes
  <2>4. QED
    BY <2>1, <2>2, <2>3
<1>5. QED
  BY <1>0, <1>1, <1>2, <1>3, <1>4 DEF LfBase, InUse

\* tmp->next = node: the node becomes the last one.
LEMMA LinkKeeps ==
    ASSUME Solo, LfBase, NEW q, InUse(q), NEW t \in QThread, LinkNew(t),
           NEW n, n = node[t]
    PROVE  LfBase' /\ InUse(Append(q, n))'
<1>0. Chained(q) /\ (\A u \in QThread : u = t) /\ LfTypes /\ CallAt(t) /\ ~fault
      /\ Apart(q, t) /\ TailAt(q, t) /\ SeenBy(q, t) /\ open
      /\ \A i \in 2 .. Len(q) : data[q[i]] \in Data
  BY OnlyThread DEF LfBase, InUse
<1> USE DEF LinkNew, Uses, Goto, Result, local
<1> DEFINE r == Append(q, n)
           L == Len(q)
<1>a. pc[t] = "link" /\ n \in Node /\ n \notin Linked(q) /\ alloc = Linked(q) \cup {n}
      /\ tmp[t] = q[L] /\ tail = n /\ nxt[n] = NULL /\ data[n] = arg[t] /\ arg[t] \in Data
  BY <1>0 DEF Apart, TailAt, CallAt
<1>b. /\ q \in Seq(Node) /\ L \in Nat /\ L > 0 /\ q[L] \in Node /\ q[L] \in Linked(q)
      /\ head = q[1] /\ \A i \in 1 .. L : q[i] \in Node /\ q[i] \in Linked(q)
  BY <1>0, Ends
<1>c. /\ r \in Seq(Node) /\ Len(r) = L + 1 /\ r[L + 1] = n
      /\ \A i \in 1 .. L : r[i] = q[i]
  BY <1>a, <1>b
<1>d. nxt' = [nxt EXCEPT ![q[L]] = n] /\ data' = data /\ head' = head /\ open'
      /\ alloc' = alloc /\ tail' = tail /\ node' = node
  BY <1>0, <1>a
<1>e. /\ \A i, j \in 1 .. L : q[i] = q[j] => i = j
      /\ \A i \in 1 .. L - 1 : nxt[q[i]] = q[i + 1]
  BY <1>0 DEF Chained
<1> HIDE DEF r
<1>1. Chained(r)' /\ (\A i \in 2 .. Len(r) : data'[r[i]] \in Data)
  <2> HIDE DEF L
  <2>1. \A i, j \in 1 .. Len(r) : r[i] = r[j] => i = j
    <3> SUFFICES ASSUME NEW i \in 1 .. L + 1, NEW j \in 1 .. L + 1, r[i] = r[j]
                 PROVE  i = j
      BY <1>c
    <3>1. CASE i \in 1 .. L /\ j \in 1 .. L
      BY <1>c, <1>e, <3>1
    <3>2. CASE i = L + 1 /\ j \in 1 .. L
      BY <1>a, <1>b, <1>c, <3>2
    <3>3. CASE i \in 1 .. L /\ j = L + 1
      BY <1>a, <1>b, <1>c, <3>3
    <3>4. CASE i = L + 1 /\ j = L + 1
      BY <3>4
    <3>5. i = L + 1 \/ i \in 1 .. L
      BY <1>b
    <3>6. j = L + 1 \/ j \in 1 .. L
      BY <1>b
    <3>7. QED
      BY <3>1, <3>2, <3>3, <3>4, <3>5, <3>6
  <2>2. ASSUME NEW i \in 1 .. Len(r) - 1 PROVE nxt'[r[i]] = r[i + 1]
    <3>1. i \in 1 .. L /\ r[i] = q[i] /\ q[i] \in Node /\ L \in 1 .. L
      BY <1>b, <1>c
    <3>2. CASE i = L
      BY <1>0, <1>b, <1>c, <1>d, <3>1, <3>2 DEF LfTypes
    <3>3. CASE i # L
      <4>1. i \in 1 .. L - 1 /\ i + 1 \in 1 .. L
        BY <1>b, <3>1, <3>3
      <4>2. q[i] # q[L] /\ nxt[q[i]] = q[i + 1] /\ r[i + 1] = q[i + 1]
        BY <1>c, <1>e, <3>1, <3>3, <4>1
      <4>3. QED
        BY <1>0, <1>d, <3>1, <4>2 DEF LfTypes
    <3>4. QED
      BY <3>2, <3>3
  <2>3. nxt'[r[Len(r)]] = NULL
    BY <1>0, <1>a, <1>b, <1>c, <1>d DEF LfTypes
  <2>4. head' = r[1] /\ Len(r) > 0
    BY <1>b, <1>c, <1>d
  <2>5. ASSUME NEW i \in 2 .. Len(r) PROVE data'[r[i]] \in Data
    <3>0. i \in Int /\ 2 <= i /\ i <= L + 1 /\ L \in Nat
      BY <1>b, <1>c
    <3>1. i = L + 1 \/ (i \in 1 .. L /\ i \in 2 .. L)
      BY <3>0
    <3>2. CASE i = L + 1
      BY <1>a, <1>c, <1>d, <3>2
    <3>3. CASE i \in 1 .. L /\ i \in 2 .. L
      BY <1>0, <1>c, <1>d, <3>3 DEF L
    <3>4. QED
      BY <3>1, <3>2, <3>3
  <2>6. Chained(r)'
    BY <1>c, <2>1, <2>2, <2>3, <2>4 DEF Chained
  <2>7. QED
    BY <2>5, <2>6
<1>2. LfTypes' /\ ~fault'
  <2>1. ~fault'
    BY <1>0, <1>a, <1>b
  <2>2. /\ head' \in Node \cup {NULL} /\ tail' \in Node \cup {NULL}
        /\ open' \in BOOLEAN /\ alloc' \in SUBSET Node
    BY <1>0, <1>a, <1>b, <1>d DEF LfTypes
  <2>3. nxt' \in [Node -> Node \cup {NULL}] /\ data' \in [Node -> Data \cup {NULL}]
    BY <1>0, <1>a, <1>b, <1>d DEF LfTypes
  <2>4. pc' \in [QThread -> LfPcs]
    BY <1>0 DEF LfTypes, LfPcs
  <2>5. /\ op' \in [QThread -> {"none", "push", "pop"}]
        /\ arg' \in [QThread -> Data \cup {NULL}]
        /\ ret' \in [QThread -> Data \cup {NULL, "none", "pending", "ok", "nomem"}]
    BY <1>0 DEF LfTypes
  <2>6. /\ node' \in [QThread -> Node \cup {NULL}]
        /\ tmp' \in [QThread -> Node \cup {NULL}]
    BY <1>0 DEF LfTypes
  <2>7. QED
    BY <2>1, <2>2, <2>3, <2>4, <2>5, <2>6 DEF LfTypes
<1>3. CallAt(t)'
  BY <1>0, Outcomes DEF CallAt, LfTypes
<1>4. Apart(r, t)' /\ TailAt(r, t)' /\ SeenBy(r, t)'
  <2>1. pc'[t] = "done"
    BY <1>0 DEF LfTypes
  <2>2. Linked(r) = Linked(q) \cup {n}
    <3>1. \A m : m \in Linked(r) <=> m \in Linked(q) \cup {n}
      <4> HIDE DEF L
      <4>1. \A m : m \in Linked(r) <=> \E i \in 1 .. L + 1 : m = r[i]
        BY <1>c DEF Linked
      <4>2. \A m : m \in Linked(q) <=> \E i \in 1 .. L : m = q[i]
        BY DEF Linked, L
      <4>3. L \in Nat
        BY <1>b
      <4>4. \A i \in Int : i \in 1 .. L + 1 <=> (i \in 1 .. L \/ i = L + 1)
        BY <4>3
      <4>5. (\A i \in 1 .. L + 1 : i \in Int) /\ (\A i \in 1 .. L : i \in Int) /\ L + 1 \in Int
        BY <4>3
      <4>6. ASSUME NEW m, m \in Linked(r) PROVE m \in Linked(q) \cup {n}
        <5>1. PICK i \in 1 .. L + 1 : m = r[i]
          BY <4>1, <4>6
        <5>2. CASE i = L + 1
          BY <1>c, <5>1, <5>2
        <5>3. CASE i \in 1 .. L
          BY <1>c, <4>2, <5>1, <5>3
        <5>4. QED
          BY <4>4, <4>5, <5>1, <5>2, <5>3
      <4>7. ASSUME NEW m, m \in Linked(q) PROVE m \in Linked(r)
        <5>1. PICK i \in 1 .. L : m = q[i]
          BY <4>2, <4>7
        <5>2. i \in 1 .. L + 1 /\ m = r[i]
          BY <1>c, <4>4, <4>5, <5>1
        <5>3. QED
          BY <4>1, <5>2
      <4>8. n \in Linked(r)
        BY <1>c, <4>1, <4>3
      <4>9. QED
        BY <4>6, <4>7, <4>8
    <3>2. QED
      BY <3>1
  <2>3. alloc' = Linked(r) /\ tail' = r[Len(r)]
    BY <1>a, <1>b, <1>c, <1>d, <2>2
  <2>4. QED
    BY <2>1, <2>3 DEF Apart, TailAt, SeenBy
<1>5. LfBase' /\ InUse(r)'
  <2>1. \A u \in QThread : u = t
    BY <1>0
  <2>2. open'
    BY <1>d
  <2>3. LfBase'
    BY <1>2, <1>3, <2>1 DEF LfBase
  <2>4. InUse(r)'
    BY <1>1, <1>4, <2>1, <2>2 DEF InUse
  <2>5. QED
    BY <2>3, <2>4
<1>6. QED
  BY <1>5 DEF r

\* lf->head = lf->head->next: the first node is no longer in the list.
LEMMA AdvanceKeeps ==
    ASSUME Solo, LfBase, NEW q, InUse(q), NEW t \in QThread, Advance(t)
    PROVE  Len(q) > 1 /\ LfBase' /\ InUse(Tail(q))'
<1>0. Chained(q) /\ (\A u \in QThread : u = t) /\ LfTypes /\ CallAt(t) /\ ~fault
      /\ Apart(q, t) /\ TailAt(q, t) /\ SeenBy(q, t) /\ open
      /\ \A i \in 2 .. Len(q) : data[q[i]] \in Data
  BY OnlyThread DEF LfBase, InUse
<1> USE DEF Advance, Goto, Result, local
<1> DEFINE r == Tail(q)
           L == Len(q)
<1>a. /\ pc[t] = "advance" /\ node[t] = head /\ L > 1 /\ alloc = Linked(q) /\ tail = q[L]
  BY <1>0 DEF Apart, TailAt, SeenBy
<1>b. /\ q \in Seq(Node) /\ L \in Nat /\ head = q[1] /\ head \in Node
      /\ \A i \in 1 .. L : q[i] \in Node /\ q[i] \in Linked(q)
  BY <1>0, Ends
<1>c. /\ r \in Seq(Node) /\ Len(r) = L - 1 /\ \A i \in 1 .. L - 1 : r[i] = q[i + 1]
  BY <1>a, <1>b
<1>d. /\ \A i, j \in 1 .. L : q[i] = q[j] => i = j
      /\ \A i \in 1 .. L - 1 : nxt[q[i]] = q[i + 1]
      /\ nxt[q[L]] = NULL
  BY <1>0 DEF Chained
<1>e. head' = nxt[head] /\ UNCHANGED <<tail, nxt, data, alloc, open, node>>
  BY <1>0
<1> HIDE DEF r, L
<1>f. head' = q[2] /\ q[2] \in Node
  <2>1. 1 \in 1 .. L - 1 /\ 1 + 1 \in 1 .. L
    BY <1>a, <1>b
  <2>2. nxt[q[1]] = q[1 + 1]
    BY <1>d, <2>1
  <2>3. QED
    BY <1>b, <1>e, <2>1, <2>2
<1>1. Chained(r)' /\ (\A i \in 2 .. Len(r) : data'[r[i]] \in Data)
  <2>1. ASSUME NEW i \in 1 .. Len(r), NEW j \in 1 .. Len(r), r[i] = r[j] PROVE i = j
    <3>1. i \in 1 .. L - 1 /\ j \in 1 .. L - 1 /\ i + 1 \in 1 .. L /\ j + 1 \in 1 .. L
      BY <1>b, <1>c
    <3>2. q[i + 1] = q[j + 1]
      BY <1>c, <2>1, <3>1
    <3>3. i + 1 = j + 1
      BY <1>d, <3>1, <3>2
    <3>4. QED
      BY <3>1, <3>3
  <2>2. ASSUME NEW i \in 1 .. Len(r) - 1 PROVE nxt'[r[i]] = r[i + 1]
    <3>1. i + 1 \in 1 .. L - 1 /\ i \in 1 .. L - 1
      BY <1>a, <1>b, <1>c
    <3>2. nxt[q[i + 1]] = q[(i + 1) + 1]
      BY <1>d, <3>1
    <3>3. r[i] = q[i + 1] /\ r[i + 1] = q[(i + 1) + 1]
      BY <1>c, <3>1
    <3>4. QED
      BY <1>e, <3>2, <3>3
  <2>3. Len(r) \in 1 .. L - 1 /\ Len(r) + 1 = L
    BY <1>a, <1>b, <1>c
  <2>4. nxt'[r[Len(r)]] = NULL
    BY <1>c, <1>d, <1>e, <2>3
  <2>5. head' = r[1] /\ Len(r) > 0
    <3>1. 1 \in 1 .. L - 1 /\ r[1] = q[1 + 1]
      BY <1>a, <1>b, <1>c
    <3>2. QED
      BY <1>a, <1>b, <1>c, <1>f, <3>1
  <2>6. ASSUME NEW i \in 2 .. Len(r) PROVE data'[r[i]] \in Data
    <3>1. i + 1 \in 2 .. L /\ i \in 1 .. L - 1
      BY <1>a, <1>b, <1>c
    <3>2. QED
      BY <1>0, <1>c, <1>e, <3>1 DEF L
  <2>7. Chained(r)'
    BY <1>c, <2>1, <2>2, <2>4, <2>5 DEF Chained
  <2>8. QED
    BY <2>6, <2>7
<1>2. LfTypes' /\ ~fault'
  <2>1. ~fault'
    BY <1>0
  <2>2. /\ head' \in Node \cup {NULL} /\ tail' \in Node \cup {NULL}
        /\ open' \in BOOLEAN /\ alloc' \in SUBSET Node
    BY <1>0, <1>a, <1>b, <1>e, <1>f DEF LfTypes
  <2>3. nxt' \in [Node -> Node \cup {NULL}] /\ data' \in [Node -> Data \cup {NULL}]
    BY <1>0, <1>a, <1>b, <1>e, <1>f DEF LfTypes
  <2>4. pc' \in [QThread -> LfPcs]
    BY <1>0 DEF LfTypes, LfPcs
  <2>5. /\ op' \in [QThread -> {"none", "push", "pop"}]
        /\ arg' \in [QThread -> Data \cup {NULL}]
        /\ ret' \in [QThread -> Data \cup {NULL, "none", "pending", "ok", "nomem"}]
    BY <1>0, <1>a, <1>b DEF LfTypes
  <2>6. /\ node' \in [QThread -> Node \cup {NULL}]
        /\ tmp' \in [QThread -> Node \cup {NULL}]
    BY <1>0 DEF LfTypes
  <2>7. QED
    BY <2>1, <2>2, <2>3, <2>4, <2>5, <2>6 DEF LfTypes
<1>3. CallAt(t)'
  <2>1. pc'[t] = "free" /\ op'[t] = op[t] /\ ret'[t] = data[node[t]] /\ op[t] = "pop"
    BY <1>0, <1>a DEF LfTypes, CallAt
  <2>2. data[node[t]] \in Data \cup {NULL}
    BY <1>0, <1>a, <1>b DEF LfTypes
  <2>3. QED
    BY <2>1, <2>2, Outcomes DEF CallAt
<1>4. Apart(r, t)' /\ TailAt(r, t)' /\ SeenBy(r, t)'
  <2>1. pc'[t] = "free"
    BY <1>0 DEF LfTypes
  <2>2. Linked(q) = Linked(r) \cup {head}
    <3>1. ASSUME NEW m PROVE m \in Linked(q) <=> m \in Linked(r) \cup {head}
      <4>1. ASSUME m \in Linked(q) PROVE m \in Linked(r) \cup {head}
        <5>1. PICK i \in 1 .. L : m = q[i]
          BY <4>1 DEF Linked, L
        <5>2. CASE i = 1
          BY <1>b, <5>1, <5>2
        <5>3. CASE i # 1
          <6>1. i - 1 \in 1 .. L - 1 /\ (i - 1) + 1 = i
            BY <1>b, <5>1, <5>3
          <6>2. m = r[i - 1]
            BY <1>c, <5>1, <6>1
          <6>3. QED
            BY <1>c, <6>1, <6>2 DEF Linked
        <5>4. QED
          BY <5>2, <5>3
      <4>2. ASSUME m \in Linked(r) PROVE m \in Linked(q)
        <5>1. PICK i \in 1 .. L - 1 : m = r[i]
          BY <1>c, <4>2 DEF Linked
        <5>2. i + 1 \in 1 .. L
          BY <1>b
        <5>3. QED
          BY <1>b, <1>c, <5>1, <5>2
      <4>3. head \in Linked(q)
        BY <1>0, Ends
      <4>4. QED
        BY <4>1, <4>2, <4>3
    <3>2. QED
      BY <3>1
  <2>3. head \notin Linked(r)
    <3> SUFFICES ASSUME head \in Linked(r) PROVE FALSE
      OBVIOUS
    <3>1. PICK i \in 1 .. L - 1 : head = r[i]
      BY <1>c DEF Linked
    <3>2. 1 \in 1 .. L /\ i + 1 \in 1 .. L /\ i + 1 # 1
      BY <1>a, <1>b
    <3>3. QED
      BY <1>b, <1>c, <1>d, <3>1, <3>2
  <2>4. node'[t] = head /\ alloc' = Linked(r) \cup {head}
    BY <1>a, <1>e, <2>2
  <2>5. tail' = r[Len(r)]
    <3>1. Len(r) \in 1 .. L - 1 /\ Len(r) + 1 = L
      BY <1>a, <1>b, <1>c
    <3>2. QED
      BY <1>a, <1>c, <1>e, <3>1
  <2>6. QED
    BY <1>b, <2>1, <2>3, <2>4, <2>5 DEF Apart, TailAt, SeenBy
<1>5. LfBase' /\ InUse(r)'
  <2>1. \A u \in QThread : u = t
    BY <1>0
  <2>2. open'
    BY <1>0, <1>e
  <2>3. LfBase'
    BY <1>2, <1>3, <2>1 DEF LfBase
  <2>4. InUse(r)'
    BY <1>1, <1>4, <2>1, <2>2 DEF InUse
  <2>5. QED
    BY <2>3, <2>4
<1>6. QED
  BY <1>5, <1>a DEF r, L

\* A list of one node.
LEMMA OneNode ==
    ASSUME NEW n \in Node, head' = n, nxt'[n] = NULL
    PROVE  /\ Chained(<<n>>)' /\ Linked(<<n>>) = {n} /\ <<n>> \in Seq(Node)
           /\ Len(<<n>>) = 1 /\ <<n>>[1] = n /\ <<n>>[Len(<<n>>)] = n
<1> DEFINE r == <<n>>
<1>1. r \in Seq(Node) /\ Len(r) = 1 /\ r[1] = n
  OBVIOUS
<1> HIDE DEF r
<1>2. Chained(r)'
  BY <1>1 DEF Chained
<1>3. Linked(r) = {n}
  BY <1>1 DEF Linked
<1>4. QED
  BY <1>1, <1>2, <1>3 DEF r

\* The last node is exchanged for an empty one.
LEMMA ReplaceKeeps ==
    ASSUME Solo, LfBase, NEW q, InUse(q), NEW t \in QThread, Replace(t)
    PROVE  /\ Len(q) = 1 /\ data[head] \in Data /\ data'[head'] = NULL
           /\ LfBase' /\ \E r \in Seq(Node) : Len(r) = 1 /\ InUse(r)'
<1>0. Chained(q) /\ (\A u \in QThread : u = t) /\ LfTypes /\ CallAt(t) /\ ~fault
      /\ Apart(q, t) /\ TailAt(q, t) /\ SeenBy(q, t) /\ open
  BY OnlyThread DEF LfBase, InUse
<1> USE DEF Replace, Malloc, Goto, Result, local
<1>a. PICK n \in Node : Malloc(n, NULL) /\ head' = n
  BY <1>0
<1>b. /\ pc[t] = "replace" /\ node[t] = head /\ Len(q) = 1 /\ alloc = Linked(q)
      /\ data[head] \in Data /\ head = q[1] /\ head \in Node
  BY <1>0, Ends DEF Apart, SeenBy
<1>c. Linked(q) = {head} /\ n # head
  <2>1. Linked(q) = {head}
    BY <1>b DEF Linked
  <2>2. QED
    BY <1>a, <1>b, <2>1
<1>d. nxt'[n] = NULL /\ data'[n] = NULL /\ alloc' = {head, n}
  BY <1>0, <1>a, <1>b, <1>c DEF LfTypes
<1> DEFINE r == <<n>>
<1>e. Chained(r)' /\ Linked(r) = {n} /\ Len(r) = 1 /\ r[1] = n /\ r[Len(r)] = n
      /\ r \in Seq(Node)
  BY <1>a, <1>d, OneNode
<1> HIDE DEF r
<1>2. LfTypes' /\ ~fault'
  <2>1. ~fault'
    BY <1>0
  <2>2. /\ head' \in Node \cup {NULL} /\ tail' \in Node \cup {NULL}
        /\ open' \in BOOLEAN /\ alloc' \in SUBSET Node
    BY <1>0, <1>a, <1>b DEF LfTypes
  <2>3. nxt' \in [Node -> Node \cup {NULL}] /\ data' \in [Node -> Data \cup {NULL}]
    BY <1>0, <1>a, <1>b DEF LfTypes
  <2>4. pc' \in [QThread -> LfPcs]
    BY <1>0 DEF LfTypes, LfPcs
  <2>5. /\ op' \in [QThread -> {"none", "push", "pop"}]
        /\ arg' \in [QThread -> Data \cup {NULL}]
        /\ ret' \in [QThread -> Data \cup {NULL, "none", "pending", "ok", "nomem"}]
    BY <1>0, <1>b DEF LfTypes
  <2>6. /\ node' \in [QThread -> Node \cup {NULL}]
        /\ tmp' \in [QThread -> Node \cup {NULL}]
    BY <1>0 DEF LfTypes
  <2>7. QED
    BY <2>1, <2>2, <2>3, <2>4, <2>5, <2>6 DEF LfTypes
<1>3. CallAt(t)'
  <2>1. pc'[t] = "settail" /\ op'[t] = op[t] /\ ret'[t] = data[head] /\ op[t] = "pop"
    BY <1>0, <1>b DEF LfTypes, CallAt
  <2>2. QED
    BY <1>b, <2>1, Outcomes DEF CallAt
<1>4. Apart(r, t)' /\ TailAt(r, t)' /\ SeenBy(r, t)'
  <2>1. pc'[t] = "settail" /\ node'[t] = head
    BY <1>0, <1>b DEF LfTypes
  <2>2. QED
    BY <1>a, <1>b, <1>c, <1>d, <1>e, <2>1 DEF Apart, TailAt, SeenBy
<1>5. LfBase' /\ InUse(r)'
  <2>1. \A u \in QThread : u = t
    BY <1>0
  <2>2. open'
    BY <1>0
  <2>3. LfBase'
    BY <1>2, <1>3, <2>1 DEF LfBase
  <2>4. \A i \in 2 .. Len(r) : data'[r[i]] \in Data
    BY <1>e
  <2>5. InUse(r)'
    BY <1>e, <1>4, <2>1, <2>2, <2>4 DEF InUse
  <2>6. QED
    BY <2>3, <2>5
<1>6. QED
  BY <1>5, <1>a, <1>b, <1>d, <1>e

\* lf_queue_init.
LEMMA OpenKeeps ==
    ASSUME LfBase, Unused, QueueInit
    PROVE  /\ LfBase' /\ data'[head'] = NULL
           /\ \E r \in Seq(Node) : Len(r) = 1 /\ InUse(r)'
<1>0. LfTypes /\ ~fault /\ (\A t \in QThread : CallAt(t) /\ pc[t] = "idle") /\ alloc = {}
  BY DEF LfBase, Unused
<1> USE DEF QueueInit, Malloc
<1>a. PICK n \in Node : Malloc(n, NULL) /\ head' = n /\ tail' = n
  BY <1>0
<1>b. nxt'[n] = NULL /\ data'[n] = NULL /\ alloc' = {n}
  BY <1>0, <1>a DEF LfTypes
<1> DEFINE r == <<n>>
<1>c. Chained(r)' /\ Linked(r) = {n} /\ Len(r) = 1 /\ r[1] = n /\ r[Len(r)] = n
      /\ r \in Seq(Node)
  BY <1>a, <1>b, OneNode
<1> HIDE DEF r
<1>1. LfTypes'
  <2>1. /\ head' \in Node \cup {NULL} /\ tail' \in Node \cup {NULL}
        /\ open' \in BOOLEAN /\ alloc' \in SUBSET Node
    BY <1>0, <1>a DEF LfTypes
  <2>2. nxt' \in [Node -> Node \cup {NULL}] /\ data' \in [Node -> Data \cup {NULL}]
    BY <1>0, <1>a DEF LfTypes
  <2>3. QED
    BY <1>0, <2>1, <2>2 DEF LfTypes, local
<1>2. LfBase'
  BY <1>0, <1>1 DEF LfBase, CallAt
<1>3. \A t \in QThread : Apart(r, t)' /\ TailAt(r, t)' /\ SeenBy(r, t)'
  BY <1>0, <1>a, <1>b, <1>c DEF Apart, TailAt, SeenBy
<1>4. \A i \in 2 .. Len(r) : data'[r[i]] \in Data
  BY <1>c
<1>5. InUse(r)'
  BY <1>c, <1>3, <1>4 DEF InUse
<1>6. QED
  BY <1>2, <1>5, <1>a, <1>b, <1>c

\* lf_queue_deinit frees all nodes but the last and then the first: that is the
\* one node of a short list, and a node that is free already of a longer one.
LEMMA DeinitKeeps ==
    ASSUME Solo, LfBase, NEW q, InUse(q), QueueDeinit
    PROVE  /\ fault' <=> head # tail
           /\ head = tail => LfBase' /\ Unused'
           /\ head # tail => Broken'
           /\ head' = NULL /\ UNCHANGED <<op, arg, ret>> /\ \A t \in QThread : op[t] = "none"
<1>0. Chained(q) /\ LfTypes /\ ~fault /\ (\A t \in QThread : CallAt(t) /\ pc[t] = "idle")
  BY DEF LfBase, InUse, QueueDeinit, Idle
<1>1. PICK t \in QThread : TRUE
  BY OneToOne DEF QThread
<1>2. alloc = Linked(q) /\ tail = q[Len(q)]
  BY <1>0, <1>1 DEF InUse, Apart, TailAt
<1>3. /\ q \in Seq(Node) /\ Len(q) \in Nat /\ Len(q) > 0 /\ head = q[1] /\ head \in Node
      /\ head \in Linked(q) /\ tail \in Linked(q) /\ DOMAIN q = 1 .. Len(q)
  BY <1>0, <1>2, Ends
<1>4. \A i, j \in 1 .. Len(q) : q[i] = q[j] => i = j
  BY <1>0 DEF Chained
<1>5. Path = q
  BY <1>0, <1>3, WalkFinds
<1> DEFINE before == {Path[i] : i \in {i \in DOMAIN Path : \A j \in 1 .. i : Path[j] # tail}}
           freed == before \cup {head}
<1>6. before = Linked(q) \ {tail}
  <2>1. ASSUME NEW i \in 1 .. Len(q)
        PROVE  (\A j \in 1 .. i : q[j] # tail) <=> q[i] # tail
    <3>1. ASSUME NEW j \in 1 .. i, q[j] = tail PROVE q[i] = tail
      <4>1. j \in 1 .. Len(q) /\ Len(q) \in 1 .. Len(q)
        BY <1>3
      <4>2. j = Len(q)
        BY <1>2, <1>4, <3>1, <4>1
      <4>3. i = j
        <5>1. i \in Nat /\ j \in Nat /\ j <= i /\ i <= Len(q)
          BY <1>3
        <5>2. QED
          BY <4>2, <5>1
      <4>4. QED
        BY <3>1, <4>3
    <3>2. i \in 1 .. i
      BY <1>3
    <3>3. QED
      BY <3>1, <3>2
  <2>2. before = {q[i] : i \in {i \in 1 .. Len(q) : q[i] # tail}}
    BY <1>3, <1>5, <2>1
  <2>3. QED
    BY <2>2 DEF Linked
<1>7. /\ fault' = (head \in before \/ ~ (freed \subseteq alloc))
      /\ alloc' = alloc \ freed
      /\ data' = [n \in Node |-> IF n \in freed THEN NULL ELSE data[n]]
      /\ nxt'  = [n \in Node |-> IF n \in freed THEN NULL ELSE nxt[n]]
      /\ open' = FALSE /\ head' = NULL
      /\ UNCHANGED <<tail, pc, op, arg, ret, local>>
  BY DEF QueueDeinit
<1> HIDE DEF before
<1>8. fault' <=> head # tail
  BY <1>2, <1>3, <1>6, <1>7
<1>9. LfTypes'
  <2>1. nxt' \in [Node -> Node \cup {NULL}] /\ data' \in [Node -> Data \cup {NULL}]
    BY <1>0, <1>7 DEF LfTypes
  <2>2. alloc' \in SUBSET Node /\ open' \in BOOLEAN
    BY <1>0, <1>7 DEF LfTypes
  <2>3. QED
    BY <1>0, <1>7, <2>1, <2>2 DEF LfTypes, local
<1>10. CASE head = tail
  <2>1. alloc' = {}
    <3>1. q[1] = q[Len(q)] /\ 1 \in 1 .. Len(q) /\ Len(q) \in 1 .. Len(q)
      BY <1>2, <1>3, <1>10
    <3>2. Len(q) = 1
      BY <1>4, <3>1
    <3>3. Linked(q) = {head}
      BY <1>3, <3>2 DEF Linked
    <3>4. QED
      BY <1>2, <1>7, <3>3
  <2>2. LfBase'
    BY <1>0, <1>7, <1>8, <1>9, <1>10 DEF LfBase, CallAt
  <2>3. Unused'
    BY <1>0, <1>7, <2>1 DEF Unused
  <2>4. QED
    BY <1>0, <1>7, <1>8, <1>10, <2>2, <2>3 DEF CallAt
<1>11. CASE head # tail
  <2>1. alloc' = {tail}
    BY <1>2, <1>3, <1>6, <1>7, <1>11
  <2>2. Broken'
    BY <1>7, <1>8, <1>11, <2>1 DEF Broken
  <2>3. QED
    BY <1>0, <1>7, <1>8, <1>11, <2>2 DEF CallAt
<1>12. QED
  BY <1>10, <1>11

-----------------------------------------------------------------------------
(* The elements of the list *)

\* The elements of the list q: the first node does not count when it is empty.
Stored(q) == IF data[head] = NULL THEN [i \in 1 .. Len(q) - 1 |-> data[q[i + 1]]]
             ELSE [i \in 1 .. Len(q) |-> data[q[i]]]

StoredContents == \A q \in Seq(Node) : Chained(q) /\ LfTypes => Contents = Stored(q)

\* Contents has the elements of the list.
LEMMA ContentsAre == StoredContents
<1> SUFFICES ASSUME NEW q \in Seq(Node), Chained(q), LfTypes PROVE Contents = Stored(q)
  BY DEF StoredContents
<1> DEFINE all == [i \in 1 .. Len(q) |-> data[q[i]]]
<1>1. Path = q
  BY WalkFinds
<1>2. Len(q) \in Nat /\ Len(q) > 0 /\ q # <<>> /\ DOMAIN q = 1 .. Len(q)
      /\ (\A i \in 1 .. Len(q) : q[i] \in Node) /\ head = q[1]
  BY Ends
<1>3. Contents = IF data[head] = NULL THEN Tail(all) ELSE all
  BY <1>1, <1>2 DEF Contents
<1>4. all \in [1 .. Len(q) -> Data \cup {NULL}]
  BY <1>2 DEF LfTypes
<1>5. all \in Seq(Data \cup {NULL}) /\ Len(all) = Len(q)
  <2> HIDE DEF all
  <2>1. QED
    BY <1>2, <1>4
<1>6. /\ Tail(all) \in Seq(Data \cup {NULL}) /\ Len(Tail(all)) = Len(q) - 1
      /\ \A i \in 1 .. Len(q) - 1 : Tail(all)[i] = all[i + 1]
  <2> HIDE DEF all
  <2>1. QED
    BY <1>2, <1>5
<1>7. \A i \in 1 .. Len(q) - 1 : Tail(all)[i] = data[q[i + 1]]
  BY <1>2, <1>6
<1>8. Tail(all) = [i \in 1 .. Len(q) - 1 |-> data[q[i + 1]]]
  <2> DEFINE u == Tail(all)
  <2>1. u \in Seq(Data \cup {NULL}) /\ Len(u) = Len(q) - 1
        /\ \A i \in 1 .. Len(q) - 1 : u[i] = data[q[i + 1]]
    BY <1>6, <1>7
  <2> HIDE DEF all, u
  <2>2. u \in [1 .. Len(q) - 1 -> Data \cup {NULL}]
    BY <2>1
  <2>3. u = [i \in 1 .. Len(q) - 1 |-> data[q[i + 1]]]
    BY <2>1, <2>2
  <2>4. QED
    BY <2>3 DEF u
<1>9. QED
  BY <1>3, <1>8 DEF Stored

EmptyUnused == head = NULL => Path = <<>> /\ Contents = <<>>

\* A queue that is not in use has no elements.
LEMMA UnusedEmpty == EmptyUnused
<1> SUFFICES ASSUME head = NULL PROVE Path = <<>> /\ Contents = <<>>
  BY DEF EmptyUnused
<1>1. Path = <<>>
  BY DEF Path
<1> DEFINE all == [i \in DOMAIN Path |-> data[Path[i]]]
<1>2. all = <<>>
  BY <1>1
<1>3. QED
  BY <1>1, <1>2 DEF Contents

-----------------------------------------------------------------------------
(* The invariant *)

LEMMA LfInitInv == ASSUME lfInit PROVE LfInv
<1>1. LfTypes
  <2>1. nxt \in [Node -> Node \cup {NULL}] /\ data \in [Node -> Data \cup {NULL}]
    BY DEF lfInit
  <2>2. /\ pc \in [QThread -> LfPcs] /\ op \in [QThread -> {"none", "push", "pop"}]
        /\ arg \in [QThread -> Data \cup {NULL}]
        /\ ret \in [QThread -> Data \cup {NULL, "none", "pending", "ok", "nomem"}]
        /\ node \in [QThread -> Node \cup {NULL}] /\ tmp \in [QThread -> Node \cup {NULL}]
    BY DEF lfInit, LfPcs
  <2>3. QED
    BY <2>1, <2>2 DEF lfInit, LfTypes
<1>2. \A t \in QThread : CallAt(t)
  BY DEF lfInit, CallAt
<1>3. QED
  BY <1>1, <1>2 DEF lfInit, LfInv, LfBase, Unused

\* What a step of the thread does to the list.
LEMMA LfThreadStep ==
    ASSUME Solo, LfBase, NEW q, InUse(q), NEW t \in QThread, QStep(t)
    PROVE  LfBase' /\ \E r \in Seq(Node) : InUse(r)'
<1>0. q \in Seq(Node)
  BY Ends DEF InUse
<1>1. CASE CallPush(t) \/ CallPop(t)
  BY <1>0, <1>1, CallKeeps
<1>2. CASE NewNode(t)
  BY <1>0, <1>2, NewNodeKeeps
<1>3. CASE ReadTail(t)
  BY <1>0, <1>3, ReadTailKeeps
<1>4. CASE SetTail(t)
  BY <1>0, <1>4, SetTailKeeps
<1>5. CASE LinkNew(t)
  <2>1. \A m : m = node[t] => LfBase' /\ InUse(Append(q, m))'
    BY <1>5, LinkKeeps
  <2>2. PICK m : m = node[t]
    OBVIOUS
  <2>3. m \in Node
    BY <1>5, <2>2 DEF LinkNew, InUse, Apart
  <2>4. Append(q, m) \in Seq(Node)
    BY <1>0, <2>3
  <2>5. QED
    BY <2>1, <2>2, <2>4
<1>6. CASE Look(t)
  BY <1>0, <1>6, LookKeeps
<1>7. CASE Advance(t)
  <2>1. Len(q) > 1 /\ LfBase' /\ InUse(Tail(q))'
    BY <1>7, AdvanceKeeps
  <2>2. Tail(q) \in Seq(Node)
    BY <1>0, <2>1
  <2>3. QED
    BY <2>1, <2>2
<1>8. CASE Replace(t)
  BY <1>8, ReplaceKeeps
<1>9. CASE ReplaceTail(t)
  BY <1>0, <1>9, ReplaceTailKeeps
<1>10. CASE FreeNode(t)
  BY <1>0, <1>10, FreeKeeps
<1>11. CASE QNoMem(t)
  BY <1>0, <1>11, NoMemKeeps
<1>12. CASE QReturn(t)
  BY <1>0, <1>12, ReturnKeeps
<1>13. QED
  BY <1>1, <1>2, <1>3, <1>4, <1>5, <1>6, <1>7, <1>8, <1>9, <1>10, <1>11, <1>12 DEF QStep

\* A queue that is not in use can only be opened.
LEMMA UnusedOpens ==
    ASSUME Unused, lfNext
    PROVE  QueueInit /\ \A t \in QThread : ~ QStep(t)
<1>1. \A t \in QThread : pc[t] = "idle" /\ ~open
  BY DEF Unused
<1>2. ASSUME NEW t \in QThread, QStep(t) PROVE FALSE
  BY <1>1, <1>2 DEF QStep, CallPush, CallPop, QCall, NewNode, ReadTail, SetTail, LinkNew, Look,
     Advance, Replace, ReplaceTail, FreeNode, QNoMem, QReturn
<1>3. QED
  BY <1>1, <1>2 DEF lfNext, QueueDeinit, Unused

\* The invariant is inductive.
LEMMA LfInvNext == ASSUME Solo, LfInv, [lfNext]_lfVars PROVE LfInv'
<1>1. CASE UNCHANGED lfVars
  <2> USE <1>1 DEF lfVars, list, local
  <2>1. LfBase => LfBase'
    BY DEF LfBase, LfTypes, CallAt
  <2>2. Unused => Unused'
    BY DEF Unused
  <2>3. ASSUME NEW q, InUse(q) PROVE InUse(q)'
    BY <2>3 DEF InUse, Chained, Apart, TailAt, SeenBy, Linked
  <2>4. Broken => Broken'
    BY DEF Broken
  <2>5. QED
    BY <2>1, <2>2, <2>3, <2>4 DEF LfInv
<1>2. CASE lfNext /\ LfBase /\ Unused
  <2>1. QueueInit
    BY <1>2, UnusedOpens
  <2>2. QED
    BY <1>2, <2>1, OpenKeeps DEF LfInv
<1>3. ASSUME LfBase, NEW q \in Seq(Node), InUse(q), lfNext PROVE LfInv'
  <2>1. ASSUME NEW t \in QThread, QStep(t) PROVE LfInv'
    BY <1>3, <2>1, LfThreadStep DEF LfInv
  <2>2. CASE QueueDeinit
    BY <1>3, <2>2, DeinitKeeps DEF LfInv
  <2>3. ~ QueueInit
    BY <1>3 DEF InUse, QueueInit
  <2>4. QED
    BY <1>3, <2>1, <2>2, <2>3 DEF lfNext
<1>4. CASE lfNext /\ Broken
  BY <1>4 DEF lfNext, Broken
<1>5. QED
  BY <1>1, <1>2, <1>3, <1>4 DEF LfInv

\* With one thread, the invariant holds.
THEOREM QueueInvariant == Solo => (lfSpec => []LfInv)
<1> SUFFICES ASSUME Solo PROVE lfSpec => []LfInv
  OBVIOUS
<1>1. lfInit => LfInv
  BY LfInitInv
<1>2. LfInv /\ [lfNext]_lfVars => LfInv'
  BY LfInvNext
<1>3. QED
  BY <1>1, <1>2, PTL DEF lfSpec

\* With one thread, lf_queue_push and lf_queue_pop never use or free a node that
\* was freed, and lf_queue_deinit frees one twice exactly when the list has more
\* than one node.
THEOREM NodesLive == Solo => (lfSpec => FreedTwice)
<1> SUFFICES ASSUME Solo PROVE lfSpec => FreedTwice
  OBVIOUS
<1> DEFINE A == ~fault /\ fault' <=> QueueDeinit /\ head # tail
<1>1. ASSUME LfInv, LfInv', lfNext PROVE A
  <2>1. LfBase /\ ~fault
    BY <1>1 DEF LfInv, Broken, lfNext, LfBase
  <2>3. CASE QueueDeinit
    <3>1. open
      BY <2>3 DEF QueueDeinit
    <3>2. PICK q : InUse(q)
      BY <1>1, <2>1, <3>1 DEF LfInv, Broken, LfBase, Unused
    <3>3. fault' <=> head # tail
      BY <2>1, <2>3, <3>2, DeinitKeeps
    <3>4. QED
      BY <2>1, <2>3, <3>3
  <2>4. CASE ~ QueueDeinit
    <3>1. CASE QueueInit
      BY <2>1, <2>4, <3>1 DEF QueueInit
    <3>2. ASSUME NEW t \in QThread, QStep(t) PROVE ~fault'
      <4>1. ~Unused
        <5>1. ASSUME Unused PROVE FALSE
          BY <1>1, <3>2, <5>1, UnusedOpens
        <5>2. QED
          BY <5>1
      <4>2. PICK q : InUse(q)
        BY <1>1, <2>1, <4>1 DEF LfInv, Broken, LfBase
      <4>3. QED
        BY <2>1, <3>2, <4>2, LfThreadStep DEF LfBase
    <3>3. QED
      BY <1>1, <2>1, <2>4, <3>1, <3>2 DEF lfNext
  <2>5. QED
    BY <2>3, <2>4
<1>2. LfInv /\ LfInv' /\ [lfNext]_lfVars => [A]_lfVars
  BY <1>1
<1>3. lfSpec => []LfInv
  BY QueueInvariant
<1>4. QED
  BY <1>2, <1>3, PTL DEF lfSpec, FreedTwice

\* Between calls the allocated nodes are those of the list, or what
\* lf_queue_deinit left of it.
LEMMA NothingLeaked == ASSUME LfInv PROVE NodesHeld
<1> SUFFICES ASSUME Idle
             PROVE  /\ open => alloc = {Path[i] : i \in DOMAIN Path} /\ Path[Len(Path)] = tail
                    /\ ~open => alloc = IF fault THEN {tail} ELSE {}
  BY DEF NodesHeld
<1>1. CASE LfBase /\ Unused
  BY <1>1 DEF LfBase, Unused
<1>2. ASSUME LfBase, NEW q \in Seq(Node), InUse(q)
      PROVE  open /\ alloc = {Path[i] : i \in DOMAIN Path} /\ Path[Len(Path)] = tail
  <2>1. Path = q /\ DOMAIN q = 1 .. Len(q) /\ open
    BY <1>2, WalkFinds DEF InUse
  <2>2. PICK t \in QThread : TRUE
    BY OneToOne DEF QThread
  <2>3. pc[t] = "idle" /\ Apart(q, t) /\ TailAt(q, t)
    BY <1>2 DEF Idle, InUse
  <2>4. QED
    BY <2>1, <2>3 DEF Apart, TailAt, Linked
<1>3. CASE Broken
  BY <1>3 DEF Broken
<1>4. QED
  BY <1>1, <1>2, <1>3 DEF LfInv

\* With one thread, lf_queue_push and lf_queue_pop leak no node, and lf_queue_deinit
\* leaks the last one of a list of more than one node.
THEOREM NodesKept == Solo => (lfSpec => []NodesHeld)
<1> SUFFICES ASSUME Solo PROVE lfSpec => []NodesHeld
  OBVIOUS
<1>1. LfInv => NodesHeld
  BY NothingLeaked
<1>2. lfSpec => []LfInv
  BY QueueInvariant
<1>3. QED
  BY <1>1, <1>2, PTL

-----------------------------------------------------------------------------
(* The queue of FifoQueue *)

Missed == head # NULL /\ data[head] # NULL

\* Before and after a step, Contents has the elements of the list.
LEMMA ContentsStep ==
    ASSUME LfTypes, LfTypes', NEW q, InUse(q), NEW r, InUse(r)'
    PROVE  Contents = Stored(q) /\ Contents' = Stored(r)'
<1>1. Chained(q) /\ q \in Seq(Node) /\ Chained(r)' /\ r \in Seq(Node)
  BY DEF InUse, Chained
<1>2. StoredContents
  BY ContentsAre
<1>3. StoredContents'
  BY ContentsAre, PTL
<1>4. Contents = Stored(q)
  BY <1>1, <1>2 DEF StoredContents
<1>5. Contents' = Stored(r)'
  BY <1>1, <1>3 DEF StoredContents
<1>6. QED
  BY <1>4, <1>5

\* A step that leaves the list alone leaves the elements alone.
LEMMA SameContents ==
    ASSUME LfTypes, LfTypes', NEW q, InUse(q), InUse(q)', head' = head,
           \A n \in Linked(q) : data'[n] = data[n]
    PROVE  Contents' = Contents /\ Missed' = Missed
<1>1. Contents = Stored(q) /\ Contents' = Stored(q)'
  BY ContentsStep
<1>2. /\ Len(q) \in Nat /\ head \in Linked(q)
      /\ \A i \in 1 .. Len(q) : q[i] \in Linked(q)
  BY Ends DEF InUse
<1>3. data'[head] = data[head]
  BY <1>2
<1>4. \A i \in 1 .. Len(q) - 1 : i + 1 \in 1 .. Len(q) /\ data'[q[i + 1]] = data[q[i + 1]]
  BY <1>2
<1>5. Stored(q)' = Stored(q)
  BY <1>2, <1>3, <1>4 DEF Stored
<1>6. QED
  BY <1>1, <1>3, <1>5 DEF Missed

\* The sequence that goes on with e behind u.
LEMMA AppendIs ==
    ASSUME NEW S, NEW u \in Seq(S), NEW e \in S, NEW m \in Nat, Len(u) = m,
           NEW v, v = [i \in 1 .. m + 1 |-> v[i]],
           \A i \in 1 .. m + 1 : v[i] = IF i = m + 1 THEN e ELSE u[i]
    PROVE  v = Append(u, e)
<1> DEFINE w == Append(u, e)
<1>1. w \in Seq(S) /\ Len(w) = m + 1
      /\ \A i \in 1 .. m + 1 : w[i] = IF i = m + 1 THEN e ELSE u[i]
  <2>1. /\ w \in Seq(S) /\ w # <<>> /\ Len(w) = Len(u) + 1
        /\ \A i \in 1 .. Len(u) : w[i] = u[i]
        /\ w[Len(u) + 1] = e
    BY AppendProperties
  <2> HIDE DEF w
  <2>2. \A i \in 1 .. m + 1 : i = m + 1 \/ (i \in 1 .. m /\ i # m + 1)
    OBVIOUS
  <2>3. QED
    BY <2>1, <2>2
<1> HIDE DEF w
<1>2. w \in [1 .. m + 1 -> S]
  BY <1>1
<1>3. v = w
  BY <1>1, <1>2
<1>4. QED
  BY <1>3 DEF w

\* Linking a node appends its element.
LEMMA LinkStores ==
    ASSUME LfTypes, LfTypes', NEW q, InUse(q), NEW n \in Node, InUse(Append(q, n))',
           data' = data, head' = head, data[n] \in Data
    PROVE  Contents' = Append(Contents, data[n]) /\ Missed' = Missed
<1> DEFINE r == Append(q, n)
           L == Len(q)
<1>1. Contents = Stored(q) /\ Contents' = Stored(r)'
  BY ContentsStep
<1>2. /\ q \in Seq(Node) /\ L \in Nat /\ L > 0 /\ head = q[1]
      /\ \A i \in 1 .. L : q[i] \in Node
  BY Ends DEF InUse
<1>3. Len(r) = L + 1 /\ r[L + 1] = n /\ \A i \in 1 .. L : r[i] = q[i]
  BY <1>2
<1>4. \A i \in 2 .. L : data[q[i]] \in Data
  BY DEF InUse
<1> HIDE DEF r
<1>5. CASE data[head] = NULL
  <2> DEFINE u == [i \in 1 .. L - 1 |-> data[q[i + 1]]]
             v == [i \in 1 .. L |-> data[r[i + 1]]]
  <2>1. Stored(q) = u
    BY <1>5 DEF Stored
  <2>2. Stored(r)' = v
    BY <1>2, <1>3, <1>5 DEF Stored
  <2>3. u \in [1 .. L - 1 -> Data]
    <3> HIDE DEF L
    <3>1. \A i \in 1 .. L - 1 : i + 1 \in 2 .. L
      BY <1>2
    <3>2. QED
      BY <1>4, <3>1
  <2>4. u \in Seq(Data) /\ Len(u) = L - 1
    <3> HIDE DEF u
    <3>1. QED
      BY <1>2, <2>3
  <2>5. \A i \in 1 .. L : v[i] = IF i = L THEN data[n] ELSE u[i]
    <3> HIDE DEF L
    <3> SUFFICES ASSUME NEW i \in 1 .. L
                 PROVE  data[r[i + 1]] = IF i = L THEN data[n] ELSE u[i]
      OBVIOUS
    <3>1. CASE i = L
      BY <1>3, <3>1
    <3>2. CASE i # L
      <4>1. i \in 1 .. L - 1 /\ i + 1 \in 1 .. L
        BY <1>2, <3>2
      <4>2. QED
        BY <1>3, <3>2, <4>1
    <3>3. QED
      BY <3>1, <3>2
  <2>6. v = Append(u, data[n])
    <3> DEFINE m == L - 1
    <3>1. v = [i \in 1 .. L |-> v[i]]
      OBVIOUS
    <3>2. m \in Nat /\ m + 1 = L /\ Len(u) = m
      BY <1>2, <2>4
    <3> HIDE DEF u, v, L, m
    <3>3. v = [i \in 1 .. m + 1 |-> v[i]]
      BY <3>1, <3>2
    <3>4. \A i \in 1 .. m + 1 : v[i] = IF i = m + 1 THEN data[n] ELSE u[i]
      BY <2>5, <3>2
    <3>5. QED
      BY <2>4, <3>2, <3>3, <3>4, AppendIs
  <2>7. QED
    BY <1>1, <1>5, <2>1, <2>2, <2>6 DEF Missed
<1>6. CASE data[head] # NULL
  <2> DEFINE u == [i \in 1 .. L |-> data[q[i]]]
             v == [i \in 1 .. L + 1 |-> data[r[i]]]
  <2>1. Stored(q) = u
    BY <1>6 DEF Stored
  <2>2. Stored(r)' = v
    BY <1>2, <1>3, <1>6 DEF Stored
  <2>3. u \in [1 .. L -> Data]
    <3>1. data[q[1]] \in Data
      BY <1>2, <1>6 DEF LfTypes
    <3> HIDE DEF L
    <3>2. \A i \in 1 .. L : i = 1 \/ i \in 2 .. L
      BY <1>2
    <3>3. QED
      BY <1>4, <3>1, <3>2 DEF L
  <2>4. u \in Seq(Data) /\ Len(u) = L
    <3> HIDE DEF u
    <3>1. QED
      BY <1>2, <2>3
  <2>5. \A i \in 1 .. L + 1 : v[i] = IF i = L + 1 THEN data[n] ELSE u[i]
    <3> HIDE DEF L
    <3> SUFFICES ASSUME NEW i \in 1 .. L + 1
                 PROVE  data[r[i]] = IF i = L + 1 THEN data[n] ELSE u[i]
      OBVIOUS
    <3>1. i = L + 1 \/ (i \in 1 .. L /\ i # L + 1)
      BY <1>2
    <3>2. QED
      BY <1>3, <3>1
  <2>6. v = Append(u, data[n])
    <3>1. v = [i \in 1 .. L + 1 |-> v[i]]
      OBVIOUS
    <3> HIDE DEF u, v, L
    <3>2. QED
      BY <1>2, <2>4, <2>5, <3>1, AppendIs
  <2>7. QED
    BY <1>1, <1>6, <2>1, <2>2, <2>6 DEF Missed
<1>7. QED
  BY <1>5, <1>6

\* Advancing lf->head takes the first element, when the first node has one.
LEMMA AdvanceTakes ==
    ASSUME LfTypes, LfTypes', NEW q, InUse(q), Len(q) > 1, InUse(Tail(q))',
           UNCHANGED <<data, nxt>>, head' = nxt[head]
    PROVE  /\ Missed' /\ Contents' # <<>>
           /\ data[head] = NULL => ~Missed /\ Contents' = Contents
           /\ data[head] # NULL => /\ Contents # <<>> /\ Head(Contents) = data[head]
                                   /\ Contents' = Tail(Contents)
<1> DEFINE r == Tail(q)
           L == Len(q)
           u == [i \in 1 .. L - 1 |-> data[q[i + 1]]]
           w == [i \in 1 .. L |-> data[q[i]]]
<1>1. Contents = Stored(q) /\ Contents' = Stored(r)'
  BY ContentsStep
<1>2. /\ q \in Seq(Node) /\ L \in Nat /\ L > 1 /\ head = q[1]
      /\ \A i \in 1 .. L : q[i] \in Node
  BY Ends DEF InUse
<1>3. Len(r) = L - 1 /\ \A i \in 1 .. L - 1 : r[i] = q[i + 1]
  BY <1>2
<1>4. \A i \in 2 .. L : data[q[i]] \in Data
  BY DEF InUse
<1>5. Chained(r)' /\ head' = r[1]
  BY DEF InUse, Chained
<1> HIDE DEF r, L
<1>6. r[1] = q[2] /\ data[q[2]] \in Data
  <2>1. 1 \in 1 .. L - 1 /\ 1 + 1 = 2 /\ 2 \in 2 .. L
    BY <1>2
  <2>2. QED
    BY <1>3, <1>4, <2>1
<1>7. data'[head'] \in Data /\ head' \in Node
  <2>1. 2 \in 1 .. L
    BY <1>2
  <2>2. QED
    BY <1>2, <1>5, <1>6, <2>1
<1>8. Missed' /\ Stored(r)' = [i \in 1 .. Len(r) |-> data'[r[i]]]
  BY <1>7, SentinelAssumption DEF Missed, Stored
<1>9. Stored(r)' = u
  BY <1>2, <1>3, <1>8
<1>10. u \in Seq(Data) /\ Len(u) = L - 1
  <2>1. u \in [1 .. L - 1 -> Data]
    <3>1. \A i \in 1 .. L - 1 : i + 1 \in 2 .. L
      BY <1>2
    <3>2. QED
      BY <1>4, <3>1
  <2> HIDE DEF u
  <2>2. QED
    BY <1>2, <2>1
<1>11. u # <<>>
  <2> HIDE DEF u
  <2>1. QED
    BY <1>2, <1>10
<1>12. CASE data[head] = NULL
  <2>1. Stored(q) = u
    BY <1>12 DEF Stored, L
  <2>2. QED
    BY <1>1, <1>8, <1>9, <1>11, <1>12, <2>1 DEF Missed
<1>13. CASE data[head] # NULL
  <2>1. Stored(q) = w
    BY <1>13 DEF Stored, L
  <2>2. w \in [1 .. L -> Data \cup {NULL}] /\ w[1] = data[head]
    BY <1>2 DEF LfTypes
  <2>3. w # <<>> /\ Head(w) = w[1] /\ Tail(w) \in Seq(Data \cup {NULL})
        /\ Len(Tail(w)) = L - 1 /\ \A i \in 1 .. L - 1 : Tail(w)[i] = w[i + 1]
    <3> HIDE DEF w
    <3>1. w \in Seq(Data \cup {NULL}) /\ Len(w) = L
      BY <1>2, <2>2
    <3>2. QED
      BY <1>2, <3>1
  <2>4. \A i \in 1 .. L - 1 : w[i + 1] = u[i]
    BY <1>2
  <2>5. Tail(w) = u
    <3> DEFINE v == Tail(w)
    <3>1. v \in Seq(Data \cup {NULL}) /\ Len(v) = L - 1 /\ \A i \in 1 .. L - 1 : v[i] = u[i]
      BY <2>3, <2>4
    <3>2. u \in Seq(Data \cup {NULL})
      BY <1>10
    <3> HIDE DEF u, v, w
    <3>3. v = u
      <4>1. Len(u) = Len(v) /\ \A i \in 1 .. Len(v) : v[i] = u[i]
        BY <1>10, <3>1
      <4>2. QED
        BY <3>1, <3>2, <4>1, SeqEqual
    <3>4. QED
      BY <3>3 DEF v
  <2>6. QED
    BY <1>1, <1>8, <1>9, <1>11, <1>13, <2>1, <2>2, <2>3, <2>5
<1>14. QED
  BY <1>12, <1>13

\* Every step of a call is a step of FifoQueue, or changes nothing it tells of.
LEMMA FifoThreadStep ==
    ASSUME Solo, LfBase, NEW q, InUse(q), NEW t \in QThread, QStep(t)
    PROVE  Queue!Next \/ UNCHANGED Queue!vars
<1>0. LfTypes /\ CallAt(t) /\ q \in Seq(Node) /\ Apart(q, t) /\ TailAt(q, t) /\ SeenBy(q, t)
  BY Ends DEF LfBase, InUse
<1>a. /\ head \in Node /\ head \in Linked(q) /\ Len(q) \in Nat
      /\ \A n \in Linked(q) : n \in Node
  BY Ends DEF InUse, Linked
<1>b. LfBase' => LfTypes'
  BY DEF LfBase
<1>1. CASE CallPush(t) \/ CallPop(t)
  <2>1. Contents' = Contents /\ Missed' = Missed
    BY <1>0, <1>1, <1>b, CallKeeps, SameContents DEF CallPush, CallPop, QCall, list
  <2>2. op[t] = "none"
    BY <1>0, <1>1 DEF CallPush, CallPop, QCall, CallAt
  <2>3. CASE CallPush(t)
    <3>1. PICK d \in Data : QCall(t, "push", d)
      BY <2>3 DEF CallPush
    <3>2. Queue!Invoke(t, "push", d)
      BY <2>1, <2>2, <3>1 DEF QCall, Result, Queue!Invoke, Missed
    <3>3. QED
      BY <3>2 DEF Queue!Next
  <2>4. CASE CallPop(t)
    <3>1. Queue!Invoke(t, "pop", NULL)
      BY <2>1, <2>2, <2>4 DEF CallPop, QCall, Result, Queue!Invoke, Missed
    <3>2. QED
      BY <3>1 DEF Queue!Next
  <2>5. QED
    BY <1>1, <2>3, <2>4
<1>2. CASE NewNode(t)
  <2> USE DEF NewNode, Malloc
  <2>1. pc[t] = "push" /\ alloc = Linked(q)
    BY <1>0, <1>2 DEF Apart
  <2>2. \A n \in Linked(q) : data'[n] = data[n]
    BY <1>0, <1>2, <1>a, <2>1 DEF LfTypes
  <2>3. Contents' = Contents /\ Missed' = Missed
    BY <1>0, <1>2, <1>b, <2>2, NewNodeKeeps, SameContents
  <2>4. QED
    BY <1>2, <2>3 DEF Queue!vars, Missed
<1>3. CASE ReadTail(t)
  <2>1. Contents' = Contents /\ Missed' = Missed
    BY <1>0, <1>3, <1>b, ReadTailKeeps, SameContents DEF ReadTail, list
  <2>2. QED
    BY <1>3, <2>1 DEF ReadTail, Queue!vars, Missed
<1>4. CASE SetTail(t)
  <2>1. Contents' = Contents /\ Missed' = Missed
    BY <1>0, <1>4, <1>b, SetTailKeeps, SameContents DEF SetTail
  <2>2. QED
    BY <1>4, <2>1 DEF SetTail, Queue!vars, Missed
<1>5. CASE LinkNew(t)
  <2>1. PICK n : n = node[t]
    OBVIOUS
  <2>2. LfBase' /\ InUse(Append(q, n))'
    BY <1>5, <2>1, LinkKeeps
  <2>3. /\ n \in Node /\ data[n] = arg[t] /\ arg[t] \in Data /\ op[t] = "push"
        /\ ret[t] = "pending" /\ data' = data /\ head' = head /\ UNCHANGED <<op, arg>>
        /\ ret' = [ret EXCEPT ![t] = "ok"]
    BY <1>0, <1>5, <2>1 DEF LinkNew, Result, Apart, TailAt, CallAt
  <2>4. Contents' = Append(Contents, arg[t]) /\ Missed' = Missed
    BY <1>0, <1>b, <2>2, <2>3, LinkStores
  <2>5. Queue!Push(t)
    BY <2>3, <2>4 DEF Queue!Push, Queue!Effect, Missed
  <2>6. QED
    BY <2>5 DEF Queue!Next
<1>6. CASE Look(t)
  <2>1. Contents' = Contents /\ Missed' = Missed
    BY <1>0, <1>6, <1>b, LookKeeps, SameContents DEF Look, list
  <2>2. op[t] = "pop" /\ ret[t] = "pending" /\ UNCHANGED <<op, arg>>
    BY <1>0, <1>6 DEF Look, CallAt
  <2>3. CASE UNCHANGED ret
    BY <2>1, <2>2, <2>3 DEF Queue!vars, Missed
  <2>4. CASE nxt[head] = NULL /\ data[head] = NULL /\ Result(t, NULL)
    <3>1. Len(q) = 1 /\ Contents = Stored(q)
      <4>1. LfTypes' /\ InUse(q)'
        BY <1>6, <1>b, LookKeeps
      <4>2. Contents = Stored(q)
        BY <1>0, <4>1, ContentsStep
      <4>3. QED
        BY <2>4, <4>2, Ends DEF InUse
    <3>2. Stored(q) = <<>>
      <4>1. Stored(q) = [i \in 1 .. 0 |-> data[q[i + 1]]]
        BY <2>4, <3>1 DEF Stored
      <4>2. QED
        BY <4>1
    <3>3. ~Missed /\ ~Missed'
      BY <2>1, <2>4 DEF Missed
    <3>4. Queue!PopNothing(t)
      BY <2>1, <2>2, <2>4, <3>1, <3>2, <3>3
         DEF Queue!PopNothing, Queue!Effect, Missed, Result
    <3>5. QED
      BY <3>4 DEF Queue!Next
  <2>5. QED
    BY <1>6, <2>3, <2>4 DEF Look
<1>7. CASE Advance(t)
  <2>1. Len(q) > 1 /\ LfBase' /\ InUse(Tail(q))'
    BY <1>7, AdvanceKeeps
  <2>2. /\ op[t] = "pop" /\ ret[t] = "pending" /\ UNCHANGED <<op, arg, data, nxt>>
        /\ node[t] = head /\ head' = nxt[head] /\ ret' = [ret EXCEPT ![t] = data[head]]
    BY <1>0, <1>7 DEF Advance, Result, CallAt, SeenBy
  <2>3. /\ Missed' /\ Contents' # <<>>
        /\ data[head] = NULL => ~Missed /\ Contents' = Contents
        /\ data[head] # NULL => /\ Contents # <<>> /\ Head(Contents) = data[head]
                                /\ Contents' = Tail(Contents)
    BY <1>0, <1>b, <2>1, <2>2, AdvanceTakes
  <2>4. CASE data[head] = NULL
    <3>1. Queue!PopNothing(t)
      BY <2>2, <2>3, <2>4 DEF Queue!PopNothing, Queue!Effect, Missed
    <3>2. QED
      BY <3>1 DEF Queue!Next
  <2>5. CASE data[head] # NULL
    <3>1. Queue!Pop(t)
      BY <2>2, <2>3, <2>5 DEF Queue!Pop, Queue!Effect, Missed
    <3>2. QED
      BY <3>1 DEF Queue!Next
  <2>6. QED
    BY <2>4, <2>5
<1>8. CASE Replace(t)
  <2>1. /\ Len(q) = 1 /\ data[head] \in Data /\ data'[head'] = NULL /\ LfBase'
        /\ \E r \in Seq(Node) : Len(r) = 1 /\ InUse(r)'
    BY <1>8, ReplaceKeeps
  <2>2. PICK r \in Seq(Node) : Len(r) = 1 /\ InUse(r)'
    BY <2>1
  <2>3. Contents = Stored(q) /\ Contents' = Stored(r)'
    BY <1>0, <1>b, <2>1, <2>2, ContentsStep
  <2>4. data[head] # NULL /\ head = q[1] /\ head # NULL
    BY <1>a, <2>1, Ends, SentinelAssumption DEF InUse
  <2>5. Contents = <<data[head]>>
    <3>1. Stored(q) = [i \in 1 .. 1 |-> data[q[i]]]
      BY <2>1, <2>4 DEF Stored
    <3>2. [i \in 1 .. 1 |-> data[q[i]]] = <<data[head]>>
      BY <2>4
    <3>3. QED
      BY <2>3, <3>1, <3>2
  <2>6. Contents' = <<>>
    <3>1. Stored(r)' = [i \in 1 .. 0 |-> data'[r[i + 1]]]
      BY <2>1, <2>2 DEF Stored
    <3>2. QED
      BY <2>3, <3>1
  <2>7. Contents # <<>> /\ Head(Contents) = data[head] /\ Tail(Contents) = <<>>
    BY <2>5
  <2>8. Missed /\ ~Missed'
    BY <2>1, <2>4 DEF Missed
  <2>9. /\ op[t] = "pop" /\ ret[t] = "pending" /\ UNCHANGED <<op, arg>>
        /\ ret' = [ret EXCEPT ![t] = data[head]]
    BY <1>0, <1>8 DEF Replace, Result, CallAt, SeenBy
  <2>10. Queue!Pop(t)
    BY <2>6, <2>7, <2>8, <2>9 DEF Queue!Pop, Queue!Effect, Missed
  <2>11. QED
    BY <2>10 DEF Queue!Next
<1>9. CASE ReplaceTail(t)
  <2>1. Contents' = Contents /\ Missed' = Missed
    BY <1>0, <1>9, <1>b, ReplaceTailKeeps, SameContents DEF ReplaceTail
  <2>2. QED
    BY <1>9, <2>1 DEF ReplaceTail, Queue!vars, Missed
<1>10. CASE FreeNode(t)
  <2> USE DEF FreeNode, Release
  <2>1. node[t] \notin Linked(q)
    BY <1>0, <1>10 DEF Apart
  <2>2. \A n \in Linked(q) : data'[n] = data[n]
    BY <1>0, <1>10, <1>a, <2>1 DEF LfTypes
  <2>3. Contents' = Contents /\ Missed' = Missed
    BY <1>0, <1>10, <1>b, <2>2, FreeKeeps, SameContents
  <2>4. QED
    BY <1>10, <2>3 DEF Queue!vars, Missed
<1>11. CASE QNoMem(t)
  <2>1. Contents' = Contents /\ Missed' = Missed
    BY <1>0, <1>11, <1>b, NoMemKeeps, SameContents DEF QNoMem, list
  <2>2. ret[t] = "pending"
    BY <1>0, <1>11 DEF QNoMem, CallAt
  <2>3. Queue!NoMem(t)
    BY <1>11, <2>1, <2>2 DEF QNoMem, Result, Queue!NoMem, Queue!Effect, Missed
  <2>4. QED
    BY <2>3 DEF Queue!Next
<1>12. CASE QReturn(t)
  <2>1. Contents' = Contents /\ Missed' = Missed
    BY <1>0, <1>12, <1>b, ReturnKeeps, SameContents DEF QReturn, list
  <2>2. ret[t] \notin {"none", "pending"}
    BY <1>0, <1>12 DEF QReturn, CallAt
  <2>3. Queue!Return(t)
    BY <1>12, <2>1, <2>2 DEF QReturn, Result, Queue!Return, Missed
  <2>4. QED
    BY <2>3 DEF Queue!Next
<1>13. QED
  BY <1>1, <1>2, <1>3, <1>4, <1>5, <1>6, <1>7, <1>8, <1>9, <1>10, <1>11, <1>12 DEF QStep

\* Opening a queue changes nothing FifoQueue tells of, closing it drops the rest.
LEMMA FifoOpens ==
    ASSUME LfBase, LfBase', Unused, QueueInit
    PROVE  UNCHANGED Queue!vars
<1>0. LfTypes /\ LfTypes'
  BY DEF LfBase
<1>1. Contents = <<>> /\ ~Missed
  BY UnusedEmpty DEF EmptyUnused, Unused, Missed
<1>2. PICK r \in Seq(Node) : Len(r) = 1 /\ InUse(r)' /\ data'[head'] = NULL
  BY OpenKeeps
<1>3. Contents' = Stored(r)'
  <2>1. StoredContents'
    BY ContentsAre, PTL
  <2>2. QED
    BY <1>0, <1>2, <2>1 DEF StoredContents, InUse
<1>4. Stored(r)' = [i \in 1 .. 0 |-> data'[r[i + 1]]]
  BY <1>2 DEF Stored
<1>5. Contents' = <<>> /\ ~Missed'
  BY <1>2, <1>3, <1>4 DEF Missed
<1>6. QED
  BY <1>1, <1>5 DEF QueueInit, Queue!vars, Missed, local

LEMMA FifoCloses ==
    ASSUME Solo, LfBase, NEW q, InUse(q), QueueDeinit
    PROVE  Queue!Next
<1>1. head' = NULL /\ UNCHANGED <<op, arg, ret>> /\ \A t \in QThread : op[t] = "none"
  BY DeinitKeeps
<1>2. EmptyUnused'
  BY UnusedEmpty, PTL
<1>3. Contents' = <<>> /\ ~Missed'
  BY <1>1, <1>2 DEF EmptyUnused, Missed
<1>4. Queue!Discard
  BY <1>1, <1>3 DEF Queue!Discard, Missed
<1>5. QED
  BY <1>4 DEF Queue!Next

\* A step of the queue, seen as a step of FifoQueue.
LEMMA FifoNext ==
    ASSUME Solo, LfInv, LfInv', [lfNext]_lfVars
    PROVE  [Queue!Next]_(Queue!vars)
<1>1. CASE UNCHANGED lfVars
  <2>1. UNCHANGED <<head, nxt, data>> /\ UNCHANGED <<op, arg, ret>>
    BY <1>1 DEF lfVars, list
  <2>2. Reach' = Reach
    BY <2>1 DEF Reach
  <2>3. Contents' = Contents /\ Missed' = Missed
    BY <2>1, <2>2 DEF Contents, Path, Missed
  <2>4. QED
    BY <2>1, <2>3 DEF Queue!vars, Missed
<1>2. CASE lfNext /\ LfBase /\ Unused
  <2>1. QueueInit
    BY <1>2, UnusedOpens
  <2>2. LfBase'
    BY <1>2, <2>1, OpenKeeps
  <2>3. QED
    BY <1>2, <2>1, <2>2, FifoOpens
<1>3. ASSUME LfBase, NEW q \in Seq(Node), InUse(q), lfNext PROVE [Queue!Next]_(Queue!vars)
  <2>1. ASSUME NEW t \in QThread, QStep(t) PROVE [Queue!Next]_(Queue!vars)
    BY <1>3, <2>1, FifoThreadStep
  <2>2. CASE QueueDeinit
    BY <1>3, <2>2, FifoCloses
  <2>3. ~ QueueInit
    BY <1>3 DEF InUse, QueueInit
  <2>4. QED
    BY <1>3, <2>1, <2>2, <2>3 DEF lfNext
<1>4. CASE lfNext /\ Broken
  BY <1>4 DEF lfNext, Broken
<1>5. QED
  BY <1>1, <1>2, <1>3, <1>4 DEF LfInv

LEMMA FifoInit == ASSUME lfInit PROVE Queue!Init
<1>1. Unused
  BY DEF lfInit, Unused
<1>2. Contents = <<>> /\ ~Missed
  BY <1>1, UnusedEmpty DEF EmptyUnused, Unused, Missed
<1>3. QED
  BY <1>2 DEF lfInit, Queue!Init, Missed

\* With one thread, lf_queue_push and lf_queue_pop are those of FifoQueue: atomic, and
\* first in, first out.
THEOREM QueueIsFifo == Solo => (lfSpec => Fifo)
<1> SUFFICES ASSUME Solo PROVE lfSpec => Fifo
  OBVIOUS
<1>1. lfInit => Queue!Init
  BY FifoInit
<1>2. LfInv /\ LfInv' /\ [lfNext]_lfVars => [Queue!Next]_(Queue!vars)
  BY FifoNext
<1>3. lfSpec => []LfInv
  BY QueueInvariant
<1>4. QED
  BY <1>1, <1>2, <1>3, PTL DEF lfSpec, Fifo, Queue!Spec

=============================================================================
