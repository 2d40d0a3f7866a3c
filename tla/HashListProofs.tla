---------------------------- MODULE HashListProofs ----------------------------
(* Proofs about HashList for every table, every number of threads and blocks. *)
EXTENDS HashList, ListLemmas

(* Types *)

\* Every chain begins with a node or is empty, and linking or unlinking a node
\* leaves the chains sequences of nodes.
LEMMA ChainTypes ==
    ASSUME TypeOK
    PROVE  /\ \A b \in Bucket : First(b) \in Node \cup {NULL}
           /\ \A n \in Node, b \in Bucket :
                 LinkHead(n, b) => chain' \in [Bucket -> Seq(Node)]
           /\ \A b \in Bucket : \A i \in DOMAIN chain[b] :
                 /\ chain[b][i] \in Node
                 /\ After(b, i) \in Node \cup {NULL}
                 /\ chain' = [chain EXCEPT ![b] = RemoveAt(@, i)]
                       => chain' \in [Bucket -> Seq(Node)]
<1>1. \A b \in Bucket : First(b) \in Node \cup {NULL}
  BY DEF TypeOK, First
<1>2. ASSUME NEW n \in Node, NEW b \in Bucket, LinkHead(n, b)
      PROVE  chain' \in [Bucket -> Seq(Node)]
  <2>1. <<n>> \o chain[b] \in Seq(Node)
    BY LinkHeadPlaces DEF TypeOK
  <2>2. QED
    BY <1>2, <2>1 DEF TypeOK, LinkHead
<1>3. ASSUME NEW b \in Bucket, NEW i \in DOMAIN chain[b]
      PROVE  /\ chain[b][i] \in Node
             /\ After(b, i) \in Node \cup {NULL}
             /\ chain' = [chain EXCEPT ![b] = RemoveAt(@, i)]
                   => chain' \in [Bucket -> Seq(Node)]
  <2>1. chain[b] \in Seq(Node)
    BY DEF TypeOK
  <2>2. chain[b][i] \in Node /\ After(b, i) \in Node \cup {NULL}
    BY <2>1 DEF After
  <2>3. RemoveAt(chain[b], i) \in Seq(Node)
    BY <2>1, RemovePlaces
  <2>4. QED
    BY <2>2, <2>3 DEF TypeOK
<1>4. QED
  BY <1>1, <1>2, <1>3

\* Type correctness is inductive by itself, once Control says that a thread
\* about to link, unlink or free a block has one.
LEMMA TypeStep ==
    ASSUME TypeOK, Control, [Next]_vars
    PROVE  TypeOK'
<1> USE HashAssumption, SentinelAssumption, CallAssumption
<1> USE DEF TypeOK, PC
<1>1. CASE UNCHANGED vars
  BY <1>1 DEF vars, table, cursor
<1>2. ASSUME NEW t \in Thread, CallAdd(t) PROVE TypeOK'
  BY <1>2 DEF CallAdd, Call, Goto, Result, cursor
<1>3. ASSUME NEW t \in Thread, CallAddNoMem(t) PROVE TypeOK'
  BY <1>3 DEF CallAddNoMem, Call, Goto, Result, table, cursor
<1>4. ASSUME NEW t \in Thread, CallDel(t) PROVE TypeOK'
  BY <1>4 DEF CallDel, Call, Goto, Result, table, cursor
<1>5. ASSUME NEW t \in Thread, CallDelByAddr(t) PROVE TypeOK'
  BY <1>5 DEF CallDelByAddr, Call, Goto, Result, table, cursor
<1>6. ASSUME NEW t \in Thread, CallLookup(t) PROVE TypeOK'
  BY <1>6, ChainTypes DEF CallLookup, Call, Goto, Result, table, cursor
<1>7. ASSUME NEW t \in Thread, CallEach(t) PROVE TypeOK'
  BY <1>7, SMTT(30) DEF CallEach, Call, Goto, Result, table, OpName
<1>8. ASSUME NEW t \in Thread, NoMem(t) PROVE TypeOK'
  BY <1>8 DEF NoMem, Goto, Result, table, cursor
<1>9. ASSUME NEW t \in Thread, LockThenSearch(t) PROVE TypeOK'
  BY <1>9 DEF LockThenSearch, Acquire, Goto, table, cursor
<1>10. ASSUME NEW t \in Thread, LockThenLink(t) PROVE TypeOK'
  BY <1>10 DEF LockThenLink, Acquire, Goto, table, cursor
<1>11. ASSUME NEW t \in Thread, LockThenUnlink(t) PROVE TypeOK'
  BY <1>11 DEF LockThenUnlink, Acquire, Goto, table, cursor
<1>12. ASSUME NEW t \in Thread, LockThenWalk(t) PROVE TypeOK'
  <2>1. First(Hash[arg[t]]) \in Node \cup {NULL} \/ op[t] # "rdel"
    BY ChainTypes DEF Control
  <2>2. bkt[t] \in Bucket => First(bkt[t]) \in Node \cup {NULL}
    BY ChainTypes
  <2>3. ptr' \in [Thread -> Node \cup {NULL}]
    BY <1>12, <2>1, <2>2 DEF LockThenWalk
  <2>4. QED
    BY <1>12, <2>3 DEF LockThenWalk, Acquire, Goto, table, cursor
<1>13. ASSUME NEW t \in Thread, AddFound(t) PROVE TypeOK'
  BY <1>13 DEF AddFound, Release, Goto, Result, Absent, table, cursor
<1>14. ASSUME NEW t \in Thread, AddAbsent(t) PROVE TypeOK'
  BY <1>14 DEF AddAbsent, Goto, Absent, table, cursor
<1>15. ASSUME NEW t \in Thread, Insert(t) PROVE TypeOK'
  BY <1>15, ChainTypes DEF Insert, Release, Goto, Result, cursor, Control
<1>16. ASSUME NEW t \in Thread, DelFound(t) PROVE TypeOK'
  <2>1. PICK i \in DOMAIN chain[Hash[arg[t]]] :
            ptr' = [ptr EXCEPT ![t] = chain[Hash[arg[t]]][i]]
    BY <1>16 DEF DelFound
  <2>2. Hash[arg[t]] \in Bucket
    BY <1>16 DEF DelFound, Control
  <2>3. ptr' \in [Thread -> Node \cup {NULL}]
    BY <2>1, <2>2, ChainTypes
  <2>4. QED
    BY <1>16, <2>3 DEF DelFound, Goto, table, cursor
<1>17. ASSUME NEW t \in Thread, DelAbsent(t) PROVE TypeOK'
  BY <1>17 DEF DelAbsent, Release, Goto, Result, Absent, table, cursor
<1>18. ASSUME NEW t \in Thread, Unlink(t) PROVE TypeOK'
  <2>1. PICK b \in Bucket : \E i \in DOMAIN chain[b] : UnlinkAt(b, i)
    BY <1>18 DEF Unlink
  <2>2. PICK i \in DOMAIN chain[b] : UnlinkAt(b, i)
    BY <2>1
  <2>3. chain' \in [Bucket -> Seq(Node)] /\ stale' \in [Node -> Node \cup {NULL}]
    BY <2>2, ChainTypes DEF UnlinkAt
  <2>4. QED
    BY <1>18, <2>3 DEF Unlink, Release, Goto, Result, cursor
<1>19. ASSUME NEW t \in Thread, Free(t) PROVE TypeOK'
  BY <1>19 DEF Free, Goto, cursor, Control
<1>20. ASSUME NEW t \in Thread, VisitDel(t) PROVE TypeOK'
  <2>1. chain' \in [Bucket -> Seq(Node)]
    BY <1>20, ChainTypes DEF VisitDel
  <2>2. key' \in [Node -> Key \cup {NULL}]
    BY <1>20 DEF VisitDel
  <2>3. ptr' \in [Thread -> Node \cup {NULL}]
    BY <1>20 DEF VisitDel
  <2>4. QED
    BY <1>20, <2>1, <2>2, <2>3 DEF VisitDel, cursor
<1>21. ASSUME NEW t \in Thread, EndDel(t) PROVE TypeOK'
  BY <1>21 DEF EndDel, Release, Goto, Result, table, cursor
<1>22. ASSUME NEW t \in Thread, VisitLookup(t) PROVE TypeOK'
  <2>1. ptr' \in [Thread -> Node \cup {NULL}]
    BY <1>22 DEF VisitLookup
  <2>2. /\ pc' \in [Thread -> PC]
        /\ ret' \in [Thread -> {"none", "pending", "ok", "fail", "nomem"}]
    BY <1>22 DEF VisitLookup, Goto, Result
  <2>3. QED
    BY <1>22, <2>1, <2>2 DEF VisitLookup, table, cursor
<1>23. ASSUME NEW t \in Thread, VisitEach(t) PROVE TypeOK'
  <2>1. nxt' \in [Thread -> Node \cup {NULL}]
    BY <1>23 DEF VisitEach
  <2>2. QED
    BY <1>23, <2>1 DEF VisitEach, Release, Goto, table
<1>24. ASSUME NEW t \in Thread, Callback(t) PROVE TypeOK'
  BY <1>24 DEF Callback, Goto, table, cursor
<1>25. ASSUME NEW t \in Thread, Relock(t) PROVE TypeOK'
  BY <1>25 DEF Relock, Acquire, Goto, table, cursor
<1>26. ASSUME NEW t \in Thread, NextBucket(t) PROVE TypeOK'
  <2>1. bkt[t] + 1 \in Bucket
    BY <1>26, SMTT(30) DEF NextBucket, Bucket
  <2>2. First(bkt[t] + 1) \in Node \cup {NULL}
    BY <2>1, ChainTypes
  <2>3. QED
    BY <1>26, <2>2 DEF NextBucket, table
<1>27. ASSUME NEW t \in Thread, EndEach(t) PROVE TypeOK'
  BY <1>27 DEF EndEach, Release, Goto, Result, table, cursor
<1>28. ASSUME NEW t \in Thread, Return(t) PROVE TypeOK'
  BY <1>28 DEF Return, Goto, Result, table
<1>29. ASSUME NEW t \in Thread, Crash(t) PROVE TypeOK'
  BY <1>29 DEF Crash, table, cursor
<1>30. CASE Flush
  <2>1. chain' \in [Bucket -> Seq(Node)]
    <3>1. chain' = [b \in Bucket |-> <<>>]
      BY <1>30 DEF Flush
    <3>2. QED
      BY <3>1
  <2>2. key' \in [Node -> Key \cup {NULL}]
    <3>1. \A n \in Node : key'[n] \in Key \cup {NULL}
      BY <1>30 DEF Flush, Linked
    <3>2. QED
      BY <1>30, <3>1 DEF Flush
  <2>3. QED
    BY <1>30, <2>1, <2>2 DEF Flush, cursor
<1>31. CASE TableInit
  BY <1>31 DEF TableInit, table, cursor
<1>32. QED
  BY <1>1, <1>2, <1>3, <1>4, <1>5, <1>6, <1>7, <1>8, <1>9, <1>10, <1>11, <1>12, <1>13, <1>14, <1>15, <1>16, <1>17, <1>18, <1>19, <1>20, <1>21, <1>22, <1>23, <1>24, <1>25, <1>26, <1>27, <1>28, <1>29, <1>30, <1>31 DEF Next, Calls, Step

-----------------------------------------------------------------------------
(* Control and the lock *)

\* Every step leaves its thread at a step of its own function, with the
\* arguments that step needs.
LEMMA ControlStep ==
    ASSUME TypeOK, Control, [Next]_vars
    PROVE  Control'
<1> USE CallAssumption, SentinelAssumption
<1> USE DEF TypeOK, Control, OpName
<1>1. CASE UNCHANGED vars
  BY <1>1 DEF vars, table, cursor
<1>2. ASSUME NEW t \in Thread, CallAdd(t) PROVE Control'
  BY <1>2 DEF CallAdd, Call, Goto, Result, cursor
<1>3. ASSUME NEW t \in Thread, CallAddNoMem(t) PROVE Control'
  BY <1>3 DEF CallAddNoMem, Call, Goto, Result, table, cursor
<1>4. ASSUME NEW t \in Thread, CallDel(t) PROVE Control'
  BY <1>4 DEF CallDel, Call, Goto, Result, table, cursor
<1>5. ASSUME NEW t \in Thread, CallDelByAddr(t) PROVE Control'
  BY <1>5 DEF CallDelByAddr, Call, Goto, Result, table, cursor
<1>6. ASSUME NEW t \in Thread, CallLookup(t) PROVE Control'
  BY <1>6 DEF CallLookup, Call, Goto, Result, table, cursor
<1>7. ASSUME NEW t \in Thread, CallEach(t) PROVE Control'
  BY <1>7 DEF CallEach, Call, Goto, Result, table
<1>8. ASSUME NEW t \in Thread, NoMem(t) PROVE Control'
  BY <1>8 DEF NoMem, Goto, Result, table, cursor
<1>9. ASSUME NEW t \in Thread, LockThenSearch(t) PROVE Control'
  BY <1>9 DEF LockThenSearch, Acquire, Goto, table, cursor
<1>10. ASSUME NEW t \in Thread, LockThenLink(t) PROVE Control'
  BY <1>10 DEF LockThenLink, Acquire, Goto, table, cursor
<1>11. ASSUME NEW t \in Thread, LockThenUnlink(t) PROVE Control'
  BY <1>11 DEF LockThenUnlink, Acquire, Goto, table, cursor
<1>12. ASSUME NEW t \in Thread, LockThenWalk(t) PROVE Control'
  BY <1>12 DEF LockThenWalk, Acquire, Goto, table, cursor
<1>13. ASSUME NEW t \in Thread, AddFound(t) PROVE Control'
  BY <1>13 DEF AddFound, Release, Goto, Result, Absent, table, cursor
<1>14. ASSUME NEW t \in Thread, AddAbsent(t) PROVE Control'
  BY <1>14 DEF AddAbsent, Goto, Absent, table, cursor
<1>15. ASSUME NEW t \in Thread, Insert(t) PROVE Control'
  BY <1>15 DEF Insert, Release, Goto, Result, cursor
<1>16. ASSUME NEW t \in Thread, DelFound(t) PROVE Control'
  <2>1. PICK i \in DOMAIN chain[Hash[arg[t]]] :
            ptr' = [ptr EXCEPT ![t] = chain[Hash[arg[t]]][i]]
    BY <1>16 DEF DelFound
  <2>2. Hash[arg[t]] \in Bucket
    BY <1>16, HashAssumption DEF DelFound
  <2>3. chain[Hash[arg[t]]][i] \in Node
    BY <2>2, ChainTypes
  <2>4. QED
    BY <1>16, <2>1, <2>3 DEF DelFound, Goto, table, cursor
<1>17. ASSUME NEW t \in Thread, DelAbsent(t) PROVE Control'
  BY <1>17 DEF DelAbsent, Release, Goto, Result, Absent, table, cursor
<1>18. ASSUME NEW t \in Thread, Unlink(t) PROVE Control'
  BY <1>18 DEF Unlink, Release, Goto, Result, UnlinkAt, cursor
<1>19. ASSUME NEW t \in Thread, Free(t) PROVE Control'
  BY <1>19 DEF Free, Goto, cursor
<1>20. ASSUME NEW t \in Thread, VisitDel(t) PROVE Control'
  BY <1>20 DEF VisitDel, cursor
<1>21. ASSUME NEW t \in Thread, EndDel(t) PROVE Control'
  BY <1>21 DEF EndDel, Release, Goto, Result, table, cursor
<1>22. ASSUME NEW t \in Thread, VisitLookup(t) PROVE Control'
  BY <1>22 DEF VisitLookup, Goto, Result, table, cursor
<1>23. ASSUME NEW t \in Thread, VisitEach(t) PROVE Control'
  BY <1>23 DEF VisitEach, Release, Goto, table
<1>24. ASSUME NEW t \in Thread, Callback(t) PROVE Control'
  BY <1>24 DEF Callback, Goto, table, cursor
<1>25. ASSUME NEW t \in Thread, Relock(t) PROVE Control'
  BY <1>25 DEF Relock, Acquire, Goto, table, cursor
<1>26. ASSUME NEW t \in Thread, NextBucket(t) PROVE Control'
  BY <1>26 DEF NextBucket, table
<1>27. ASSUME NEW t \in Thread, EndEach(t) PROVE Control'
  BY <1>27 DEF EndEach, Release, Goto, Result, table, cursor
<1>28. ASSUME NEW t \in Thread, Return(t) PROVE Control'
  BY <1>28 DEF Return, Goto, Result, table
<1>29. ASSUME NEW t \in Thread, Crash(t) PROVE Control'
  BY <1>29 DEF Crash, table, cursor
<1>30. CASE Flush
  BY <1>30 DEF Flush, table, cursor
<1>31. CASE TableInit
  BY <1>31 DEF TableInit, table, cursor
<1>32. QED
  BY <1>1, <1>2, <1>3, <1>4, <1>5, <1>6, <1>7, <1>8, <1>9, <1>10, <1>11,
     <1>12, <1>13, <1>14, <1>15, <1>16, <1>17, <1>18, <1>19, <1>20, <1>21,
     <1>22, <1>23, <1>24, <1>25, <1>26, <1>27, <1>28, <1>29, <1>30, <1>31
     DEF Next, Calls, Step

\* A flushed table is empty and nobody uses it until it is initialized again.
LEMMA FlushedStep ==
    ASSUME TypeOK, Control, Flushed, [Next]_vars
    PROVE  Flushed'
<1> USE DEF TypeOK, Flushed
<1>1. CASE UNCHANGED vars
  BY <1>1 DEF vars, table, cursor
<1>2. ASSUME NEW t \in Thread, CallAdd(t) PROVE Flushed'
  BY <1>2 DEF CallAdd, Call, Goto, Result, cursor
<1>3. ASSUME NEW t \in Thread, CallAddNoMem(t) PROVE Flushed'
  BY <1>3 DEF CallAddNoMem, Call, Goto, Result, table, cursor
<1>4. ASSUME NEW t \in Thread, CallDel(t) PROVE Flushed'
  BY <1>4 DEF CallDel, Call, Goto, Result, table, cursor
<1>5. ASSUME NEW t \in Thread, CallDelByAddr(t) PROVE Flushed'
  BY <1>5 DEF CallDelByAddr, Call, Goto, Result, table, cursor
<1>6. ASSUME NEW t \in Thread, CallLookup(t) PROVE Flushed'
  BY <1>6 DEF CallLookup, Call, Goto, Result, table, cursor
<1>7. ASSUME NEW t \in Thread, CallEach(t) PROVE Flushed'
  BY <1>7 DEF CallEach, Call, Goto, Result, table
<1>8. ASSUME NEW t \in Thread, NoMem(t) PROVE Flushed'
  BY <1>8 DEF NoMem, Goto, Result, table, cursor
<1>9. ASSUME NEW t \in Thread, LockThenSearch(t) PROVE Flushed'
  BY <1>9 DEF LockThenSearch, Acquire, Goto, table, cursor
<1>10. ASSUME NEW t \in Thread, LockThenLink(t) PROVE Flushed'
  BY <1>10 DEF LockThenLink, Acquire, Goto, table, cursor
<1>11. ASSUME NEW t \in Thread, LockThenUnlink(t) PROVE Flushed'
  BY <1>11 DEF LockThenUnlink, Acquire, Goto, table, cursor
<1>12. ASSUME NEW t \in Thread, LockThenWalk(t) PROVE Flushed'
  BY <1>12 DEF LockThenWalk, Acquire, Goto, table, cursor
<1>13. ASSUME NEW t \in Thread, AddFound(t) PROVE Flushed'
  BY <1>13 DEF AddFound, Release, Goto, Result, Absent, table, cursor
<1>14. ASSUME NEW t \in Thread, AddAbsent(t) PROVE Flushed'
  BY <1>14 DEF AddAbsent, Goto, Absent, table, cursor
<1>15. ASSUME NEW t \in Thread, Insert(t) PROVE Flushed'
  BY <1>15 DEF Insert, Release, Goto, Result, cursor
<1>16. ASSUME NEW t \in Thread, DelFound(t) PROVE Flushed'
  BY <1>16 DEF DelFound, Goto, Found, table, cursor
<1>17. ASSUME NEW t \in Thread, DelAbsent(t) PROVE Flushed'
  BY <1>17 DEF DelAbsent, Release, Goto, Result, Absent, table, cursor
<1>18. ASSUME NEW t \in Thread, Unlink(t) PROVE Flushed'
  BY <1>18 DEF Unlink, Release, Goto, Result, UnlinkAt, cursor
<1>19. ASSUME NEW t \in Thread, Free(t) PROVE Flushed'
  BY <1>19 DEF Free, Goto, cursor
<1>20. ASSUME NEW t \in Thread, VisitDel(t) PROVE Flushed'
  BY <1>20 DEF VisitDel, cursor
<1>21. ASSUME NEW t \in Thread, EndDel(t) PROVE Flushed'
  BY <1>21 DEF EndDel, Release, Goto, Result, table, cursor
<1>22. ASSUME NEW t \in Thread, VisitLookup(t) PROVE Flushed'
  BY <1>22 DEF VisitLookup, Goto, Result, table, cursor
<1>23. ASSUME NEW t \in Thread, VisitEach(t) PROVE Flushed'
  BY <1>23 DEF VisitEach, Release, Goto, table
<1>24. ASSUME NEW t \in Thread, Callback(t) PROVE Flushed'
  BY <1>24 DEF Callback, Goto, table, cursor
<1>25. ASSUME NEW t \in Thread, Relock(t) PROVE Flushed'
  BY <1>25 DEF Relock, Acquire, Goto, table, cursor
<1>26. ASSUME NEW t \in Thread, NextBucket(t) PROVE Flushed'
  BY <1>26 DEF NextBucket, table
<1>27. ASSUME NEW t \in Thread, EndEach(t) PROVE Flushed'
  BY <1>27 DEF EndEach, Release, Goto, Result, table, cursor
<1>28. ASSUME NEW t \in Thread, Return(t) PROVE Flushed'
  BY <1>28 DEF Return, Goto, Result, table
<1>29. ASSUME NEW t \in Thread, Crash(t) PROVE Flushed'
  BY <1>29 DEF Crash, table, cursor
<1>30. CASE Flush
  BY <1>30 DEF Flush, table, cursor
<1>31. CASE TableInit
  BY <1>31 DEF TableInit, table, cursor
<1>32. QED
  BY <1>1, <1>2, <1>3, <1>4, <1>5, <1>6, <1>7, <1>8, <1>9, <1>10, <1>11,
     <1>12, <1>13, <1>14, <1>15, <1>16, <1>17, <1>18, <1>19, <1>20, <1>21,
     <1>22, <1>23, <1>24, <1>25, <1>26, <1>27, <1>28, <1>29, <1>30, <1>31
     DEF Next, Calls, Step

\* Under the discipline a thread enters the critical steps only through
\* hash_table_lock and leaves them with hash_table_unlock.
LEMMA LockStep ==
    ASSUME TypeOK, Control, Flushed, LockHeld, Discipline, [Next]_vars
    PROVE  LockHeld'
<1> USE SentinelAssumption
<1> USE DEF TypeOK, Control, LockHeld, InCS, Discipline, Flushed
<1>1. CASE UNCHANGED vars
  BY <1>1 DEF vars, table, cursor
<1>2. ASSUME NEW t \in Thread, CallAdd(t) PROVE LockHeld'
  BY <1>2 DEF CallAdd, Call, Goto, Result, cursor
<1>3. ASSUME NEW t \in Thread, CallAddNoMem(t) PROVE LockHeld'
  BY <1>3 DEF CallAddNoMem, Call, Goto, Result, table, cursor
<1>4. ASSUME NEW t \in Thread, CallDel(t) PROVE LockHeld'
  BY <1>4 DEF CallDel, Call, Goto, Result, table, cursor
<1>5. ASSUME NEW t \in Thread, CallDelByAddr(t) PROVE LockHeld'
  BY <1>5 DEF CallDelByAddr, Call, Goto, Result, table, cursor
<1>6. ASSUME NEW t \in Thread, CallLookup(t) PROVE LockHeld'
  BY <1>6 DEF CallLookup, Call, Goto, Result, table, cursor
<1>7. ASSUME NEW t \in Thread, CallEach(t) PROVE LockHeld'
  BY <1>7 DEF CallEach, Call, Goto, Result, table
<1>8. ASSUME NEW t \in Thread, NoMem(t) PROVE LockHeld'
  BY <1>8 DEF NoMem, Goto, Result, table, cursor
<1>9. ASSUME NEW t \in Thread, LockThenSearch(t) PROVE LockHeld'
  BY <1>9 DEF LockThenSearch, Acquire, Goto, table, cursor
<1>10. ASSUME NEW t \in Thread, LockThenLink(t) PROVE LockHeld'
  BY <1>10 DEF LockThenLink, Acquire, Goto, table, cursor
<1>11. ASSUME NEW t \in Thread, LockThenUnlink(t) PROVE LockHeld'
  BY <1>11 DEF LockThenUnlink, Acquire, Goto, table, cursor
<1>12. ASSUME NEW t \in Thread, LockThenWalk(t) PROVE LockHeld'
  BY <1>12 DEF LockThenWalk, Acquire, Goto, table, cursor
<1>13. ASSUME NEW t \in Thread, AddFound(t) PROVE LockHeld'
  BY <1>13 DEF AddFound, Release, Goto, Result, Absent, table, cursor
<1>14. ASSUME NEW t \in Thread, AddAbsent(t) PROVE LockHeld'
  BY <1>14 DEF AddAbsent, Goto, Absent, table, cursor
<1>15. ASSUME NEW t \in Thread, Insert(t) PROVE LockHeld'
  BY <1>15 DEF Insert, Release, Goto, Result, cursor
<1>16. ASSUME NEW t \in Thread, DelFound(t) PROVE LockHeld'
  BY <1>16 DEF DelFound, Goto, Found, table, cursor
<1>17. ASSUME NEW t \in Thread, DelAbsent(t) PROVE LockHeld'
  BY <1>17 DEF DelAbsent, Release, Goto, Result, Absent, table, cursor
<1>18. ASSUME NEW t \in Thread, Unlink(t) PROVE LockHeld'
  BY <1>18 DEF Unlink, Release, Goto, Result, UnlinkAt, cursor
<1>19. ASSUME NEW t \in Thread, Free(t) PROVE LockHeld'
  BY <1>19 DEF Free, Goto, cursor
<1>20. ASSUME NEW t \in Thread, VisitDel(t) PROVE LockHeld'
  BY <1>20 DEF VisitDel, cursor
<1>21. ASSUME NEW t \in Thread, EndDel(t) PROVE LockHeld'
  BY <1>21 DEF EndDel, Release, Goto, Result, table, cursor
<1>22. ASSUME NEW t \in Thread, VisitLookup(t) PROVE LockHeld'
  BY <1>22 DEF VisitLookup, Goto, Result, table, cursor
<1>23. ASSUME NEW t \in Thread, VisitEach(t) PROVE LockHeld'
  BY <1>23 DEF VisitEach, Release, Goto, table
<1>24. ASSUME NEW t \in Thread, Callback(t) PROVE LockHeld'
  BY <1>24 DEF Callback, Goto, table, cursor
<1>25. ASSUME NEW t \in Thread, Relock(t) PROVE LockHeld'
  BY <1>25 DEF Relock, Acquire, Goto, table, cursor
<1>26. ASSUME NEW t \in Thread, NextBucket(t) PROVE LockHeld'
  BY <1>26 DEF NextBucket, table
<1>27. ASSUME NEW t \in Thread, EndEach(t) PROVE LockHeld'
  BY <1>27 DEF EndEach, Release, Goto, Result, table, cursor
<1>28. ASSUME NEW t \in Thread, Return(t) PROVE LockHeld'
  BY <1>28 DEF Return, Goto, Result, table
<1>29. ASSUME NEW t \in Thread, Crash(t) PROVE LockHeld'
  BY <1>29 DEF Crash, table, cursor
<1>30. CASE Flush
  BY <1>30 DEF Flush, table, cursor
<1>31. CASE TableInit
  BY <1>31 DEF TableInit, table, cursor
<1>32. QED
  BY <1>1, <1>2, <1>3, <1>4, <1>5, <1>6, <1>7, <1>8, <1>9, <1>10, <1>11,
     <1>12, <1>13, <1>14, <1>15, <1>16, <1>17, <1>18, <1>19, <1>20, <1>21,
     <1>22, <1>23, <1>24, <1>25, <1>26, <1>27, <1>28, <1>29, <1>30, <1>31
     DEF Next, Calls, Step

\* At most one thread is between hash_table_lock and hash_table_unlock, for any
\* number of threads and blocks.
THEOREM Exclusion == Discipline => (Spec => []MutualExclusion)
<1> SUFFICES ASSUME Discipline PROVE Spec => []MutualExclusion
  OBVIOUS
<1> DEFINE Inv == TypeOK /\ Control /\ Flushed /\ LockHeld
<1>1. Init => Inv
  BY SentinelAssumption, HashAssumption
     DEF Init, TypeOK, PC, Control, Flushed, LockHeld, InCS, Bucket
<1>2. Inv /\ [Next]_vars => Inv'
  BY TypeStep, ControlStep, FlushedStep, LockStep
<1>3. Inv => MutualExclusion
  BY DEF LockHeld, MutualExclusion
<1>4. QED
  BY <1>1, <1>2, <1>3, PTL DEF Spec

\* The chains, pointers and fields of every reachable state have their types.
THEOREM TypeCorrect == Spec => []TypeOK
<1>1. Init => TypeOK /\ Control
  BY SentinelAssumption, HashAssumption DEF Init, TypeOK, PC, Control, Bucket
<1>2. TypeOK /\ Control /\ [Next]_vars => (TypeOK /\ Control)'
  BY TypeStep, ControlStep
<1>3. QED
  BY <1>1, <1>2, PTL DEF Spec

-----------------------------------------------------------------------------
(* The chains as sets of nodes *)

In(b, n) == \E i \in DOMAIN chain[b] : chain[b][i] = n

\* Being linked is being in some bucket.
LEMMA LinkedIn == \A n : Linked(n) <=> \E b \in Bucket : In(b, n)
  BY DEF Linked, In

\* hlist_add_head of a node that is in no chain adds it to its bucket only.
LEMMA LinkEffect ==
    ASSUME chain \in [Bucket -> Seq(Node)], NEW b \in Bucket, NEW n \in Node,
           chain' = [chain EXCEPT ![b] = <<n>> \o @],
           LinkedOnce, \A c \in Bucket : ~In(c, n)
    PROVE  /\ LinkedOnce'
           /\ \A c \in Bucket, m \in Node :
                 In(c, m)' <=> In(c, m) \/ (c = b /\ m = n)
<1>1. /\ chain'[b] = <<n>> \o chain[b] /\ DOMAIN chain'[b] = 1 .. Len(chain[b]) + 1
      /\ chain'[b][1] = n
      /\ \A i \in 1 .. Len(chain[b]) : chain'[b][i + 1] = chain[b][i]
  BY LinkHeadPlaces
<1>2. \A c \in Bucket : c # b => chain'[c] = chain[c]
  OBVIOUS
<1>3. DOMAIN chain[b] = 1 .. Len(chain[b]) /\ Len(chain[b]) \in Nat
  OBVIOUS
<1> DEFINE old(c, i) == IF c = b THEN i - 1 ELSE i
<1>4. ASSUME NEW c \in Bucket, NEW i \in DOMAIN chain'[c]
      PROVE  \/ c = b /\ i = 1 /\ chain'[c][i] = n
             \/ old(c, i) \in DOMAIN chain[c] /\ chain'[c][i] = chain[c][old(c, i)]
  <2>1. CASE c = b /\ i # 1
    <3>1. i - 1 \in 1 .. Len(chain[b]) /\ (i - 1) + 1 = i
      BY <1>1, <1>3, <2>1
    <3>2. QED
      BY <1>1, <1>3, <2>1, <3>1
  <2>2. QED
    BY <1>1, <1>2, <2>1
<1>5. ASSUME NEW c \in Bucket, NEW j \in DOMAIN chain[c]
      PROVE  \E i \in DOMAIN chain'[c] : chain'[c][i] = chain[c][j]
  <2>1. CASE c = b
    <3>1. j + 1 \in DOMAIN chain'[b] /\ chain'[b][j + 1] = chain[b][j]
      BY <1>1, <1>3, <2>1
    <3>2. QED
      BY <2>1, <3>1
  <2>2. QED
    BY <1>2, <2>1
<1>6. LinkedOnce'
  <2> SUFFICES ASSUME NEW c \in Bucket, NEW d \in Bucket,
                      NEW i \in DOMAIN chain'[c], NEW j \in DOMAIN chain'[d], chain'[c][i] = chain'[d][j]
               PROVE  c = d /\ i = j
    BY DEF LinkedOnce
  <2>1. i \in Int /\ j \in Int
    BY <1>1, <1>2
  <2>2. CASE chain'[c][i] = n
    BY <1>4, <2>2 DEF In
  <2>3. CASE chain'[c][i] # n
    <3>1. chain[c][old(c, i)] = chain[d][old(d, j)]
      BY <1>4, <2>3
    <3>2. c = d /\ old(c, i) = old(d, j)
      BY <1>4, <2>3, <3>1 DEF LinkedOnce
    <3>3. QED
      BY <2>1, <3>2
  <2>4. QED
    BY <2>2, <2>3
<1>7. ASSUME NEW c \in Bucket, NEW m \in Node
      PROVE  In(c, m)' <=> In(c, m) \/ (c = b /\ m = n)
  <2>1. In(c, m)' => In(c, m) \/ (c = b /\ m = n)
    BY <1>4 DEF In
  <2>2. ASSUME In(c, m) PROVE In(c, m)'
    <3>1. PICK j \in DOMAIN chain[c] : chain[c][j] = m
      BY <2>2 DEF In
    <3>2. PICK i \in DOMAIN chain'[c] : chain'[c][i] = chain[c][j]
      BY <1>5
    <3>3. QED
      BY <3>1, <3>2 DEF In
  <2>3. In(b, n)'
    <3>1. 1 \in DOMAIN chain'[b] /\ chain'[b][1] = n
      BY <1>1, <1>3
    <3>2. QED
      BY <3>1, Zenon DEF In
  <2>4. QED
    BY <2>1, <2>2, <2>3
<1>8. QED
  BY <1>6, <1>7

\* hlist_del takes one node out of its bucket and leaves all others in theirs.
LEMMA UnlinkEffect ==
    ASSUME chain \in [Bucket -> Seq(Node)], NEW b \in Bucket, NEW k \in DOMAIN chain[b],
           chain' = [chain EXCEPT ![b] = RemoveAt(@, k)], LinkedOnce
    PROVE  /\ LinkedOnce'
           /\ \A c \in Bucket, m \in Node :
                 In(c, m)' <=> In(c, m) /\ m # chain[b][k]
<1>1. /\ chain'[b] = RemoveAt(chain[b], k) /\ DOMAIN chain'[b] = 1 .. Len(chain[b]) - 1
      /\ \A j \in 1 .. Len(chain[b]) - 1 : chain'[b][j] = chain[b][IF j < k THEN j ELSE j + 1]
  BY RemovePlaces
<1>2. \A c \in Bucket : c # b => chain'[c] = chain[c]
  OBVIOUS
<1>3. DOMAIN chain[b] = 1 .. Len(chain[b]) /\ Len(chain[b]) \in Nat /\ k \in 1 .. Len(chain[b])
  OBVIOUS
<1> DEFINE old(c, i) == IF c = b /\ i >= k THEN i + 1 ELSE i
<1>4. ASSUME NEW c \in Bucket, NEW i \in DOMAIN chain'[c]
      PROVE  /\ old(c, i) \in DOMAIN chain[c] /\ chain'[c][i] = chain[c][old(c, i)]
             /\ ~(c = b /\ old(c, i) = k)
  <2>1. CASE c = b
    <3>1. i \in 1 .. Len(chain[b]) - 1
      BY <1>1, <2>1
    <3>2. CASE i < k
      BY <1>1, <1>3, <2>1, <3>1, <3>2
    <3>3. CASE i >= k
      BY <1>1, <1>3, <2>1, <3>1, <3>3
    <3>4. QED
      BY <1>3, <3>1, <3>2, <3>3
  <2>2. QED
    BY <1>2, <2>1
<1>5. ASSUME NEW c \in Bucket, NEW j \in DOMAIN chain[c], ~(c = b /\ j = k)
      PROVE  \E i \in DOMAIN chain'[c] : chain'[c][i] = chain[c][j]
  <2>1. CASE c = b /\ j < k
    <3>1. j \in DOMAIN chain'[b] /\ chain'[b][j] = chain[b][j]
      BY <1>1, <1>3, <2>1
    <3>2. QED
      BY <2>1, <3>1
  <2>2. CASE c = b /\ j > k
    <3>1. j - 1 \in DOMAIN chain'[b] /\ ~(j - 1 < k) /\ (j - 1) + 1 = j
      BY <1>1, <1>3, <2>2
    <3>2. chain'[b][j - 1] = chain[b][j]
      BY <1>1, <3>1
    <3>3. QED
      BY <2>2, <3>1, <3>2
  <2>3. CASE c # b
    BY <1>2, <2>3
  <2>4. j < k \/ j > k \/ c # b
    BY <1>3, <1>5
  <2>5. QED
    BY <2>1, <2>2, <2>3, <2>4
<1>6. LinkedOnce'
  <2> SUFFICES ASSUME NEW c \in Bucket, NEW d \in Bucket,
                      NEW i \in DOMAIN chain'[c], NEW j \in DOMAIN chain'[d], chain'[c][i] = chain'[d][j]
               PROVE  c = d /\ i = j
    BY DEF LinkedOnce
  <2>1. i \in Int /\ j \in Int /\ k \in Int
    BY <1>1, <1>2, <1>3
  <2>2. c = d /\ old(c, i) = old(d, j)
    BY <1>4 DEF LinkedOnce
  <2>3. QED
    BY <2>1, <2>2
<1>7. ASSUME NEW c \in Bucket, NEW m \in Node
      PROVE  In(c, m)' <=> In(c, m) /\ m # chain[b][k]
  <2>1. In(c, m)' => In(c, m) /\ m # chain[b][k]
    BY <1>4 DEF In, LinkedOnce
  <2>2. In(c, m) /\ m # chain[b][k] => In(c, m)'
    BY <1>5 DEF In
  <2>3. QED
    BY <2>1, <2>2
<1>8. QED
  BY <1>6, <1>7

-----------------------------------------------------------------------------
(* The data invariants, in terms of which node is in which bucket *)

\* what Ownership and Unique say of the chains, without positions
AllocatedInPlace == \A b \in Bucket, n \in Node :
                       In(b, n) => key[n] \in Key /\ Hash[key[n]] = b
DistinctKeys == \A b \in Bucket, m, n \in Node :
                       In(b, m) /\ In(b, n) /\ key[m] = key[n] => m = n
NoneWith(b, k) == \A n \in Node : In(b, n) => key[n] # k

SetView ==
    /\ \A n \in Node : Linked(n) <=> \E b \in Bucket : In(b, n)
    /\ LinkedAllocated <=> AllocatedInPlace
    /\ LinkedOnce => (UniqueKeys <=> DistinctKeys)
    /\ \A b \in Bucket : \A k : Absent(b, k) <=> NoneWith(b, k)

\* The four properties of the chains, in terms of the sets of linked nodes.
LEMMA View == TypeOK => SetView
<1> SUFFICES ASSUME TypeOK PROVE SetView
  OBVIOUS
<1> USE DEF In
<1>1. \A b \in Bucket : \A i \in DOMAIN chain[b] : chain[b][i] \in Node
  BY ChainTypes
<1>2. LinkedAllocated <=> AllocatedInPlace
  BY <1>1 DEF LinkedAllocated, AllocatedInPlace
<1>3. LinkedOnce => (UniqueKeys <=> DistinctKeys)
  BY <1>1 DEF LinkedOnce, UniqueKeys, DistinctKeys
<1>4. \A b \in Bucket : \A k : Absent(b, k) <=> NoneWith(b, k)
  BY <1>1 DEF Absent, Matches, NoneWith
<1>5. QED
  BY <1>2, <1>3, <1>4, LinkedIn DEF SetView

\* The same after a step.
LEMMA ViewNext == TypeOK' => SetView'
  BY View, PTL

-----------------------------------------------------------------------------
(* Who holds which block *)

\* the steps that neither link, unlink, allocate nor free a block
Silent(t) ==
    \/ CallAddNoMem(t) \/ CallDel(t) \/ CallDelByAddr(t) \/ CallLookup(t)
    \/ CallEach(t) \/ NoMem(t) \/ LockThenSearch(t) \/ LockThenLink(t)
    \/ LockThenUnlink(t) \/ LockThenWalk(t) \/ AddFound(t) \/ AddAbsent(t)
    \/ DelFound(t) \/ DelAbsent(t) \/ EndDel(t) \/ VisitLookup(t)
    \/ VisitEach(t) \/ Callback(t) \/ Relock(t) \/ NextBucket(t)
    \/ EndEach(t) \/ Return(t) \/ Crash(t)

\* The steps that leave the chains and the keys alone.
LEMMA SilentTable == ASSUME NEW t \in Thread, Silent(t)
                     PROVE  UNCHANGED <<chain, key, live>>
  BY DEF Silent, table, CallAddNoMem, CallDel, CallDelByAddr, CallLookup, CallEach, NoMem, LockThenSearch, LockThenLink, LockThenUnlink, LockThenWalk, AddFound, AddAbsent, DelFound, DelAbsent, EndDel, VisitLookup, VisitEach, Callback, Relock, NextBucket, EndEach, Return, Crash

\* A silent step gives no block away and takes none.
LEMMA SilentHolds ==
    ASSUME TypeOK, Control, NEW t \in Thread, Silent(t)
    PROVE  \A u \in Thread, n \in Node : Holds(u, n)' <=> Holds(u, n)
<1> USE DEF TypeOK, Control, Holds
<1>1. CASE CallAddNoMem(t)
  BY <1>1 DEF CallAddNoMem, Call, Goto, Result
<1>2. CASE CallDel(t)
  BY <1>2 DEF CallDel, Call, Goto, Result
<1>3. CASE CallDelByAddr(t)
  BY <1>3 DEF CallDelByAddr, Call, Goto, Result
<1>4. CASE CallLookup(t)
  BY <1>4 DEF CallLookup, Call, Goto, Result
<1>5. CASE CallEach(t)
  BY <1>5 DEF CallEach, Call, Goto, Result
<1>6. CASE NoMem(t)
  BY <1>6 DEF NoMem, Goto, Result
<1>7. CASE LockThenSearch(t)
  BY <1>7 DEF LockThenSearch, Acquire, Goto
<1>8. CASE LockThenLink(t)
  BY <1>8 DEF LockThenLink, Acquire, Goto
<1>9. CASE LockThenUnlink(t)
  BY <1>9 DEF LockThenUnlink, Acquire, Goto
<1>10. CASE LockThenWalk(t)
  BY <1>10 DEF LockThenWalk, Acquire, Goto
<1>11. CASE AddFound(t)
  BY <1>11 DEF AddFound, Release, Goto, Result
<1>12. CASE AddAbsent(t)
  BY <1>12 DEF AddAbsent, Goto
<1>13. CASE DelFound(t)
  BY <1>13 DEF DelFound, Goto
<1>14. CASE DelAbsent(t)
  BY <1>14 DEF DelAbsent, Release, Goto, Result
<1>15. CASE EndDel(t)
  BY <1>15 DEF EndDel, Release, Goto, Result
<1>16. CASE VisitLookup(t)
  BY <1>16 DEF VisitLookup, Goto, Result
<1>17. CASE VisitEach(t)
  BY <1>17 DEF VisitEach, Release, Goto
<1>18. CASE Callback(t)
  BY <1>18 DEF Callback, Goto
<1>19. CASE Relock(t)
  BY <1>19 DEF Relock, Acquire, Goto
<1>20. CASE NextBucket(t)
  BY <1>20 DEF NextBucket
<1>21. CASE EndEach(t)
  BY <1>21 DEF EndEach, Release, Goto, Result
<1>22. CASE Return(t)
  BY <1>22 DEF Return, Goto, Result
<1>23. CASE Crash(t)
  BY <1>23 DEF Crash
<1>24. QED
  BY <1>1, <1>2, <1>3, <1>4, <1>5, <1>6, <1>7, <1>8, <1>9, <1>10, <1>11,
     <1>12, <1>13, <1>14, <1>15, <1>16, <1>17, <1>18, <1>19, <1>20, <1>21,
     <1>22, <1>23 DEF Silent

\* A silent step of any public function keeps the ownership of the blocks.
LEMMA SilentOwnership ==
    ASSUME TypeOK, Control, Ownership, NEW t \in Thread, Silent(t)
    PROVE  Ownership'
<1>1. UNCHANGED <<chain, key>>
  BY SilentTable
<1>2. \A u \in Thread, n \in Node : Holds(u, n)' <=> Holds(u, n)
  BY SilentHolds
<1>3. \A n \in Node : Linked(n)' <=> Linked(n)
  BY <1>1 DEF Linked
<1>4. LinkedOnce' /\ LinkedAllocated'
  BY <1>1 DEF Ownership, LinkedOnce, LinkedAllocated
<1>5. HeldPrivately' /\ NoLeak'
  BY <1>1, <1>2, <1>3 DEF Ownership, HeldPrivately, NoLeak
<1>6. QED
  BY <1>4, <1>5 DEF Ownership

\* The block malloc returns to an adding function is held by its caller only.
LEMMA CallAddOwnership ==
    ASSUME TypeOK, Control, Ownership, NEW t \in Thread, CallAdd(t)
    PROVE  Ownership'
<1> USE DEF TypeOK, Ownership
<1>1. PICK k \in Key, n \in Node :
          /\ key[n] = NULL /\ key' = [key EXCEPT ![n] = k]
          /\ ptr' = [ptr EXCEPT ![t] = n]
  BY DEF CallAdd
<1>2. /\ UNCHANGED chain /\ pc[t] = "idle" /\ pc' = [pc EXCEPT ![t] = "lock"]
      /\ \A u \in Thread : u # t => op'[u] = op[u]
      /\ op'[t] \in {"add", "radd"}
  BY DEF CallAdd, Call, Goto
<1>3. \A b \in Bucket : \A i \in DOMAIN chain[b] : chain[b][i] # n
  BY <1>1, SentinelAssumption DEF LinkedAllocated
<1>4. \A u \in Thread, m \in Node : Holds(u, m)' <=> Holds(u, m) \/ (u = t /\ m = n)
  <2>1. \A m \in Node : ~Holds(t, m) /\ (Holds(t, m)' <=> m = n)
    <3>1. ptr'[t] = n /\ pc'[t] = "lock" /\ op[t] = "none"
      BY <1>1, <1>2 DEF Control
    <3>2. \A m \in Node : ~Holds(t, m)
      BY <1>2, <3>1 DEF Holds
    <3>3. \A m \in Node : Holds(t, m)' <=> m = n
      BY <1>2, <3>1 DEF Holds
    <3>4. QED
      BY <3>2, <3>3
  <2>2. \A u \in Thread, m \in Node : u # t => (Holds(u, m)' <=> Holds(u, m))
    BY <1>1, <1>2 DEF Holds
  <2>3. QED
    BY <2>1, <2>2
<1>5. \A u \in Thread : ~Holds(u, n)
  BY <1>1 DEF HeldPrivately
<1>6. \A m \in Node : Linked(m)' <=> Linked(m)
  BY <1>2 DEF Linked
<1>7. ~Linked(n)
  BY <1>3 DEF Linked
<1>8. LinkedOnce' /\ LinkedAllocated'
  BY <1>1, <1>2, <1>3 DEF LinkedOnce, LinkedAllocated
<1>9. \A m \in Node : key'[m] = IF m = n THEN k ELSE key[m]
  BY <1>1
<1>10. HeldPrivately'
  BY <1>4, <1>5, <1>6, <1>7, <1>9, SentinelAssumption, SMTT(30) DEF HeldPrivately
<1>11. NoLeak'
  BY <1>4, <1>6, <1>9 DEF NoLeak
<1>12. QED
  BY <1>8, <1>10, <1>11

\* Linking puts one node into one bucket.
LEMMA InsertEffect ==
    ASSUME TypeOK, Control, Ownership, NEW t \in Thread, Insert(t)
    PROVE  /\ Hash[arg[t]] \in Bucket /\ ptr[t] \in Node /\ LinkedOnce'
           /\ \A c \in Bucket, m \in Node :
                 In(c, m)' <=> In(c, m) \/ (c = Hash[arg[t]] /\ m = ptr[t])
<1>1. arg[t] \in Key /\ ptr[t] \in Node /\ Holds(t, ptr[t])
  BY DEF Insert, Control, Holds
<1>2. Hash[arg[t]] \in Bucket
  BY <1>1, HashAssumption
<1>3. LinkedOnce /\ \A c \in Bucket : ~In(c, ptr[t])
  BY <1>1, LinkedIn DEF Ownership, HeldPrivately
<1>4. chain' = [chain EXCEPT ![Hash[arg[t]]] = <<ptr[t]>> \o @]
  BY DEF Insert, LinkHead
<1>5. QED
  BY <1>1, <1>2, <1>3, <1>4, LinkEffect DEF TypeOK

\* what hlist_del of node n does to the chains
LEMMA DeleteEffect ==
    ASSUME TypeOK, LinkedOnce, NEW n \in Node,
           NEW b \in Bucket, NEW i \in DOMAIN chain[b], chain[b][i] = n,
           chain' = [chain EXCEPT ![b] = RemoveAt(@, i)]
    PROVE  /\ LinkedOnce' /\ In(b, n)
           /\ \A c \in Bucket, m \in Node : In(c, m)' <=> In(c, m) /\ m # n
<1>1. In(b, n)
  BY DEF In
<1>2. QED
  BY <1>1, UnlinkEffect DEF TypeOK

\* hash_table_add and hash_table_reusable_add hand their block to the table.
LEMMA InsertOwnership ==
    ASSUME TypeOK, TypeOK', Control, HeldKey, Ownership, NEW t \in Thread, Insert(t)
    PROVE  Ownership'
<1> DEFINE n == ptr[t]
           b == Hash[arg[t]]
<1>1. /\ b \in Bucket /\ n \in Node /\ LinkedOnce'
      /\ \A c \in Bucket, m \in Node : In(c, m)' <=> In(c, m) \/ (c = b /\ m = n)
  BY InsertEffect
<1>2. /\ UNCHANGED <<key, op, ptr>> /\ pc' = [pc EXCEPT ![t] = "done"]
      /\ pc[t] = "insert" /\ op[t] \in {"add", "radd"}
  BY DEF Insert, Goto, Control
<1>3. Holds(t, n) /\ key[n] = arg[t] /\ arg[t] \in Key
  BY <1>2 DEF Holds, HeldKey, Control
<1>4. \A u \in Thread, m \in Node : Holds(u, m)' <=> Holds(u, m) /\ u # t
  BY <1>2 DEF Holds, TypeOK
<1>5. SetView /\ SetView'
  BY View, ViewNext
<1> HIDE DEF n, b
<1>6. \A m \in Node : Linked(m)' <=> Linked(m) \/ m = n
  BY <1>1, <1>5 DEF SetView
<1>7. LinkedOnce'
  BY <1>1
<1>8. AllocatedInPlace'
  BY <1>1, <1>2, <1>3, <1>5 DEF SetView, Ownership, AllocatedInPlace, b
<1>9. HeldPrivately'
  BY <1>2, <1>3, <1>4, <1>6 DEF Ownership, HeldPrivately
<1>10. NoLeak'
  BY <1>2, <1>3, <1>4, <1>6 DEF Ownership, NoLeak, Holds, n
<1>11. QED
  BY <1>5, <1>7, <1>8, <1>9, <1>10 DEF Ownership, SetView

\* hash_table_del and hash_table_del_by_addr take one block from the table.
LEMMA UnlinkOwnership ==
    ASSUME TypeOK, TypeOK', Control, Ownership, NEW t \in Thread, Unlink(t)
    PROVE  Ownership'
<1> DEFINE n == ptr[t]
<1>1. /\ UNCHANGED <<key, op, ptr>> /\ pc' = [pc EXCEPT ![t] = "free"]
      /\ pc[t] = "unlink" /\ n \in Node
  BY DEF Unlink, Goto, Control
<1>2. PICK b \in Bucket : \E i \in DOMAIN chain[b] : chain[b][i] = n /\ UnlinkAt(b, i)
  BY DEF Unlink
<1>3. PICK i \in DOMAIN chain[b] : chain[b][i] = n /\ UnlinkAt(b, i)
  BY <1>2
<1>4. /\ LinkedOnce' /\ In(b, n)
      /\ \A c \in Bucket, m \in Node : In(c, m)' <=> In(c, m) /\ m # n
  BY <1>1, <1>3, DeleteEffect DEF UnlinkAt, Ownership
<1>5. \A u \in Thread, m \in Node : Holds(u, m)' <=> Holds(u, m) \/ (u = t /\ m = n)
  BY <1>1 DEF Holds, TypeOK, Control
<1>6. SetView /\ SetView'
  BY View, ViewNext
<1> HIDE DEF n
<1>7. Linked(n) /\ key[n] \in Key /\ \A m \in Node : Linked(m)' <=> Linked(m) /\ m # n
  BY <1>1, <1>4, <1>6 DEF SetView, Ownership, AllocatedInPlace
<1>8. AllocatedInPlace'
  BY <1>1, <1>4, <1>6 DEF SetView, Ownership, AllocatedInPlace
<1>9. HeldPrivately'
  BY <1>1, <1>5, <1>7, SentinelAssumption DEF Ownership, HeldPrivately
<1>10. NoLeak'
  BY <1>1, <1>5, <1>7 DEF Ownership, NoLeak
<1>11. QED
  BY <1>4, <1>6, <1>8, <1>9, <1>10 DEF Ownership, SetView

\* The free after the unlock frees a block nobody else has.
LEMMA FreeOwnership ==
    ASSUME TypeOK, Control, Ownership, NEW t \in Thread, Free(t)
    PROVE  Ownership'
<1> DEFINE n == ptr[t]
<1>1. /\ UNCHANGED <<chain, op, ptr>> /\ pc' = [pc EXCEPT ![t] = "done"]
      /\ key' = [key EXCEPT ![n] = NULL] /\ pc[t] = "free" /\ n \in Node
  BY DEF Free, Goto, Control
<1>2. Holds(t, n)
  BY <1>1 DEF Holds
<1>3. \A u \in Thread, m \in Node : Holds(u, m)' <=> Holds(u, m) /\ u # t
  BY <1>1 DEF Holds, TypeOK
<1>4. \A m \in Node : Holds(t, m) => m = n
  BY DEF Holds
<1> HIDE DEF n
<1>5. \A m \in Node : Linked(m)' <=> Linked(m)
  BY <1>1 DEF Linked
<1>6. \A m \in Node : key'[m] = IF m = n THEN NULL ELSE key[m]
  BY <1>1 DEF TypeOK
<1>7. ~Linked(n) /\ \A u \in Thread : Holds(u, n) => u = t
  BY <1>1, <1>2 DEF Ownership, HeldPrivately
<1>8. LinkedOnce'
  BY <1>1 DEF Ownership, LinkedOnce
<1>9. LinkedAllocated'
  BY <1>1, <1>6, <1>7, ChainTypes DEF Ownership, LinkedAllocated, Linked
<1>10. HeldPrivately'
  BY <1>3, <1>5, <1>6, <1>7 DEF Ownership, HeldPrivately
<1>11. NoLeak'
  BY <1>3, <1>4, <1>5, <1>6 DEF Ownership, NoLeak
<1>12. QED
  BY <1>8, <1>9, <1>10, <1>11 DEF Ownership

\* hash_table_reusable_del frees the blocks it takes from the table at once.
LEMMA VisitDelOwnership ==
    ASSUME TypeOK, TypeOK', Control, Ownership, NEW t \in Thread, VisitDel(t)
    PROVE  Ownership'
<1> DEFINE n == ptr[t]
<1>1. /\ UNCHANGED <<op, pc>> /\ pc[t] = "visit" /\ n \in Node
      /\ \A u \in Thread : u # t => ptr'[u] = ptr[u]
  BY DEF VisitDel, TypeOK
<1>2. \A u \in Thread, m \in Node : Holds(u, m)' <=> Holds(u, m)
  BY <1>1 DEF Holds
<1>3. CASE UNCHANGED <<chain, key>>
  <2>1. \A m \in Node : Linked(m)' <=> Linked(m)
    BY <1>3 DEF Linked
  <2>2. LinkedOnce' /\ LinkedAllocated'
    BY <1>3 DEF Ownership, LinkedOnce, LinkedAllocated
  <2>3. HeldPrivately' /\ NoLeak'
    BY <1>2, <1>3, <2>1 DEF Ownership, HeldPrivately, NoLeak
  <2>4. QED
    BY <2>2, <2>3 DEF Ownership
<1>4. CASE /\ key' = [key EXCEPT ![n] = NULL]
           /\ \E b \in Bucket : \E i \in DOMAIN chain[b] :
                 chain[b][i] = n /\ chain' = [chain EXCEPT ![b] = RemoveAt(@, i)]
  <2>1. PICK b \in Bucket : \E i \in DOMAIN chain[b] :
            chain[b][i] = n /\ chain' = [chain EXCEPT ![b] = RemoveAt(@, i)]
    BY <1>4
  <2>2. /\ LinkedOnce' /\ In(b, n)
        /\ \A c \in Bucket, m \in Node : In(c, m)' <=> In(c, m) /\ m # n
    BY <1>1, <2>1, DeleteEffect DEF Ownership
  <2>3. SetView /\ SetView'
    BY View, ViewNext
  <2> HIDE DEF n
  <2>4. Linked(n) /\ \A m \in Node : Linked(m)' <=> Linked(m) /\ m # n
    BY <1>1, <2>2, <2>3 DEF SetView
  <2>5. \A m \in Node : key'[m] = IF m = n THEN NULL ELSE key[m]
    BY <1>4 DEF TypeOK
  <2>6. AllocatedInPlace'
    BY <2>2, <2>3, <2>5 DEF SetView, Ownership, AllocatedInPlace
  <2>7. HeldPrivately'
    BY <1>2, <2>4, <2>5 DEF Ownership, HeldPrivately
  <2>8. NoLeak'
    BY <1>2, <2>4, <2>5 DEF Ownership, NoLeak
  <2>9. QED
    BY <2>2, <2>3, <2>6, <2>7, <2>8 DEF Ownership, SetView
<1>5. QED
  BY <1>3, <1>4 DEF VisitDel

\* An empty table owns nothing.
LEMMA EmptyOwnership ==
    ASSUME \A b \in Bucket : chain[b] = <<>>, \A n \in Node : key[n] = NULL,
           \A t \in Thread : pc[t] = "idle"
    PROVE  Ownership
<1>1. \A b \in Bucket : DOMAIN chain[b] = {}
  OBVIOUS
<1>2. \A t \in Thread, n \in Node : ~Holds(t, n)
  BY DEF Holds
<1>3. QED
  BY <1>1, <1>2
     DEF Ownership, LinkedOnce, LinkedAllocated, HeldPrivately, NoLeak

\* hash_table_flush frees every linked node, and nobody holds another block then.
LEMMA FlushOwnership ==
    ASSUME TypeOK, Control, Flushed, Ownership, Flush \/ TableInit
    PROVE  Ownership'
<1>1. UNCHANGED pc /\ \A t \in Thread : pc[t] = "idle"
  BY DEF Flush, TableInit, Flushed
<1>2. \A b \in Bucket : chain'[b] = <<>>
  BY DEF Flush, TableInit
<1>3. \A n \in Node : key[n] # NULL => Linked(n)
  BY <1>1 DEF Ownership, NoLeak, Holds
<1>4. ASSUME NEW n \in Node PROVE key'[n] = NULL
  <2>1. CASE Flush
    BY <1>3, <2>1 DEF Flush, Linked
  <2>2. CASE TableInit
    <3>1. ~Linked(n)
      BY <2>2 DEF TableInit, Flushed, Linked
    <3>2. QED
      BY <1>3, <2>2, <3>1 DEF TableInit
  <2>3. QED
    BY <2>1, <2>2
<1>5. (\A b \in Bucket : chain[b] = <<>>)' /\ (\A n \in Node : key[n] = NULL)'
      /\ (\A t \in Thread : pc[t] = "idle")'
  BY <1>1, <1>2, <1>4
<1>6. QED
  BY <1>5, EmptyOwnership, PTL

-----------------------------------------------------------------------------
(* The keys of held nodes *)

\* A silent step leaves the keys of the nodes to be added alone.
LEMMA SilentHeldKey ==
    ASSUME TypeOK, Control, HeldKey, NEW t \in Thread, Silent(t)
    PROVE  HeldKey'
<1> key' = key
  BY SilentTable
<1> USE DEF TypeOK, Control, HeldKey
<1>1. CASE CallAddNoMem(t)
  BY <1>1 DEF CallAddNoMem, Call, Goto, Result
<1>2. CASE CallDel(t)
  BY <1>2 DEF CallDel, Call, Goto, Result
<1>3. CASE CallDelByAddr(t)
  BY <1>3 DEF CallDelByAddr, Call, Goto, Result
<1>4. CASE CallLookup(t)
  BY <1>4 DEF CallLookup, Call, Goto, Result
<1>5. CASE CallEach(t)
  BY <1>5 DEF CallEach, Call, Goto, Result
<1>6. CASE NoMem(t)
  BY <1>6 DEF NoMem, Goto, Result
<1>7. CASE LockThenSearch(t)
  BY <1>7 DEF LockThenSearch, Acquire, Goto
<1>8. CASE LockThenLink(t)
  BY <1>8 DEF LockThenLink, Acquire, Goto
<1>9. CASE LockThenUnlink(t)
  BY <1>9 DEF LockThenUnlink, Acquire, Goto
<1>10. CASE LockThenWalk(t)
  BY <1>10 DEF LockThenWalk, Acquire, Goto
<1>11. CASE AddFound(t)
  BY <1>11 DEF AddFound, Release, Goto, Result
<1>12. CASE AddAbsent(t)
  BY <1>12 DEF AddAbsent, Goto
<1>13. CASE DelFound(t)
  BY <1>13 DEF DelFound, Goto
<1>14. CASE DelAbsent(t)
  BY <1>14 DEF DelAbsent, Release, Goto, Result
<1>15. CASE EndDel(t)
  BY <1>15 DEF EndDel, Release, Goto, Result
<1>16. CASE VisitLookup(t)
  BY <1>16 DEF VisitLookup, Goto, Result
<1>17. CASE VisitEach(t)
  BY <1>17 DEF VisitEach, Release, Goto
<1>18. CASE Callback(t)
  BY <1>18 DEF Callback, Goto
<1>19. CASE Relock(t)
  BY <1>19 DEF Relock, Acquire, Goto
<1>20. CASE NextBucket(t)
  BY <1>20 DEF NextBucket
<1>21. CASE EndEach(t)
  BY <1>21 DEF EndEach, Release, Goto, Result
<1>22. CASE Return(t)
  BY <1>22 DEF Return, Goto, Result
<1>23. CASE Crash(t)
  BY <1>23 DEF Crash
<1>24. QED
  BY <1>1, <1>2, <1>3, <1>4, <1>5, <1>6, <1>7, <1>8, <1>9, <1>10, <1>11,
     <1>12, <1>13, <1>14, <1>15, <1>16, <1>17, <1>18, <1>19, <1>20, <1>21,
     <1>22, <1>23 DEF Silent


\* A node that is about to be linked keeps the key it was filled with.
LEMMA HeldKeyStep ==
    ASSUME TypeOK, Control, Flushed, Ownership, HeldKey, [Next]_vars
    PROVE  HeldKey'
<1> DEFINE Adding(u) == op[u] \in {"add", "radd"} /\ pc[u] \in {"lock", "lookup", "insert"}
<1>0. \A u \in Thread : Adding(u) => /\ Holds(u, ptr[u]) /\ ptr[u] \in Node
                                     /\ key[ptr[u]] = arg[u] /\ arg[u] \in Key
  BY DEF Holds, HeldKey, Control
<1>1. CASE UNCHANGED vars
  BY <1>1 DEF vars, table, HeldKey
<1>2. ASSUME NEW t \in Thread, Silent(t) PROVE HeldKey'
  BY <1>2, SilentHeldKey
<1>3. ASSUME NEW t \in Thread, CallAdd(t) PROVE HeldKey'
  <2>1. PICK k \in Key, n \in Node :
            /\ key[n] = NULL /\ key' = [key EXCEPT ![n] = k]
            /\ ptr' = [ptr EXCEPT ![t] = n] /\ arg' = [arg EXCEPT ![t] = k]
    BY <1>3 DEF CallAdd, Call
  <2>2. \A u \in Thread : u # t => op'[u] = op[u] /\ pc'[u] = pc[u]
    BY <1>3 DEF CallAdd, Call, Goto, TypeOK
  <2>3. \A u \in Thread : Adding(u) => ptr[u] # n
    BY <1>0, <2>1, SentinelAssumption
  <2>4. QED
    BY <1>0, <2>1, <2>2, <2>3 DEF HeldKey, TypeOK
<1>4. ASSUME NEW t \in Thread, Insert(t) \/ Unlink(t) PROVE HeldKey'
  BY <1>4 DEF Insert, Unlink, Goto, HeldKey, TypeOK
<1>5. ASSUME NEW t \in Thread, Free(t) PROVE HeldKey'
  <2>1. Holds(t, ptr[t]) /\ ptr[t] \in Node
    BY <1>5 DEF Free, Holds, Control
  <2>2. \A u \in Thread : Adding(u) /\ u # t => ptr[u] # ptr[t]
    BY <1>0, <2>1 DEF Ownership, HeldPrivately
  <2>3. QED
    BY <1>0, <1>5, <2>2 DEF Free, Goto, HeldKey, TypeOK
<1>6. ASSUME NEW t \in Thread, VisitDel(t) PROVE HeldKey'
  <2>1. CASE key' = key
    BY <1>6, <2>1 DEF VisitDel, HeldKey, TypeOK
  <2>2. CASE key' = [key EXCEPT ![ptr[t]] = NULL] /\ Linked(ptr[t])
    <3>1. \A u \in Thread : Adding(u) => ptr[u] # ptr[t]
      BY <1>0, <2>2 DEF Ownership, HeldPrivately
    <3>2. QED
      BY <1>0, <1>6, <2>2, <3>1 DEF VisitDel, HeldKey, TypeOK
  <2>3. QED
    BY <1>6, <2>1, <2>2 DEF VisitDel, Linked
<1>7. CASE Flush \/ TableInit
  BY <1>7 DEF Flush, TableInit, Flushed, HeldKey
<1>8. QED
  BY <1>1, <1>2, <1>3, <1>4, <1>5, <1>6, <1>7 DEF Next, Calls, Step, Silent

-----------------------------------------------------------------------------
(* What a thread is about to unlink is linked *)

\* A step that leaves the table alone and does not start a removal keeps Targets.
LEMMA TargetsFrame ==
    ASSUME Targets, NEW t \in Thread, \A n \in Node : Linked(n)' <=> Linked(n),
           UNCHANGED <<key, arg>>,
           \A u \in Thread \ {t} : /\ pc'[u] = pc[u] /\ ptr'[u] = ptr[u]
                                   /\ op'[u] = op[u],
           pc'[t] # "unlink", ~(op'[t] = "dba" /\ pc'[t] = "lock"),
           ~(pc'[t] = "visit" /\ op'[t] = "rdel")
    PROVE  Targets'
  BY DEF Targets, AtAddr

\* What a thread finds under the lock is linked and compares equal.
LEMMA SilentTargets ==
    ASSUME TypeOK, Control, Targets, NEW t \in Thread, Silent(t)
    PROVE  Targets'
<1>0. key' = key /\ \A n \in Node : Linked(n)' <=> Linked(n)
  BY SilentTable DEF Linked
<1> USE <1>0
<1> USE DEF TypeOK, Control, Targets, AtAddr
<1>1. CASE CallAddNoMem(t)
  BY <1>1 DEF CallAddNoMem, Call, Goto, Result
<1>2. CASE CallDel(t)
  BY <1>2 DEF CallDel, Call, Goto, Result
<1>3. CASE CallDelByAddr(t)
  BY <1>3 DEF CallDelByAddr, Call, Goto, Result
<1>4. CASE CallLookup(t)
  BY <1>4 DEF CallLookup, Call, Goto, Result
<1>5. CASE CallEach(t)
  BY <1>5 DEF CallEach, Call, Goto, Result
<1>6. CASE NoMem(t)
  BY <1>6 DEF NoMem, Goto, Result
<1>7. CASE LockThenSearch(t)
  BY <1>7 DEF LockThenSearch, Acquire, Goto
<1>8. CASE LockThenLink(t)
  BY <1>8 DEF LockThenLink, Acquire, Goto
<1>9. CASE LockThenUnlink(t)
  BY <1>9 DEF LockThenUnlink, Acquire, Goto
<1>10. CASE LockThenWalk(t)
  <2>1. op[t] = "rdel" => \A n \in Node : ptr'[t] = n => Linked(n)
    <3>1. op[t] = "rdel" => Hash[arg[t]] \in Bucket
      BY HashAssumption
    <3>2. \A b \in Bucket, n \in Node : First(b) = n => Linked(n)
      BY SentinelAssumption DEF First, Linked
    <3>3. QED
      BY <1>10, <3>1, <3>2 DEF LockThenWalk
  <2>2. QED
    BY <1>10, <2>1 DEF LockThenWalk, Goto
<1>11. CASE AddFound(t)
  BY <1>11 DEF AddFound, Release, Goto, Result
<1>12. CASE AddAbsent(t)
  BY <1>12 DEF AddAbsent, Goto
<1>13. CASE DelFound(t)
  <2>1. PICK i \in DOMAIN chain[Hash[arg[t]]] :
            /\ ptr' = [ptr EXCEPT ![t] = chain[Hash[arg[t]]][i]]
            /\ key[chain[Hash[arg[t]]][i]] = arg[t]
    BY <1>13 DEF DelFound, Found, Matches
  <2>2. Hash[arg[t]] \in Bucket
    BY <1>13, HashAssumption, ZenonT(60) DEF DelFound
  <2>3. \A n \in Node : ptr'[t] = n => Linked(n) /\ key[n] = arg[t]
    BY <2>1, <2>2 DEF Linked
  <2>4. QED
    BY <1>13, <2>1, <2>3 DEF DelFound, Goto
<1>14. CASE DelAbsent(t)
  BY <1>14 DEF DelAbsent, Release, Goto, Result
<1>15. CASE EndDel(t)
  BY <1>15 DEF EndDel, Release, Goto, Result
<1>16. CASE VisitLookup(t)
  <2>1. /\ \A u \in Thread \ {t} : pc'[u] = pc[u] /\ ptr'[u] = ptr[u]
        /\ UNCHANGED <<op, arg>> /\ op[t] = "lookup" /\ pc'[t] \in {"visit", "done"}
    BY <1>16 DEF VisitLookup, Goto
  <2>2. /\ pc'[t] # "unlink" /\ ~(op'[t] = "dba" /\ pc'[t] = "lock")
        /\ ~(pc'[t] = "visit" /\ op'[t] = "rdel")
    BY <2>1
  <2>3. QED
    BY <2>1, <2>2, TargetsFrame, ZenonT(60)
<1>17. CASE VisitEach(t)
  BY <1>17 DEF VisitEach, Release, Goto
<1>18. CASE Callback(t)
  <2>1. /\ \A u \in Thread \ {t} : pc'[u] = pc[u] /\ ptr'[u] = ptr[u]
        /\ UNCHANGED <<op, arg>> /\ op[t] = "each" /\ pc'[t] \in {"visit", "relock"}
    BY <1>18 DEF Callback, Goto
  <2>2. /\ pc'[t] # "unlink" /\ ~(op'[t] = "dba" /\ pc'[t] = "lock")
        /\ ~(pc'[t] = "visit" /\ op'[t] = "rdel")
    BY <2>1
  <2>3. QED
    BY <2>1, <2>2, TargetsFrame, ZenonT(60)
<1>19. CASE Relock(t)
  BY <1>19 DEF Relock, Acquire, Goto
<1>20. CASE NextBucket(t)
  BY <1>20 DEF NextBucket
<1>21. CASE EndEach(t)
  BY <1>21 DEF EndEach, Release, Goto, Result
<1>22. CASE Return(t)
  BY <1>22 DEF Return, Goto, Result
<1>23. CASE Crash(t)
  BY <1>23 DEF Crash
<1>24. QED
  BY <1>1, <1>2, <1>3, <1>4, <1>5, <1>6, <1>7, <1>8, <1>9, <1>10, <1>11,
     <1>12, <1>13, <1>14, <1>15, <1>16, <1>17, <1>18, <1>19, <1>20, <1>21,
     <1>22, <1>23 DEF Silent

\* Nobody unlinks or changes a node another thread is about to unlink.
LEMMA TargetsStep ==
    ASSUME TypeOK, TypeOK', Control, LockHeld, Flushed, Ownership, Targets,
           Apart, Discipline, [Next]_vars
    PROVE  Targets'
<1>0. SetView /\ SetView'
  BY View, ViewNext
<1>1. CASE UNCHANGED vars
  BY <1>1 DEF vars, table, Targets, AtAddr, Linked
<1>2. ASSUME NEW t \in Thread, Silent(t) PROVE Targets'
  BY <1>2, SilentTargets
<1>3. ASSUME NEW t \in Thread, CallAdd(t) PROVE Targets'
  <2>1. \A n \in Node : Linked(n)' <=> Linked(n)
    BY <1>3 DEF CallAdd, Linked
  <2>2. /\ \A u \in Thread \ {t} : /\ pc'[u] = pc[u] /\ ptr'[u] = ptr[u]
                                   /\ op'[u] = op[u] /\ arg'[u] = arg[u]
        /\ op'[t] \in {"add", "radd"} /\ pc'[t] = "lock"
    BY <1>3 DEF CallAdd, Call, Goto, TypeOK
  <2>3. \A n \in Node : Linked(n) => key'[n] = key[n]
    BY <1>0, <1>3, SentinelAssumption
       DEF CallAdd, SetView, Ownership, AllocatedInPlace, TypeOK
  <2>4. QED
    BY <2>1, <2>2, <2>3 DEF Targets, AtAddr
<1>4. ASSUME NEW t \in Thread, Insert(t) PROVE Targets'
  <2>1. \A n \in Node : Linked(n) => Linked(n)'
    BY <1>0, <1>4, InsertEffect DEF SetView
  <2>2. UNCHANGED <<key, arg, ptr, op>> /\ pc' = [pc EXCEPT ![t] = "done"]
    BY <1>4 DEF Insert, Goto
  <2>3. QED
    BY <2>1, <2>2 DEF Targets, AtAddr, TypeOK
<1>5. ASSUME NEW t \in Thread, Unlink(t) PROVE Targets'
  <2> DEFINE n == ptr[t]
  <2>1. /\ UNCHANGED <<key, arg, ptr, op>> /\ pc' = [pc EXCEPT ![t] = "free"]
        /\ pc[t] = "unlink" /\ op[t] \in {"del", "dba"} /\ n \in Node
    BY <1>5 DEF Unlink, Goto, Control
  <2>2. \A m \in Node : m # n => (Linked(m)' <=> Linked(m))
    <3>1. PICK b \in Bucket : \E i \in DOMAIN chain[b] :
              chain[b][i] = n /\ chain' = [chain EXCEPT ![b] = RemoveAt(@, i)]
      BY <1>5 DEF Unlink, UnlinkAt
    <3>2. \A c \in Bucket, m \in Node : In(c, m)' <=> In(c, m) /\ m # n
      BY <2>1, <3>1, DeleteEffect DEF Ownership
    <3>3. QED
      BY <1>0, <3>2 DEF SetView
  <2>3. \A u \in Thread : u # t => /\ pc[u] # "unlink"
                                   /\ ~(pc[u] = "visit" /\ op[u] = "rdel")
    BY <2>1, SentinelAssumption DEF LockHeld, InCS
  <2>4. \A u \in Thread : u # t /\ AtAddr(u) => ptr[u] # n
    BY <2>1 DEF AtAddr, AtKey, Apart, Targets
  <2>5. QED
    BY <2>1, <2>2, <2>3, <2>4 DEF Targets, AtAddr, TypeOK
<1>6. ASSUME NEW t \in Thread, Free(t) PROVE Targets'
  <2>1. \A n \in Node : Linked(n)' <=> Linked(n)
    BY <1>6 DEF Free, Linked
  <2>2. Holds(t, ptr[t]) /\ ptr[t] \in Node
    BY <1>6 DEF Free, Holds, Control
  <2>3. \A n \in Node : Linked(n) => key'[n] = key[n]
    BY <1>6, <2>2 DEF Free, Ownership, HeldPrivately, TypeOK
  <2>4. /\ UNCHANGED <<arg, ptr, op>> /\ pc' = [pc EXCEPT ![t] = "done"]
    BY <1>6 DEF Free, Goto
  <2>5. QED
    BY <2>1, <2>3, <2>4 DEF Targets, AtAddr, TypeOK
<1>7. ASSUME NEW t \in Thread, VisitDel(t) PROVE Targets'
  <2> DEFINE n == ptr[t]
  <2>1. /\ n \in Node /\ Linked(n) /\ pc[t] = "visit" /\ op[t] = "rdel"
        /\ UNCHANGED <<pc, op, arg>> /\ \A u \in Thread \ {t} : ptr'[u] = ptr[u]
    BY <1>7 DEF VisitDel, TypeOK, Targets
  <2>2. PICK b \in Bucket : \E i \in DOMAIN chain[b] :
            chain[b][i] = n /\ ptr'[t] = After(b, i)
    BY <1>7, <2>1 DEF VisitDel, IsNext, TypeOK
  <2>3. \A m \in Node : ptr'[t] = m => m # n /\ Linked(m)
    <3>1. PICK i \in DOMAIN chain[b] : chain[b][i] = n /\ ptr'[t] = After(b, i)
      BY <2>2
    <3>2. SUFFICES ASSUME NEW m \in Node, After(b, i) = m PROVE m # n /\ Linked(m)
      BY <3>1
    <3>3. i + 1 \in DOMAIN chain[b] /\ chain[b][i + 1] = m /\ i + 1 # i
      BY <3>2, SentinelAssumption DEF After, TypeOK
    <3>4. QED
      BY <3>1, <3>3 DEF Linked, Ownership, LinkedOnce
  <2>4. \A m \in Node : m # n => (Linked(m)' <=> Linked(m))
    <3>1. CASE UNCHANGED chain
      BY <3>1 DEF Linked
    <3>2. CASE \E c \in Bucket : \E j \in DOMAIN chain[c] :
                  chain[c][j] = n /\ chain' = [chain EXCEPT ![c] = RemoveAt(@, j)]
      <4>1. PICK c \in Bucket : \E j \in DOMAIN chain[c] :
                chain[c][j] = n /\ chain' = [chain EXCEPT ![c] = RemoveAt(@, j)]
        BY <3>2
      <4>2. \A d \in Bucket, m \in Node : In(d, m)' <=> In(d, m) /\ m # n
        BY <2>1, <4>1, DeleteEffect DEF Ownership
      <4>3. QED
        BY <1>0, <4>2 DEF SetView
    <3>3. QED
      BY <1>7, <3>1, <3>2 DEF VisitDel
  <2>5. \A u \in Thread : u # t => /\ pc[u] # "unlink"
                                   /\ ~(pc[u] = "visit" /\ op[u] = "rdel")
    BY <2>1, SentinelAssumption DEF LockHeld, InCS
  \* the address another thread is passing does not compare equal
  <2>6. ASSUME NEW u \in Thread, AtAddr(u), NEW m \in Node, ptr[u] = m
        PROVE  Linked(m)' /\ key'[m] = key[m]
    <3>1. CASE key[n] = arg[t]
      <4>1. key[m] = arg[u] /\ arg[u] # arg[t] /\ Linked(m)
        BY <2>1, <2>6 DEF Targets, Apart, AtKey
      <4>2. m # n
        BY <3>1, <4>1
      <4>3. key'[m] = key[m]
        BY <1>7, <4>2 DEF VisitDel, TypeOK
      <4>4. QED
        BY <2>4, <4>1, <4>2, <4>3
    <3>2. CASE key[n] # arg[t]
      <4>1. UNCHANGED <<chain, key>>
        BY <1>7, <3>2 DEF VisitDel
      <4>2. QED
        BY <2>6, <4>1 DEF Targets, Linked
    <3>3. QED
      BY <3>1, <3>2
  <2>7. \A u \in Thread : AtAddr(u)' <=> AtAddr(u) /\ u # t
    BY <2>1 DEF AtAddr
  <2>8. SUFFICES ASSUME NEW u \in Thread, NEW m \in Node, ptr'[u] = m
        PROVE  /\ pc'[u] # "unlink"
               /\ AtAddr(u)' => /\ Linked(m)' /\ key'[m] = arg'[u]
                                /\ \A v \in Thread : AtAddr(v)' /\ ptr'[v] = m => v = u
               /\ pc'[u] = "visit" /\ op'[u] = "rdel" => Linked(m)'
    BY DEF Targets
  <2>9. CASE u = t
    BY <2>1, <2>3, <2>4, <2>7, <2>8, <2>9
  <2>10. CASE u # t
    <3>1. ptr[u] = m /\ pc'[u] = pc[u] /\ op'[u] = op[u] /\ arg'[u] = arg[u]
      BY <2>1, <2>8, <2>10
    <3>2. AtAddr(u) => /\ Linked(m)' /\ key'[m] = arg[u]
                       /\ \A v \in Thread : AtAddr(v) /\ ptr[v] = m => v = u
      BY <2>6, <3>1 DEF Targets
    <3>3. \A v \in Thread : AtAddr(v)' => AtAddr(v) /\ ptr'[v] = ptr[v]
      BY <2>1, <2>7
    <3>4. QED
      BY <2>5, <2>7, <2>10, <3>1, <3>2, <3>3
  <2>11. QED
    BY <2>9, <2>10
<1>8. CASE Flush \/ TableInit
  <2>1. \A u \in Thread : pc'[u] = "idle"
    BY <1>8 DEF Flush, TableInit, Flushed
  <2>2. QED
    BY <2>1 DEF Targets, AtAddr
<1>9. QED
  BY <1>1, <1>2, <1>3, <1>4, <1>5, <1>6, <1>7, <1>8 DEF Next, Calls, Step, Silent

\* A call that deletes by address or by key starts only when it is apart from the
\* others; every other step leaves the calls alone or ends one.
LEMMA ApartStep ==
    ASSUME TypeOK, Control, Flushed, Apart, [Next]_vars
    PROVE  Apart'
<1> DEFINE Same(u) == /\ AtAddr(u)' => AtAddr(u) /\ arg'[u] = arg[u]
                      /\ AtKey(u)' => AtKey(u) /\ arg'[u] = arg[u]
<1>1. ASSUME \A u \in Thread : Same(u) PROVE Apart'
  BY <1>1 DEF Apart
<1>2. CASE UNCHANGED vars
  BY <1>1, <1>2 DEF vars, AtAddr, AtKey
<1>3. ASSUME NEW t \in Thread, CallDel(t) PROVE Apart'
  <2>1. PICK k \in Key :
            /\ \A u \in Thread : AtAddr(u) => arg[u] # k
            /\ op'[t] \in {"del", "rdel"} /\ arg'[t] = k
            /\ \A u \in Thread \ {t} : op'[u] = op[u] /\ arg'[u] = arg[u] /\ pc'[u] = pc[u]
    BY <1>3 DEF CallDel, Call, Goto, TypeOK
  <2>2. ~AtAddr(t)'
    BY <2>1 DEF AtAddr
  <2>3. \A u \in Thread \ {t} : Same(u)
    BY <2>1 DEF AtAddr, AtKey
  <2>4. QED
    BY <2>1, <2>2, <2>3 DEF Apart
<1>4. ASSUME NEW t \in Thread, CallDelByAddr(t) PROVE Apart'
  <2>1. PICK k \in Key :
            /\ \A u \in Thread : AtKey(u) => arg[u] # k
            /\ op'[t] = "dba" /\ arg'[t] = k
            /\ \A u \in Thread \ {t} : op'[u] = op[u] /\ arg'[u] = arg[u] /\ pc'[u] = pc[u]
    BY <1>4 DEF CallDelByAddr, Call, Goto, TypeOK
  <2>2. ~AtKey(t)'
    BY <2>1 DEF AtKey
  <2>3. \A u \in Thread \ {t} : Same(u)
    BY <2>1 DEF AtAddr, AtKey
  <2>4. QED
    BY <2>1, <2>2, <2>3 DEF Apart
<1>5. ASSUME NEW t \in Thread,
             CallAdd(t) \/ CallAddNoMem(t) \/ CallLookup(t) \/ CallEach(t)
      PROVE  Apart'
  <2>1. /\ op'[t] \in {"add", "radd", "lookup", "each"}
        /\ \A u \in Thread \ {t} : op'[u] = op[u] /\ arg'[u] = arg[u] /\ pc'[u] = pc[u]
    BY <1>5 DEF CallAdd, CallAddNoMem, CallLookup, CallEach, Call, Goto, TypeOK
  <2>2. QED
    BY <1>1, <2>1 DEF AtAddr, AtKey
<1>6. ASSUME NEW t \in Thread, Return(t) PROVE Apart'
  BY <1>1, <1>6 DEF Return, Goto, TypeOK, AtAddr, AtKey
<1>7. ASSUME NEW t \in Thread, Step(t), ~Return(t) PROVE Apart'
  <2>1. /\ UNCHANGED <<op, arg>>
        /\ \A u \in Thread \ {t} : pc'[u] = pc[u]
    BY <1>7 DEF Step, NoMem, LockThenSearch, LockThenLink, LockThenUnlink, LockThenWalk,
       AddFound, AddAbsent, Insert, DelFound, DelAbsent, Unlink, Free, VisitDel, EndDel,
       VisitLookup, VisitEach, Callback, Relock, NextBucket, EndEach, Crash, Goto, TypeOK
  <2>2. /\ AtAddr(t)' => AtAddr(t)
        /\ AtKey(t)' => AtKey(t)
    BY <1>7 DEF AtAddr, AtKey, Control, Step, NoMem, LockThenSearch, LockThenLink,
       LockThenUnlink, LockThenWalk, AddFound, AddAbsent, Insert, DelFound, DelAbsent,
       Unlink, Free, VisitDel, EndDel, VisitLookup, VisitEach, Callback, Relock,
       NextBucket, EndEach, Crash, Goto, TypeOK
  <2>3. QED
    BY <1>1, <2>1, <2>2 DEF AtAddr, AtKey
<1>8. CASE Flush \/ TableInit
  BY <1>1, <1>8 DEF Flush, TableInit, AtAddr, AtKey
<1>9. QED
  BY <1>2, <1>3, <1>4, <1>5, <1>6, <1>7, <1>8 DEF Next, Calls

-----------------------------------------------------------------------------
(* No duplicates *)

\* Only the search of hash_table_add decides to insert.
LEMMA SilentInsert ==
    ASSUME TypeOK, Control, "radd" \notin Ops, NEW t \in Thread, Silent(t), ~AddAbsent(t)
    PROVE  \A u \in Thread :
              pc'[u] = "insert" => pc[u] = "insert" /\ arg'[u] = arg[u]
<1> USE DEF TypeOK, Control
<1>1. CASE CallAddNoMem(t)
  BY <1>1 DEF CallAddNoMem, Call, Goto, Result
<1>2. CASE CallDel(t)
  BY <1>2 DEF CallDel, Call, Goto, Result
<1>3. CASE CallDelByAddr(t)
  BY <1>3 DEF CallDelByAddr, Call, Goto, Result
<1>4. CASE CallLookup(t)
  BY <1>4 DEF CallLookup, Call, Goto, Result
<1>5. CASE CallEach(t)
  BY <1>5 DEF CallEach, Call, Goto, Result
<1>6. CASE NoMem(t)
  BY <1>6 DEF NoMem, Goto, Result
<1>7. CASE LockThenSearch(t)
  BY <1>7 DEF LockThenSearch, Acquire, Goto
<1>8. CASE LockThenLink(t)
  BY <1>8 DEF LockThenLink, Acquire, Goto
<1>9. CASE LockThenUnlink(t)
  BY <1>9 DEF LockThenUnlink, Acquire, Goto
<1>10. CASE LockThenWalk(t)
  BY <1>10 DEF LockThenWalk, Acquire, Goto
<1>11. CASE AddFound(t)
  BY <1>11 DEF AddFound, Release, Goto, Result
<1>12. CASE DelFound(t)
  BY <1>12 DEF DelFound, Goto
<1>13. CASE DelAbsent(t)
  BY <1>13 DEF DelAbsent, Release, Goto, Result
<1>14. CASE EndDel(t)
  BY <1>14 DEF EndDel, Release, Goto, Result
<1>15. CASE VisitLookup(t)
  BY <1>15 DEF VisitLookup, Goto, Result
<1>16. CASE VisitEach(t)
  BY <1>16 DEF VisitEach, Release, Goto
<1>17. CASE Callback(t)
  BY <1>17 DEF Callback, Goto
<1>18. CASE Relock(t)
  BY <1>18 DEF Relock, Acquire, Goto
<1>19. CASE NextBucket(t)
  BY <1>19 DEF NextBucket
<1>20. CASE EndEach(t)
  BY <1>20 DEF EndEach, Release, Goto, Result
<1>21. CASE Return(t)
  BY <1>21 DEF Return, Goto, Result
<1>22. CASE Crash(t)
  BY <1>22 DEF Crash
<1>23. QED
  BY <1>1, <1>2, <1>3, <1>4, <1>5, <1>6, <1>7, <1>8, <1>9, <1>10, <1>11,
     <1>12, <1>13, <1>14, <1>15, <1>16, <1>17, <1>18, <1>19, <1>20, <1>21,
     <1>22 DEF Silent

\* A key hash_table_add has not found under the lock stays absent until it is linked.
LEMMA UniqueStep ==
    ASSUME TypeOK, TypeOK', Control, LockHeld, Flushed, Ownership, Ownership',
           HeldKey, Unique, Discipline, [Next]_vars
    PROVE  Unique'
<1> SUFFICES ASSUME "radd" \notin Ops
             PROVE  /\ UniqueKeys'
                    /\ \A u \in Thread, k \in Key :
                          pc'[u] = "insert" /\ arg'[u] = k => Absent(Hash[k], k)'
  BY DEF Unique
<1>0. /\ SetView /\ SetView' /\ \A k \in Key : Hash[k] \in Bucket
      /\ UniqueKeys /\ DistinctKeys /\ LinkedOnce'
      /\ \A u \in Thread, k \in Key :
            pc[u] = "insert" /\ arg[u] = k => Absent(Hash[k], k)
  BY View, ViewNext, HashAssumption DEF Unique, SetView, Ownership
\* the keys of linked nodes are what they were, or fewer
<1>1. ASSUME \A b \in Bucket, m \in Node : In(b, m)' => In(b, m) /\ key'[m] = key[m],
             \A u \in Thread : pc'[u] = "insert" => pc[u] = "insert" /\ arg'[u] = arg[u]
      PROVE  /\ UniqueKeys'
             /\ \A u \in Thread, k \in Key :
                   pc'[u] = "insert" /\ arg'[u] = k => Absent(Hash[k], k)'
  <2>1. DistinctKeys'
    BY <1>0, <1>1 DEF DistinctKeys
  <2>2. \A b \in Bucket, k \in Key : Absent(b, k) => Absent(b, k)'
    BY <1>0, <1>1 DEF SetView, NoneWith
  <2>3. QED
    BY <1>0, <1>1, <2>1, <2>2 DEF SetView
<1>2. CASE UNCHANGED vars
  <2>1. UNCHANGED <<chain, key, pc, arg>>
    BY <1>2 DEF vars, table
  <2>2. QED
    BY <1>1, <2>1 DEF In
<1>3. ASSUME NEW t \in Thread, Silent(t)
      PROVE  /\ UniqueKeys'
             /\ \A u \in Thread, k \in Key :
                   pc'[u] = "insert" /\ arg'[u] = k => Absent(Hash[k], k)'
  <2>1. UNCHANGED <<chain, key>>
    BY <1>3, SilentTable
  <2>2. UniqueKeys' /\ \A b, k : Absent(b, k)' <=> Absent(b, k)
    BY <1>0, <2>1 DEF UniqueKeys, Absent, Matches
  <2>3. CASE AddAbsent(t)
    BY <1>0, <2>2, <2>3 DEF AddAbsent, Goto, TypeOK
  <2>4. CASE ~AddAbsent(t)
    <3>1. \A u \in Thread : pc'[u] = "insert" => pc[u] = "insert" /\ arg'[u] = arg[u]
      BY <1>3, <2>4, SilentInsert
    <3>2. QED
      BY <1>0, <2>2, <3>1
  <2>5. QED
    BY <2>3, <2>4
<1>4. ASSUME NEW t \in Thread, CallAdd(t)
      PROVE  /\ UniqueKeys'
             /\ \A u \in Thread, k \in Key :
                   pc'[u] = "insert" /\ arg'[u] = k => Absent(Hash[k], k)'
  <2>1. PICK n \in Node, k \in Key : key[n] = NULL /\ key' = [key EXCEPT ![n] = k]
    BY <1>4 DEF CallAdd
  <2>2. chain' = chain
    BY <1>4 DEF CallAdd
  <2>3. \A b \in Bucket : ~In(b, n)
    BY <1>0, <2>1, SentinelAssumption DEF SetView, Ownership, AllocatedInPlace
  <2>4. \A b \in Bucket, m \in Node : In(b, m)' => In(b, m) /\ key'[m] = key[m]
    BY <2>1, <2>2, <2>3 DEF In, TypeOK
  <2>5. \A u \in Thread : pc'[u] = "insert" => pc[u] = "insert" /\ arg'[u] = arg[u]
    BY <1>4 DEF CallAdd, Call, Goto, TypeOK
  <2>6. QED
    BY <1>1, <2>4, <2>5
<1>5. ASSUME NEW t \in Thread, Insert(t)
      PROVE  /\ UniqueKeys'
             /\ \A u \in Thread, k \in Key :
                   pc'[u] = "insert" /\ arg'[u] = k => Absent(Hash[k], k)'
  <2> DEFINE n == ptr[t]
             h == arg[t]
  <2>1. /\ n \in Node /\ h \in Key /\ pc[t] = "insert" /\ key[n] = h /\ key' = key
        /\ pc' = [pc EXCEPT ![t] = "done"]
    BY <1>5 DEF Insert, Goto, Control, HeldKey
  <2>2. \A c \in Bucket, m \in Node : In(c, m)' <=> In(c, m) \/ (c = Hash[h] /\ m = n)
    BY <1>5, InsertEffect
  <2>3. NoneWith(Hash[h], h)
    BY <1>0, <2>1 DEF SetView
  <2> HIDE DEF n, h
  <2>4. DistinctKeys'
    BY <1>0, <2>1, <2>2, <2>3 DEF DistinctKeys, NoneWith
  <2>5. \A u \in Thread : pc'[u] # "insert"
    BY <2>1, SentinelAssumption DEF LockHeld, InCS, TypeOK
  <2>6. QED
    BY <1>0, <2>4, <2>5 DEF SetView
<1>6. ASSUME NEW t \in Thread, Unlink(t)
      PROVE  /\ UniqueKeys'
             /\ \A u \in Thread, k \in Key :
                   pc'[u] = "insert" /\ arg'[u] = k => Absent(Hash[k], k)'
  <2>1. ptr[t] \in Node /\ key' = key /\ pc' = [pc EXCEPT ![t] = "free"] /\ arg' = arg
    BY <1>6 DEF Unlink, Goto, Control
  <2>2. PICK b \in Bucket : \E i \in DOMAIN chain[b] :
            chain[b][i] = ptr[t] /\ chain' = [chain EXCEPT ![b] = RemoveAt(@, i)]
    BY <1>6 DEF Unlink, UnlinkAt
  <2>3. \A c \in Bucket, m \in Node : In(c, m)' <=> In(c, m) /\ m # ptr[t]
    BY <2>1, <2>2, DeleteEffect DEF Ownership
  <2>4. QED
    BY <1>1, <2>1, <2>3 DEF TypeOK
<1>7. ASSUME NEW t \in Thread, Free(t)
      PROVE  /\ UniqueKeys'
             /\ \A u \in Thread, k \in Key :
                   pc'[u] = "insert" /\ arg'[u] = k => Absent(Hash[k], k)'
  <2>1. Holds(t, ptr[t]) /\ ptr[t] \in Node /\ chain' = chain /\ arg' = arg
        /\ key' = [key EXCEPT ![ptr[t]] = NULL] /\ pc' = [pc EXCEPT ![t] = "done"]
    BY <1>7 DEF Free, Holds, Control, Goto
  <2>2. \A b \in Bucket : ~In(b, ptr[t])
    BY <1>0, <2>1 DEF SetView, Ownership, HeldPrivately
  <2>3. \A b \in Bucket, m \in Node : In(b, m)' => In(b, m) /\ m # ptr[t]
    BY <2>1, <2>2 DEF In
  <2>4. \A m \in Node : m # ptr[t] => key'[m] = key[m]
    BY <2>1 DEF TypeOK
  <2>5. QED
    BY <1>1, <2>1, <2>3, <2>4 DEF TypeOK
<1>8. ASSUME NEW t \in Thread, VisitDel(t)
      PROVE  /\ UniqueKeys'
             /\ \A u \in Thread, k \in Key :
                   pc'[u] = "insert" /\ arg'[u] = k => Absent(Hash[k], k)'
  <2>1. ptr[t] \in Node /\ UNCHANGED <<pc, arg>>
    BY <1>8 DEF VisitDel, TypeOK
  <2>2. CASE UNCHANGED <<chain, key>>
    BY <1>1, <2>1, <2>2 DEF In
  <2>3. CASE /\ key' = [key EXCEPT ![ptr[t]] = NULL]
             /\ \E b \in Bucket : \E i \in DOMAIN chain[b] :
                   chain[b][i] = ptr[t] /\ chain' = [chain EXCEPT ![b] = RemoveAt(@, i)]
    <3>1. PICK b \in Bucket : \E i \in DOMAIN chain[b] :
              chain[b][i] = ptr[t] /\ chain' = [chain EXCEPT ![b] = RemoveAt(@, i)]
      BY <2>3
    <3>2. \A c \in Bucket, m \in Node : In(c, m)' <=> In(c, m) /\ m # ptr[t]
      BY <2>1, <3>1, DeleteEffect DEF Ownership
    <3>3. \A m \in Node : m # ptr[t] => key'[m] = key[m]
      BY <2>3 DEF TypeOK
    <3>4. QED
      BY <1>1, <2>1, <3>2, <3>3
  <2>4. QED
    BY <1>8, <2>2, <2>3 DEF VisitDel
<1>9. CASE Flush \/ TableInit
  <2>1. \A b \in Bucket : chain'[b] = <<>>
    BY <1>9 DEF Flush, TableInit
  <2>2. \A u \in Thread : pc'[u] = "idle"
    BY <1>9 DEF Flush, TableInit, Flushed
  <2>3. \A b \in Bucket, m \in Node : ~In(b, m)'
    BY <2>1 DEF In
  <2>4. QED
    BY <1>1, <2>2, <2>3
<1>10. QED
  BY <1>2, <1>3, <1>4, <1>5, <1>6, <1>7, <1>8, <1>9 DEF Next, Calls, Step, Silent

-----------------------------------------------------------------------------
(* No step of a locked function goes wrong *)

\* A removal never touches a freed block or a node that is not linked.
LEMMA LockedUseStep ==
    ASSUME TypeOK, Control, Ownership, Targets, LockedUseSafe, [Next]_vars
    PROVE  LockedUseSafe'
<1> USE DEF LockedUseSafe
<1>1. CASE UNCHANGED vars
  BY <1>1 DEF vars
<1>2. ASSUME NEW t \in Thread, Crash(t), fault = NoThread PROVE LockedUseSafe'
  <2>1. fault' = t /\ op' = op
    BY <1>2 DEF Crash
  <2>2. ASSUME NEW n \in Node, Linked(n) PROVE Readable(n)
    <3>1. key[n] # NULL
      BY <2>2, View, SentinelAssumption DEF SetView, Ownership, AllocatedInPlace
    <3>2. \A u \in Thread : ~Holds(u, n)
      BY <2>2 DEF Ownership, HeldPrivately
    <3>3. QED
      BY <3>1, <3>2 DEF Readable, Raw, Holds
  <2>3. CASE pc[t] = "visit" /\ ptr[t] # NULL /\ ~Readable(ptr[t])
    <3>1. ptr[t] \in Node /\ ~Linked(ptr[t])
      BY <2>2, <2>3 DEF TypeOK
    <3>2. QED
      BY <2>1, <2>3, <3>1 DEF Control, Targets
  <2>4. CASE pc[t] = "cb"
    BY <2>1, <2>4 DEF Control
  <2>5. CASE pc[t] = "unlink" /\ ~Linked(ptr[t])
    BY <2>5 DEF Control, Targets
  <2>6. CASE /\ pc[t] = "visit" /\ op[t] = "rdel" /\ ptr[t] # NULL
             /\ ~Linked(ptr[t])
    BY <2>6 DEF TypeOK, Targets
  <2>7. CASE pc[t] = "free" /\ key[ptr[t]] = NULL
    BY <2>7 DEF Control, Holds, Ownership, HeldPrivately
  <2>8. CASE op[t] = "each"
    BY <2>1, <2>8
  <2>9. QED
    BY <1>2, <2>3, <2>4, <2>5, <2>6, <2>7, <2>8 DEF Crash
<1>3. ASSUME Next, \A t \in Thread : ~Crash(t) PROVE LockedUseSafe'
  <2>1. fault = NoThread /\ UNCHANGED fault
    BY <1>3, ZenonT(60) DEF Next, Calls, Step, CallAdd, CallAddNoMem, CallDel, CallDelByAddr,
       CallLookup, CallEach, NoMem, LockThenSearch, LockThenLink, LockThenUnlink,
       LockThenWalk, AddFound, AddAbsent, Insert, DelFound, DelAbsent, Unlink, Free,
       VisitDel, EndDel, VisitLookup, VisitEach, Callback, Relock, NextBucket, EndEach,
       Return, Flush, TableInit
  <2>2. QED
    BY <2>1
<1>4. QED
  BY <1>1, <1>2, <1>3 DEF Next

-----------------------------------------------------------------------------
(* The theorems *)

\* Every step of the table keeps the ownership of the blocks.
LEMMA OwnershipStep ==
    ASSUME TypeOK, TypeOK', Control, Flushed, HeldKey, Ownership, [Next]_vars
    PROVE  Ownership'
<1>1. CASE UNCHANGED vars
  BY <1>1 DEF vars, table, Ownership, LinkedOnce, LinkedAllocated, HeldPrivately,
     NoLeak, Holds, Linked
<1>2. ASSUME NEW t \in Thread, Silent(t) PROVE Ownership'
  BY <1>2, SilentOwnership
<1>3. ASSUME NEW t \in Thread, CallAdd(t) \/ Insert(t) \/ Unlink(t) \/ Free(t) \/ VisitDel(t)
      PROVE  Ownership'
  BY <1>3, CallAddOwnership, InsertOwnership, UnlinkOwnership, FreeOwnership,
     VisitDelOwnership
<1>4. CASE Flush \/ TableInit
  BY <1>4, FlushOwnership
<1>5. QED
  BY <1>1, <1>2, <1>3, <1>4 DEF Next, Calls, Step, Silent

\* The empty table satisfies the invariant.
LEMMA InitIInv == Init => IInv
<1> SUFFICES ASSUME Init PROVE IInv
  OBVIOUS
<1>1. TypeOK /\ Control /\ LockHeld /\ Flushed /\ LockedUseSafe
  BY SentinelAssumption, HashAssumption
     DEF Init, TypeOK, PC, Control, Flushed, LockHeld, InCS, Bucket, LockedUseSafe
<1>2. HeldKey /\ Targets /\ Apart
  BY SentinelAssumption DEF Init, HeldKey, Targets, Apart, AtAddr
<1>3. Ownership
  BY EmptyOwnership DEF Init
<1>4. Unique
  BY DEF Init, Unique, UniqueKeys
<1>5. QED
  BY <1>1, <1>2, <1>3, <1>4 DEF IInv

\* The invariant is inductive when the table is used as it is meant to.
THEOREM Inductive == Discipline => (Spec => []IInv)
<1> SUFFICES ASSUME Discipline PROVE Spec => []IInv
  OBVIOUS
<1>1. IInv /\ [Next]_vars => IInv'
  <2> SUFFICES ASSUME IInv, [Next]_vars PROVE IInv'
    OBVIOUS
  <2> USE DEF IInv
  <2>1. TypeOK' /\ Control' /\ Flushed' /\ LockHeld'
    BY TypeStep, ControlStep, FlushedStep, LockStep
  <2>2. HeldKey' /\ Targets' /\ Apart' /\ Ownership' /\ LockedUseSafe'
    BY <2>1, HeldKeyStep, TargetsStep, ApartStep, OwnershipStep, LockedUseStep
  <2>3. Unique'
    BY <2>1, <2>2, UniqueStep
  <2>4. QED
    BY <2>1, <2>2, <2>3
<1>2. QED
  BY InitIInv, <1>1, PTL DEF Spec

\* Every allocated block is in one place of one chain or held by one thread: the
\* table neither leaks a block nor frees one twice.
THEOREM OwnershipHolds == Discipline => (Spec => []Ownership)
<1> SUFFICES ASSUME Discipline PROVE Spec => []Ownership
  OBVIOUS
<1>1. IInv => Ownership
  BY DEF IInv
<1>2. QED
  BY <1>1, Inductive, PTL

\* hash_table_add keeps the keys distinct, as long as nobody calls
\* hash_table_reusable_add on the same table.
THEOREM KeysDistinct == Discipline /\ "radd" \notin Ops => (Spec => []UniqueKeys)
<1> SUFFICES ASSUME Discipline, "radd" \notin Ops PROVE Spec => []UniqueKeys
  OBVIOUS
<1>1. IInv => UniqueKeys
  BY DEF IInv, Unique
<1>2. QED
  BY <1>1, Inductive, PTL

\* The functions that use nodes under the lock never touch a freed block.
THEOREM LockedUse == Discipline => (Spec => []LockedUseSafe)
<1> SUFFICES ASSUME Discipline PROVE Spec => []LockedUseSafe
  OBVIOUS
<1>1. IInv => LockedUseSafe
  BY DEF IInv
<1>2. QED
  BY <1>1, Inductive, PTL

-----------------------------------------------------------------------------
(* hash_table_add and hash_table_del implement KeyTable *)

\* ret says how far a call is: pending until it took effect, its outcome after
Answered == \A t \in Thread :
    /\ pc[t] = "idle" => ret[t] = "none"
    /\ pc[t] \notin {"idle", "free", "done"} => ret[t] = "pending"
    /\ pc[t] \in {"free", "done"} => ret[t] \in {"ok", "fail", "nomem"}

\* Every step keeps the outcomes in step with the program counters.
LEMMA AnsweredStep ==
    ASSUME TypeOK, Answered, [Next]_vars
    PROVE  Answered'
<1> USE DEF TypeOK, Answered, Goto, Result
<1>1. CASE UNCHANGED vars
  BY <1>1 DEF vars
<1>2. ASSUME NEW t \in Thread, Calls(t) PROVE Answered'
  <2>1. /\ ret' = [ret EXCEPT ![t] = "pending"]
        /\ \E l \in {"lock", "nomem", "visit"} : pc' = [pc EXCEPT ![t] = l]
    BY <1>2 DEF Calls, CallAdd, CallAddNoMem, CallDel, CallDelByAddr, CallLookup, CallEach, Call
  <2>2. QED
    BY <2>1
<1>3. ASSUME NEW t \in Thread,
             \/ NoMem(t) \/ AddFound(t) \/ DelAbsent(t) \/ Insert(t) \/ Unlink(t)
             \/ EndDel(t) \/ EndEach(t)
      PROVE  Answered'
  <2>1. \E r \in {"ok", "fail", "nomem"}, l \in {"free", "done"} :
            pc' = [pc EXCEPT ![t] = l] /\ ret' = [ret EXCEPT ![t] = r]
    BY <1>3 DEF NoMem, AddFound, DelAbsent, Insert, Unlink, EndDel, EndEach
  <2>2. QED
    BY <2>1
<1>8. ASSUME NEW t \in Thread, Return(t) PROVE Answered'
  BY <1>8 DEF Return
<1>4. ASSUME NEW t \in Thread,
             \/ LockThenSearch(t) \/ LockThenLink(t) \/ LockThenUnlink(t) \/ LockThenWalk(t)
             \/ AddAbsent(t) \/ DelFound(t) \/ VisitEach(t) \/ Relock(t) \/ Free(t)
      PROVE  Answered'
  <2>1. /\ UNCHANGED ret
        /\ \/ /\ pc[t] \in {"lock", "lookup", "visit", "relock"}
              /\ \E l \in {"lookup", "insert", "unlink", "visit", "cb"} : pc' = [pc EXCEPT ![t] = l]
           \/ pc[t] = "free" /\ pc' = [pc EXCEPT ![t] = "done"]
    BY <1>4 DEF LockThenSearch, LockThenLink, LockThenUnlink, LockThenWalk, AddAbsent,
       DelFound, VisitEach, Relock, Free
  <2>2. QED
    BY <2>1
<1>5. ASSUME NEW t \in Thread,
             VisitDel(t) \/ VisitLookup(t) \/ Callback(t) \/ NextBucket(t) \/ Crash(t)
      PROVE  Answered'
  BY <1>5 DEF VisitDel, VisitLookup, Callback, NextBucket, Crash
<1>6. CASE Flush \/ TableInit
  BY <1>6 DEF Flush, TableInit
<1>7. QED
  BY <1>1, <1>2, <1>3, <1>4, <1>5, <1>6, <1>8 DEF Next, Step

\* the keys in the table, as the refinement mapping computes them
Present == {k \in Key : \E b \in Bucket : ~Absent(b, k)}

\* they are the keys of the linked nodes
KeysLinked == \A k : k \in Present
                     <=> k \in Key /\ \E b \in Bucket, n \in Node : In(b, n) /\ key[n] = k

LEMMA PresentKeys == TypeOK => KeysLinked
  BY View DEF Present, SetView, NoneWith, KeysLinked

\* The same after a step.
LEMMA PresentKeysNext == TypeOK' => KeysLinked'
  BY PresentKeys, PTL

\* A key is present when its own bucket holds it.
LEMMA PresentHere ==
    ASSUME TypeOK, LinkedAllocated, NEW k \in Key
    PROVE  k \in Present <=> ~Absent(Hash[k], k)
<1>1. Hash[k] \in Bucket
  BY HashAssumption
<1>2. SetView /\ KeysLinked /\ AllocatedInPlace
  BY View, PresentKeys DEF SetView
<1>3. QED
  BY <1>1, <1>2 DEF Present, AllocatedInPlace, SetView, NoneWith

\* Linking the block of an addition adds its key, which was absent.
LEMMA InsertPresent ==
    ASSUME IInv, TypeOK', "radd" \notin Ops, NEW t \in Thread, Insert(t)
    PROVE  arg[t] \notin Present /\ Present' = Present \cup {arg[t]}
<1>1. /\ arg[t] \in Key /\ ptr[t] \in Node /\ key[ptr[t]] = arg[t] /\ key' = key
      /\ pc[t] = "insert"
  BY DEF IInv, Insert, Control, HeldKey
<1>2. Absent(Hash[arg[t]], arg[t])
  BY <1>1 DEF IInv, Unique
<1>3. arg[t] \notin Present
  BY <1>1, <1>2, PresentHere DEF IInv, Ownership
<1>4. \A c \in Bucket, m \in Node :
          In(c, m)' <=> In(c, m) \/ (c = Hash[arg[t]] /\ m = ptr[t])
  BY InsertEffect DEF IInv
<1>5. KeysLinked /\ KeysLinked' /\ Hash[arg[t]] \in Bucket
  BY <1>1, PresentKeys, PresentKeysNext, HashAssumption DEF IInv
<1>6. \A k : k \in Present' <=> k \in Present \/ k = arg[t]
  BY <1>1, <1>4, <1>5 DEF KeysLinked
<1>7. QED
  BY <1>3, <1>6

\* Unlinking the node of a deletion takes its key away, which was present.
LEMMA UnlinkPresent ==
    ASSUME IInv, TypeOK', "radd" \notin Ops, NEW t \in Thread, Unlink(t)
    PROVE  arg[t] \in Present /\ Present' = Present \ {arg[t]}
<1>1. PICK b \in Bucket : \E i \in DOMAIN chain[b] : chain[b][i] = ptr[t] /\ UnlinkAt(b, i)
  BY DEF Unlink
<1>2. PICK i \in DOMAIN chain[b] : chain[b][i] = ptr[t] /\ UnlinkAt(b, i)
  BY <1>1
<1> DEFINE n == ptr[t]
<1>3. /\ n \in Node /\ key[n] = arg[t] /\ key' = key /\ pc[t] = "unlink"
      /\ arg[t] \in Key
  <2>1. n \in Node /\ pc[t] = "unlink" /\ key' = key
    BY DEF IInv, Unlink, Control
  <2>2. Linked(n) /\ key[n] = arg[t]
    BY <2>1 DEF IInv, Targets
  <2>3. arg[t] \in Key
    BY <2>1 DEF IInv, Control
  <2>4. QED
    BY <2>1, <2>2, <2>3
<1>4. In(b, n) /\ \A c \in Bucket, m \in Node : In(c, m)' <=> In(c, m) /\ m # n
  BY <1>2, <1>3, DeleteEffect DEF IInv, Ownership, UnlinkAt
<1>5. KeysLinked /\ KeysLinked' /\ AllocatedInPlace /\ DistinctKeys
  BY View, PresentKeys, PresentKeysNext DEF IInv, Unique, Ownership, SetView
<1>6. \A c \in Bucket, m \in Node : In(c, m) /\ key[m] = arg[t] => m = n
  BY <1>3, <1>4, <1>5 DEF AllocatedInPlace, DistinctKeys
<1>7. \A k : k \in Present' <=> k \in Present /\ k # arg[t]
  BY <1>3, <1>4, <1>5, <1>6 DEF KeysLinked
<1>8. arg[t] \in Present
  BY <1>3, <1>4, <1>5 DEF KeysLinked
<1>9. QED
  BY <1>7, <1>8

\* A step that leaves the chains alone, and the keys of the linked nodes, leaves
\* the keys of the table alone.
LEMMA SamePresent ==
    ASSUME TypeOK, TypeOK', UNCHANGED chain,
           \A n \in Node : Linked(n) => key'[n] = key[n]
    PROVE  UNCHANGED Present
<1>1. KeysLinked /\ KeysLinked' /\ \A b, n : In(b, n)' <=> In(b, n)
  BY PresentKeys, PresentKeysNext DEF In
<1>2. \A b \in Bucket, n \in Node : In(b, n) => key'[n] = key[n]
  BY LinkedIn
<1>3. \A k : k \in Present' <=> k \in Present
  BY <1>1, <1>2 DEF KeysLinked
<1>4. QED
  BY <1>3

\* The steps of KeyTable, over the keys of the table.
LEMMA TableSteps ==
    ASSUME NEW t \in Thread
    PROVE  /\ UNCHANGED <<Present, op, arg, ret>> => UNCHANGED Table!vars
           /\ (/\ op[t] = "none" /\ UNCHANGED Present
               /\ \E o \in {"add", "del"}, k \in Key : /\ op'  = [op EXCEPT ![t] = o]
                                                       /\ arg' = [arg EXCEPT ![t] = k]
               /\ ret' = [ret EXCEPT ![t] = "pending"]) => Table!Next
           /\ (/\ ret[t] \notin {"none", "pending"} /\ UNCHANGED Present
               /\ op'  = [op EXCEPT ![t] = "none"]
               /\ arg' = [arg EXCEPT ![t] = NULL]
               /\ ret' = [ret EXCEPT ![t] = "none"]) => Table!Next
           /\ \A r \in {"ok", "fail", "nomem"} :
                (/\ ret[t] = "pending" /\ ret' = [ret EXCEPT ![t] = r]
                 /\ UNCHANGED <<op, arg>>
                 /\ \/ op[t] = "add" /\ r = "fail" /\ arg[t] \in Present /\ UNCHANGED Present
                    \/ op[t] = "add" /\ r = "ok" /\ arg[t] \notin Present /\ Present' = Present \cup {arg[t]}
                    \/ op[t] = "add" /\ r = "nomem" /\ UNCHANGED Present
                    \/ op[t] = "del" /\ r = "ok" /\ arg[t] \in Present /\ Present' = Present \ {arg[t]}
                    \/ op[t] = "del" /\ r = "fail" /\ arg[t] \notin Present /\ UNCHANGED Present)
                => Table!Next
           /\ (\A u \in Thread : op[u] = "none") /\ Present' = {} /\ UNCHANGED <<op, arg, ret>>
                => Table!Next
<1> USE DEF Present
<1>1. UNCHANGED <<Present, op, arg, ret>> => UNCHANGED Table!vars
  BY DEF Table!vars
<1>2. (/\ op[t] = "none" /\ UNCHANGED Present
       /\ \E o \in {"add", "del"}, k \in Key : /\ op'  = [op EXCEPT ![t] = o]
                                               /\ arg' = [arg EXCEPT ![t] = k]
       /\ ret' = [ret EXCEPT ![t] = "pending"]) => Table!Next
  BY Zenon DEF Table!Next, Table!Invoke
<1>3. (/\ ret[t] \notin {"none", "pending"} /\ UNCHANGED Present
       /\ op'  = [op EXCEPT ![t] = "none"]
       /\ arg' = [arg EXCEPT ![t] = NULL]
       /\ ret' = [ret EXCEPT ![t] = "none"]) => Table!Next
  BY Zenon DEF Table!Next, Table!Return
<1>4. ASSUME NEW r \in {"ok", "fail", "nomem"},
             ret[t] = "pending", ret' = [ret EXCEPT ![t] = r], UNCHANGED <<op, arg>>,
             \/ op[t] = "add" /\ r = "fail" /\ arg[t] \in Present /\ UNCHANGED Present
             \/ op[t] = "add" /\ r = "ok" /\ arg[t] \notin Present /\ Present' = Present \cup {arg[t]}
             \/ op[t] = "add" /\ r = "nomem" /\ UNCHANGED Present
             \/ op[t] = "del" /\ r = "ok" /\ arg[t] \in Present /\ Present' = Present \ {arg[t]}
             \/ op[t] = "del" /\ r = "fail" /\ arg[t] \notin Present /\ UNCHANGED Present
      PROVE  Table!Next
  <2>1. Table!Add(t) \/ Table!AddNoMem(t) \/ Table!Del(t)
    BY <1>4, Zenon DEF Table!Add, Table!AddNoMem, Table!Del, Table!Effect
  <2>2. QED
    BY <2>1, Zenon DEF Table!Next
<1>5. (\A u \in Thread : op[u] = "none") /\ Present' = {} /\ UNCHANGED <<op, arg, ret>>
      => Table!Next
  BY Zenon DEF Table!Next, Table!Flush
<1>6. QED
  BY <1>1, <1>2, <1>3, <1>4, <1>5, Zenon

\* what the refinement rests on: the invariant of the table, and where the calls are
RefInv == IInv /\ Answered

\* Every step of the table is a step of KeyTable, or changes nothing that
\* KeyTable sees: an addition takes effect where it links its node, finds a
\* duplicate or gets no memory, a deletion where it unlinks or finds nothing.
LEMMA TableRefines ==
    ASSUME Ops \subseteq {"add", "del"}, RefInv, TypeOK', Flushed', [Next]_vars
    PROVE  [Table!Next]_(Table!vars)
<1> USE DEF Goto, Result
<1>1. /\ TypeOK /\ Control /\ Ownership /\ Flushed /\ Answered
      /\ \A t \in Thread : op[t] \in {"none", "add", "del"}
      /\ "radd" \notin Ops
  BY DEF RefInv, IInv, TypeOK
<1>2. CASE UNCHANGED vars
  <2>1. UNCHANGED <<chain, key, op, arg, ret>>
    BY <1>2 DEF vars, table
  <2>2. UNCHANGED Present
    BY <1>1, <2>1, SamePresent
  <2>3. QED
    BY <2>1, <2>2 DEF Table!vars, Present
<1>3. ASSUME NEW t \in Thread, UNCHANGED <<op, arg, ret>>, Silent(t)
      PROVE  [Table!Next]_(Table!vars)
  <2>1. UNCHANGED Present
    BY <1>1, <1>3, SilentTable, SamePresent
  <2>2. QED
    BY <1>3, <2>1, TableSteps
<1>4. ASSUME NEW t \in Thread, CallAdd(t) PROVE [Table!Next]_(Table!vars)
  <2>1. PICK k \in Key, o \in {"add", "radd"}, n \in Node :
            /\ Call(t, o, k) /\ key[n] = NULL /\ key' = [key EXCEPT ![n] = k] /\ chain' = chain
    BY <1>4 DEF CallAdd
  <2>2. ~Linked(n)
    BY <1>1, <2>1, SentinelAssumption, View, LinkedIn DEF Ownership, SetView, AllocatedInPlace
  <2>3. UNCHANGED Present
    BY <1>1, <2>1, <2>2, SamePresent DEF TypeOK
  <2>4. op[t] = "none" /\ o = "add"
    BY <1>1, <2>1 DEF Call, Control
  <2>5. QED
    BY <2>1, <2>3, <2>4, TableSteps DEF Call
<1>5. ASSUME NEW t \in Thread, CallAddNoMem(t) \/ CallDel(t) PROVE [Table!Next]_(Table!vars)
  <2>1. PICK k \in Key, o \in {"add", "radd", "del", "rdel"} : Call(t, o, k)
    BY <1>5 DEF CallAddNoMem, CallDel
  <2>2. op[t] = "none" /\ o \in {"add", "del"}
    BY <1>1, <2>1 DEF Call, Control
  <2>3. UNCHANGED Present
    BY <1>1, <1>5, SilentTable, SamePresent DEF Silent
  <2>4. QED
    BY <2>1, <2>2, <2>3, TableSteps DEF Call
<1>6. ASSUME NEW t \in Thread, CallDelByAddr(t) \/ CallLookup(t) \/ CallEach(t) PROVE FALSE
  BY <1>6 DEF CallDelByAddr, CallLookup, CallEach, Call
<1>7. ASSUME NEW t \in Thread, NoMem(t) PROVE [Table!Next]_(Table!vars)
  <2>1. /\ op[t] = "add" /\ ret[t] = "pending" /\ ret' = [ret EXCEPT ![t] = "nomem"]
        /\ UNCHANGED <<op, arg>>
    BY <1>1, <1>7 DEF NoMem, Control, Answered
  <2>2. UNCHANGED Present
    BY <1>1, <1>7, SilentTable, SamePresent DEF Silent
  <2>3. QED
    BY <2>1, <2>2, TableSteps
<1>8. ASSUME NEW t \in Thread, AddFound(t) PROVE [Table!Next]_(Table!vars)
  <2>1. /\ op[t] = "add" /\ ret[t] = "pending" /\ ret' = [ret EXCEPT ![t] = "fail"]
        /\ UNCHANGED <<op, arg>> /\ arg[t] \in Key
    BY <1>1, <1>8 DEF AddFound, Control, Answered
  <2>2. arg[t] \in Present
    BY <1>1, <1>8, <2>1, PresentHere DEF AddFound, Ownership
  <2>3. UNCHANGED Present
    BY <1>1, <1>8, SilentTable, SamePresent DEF Silent
  <2>4. QED
    BY <2>1, <2>2, <2>3, TableSteps
<1>9. ASSUME NEW t \in Thread, DelAbsent(t) PROVE [Table!Next]_(Table!vars)
  <2>1. /\ op[t] = "del" /\ ret[t] = "pending" /\ ret' = [ret EXCEPT ![t] = "fail"]
        /\ UNCHANGED <<op, arg>> /\ arg[t] \in Key
    BY <1>1, <1>9 DEF DelAbsent, Control, Answered
  <2>2. arg[t] \notin Present
    BY <1>1, <1>9, <2>1, PresentHere DEF DelAbsent, Ownership
  <2>3. UNCHANGED Present
    BY <1>1, <1>9, SilentTable, SamePresent DEF Silent
  <2>4. QED
    BY <2>1, <2>2, <2>3, TableSteps
<1>10. ASSUME NEW t \in Thread, Insert(t) PROVE [Table!Next]_(Table!vars)
  <2>1. /\ op[t] = "add" /\ ret[t] = "pending" /\ ret' = [ret EXCEPT ![t] = "ok"]
        /\ UNCHANGED <<op, arg>>
    BY <1>1, <1>10 DEF Insert, Control, Answered
  <2>2. arg[t] \notin Present /\ Present' = Present \cup {arg[t]}
    BY <1>1, <1>10, InsertPresent DEF RefInv
  <2>3. QED
    BY <2>1, <2>2, TableSteps
<1>11. ASSUME NEW t \in Thread, Unlink(t) PROVE [Table!Next]_(Table!vars)
  <2>1. /\ op[t] = "del" /\ ret[t] = "pending" /\ ret' = [ret EXCEPT ![t] = "ok"]
        /\ UNCHANGED <<op, arg>>
    BY <1>1, <1>11 DEF Unlink, Control, Answered
  <2>2. arg[t] \in Present /\ Present' = Present \ {arg[t]}
    BY <1>1, <1>11, UnlinkPresent DEF RefInv
  <2>3. QED
    BY <2>1, <2>2, TableSteps
<1>12. ASSUME NEW t \in Thread, Free(t) PROVE [Table!Next]_(Table!vars)
  <2>1. /\ pc[t] = "free" /\ key' = [key EXCEPT ![ptr[t]] = NULL] /\ ptr[t] \in Node
        /\ UNCHANGED <<chain, op, arg, ret>>
    BY <1>1, <1>12 DEF Free, Control
  <2>2. ~Linked(ptr[t])
    BY <1>1, <2>1 DEF Ownership, HeldPrivately, Holds
  <2>3. UNCHANGED Present
    BY <1>1, <2>1, <2>2, SamePresent DEF TypeOK
  <2>4. QED
    BY <2>1, <2>3, TableSteps
<1>13. ASSUME NEW t \in Thread,
              \/ LockThenSearch(t) \/ LockThenLink(t) \/ LockThenUnlink(t) \/ LockThenWalk(t)
              \/ AddAbsent(t) \/ DelFound(t) \/ Crash(t)
       PROVE  [Table!Next]_(Table!vars)
  <2>1. UNCHANGED <<op, arg, ret>>
    BY <1>13 DEF LockThenSearch, LockThenLink, LockThenUnlink, LockThenWalk, AddAbsent,
       DelFound, Crash
  <2>2. Silent(t)
    BY <1>13 DEF Silent
  <2>3. QED
    BY <1>3, <2>1, <2>2
<1>14. ASSUME NEW t \in Thread,
              \/ VisitDel(t) \/ EndDel(t) \/ VisitLookup(t) \/ VisitEach(t)
              \/ Callback(t) \/ Relock(t) \/ NextBucket(t) \/ EndEach(t)
       PROVE  FALSE
  BY <1>1, <1>14 DEF VisitDel, EndDel, VisitLookup, VisitEach, Callback, Relock,
     NextBucket, EndEach, Control
<1>15. ASSUME NEW t \in Thread, Return(t) PROVE [Table!Next]_(Table!vars)
  <2>1. /\ ret[t] \notin {"none", "pending"}
        /\ op'  = [op EXCEPT ![t] = "none"]
        /\ arg' = [arg EXCEPT ![t] = NULL]
        /\ ret' = [ret EXCEPT ![t] = "none"]
    BY <1>1, <1>15 DEF Return, Answered
  <2>2. UNCHANGED Present
    BY <1>1, <1>15, SilentTable, SamePresent DEF Silent
  <2>3. QED
    BY <2>1, <2>2, TableSteps
<1>16. CASE Flush
  <2>1. (\A u \in Thread : op[u] = "none") /\ UNCHANGED <<op, arg, ret>>
    BY <1>1, <1>16 DEF Flush, Control
  <2>2. Present' = {}
    BY <1>16 DEF Flush, Present, Absent
  <2>3. QED
    BY <2>1, <2>2, Zenon DEF Table!Next, Table!Flush, Present
<1>17. CASE TableInit
  <2>1. UNCHANGED <<key, op, arg, ret>>
    BY <1>17 DEF TableInit
  <2>2. chain' = chain
    BY <1>1, <1>17 DEF TableInit, Flushed, TypeOK
  <2>3. UNCHANGED Present
    BY <1>1, <2>1, <2>2, SamePresent
  <2>4. QED
    BY <2>1, <2>3 DEF Table!vars, Present
<1>18. QED
  BY <1>2, <1>4, <1>5, <1>6, <1>7, <1>8, <1>9, <1>10, <1>11, <1>12, <1>13, <1>14,
     <1>15, <1>16, <1>17 DEF Next, Calls, Step

\* hash_table_add and hash_table_del are linearizable: with the lock, every call
\* takes effect in one step between its invocation and its return, on a set of
\* keys, and answers accordingly, for every number of callers, keys and buckets
\* (hash_list.c:254-420).
THEOREM TableLinearizable ==
    Discipline /\ Ops \subseteq {"add", "del"} => (Spec => Linearizable)
<1> SUFFICES ASSUME Discipline, Ops \subseteq {"add", "del"} PROVE Spec => Linearizable
  OBVIOUS
<1>1. Init => Answered
  BY DEF Init, Answered
<1>2. IInv /\ Answered /\ [Next]_vars => Answered'
  BY AnsweredStep DEF IInv
<1>3. Spec => []RefInv
  BY <1>1, <1>2, Inductive, PTL DEF Spec, RefInv
<1>4. Init => Table!Init
  BY DEF Init, Table!Init, Absent
<1>5. RefInv /\ RefInv' /\ [Next]_vars => [Table!Next]_(Table!vars)
  BY TableRefines DEF RefInv, IInv
<1>6. QED
  BY <1>3, <1>4, <1>5, PTL DEF Spec, Linearizable, Table!Spec

=============================================================================
