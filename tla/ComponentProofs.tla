---------------------------- MODULE ComponentProofs ----------------------------
(***************************************************************************)
(* Proofs about three components that share no memory with the others: the *)
(* walk over the hash table, the timer library, the dictionary and its INI *)
(* parser, for all values of their constants.                              *)
(***************************************************************************)
EXTENDS HashWalk, TimerLib, IniParser, ListLemmas, FiniteSetTheorems

-----------------------------------------------------------------------------
(* HashWalk: for every set of keys, every table and hash                    *)

\* What each variable is; an element is in the chain its key hashes to.
WTypes == /\ chain \in [Bucket -> Seq(WKey)]
          /\ \A b \in Bucket : Len(chain[b]) <= MaxLen
          /\ cur \in WKey \cup {NULL} /\ seen \subseteq WKey /\ stable \subseteq WKey
WHashed == \A b \in Bucket : \A i \in DOMAIN chain[b] : Hash[chain[b][i]] = b

\* A walk passes an element equal to k after one that is equal to u.
After(u, k) == \E p, q \in Pos : At(p) = u /\ At(q) = k /\ Before(p, q)

\* What was there all the time and has not been returned is still to come after
\* the first element that is equal to the walker's.
WOn == walk = "on" =>
    /\ stable \subseteq Present
    /\ cur = NULL => seen = {}
    /\ cur # NULL => /\ cur \in Present /\ cur \in seen
                     /\ \A k \in seen : Hash[k] <= Hash[cur]
                     /\ \A k \in stable : k \in seen \/ After(cur, k)

\* Without equal elements nothing that was returned is still to come, even if it
\* is deleted and added again.
WApart == ~dup =>
    /\ Distinct
    /\ walk = "on" /\ cur # NULL => \A k \in seen : ~ After(cur, k)

WInv == WTypes /\ WHashed /\ WOn /\ WApart /\ Complete

-----------------------------------------------------------------------------
\* A chain is a sequence over the numbers from 1 to its length.
LEMMA WChains ==
    ASSUME WTypes, NEW b \in Bucket
    PROVE  /\ chain[b] \in Seq(WKey) /\ Len(chain[b]) \in Nat
           /\ DOMAIN chain[b] = 1 .. Len(chain[b]) /\ Len(chain[b]) <= MaxLen
           /\ \A i \in DOMAIN chain[b] : chain[b][i] \in WKey
  BY DEF WTypes

\* Buckets are numbers.
LEMMA WHash == /\ HashSize \in Nat /\ MaxLen \in Nat /\ \A b \in Bucket : b \in Nat
               /\ \A k \in WKey : Hash[k] \in Bucket /\ Hash[k] \in Nat
  BY HashAssumption, WalkAssumption DEF Bucket

\* The positions of the table are the places of its chains.
LEMMA WPlace ==
    ASSUME WTypes, NEW b \in Bucket, NEW i \in DOMAIN chain[b]
    PROVE  <<b, i>> \in Pos /\ At(<<b, i>>) = chain[b][i]
<1>1. i \in 1 .. MaxLen /\ i <= Len(chain[b])
  BY WChains, WHash
<1>2. QED
  BY <1>1 DEF Pos, At

LEMMA WPos ==
    ASSUME WTypes, NEW p \in Pos
    PROVE  /\ p[1] \in Bucket /\ p[1] \in Nat /\ p[2] \in Nat /\ p[2] >= 1
           /\ p = <<p[1], p[2]>> /\ p[2] \in DOMAIN chain[p[1]]
           /\ At(p) = chain[p[1]][p[2]] /\ At(p) \in Present /\ At(p) \in WKey
           /\ WHashed => p[1] = Hash[At(p)]
<1>1. /\ p[1] \in Bucket /\ p[2] \in 1 .. MaxLen /\ p[2] <= Len(chain[p[1]])
      /\ p = <<p[1], p[2]>>
  BY DEF Pos
<1>2. p[2] \in DOMAIN chain[p[1]] /\ p[2] \in Nat /\ p[2] >= 1 /\ p[1] \in Nat
  BY <1>1, WChains, WHash
<1>3. At(p) = chain[p[1]][p[2]] /\ At(p) \in Present
  BY DEF At, Present
<1>4. At(p) \in WKey
  BY <1>1, <1>2, <1>3, WChains
<1>5. QED
  BY <1>1, <1>2, <1>3, <1>4 DEF WHashed

\* A walk passes the positions one after the other.
LEMMA WOrder ==
    ASSUME WTypes
    PROVE  /\ \A p, q \in Pos : Before(p, q) \/ p = q \/ Before(q, p)
           /\ \A p \in Pos : ~ Before(p, p)
           /\ \A p, q, r \in Pos : Before(p, q) /\ Before(q, r) => Before(p, r)
<1>1. \A p \in Pos : p[1] \in Nat /\ p[2] \in Nat /\ p = <<p[1], p[2]>>
  BY WPos
<1>2. ASSUME NEW p \in Pos, NEW q \in Pos PROVE Before(p, q) \/ p = q \/ Before(q, p)
  <2>1. p[1] = q[1] /\ p[2] = q[2] => p = q
    BY <1>1
  <2>2. QED
    BY <1>1, <2>1 DEF Before
<1>3. ASSUME NEW p \in Pos PROVE ~ Before(p, p)
  BY <1>1 DEF Before
<1>4. ASSUME NEW p \in Pos, NEW q \in Pos, NEW r \in Pos, Before(p, q), Before(q, r)
      PROVE  Before(p, r)
  BY <1>1, <1>4 DEF Before
<1>5. QED
  BY <1>2, <1>3, <1>4

\* A set of positions that is not empty has one a walk passes first.
LEMMA WFirst ==
    ASSUME WTypes, NEW S \in SUBSET Pos, S # {}
    PROVE  \E q \in S : \A r \in S : r = q \/ Before(q, r)
<1>1. \A p \in S : p[1] \in Nat /\ p[2] \in Nat /\ p = <<p[1], p[2]>>
  BY WPos
<1>2. PICK h \in {p[1] : p \in S} : \A j \in {p[1] : p \in S} : h <= j
  <2>1. {p[1] : p \in S} \in SUBSET Nat /\ {p[1] : p \in S} # {}
    BY <1>1
  <2>2. QED
    BY <2>1, Least
<1> DEFINE T == {p \in S : p[1] = h}
<1>3. PICK i \in {p[2] : p \in T} : \A j \in {p[2] : p \in T} : i <= j
  <2>1. {p[2] : p \in T} \in SUBSET Nat /\ {p[2] : p \in T} # {}
    BY <1>1, <1>2
  <2>2. QED
    BY <2>1, Least
<1>4. PICK q \in T : q[2] = i
  BY <1>3
<1>5. ASSUME NEW r \in S PROVE r = q \/ Before(q, r)
  <2>1. h <= r[1] /\ h \in Nat /\ r[1] \in Nat /\ r[2] \in Nat /\ q[1] = h /\ q[2] = i
    BY <1>1, <1>2, <1>4
  <2>2. CASE r[1] # h
    BY <2>1, <2>2 DEF Before
  <2>3. CASE r[1] = h
    <3>1. i <= r[2] /\ i \in Nat
      BY <1>1, <1>3, <2>3
    <3>2. r[2] = i => r = q
      BY <1>1, <1>4, <2>1, <2>3
    <3>3. QED
      BY <2>1, <2>3, <3>1, <3>2 DEF Before
  <2>4. QED
    BY <2>2, <2>3
<1>6. QED
  BY <1>4, <1>5

\* The search for u may stop behind the first element that is equal to u.
LEMMA WBehind ==
    ASSUME WTypes, WHashed, NEW u \in WKey, NEW q \in Pos
    PROVE  q \in Behind(u) <=> At(q) # u /\ \E p \in Pos : At(p) = u /\ Before(p, q)
<1>1. \A p \in Pos : At(p) = u => p[1] >= Hash[u]
  BY WPos, WHash
<1>2. QED
  BY <1>1 DEF Behind

\* hash_table_next_by_user returns the first of those elements, at first the
\* first of the table, and NULL when there is none.
LEMMA WNext ==
    ASSUME WTypes, NEW u
    PROVE  LET C == IF u = NULL THEN Pos ELSE Behind(u)
           IN  /\ C = {} => NextByUser(u) = NULL
               /\ C # {} => \E c \in C : /\ NextByUser(u) = At(c) /\ At(c) # NULL /\ c \in Pos
                                         /\ \A r \in C : r = c \/ Before(c, r)
<1> DEFINE C == IF u = NULL THEN Pos ELSE Behind(u)
<1>1. C \in SUBSET Pos
  BY DEF Behind
<1>2. NextByUser(u) = IF C = {} THEN NULL ELSE At(CHOOSE q \in C : \A r \in C : r = q \/ Before(q, r))
  BY DEF NextByUser
<1> HIDE DEF C
<1>3. ASSUME C # {}
      PROVE  \E c \in C : /\ NextByUser(u) = At(c) /\ At(c) # NULL /\ c \in Pos
                          /\ \A r \in C : r = c \/ Before(c, r)
  <2>1. \E q \in C : \A r \in C : r = q \/ Before(q, r)
    BY <1>1, <1>3, WFirst
  <2> DEFINE w == CHOOSE q \in C : \A r \in C : r = q \/ Before(q, r)
  <2>2. w \in C /\ \A r \in C : r = w \/ Before(w, r)
    BY <2>1
  <2>3. NextByUser(u) = At(w)
    BY <1>2, <1>3
  <2> HIDE DEF w
  <2>4. w \in Pos /\ At(w) # NULL
    BY <1>1, <2>2, WPos, WalkAssumption
  <2>5. QED
    BY <2>2, <2>3, <2>4
<1>4. QED
  BY <1>2, <1>3 DEF C

-----------------------------------------------------------------------------
\* An addition puts k before the elements of its chain and keeps their order.
LEMMA LinkKeeps ==
    ASSUME WTypes, WHashed, NEW k \in WKey, Link(k)
    PROVE  /\ chain' \in [Bucket -> Seq(WKey)] /\ \A b \in Bucket : Len(chain'[b]) <= MaxLen
           /\ WHashed'
           /\ Present' = Present \cup {k}
           /\ \A u, m : After(u, m) => After(u, m)'
           /\ \A u, m : After(u, m)' /\ u # k => After(u, m) \/ (m = k /\ Hash[u] < Hash[k])
           /\ Distinct /\ k \notin Present => Distinct'
<1> DEFINE c == Hash[k]
           New(p) == IF p[1] = c THEN <<c, p[2] + 1>> ELSE p
<1>1. c \in Bucket /\ c \in Nat
  BY WHash
<1>2. Len(chain[c]) < MaxLen /\ chain' = [chain EXCEPT ![c] = <<k>> \o @]
  BY DEF Link
<1>3. /\ chain[c] \in Seq(WKey) /\ Len(chain[c]) \in Nat
      /\ DOMAIN chain[c] = 1 .. Len(chain[c])
  BY <1>1, WChains
<1>4. /\ chain'[c] = <<k>> \o chain[c]
      /\ \A b \in Bucket : b # c => chain'[b] = chain[b]
      /\ DOMAIN chain' = Bucket
  BY <1>1, <1>2 DEF WTypes
<1>5. /\ chain'[c] \in Seq(WKey) /\ Len(chain'[c]) = Len(chain[c]) + 1
      /\ DOMAIN chain'[c] = 1 .. Len(chain[c]) + 1
      /\ chain'[c][1] = k
      /\ \A i \in 1 .. Len(chain[c]) : chain'[c][i + 1] = chain[c][i]
  <2>1. /\ <<k>> \o chain[c] \in Seq(WKey)
        /\ DOMAIN (<<k>> \o chain[c]) = 1 .. Len(chain[c]) + 1
        /\ (<<k>> \o chain[c])[1] = k
        /\ \A i \in 1 .. Len(chain[c]) : (<<k>> \o chain[c])[i + 1] = chain[c][i]
    BY <1>3, LinkHeadPlaces
  <2>2. Len(<<k>> \o chain[c]) = Len(chain[c]) + 1
    BY <1>3
  <2>3. QED
    BY <1>4, <2>1, <2>2
<1> HIDE DEF c
<1>6. chain' \in [Bucket -> Seq(WKey)] /\ \A b \in Bucket : Len(chain'[b]) <= MaxLen
  <2>1. ASSUME NEW b \in Bucket PROVE chain'[b] \in Seq(WKey) /\ Len(chain'[b]) <= MaxLen
    <3>1. CASE b = c
      BY <1>2, <1>3, <1>5, <3>1, WHash
    <3>2. CASE b # c
      BY <1>4, <3>2, WChains
    <3>3. QED
      BY <3>1, <3>2
  <2>2. chain' = [b \in Bucket |-> chain'[b]]
    BY <1>2 DEF WTypes
  <2>3. QED
    BY <2>1, <2>2
<1>7. WHashed'
  <2> SUFFICES ASSUME NEW b \in Bucket, NEW i \in DOMAIN chain'[b]
               PROVE  Hash[chain'[b][i]] = b
    BY DEF WHashed
  <2>1. CASE b # c
    BY <1>4, <2>1 DEF WHashed
  <2>2. CASE b = c /\ i = 1
    BY <1>5, <2>2 DEF c
  <2>3. CASE b = c /\ i # 1
    <3>1. i - 1 \in 1 .. Len(chain[c]) /\ (i - 1) + 1 = i
      BY <1>3, <1>5, <2>3
    <3>2. chain'[c][i] = chain[c][i - 1]
      BY <1>5, <3>1
    <3>3. QED
      BY <1>1, <1>3, <2>3, <3>1, <3>2 DEF WHashed
  <2>4. QED
    BY <2>1, <2>2, <2>3
<1>8. \A q : q \in Pos' <=> /\ q \in Bucket \X (1 .. MaxLen) /\ q[2] <= Len(chain'[q[1]])
  BY DEF Pos
<1>9. <<c, 1>> \in Pos' /\ At(<<c, 1>>)' = k
  <2>1. 1 \in 1 .. MaxLen /\ 1 <= Len(chain'[c])
    BY <1>2, <1>3, <1>5, WHash
  <2>2. QED
    BY <1>1, <1>5, <1>8, <2>1 DEF At
<1>10. ASSUME NEW p \in Pos PROVE New(p) \in Pos' /\ At(New(p))' = At(p)
  <2>1. /\ p[1] \in Bucket /\ p[2] \in DOMAIN chain[p[1]] /\ At(p) = chain[p[1]][p[2]]
        /\ p = <<p[1], p[2]>>
    BY WPos
  <2>2. CASE p[1] = c
    <3>1. /\ p[2] \in 1 .. Len(chain[c]) /\ p[2] + 1 \in 1 .. MaxLen
          /\ p[2] + 1 <= Len(chain'[c])
      BY <1>2, <1>3, <1>5, <2>1, <2>2, WHash
    <3>2. New(p) = <<c, p[2] + 1>> /\ chain'[c][p[2] + 1] = chain[c][p[2]]
      BY <1>5, <2>2, <3>1
    <3>3. QED
      BY <1>1, <1>8, <2>1, <2>2, <3>1, <3>2 DEF At
  <2>3. CASE p[1] # c
    <3>1. New(p) = p /\ chain'[p[1]] = chain[p[1]]
      BY <1>4, <2>1, <2>3
    <3>2. p \in Bucket \X (1 .. MaxLen) /\ p[2] <= Len(chain[p[1]])
      BY DEF Pos
    <3>3. QED
      BY <1>8, <3>1, <3>2 DEF At
  <2>4. QED
    BY <2>2, <2>3
<1>11. ASSUME NEW q \in Pos'
       PROVE  q = <<c, 1>> \/ \E p \in Pos : q = New(p) /\ At(q)' = At(p)
  <2>1. /\ q[1] \in Bucket /\ q[2] \in 1 .. MaxLen /\ q[2] <= Len(chain'[q[1]])
        /\ q = <<q[1], q[2]>> /\ At(q)' = chain'[q[1]][q[2]]
    BY <1>8 DEF At
  <2>2. CASE q[1] # c
    <3>1. q \in Pos
      BY <1>4, <1>8, <2>1, <2>2 DEF Pos
    <3>2. At(q)' = At(q) /\ New(q) = q
      BY <1>4, <2>1, <2>2 DEF At
    <3>3. QED
      BY <3>1, <3>2
  <2>3. CASE q[1] = c /\ q[2] = 1
    BY <2>1, <2>3
  <2>4. CASE q[1] = c /\ q[2] # 1
    <3> DEFINE p == <<c, q[2] - 1>>
    <3>1. q[2] - 1 \in 1 .. Len(chain[c]) /\ (q[2] - 1) + 1 = q[2]
      BY <1>3, <1>5, <2>1, <2>4, WHash
    <3>2. p \in Pos /\ At(p) = chain[c][q[2] - 1]
      BY <1>1, <1>3, <3>1, WPlace
    <3>3. At(q)' = chain[c][q[2] - 1]
      BY <1>5, <2>1, <2>4, <3>1
    <3>4. New(p) = q
      BY <2>1, <2>4, <3>1
    <3>5. QED
      BY <3>2, <3>3, <3>4
  <2>5. QED
    BY <2>2, <2>3, <2>4
<1>12. ASSUME NEW p \in Pos, NEW q \in Pos PROVE Before(New(p), New(q)) <=> Before(p, q)
  BY <1>1, WPos DEF Before
<1>13. ASSUME NEW p \in Pos PROVE New(p)[2] >= 1 /\ New(p)[2] \in Nat /\ New(p) # <<c, 1>> /\ New(p)[1] = p[1]
  BY <1>1, WPos
<1> HIDE DEF New
<1>14. Present' = Present \cup {k}
  <2>1. \A m : m \in Present' <=> \E q \in Pos' : At(q)' = m
    BY DEF Present
  <2>2. \A m : m \in Present <=> \E p \in Pos : At(p) = m
    BY DEF Present
  <2>3. ASSUME NEW m \in Present' PROVE m \in Present \cup {k}
    <3>1. PICK q \in Pos' : At(q)' = m
      BY <2>1
    <3>2. QED
      BY <1>9, <1>11, <2>2, <3>1
  <2>4. QED
    BY <1>9, <1>10, <2>1, <2>2, <2>3
<1>15. ASSUME NEW u, NEW m, After(u, m) PROVE After(u, m)'
  <2>1. PICK p \in Pos, q \in Pos : At(p) = u /\ At(q) = m /\ Before(p, q)
    BY <1>15 DEF After
  <2>2. /\ New(p) \in Pos' /\ New(q) \in Pos' /\ At(New(p))' = u /\ At(New(q))' = m
        /\ Before(New(p), New(q))
    BY <1>10, <1>12, <2>1
  <2>3. QED
    BY <2>2 DEF After, Before
<1>16. ASSUME NEW u, NEW m, After(u, m)', u # k PROVE After(u, m) \/ (m = k /\ Hash[u] < Hash[k])
  <2>1. PICK p \in Pos', q \in Pos' : At(p)' = u /\ At(q)' = m /\ Before(p, q)
    BY <1>16 DEF After, Before
  <2>2. PICK p0 \in Pos : p = New(p0) /\ At(p)' = At(p0)
    BY <1>9, <1>11, <1>16, <2>1
  <2>3. CASE q = <<c, 1>>
    <3>1. m = k /\ q[1] = c /\ q[2] = 1
      BY <1>9, <2>1, <2>3
    <3>2. p[2] >= 1 /\ p[2] \in Nat /\ p[1] = p0[1] /\ p0[1] = Hash[u]
      BY <1>13, <2>1, <2>2, WPos
    <3>3. QED
      BY <2>1, <3>1, <3>2 DEF Before, c
  <2>4. CASE q # <<c, 1>>
    <3>1. PICK q0 \in Pos : q = New(q0) /\ At(q)' = At(q0)
      BY <1>11, <2>4
    <3>2. Before(p0, q0)
      BY <1>12, <2>1, <2>2, <3>1
    <3>3. QED
      BY <2>1, <2>2, <3>1, <3>2 DEF After
  <2>5. QED
    BY <2>3, <2>4
<1>17. ASSUME Distinct, k \notin Present PROVE Distinct'
  <2> SUFFICES ASSUME NEW p \in Pos', NEW q \in Pos', At(p)' = At(q)' PROVE p = q
    BY DEF Distinct
  <2>1. \A r \in Pos : At(r) # k
    BY <1>17 DEF Present
  <2>2. CASE p = <<c, 1>> \/ q = <<c, 1>>
    BY <1>9, <1>11, <2>1, <2>2
  <2>3. CASE p # <<c, 1>> /\ q # <<c, 1>>
    <3>1. PICK p0 \in Pos : p = New(p0) /\ At(p)' = At(p0)
      BY <1>11, <2>3
    <3>2. PICK q0 \in Pos : q = New(q0) /\ At(q)' = At(q0)
      BY <1>11, <2>3
    <3>3. p0 = q0
      BY <1>17, <3>1, <3>2 DEF Distinct
    <3>4. QED
      BY <3>1, <3>2, <3>3
  <2>4. QED
    BY <2>2, <2>3
<1>18. QED
  BY <1>6, <1>7, <1>14, <1>15, <1>16, <1>17

\* A deletion of elements equal to k keeps the order of the others.
LEMMA UnlinkKeeps ==
    ASSUME WTypes, WHashed, NEW k \in WKey, NEW I, Unlink(Hash[k], I), I \subseteq PlacesOf(k)
    PROVE  /\ chain' \in [Bucket -> Seq(WKey)] /\ \A b \in Bucket : Len(chain'[b]) <= MaxLen
           /\ WHashed'
           /\ Present \ {k} \subseteq Present' /\ Present' \subseteq Present
           /\ \A u, m : After(u, m) /\ u # k /\ m # k => After(u, m)'
           /\ \A u, m : After(u, m)' => After(u, m)
           /\ Distinct => Distinct'
<1> DEFINE c == Hash[k]
<1>1. c \in Bucket /\ c \in Nat
  BY WHash
<1>0. PICK n \in 0 .. Len(chain[c]) : \E f \in [1 .. n -> DOMAIN chain[c]] :
          /\ \A i, j \in 1 .. n : i < j => f[i] < f[j]
          /\ \A i \in DOMAIN chain[c] : i \in I <=> \A j \in 1 .. n : f[j] # i
          /\ chain' = [chain EXCEPT ![c] = [j \in 1 .. n |-> chain[c][f[j]]]]
  BY DEF Unlink
<1>2. PICK f \in [1 .. n -> DOMAIN chain[c]] :
          /\ \A i, j \in 1 .. n : i < j => f[i] < f[j]
          /\ \A i \in DOMAIN chain[c] : i \in I <=> \A j \in 1 .. n : f[j] # i
          /\ chain' = [chain EXCEPT ![c] = [j \in 1 .. n |-> chain[c][f[j]]]]
  BY <1>0
<1> DEFINE Old(q) == IF q[1] = c THEN <<c, f[q[2]]>> ELSE q
<1>3. /\ chain[c] \in Seq(WKey) /\ Len(chain[c]) \in Nat /\ Len(chain[c]) <= MaxLen
      /\ DOMAIN chain[c] = 1 .. Len(chain[c]) /\ n \in Nat /\ n <= MaxLen
      /\ \A i \in DOMAIN chain[c] : chain[c][i] \in WKey
  BY <1>1, WChains, WHash
<1>4. /\ chain'[c] = [j \in 1 .. n |-> chain[c][f[j]]]
      /\ \A b \in Bucket : b # c => chain'[b] = chain[b]
  BY <1>1, <1>2 DEF WTypes
<1>5. /\ chain'[c] \in Seq(WKey) /\ Len(chain'[c]) = n /\ DOMAIN chain'[c] = 1 .. n
      /\ \A j \in 1 .. n : chain'[c][j] = chain[c][f[j]] /\ f[j] \in DOMAIN chain[c]
  <2> DEFINE t == [j \in 1 .. n |-> chain[c][f[j]]]
  <2>1. \A j \in 1 .. n : f[j] \in DOMAIN chain[c] /\ chain[c][f[j]] \in WKey
    BY <1>2, <1>3
  <2>2. t \in Seq(WKey) /\ Len(t) = n /\ DOMAIN t = 1 .. n
    BY <1>3, <2>1
  <2>3. \A j \in 1 .. n : t[j] = chain[c][f[j]]
    OBVIOUS
  <2> HIDE DEF t
  <2>4. chain'[c] = t
    BY <1>4 DEF t
  <2>5. QED
    BY <2>1, <2>2, <2>3, <2>4
<1>6. \A i \in DOMAIN chain[c] : chain[c][i] # k => \E j \in 1 .. n : f[j] = i
  BY <1>2 DEF PlacesOf, c
<1> HIDE DEF c
<1>7. chain' \in [Bucket -> Seq(WKey)] /\ \A b \in Bucket : Len(chain'[b]) <= MaxLen
  <2>1. ASSUME NEW b \in Bucket PROVE chain'[b] \in Seq(WKey) /\ Len(chain'[b]) <= MaxLen
    <3>1. CASE b = c
      BY <1>3, <1>5, <3>1
    <3>2. CASE b # c
      BY <1>4, <3>2, WChains
    <3>3. QED
      BY <3>1, <3>2
  <2>2. chain' = [b \in Bucket |-> chain'[b]]
    BY <1>2 DEF WTypes
  <2>3. QED
    BY <2>1, <2>2
<1>8. WHashed'
  <2> SUFFICES ASSUME NEW b \in Bucket, NEW i \in DOMAIN chain'[b]
               PROVE  Hash[chain'[b][i]] = b
    BY DEF WHashed
  <2>1. CASE b # c
    BY <1>4, <2>1 DEF WHashed
  <2>2. CASE b = c
    BY <1>1, <1>5, <2>2 DEF WHashed
  <2>3. QED
    BY <2>1, <2>2
<1>9. \A q : q \in Pos' <=> /\ q \in Bucket \X (1 .. MaxLen) /\ q[2] <= Len(chain'[q[1]])
  BY DEF Pos
<1>10. ASSUME NEW q \in Pos' PROVE Old(q) \in Pos /\ At(q)' = At(Old(q))
  <2>1. /\ q[1] \in Bucket /\ q[2] \in 1 .. MaxLen /\ q[2] <= Len(chain'[q[1]])
        /\ q = <<q[1], q[2]>> /\ At(q)' = chain'[q[1]][q[2]]
    BY <1>9 DEF At
  <2>2. CASE q[1] = c
    <3>1. q[2] \in 1 .. n
      BY <1>3, <1>5, <2>1, <2>2, WHash
    <3>2. Old(q) = <<c, f[q[2]]>> /\ f[q[2]] \in DOMAIN chain[c]
      BY <1>5, <2>2, <3>1
    <3>3. Old(q) \in Pos /\ At(Old(q)) = chain[c][f[q[2]]]
      BY <1>1, <3>2, WPlace
    <3>4. QED
      BY <1>5, <2>1, <2>2, <3>1, <3>3
  <2>3. CASE q[1] # c
    BY <1>4, <1>9, <2>1, <2>3 DEF Pos, At
  <2>4. QED
    BY <2>2, <2>3
<1>11. ASSUME NEW p \in Pos, At(p) # k PROVE \E q \in Pos' : p = Old(q) /\ At(q)' = At(p)
  <2>1. /\ p[1] \in Bucket /\ p[2] \in DOMAIN chain[p[1]] /\ At(p) = chain[p[1]][p[2]]
        /\ p = <<p[1], p[2]>>
    BY WPos
  <2>2. CASE p[1] = c
    <3>1. PICK j \in 1 .. n : f[j] = p[2]
      BY <1>6, <1>11, <2>1, <2>2
    <3> DEFINE q == <<c, j>>
    <3>2. q[1] = c /\ q[2] = j /\ q \in Pos'
      <4>1. j \in 1 .. MaxLen /\ j <= Len(chain'[c])
        BY <1>3, <1>5, WHash
      <4>2. QED
        BY <1>1, <1>9, <4>1
    <3>3. Old(q) = p
      BY <2>1, <2>2, <3>1, <3>2
    <3>4. QED
      BY <1>10, <3>2, <3>3
  <2>3. CASE p[1] # c
    <3>1. p \in Bucket \X (1 .. MaxLen) /\ p[2] <= Len(chain[p[1]])
      BY DEF Pos
    <3>2. p \in Pos' /\ Old(p) = p
      BY <1>4, <1>9, <2>1, <2>3, <3>1
    <3>3. QED
      BY <1>10, <3>2
  <2>4. QED
    BY <2>2, <2>3
<1>12. ASSUME NEW p \in Pos', NEW q \in Pos'
       PROVE  /\ Before(Old(p), Old(q)) <=> Before(p, q)
              /\ Old(p) = Old(q) => p = q
  <2>1. /\ p[1] \in Nat /\ p[2] \in Nat /\ p = <<p[1], p[2]>> /\ (p[1] = c => p[2] \in 1 .. n)
        /\ q[1] \in Nat /\ q[2] \in Nat /\ q = <<q[1], q[2]>> /\ (q[1] = c => q[2] \in 1 .. n)
    BY <1>3, <1>5, <1>9, WHash
  <2>2. ASSUME p[1] = c, q[1] = c
        PROVE  (f[p[2]] < f[q[2]] <=> p[2] < q[2]) /\ (f[p[2]] = f[q[2]] => p[2] = q[2])
    <3>1. f[p[2]] \in Nat /\ f[q[2]] \in Nat
      BY <1>3, <1>5, <2>1, <2>2
    <3>2. /\ p[2] < q[2] => f[p[2]] < f[q[2]]
          /\ q[2] < p[2] => f[q[2]] < f[p[2]]
      BY <1>2, <2>1, <2>2
    <3>3. QED
      BY <2>1, <3>1, <3>2
  <2>3. Old(p)[1] = p[1] /\ Old(q)[1] = q[1]
    OBVIOUS
  <2>4. CASE p[1] = c /\ q[1] = c
    BY <2>1, <2>2, <2>4 DEF Before
  <2>5. CASE ~ (p[1] = c /\ q[1] = c)
    <3>1. p[1] # q[1] \/ (p[1] # c /\ q[1] # c)
      BY <2>5
    <3>2. CASE p[1] # q[1]
      BY <2>1, <2>3, <3>2 DEF Before
    <3>3. CASE p[1] # c /\ q[1] # c
      BY <3>3
    <3>4. QED
      BY <3>1, <3>2, <3>3
  <2>6. QED
    BY <2>4, <2>5
<1> HIDE DEF Old
<1>13. Present \ {k} \subseteq Present' /\ Present' \subseteq Present
  <2>1. \A m : m \in Present' <=> \E q \in Pos' : At(q)' = m
    BY DEF Present
  <2>2. \A m : m \in Present <=> \E p \in Pos : At(p) = m
    BY DEF Present
  <2>3. QED
    BY <1>10, <1>11, <2>1, <2>2
<1>14. ASSUME NEW u, NEW m, After(u, m), u # k, m # k PROVE After(u, m)'
  <2>1. PICK p \in Pos, q \in Pos : At(p) = u /\ At(q) = m /\ Before(p, q)
    BY <1>14 DEF After
  <2>2. PICK p1 \in Pos' : p = Old(p1) /\ At(p1)' = At(p)
    BY <1>11, <1>14, <2>1
  <2>3. PICK q1 \in Pos' : q = Old(q1) /\ At(q1)' = At(q)
    BY <1>11, <1>14, <2>1
  <2>4. Before(p1, q1)
    BY <1>12, <2>1, <2>2, <2>3
  <2>5. QED
    BY <2>1, <2>2, <2>3, <2>4 DEF After, Before
<1>15. ASSUME NEW u, NEW m, After(u, m)' PROVE After(u, m)
  <2>1. PICK p \in Pos', q \in Pos' : At(p)' = u /\ At(q)' = m /\ Before(p, q)
    BY <1>15 DEF After, Before
  <2>2. Old(p) \in Pos /\ Old(q) \in Pos /\ At(Old(p)) = u /\ At(Old(q)) = m /\ Before(Old(p), Old(q))
    BY <1>10, <1>12, <2>1
  <2>3. QED
    BY <2>2 DEF After
<1>16. ASSUME Distinct PROVE Distinct'
  <2> SUFFICES ASSUME NEW p \in Pos', NEW q \in Pos', At(p)' = At(q)' PROVE p = q
    BY DEF Distinct
  <2>1. Old(p) = Old(q)
    BY <1>10, <1>16 DEF Distinct
  <2>2. QED
    BY <1>12, <2>1
<1>17. QED
  BY <1>7, <1>8, <1>13, <1>14, <1>15, <1>16

-----------------------------------------------------------------------------
\* The invariant holds at the beginning.
LEMMA WInitInv == WalkInit => WInv
<1> SUFFICES ASSUME WalkInit PROVE WInv
  OBVIOUS
<1> USE WHash DEF WalkInit
<1>1. <<>> \in Seq(WKey) /\ Len(<<>>) = 0 /\ \A b \in Bucket : DOMAIN chain[b] = {}
  OBVIOUS
<1>2. WTypes /\ WHashed
  BY <1>1 DEF WTypes, WHashed
<1>3. Pos = {}
  BY <1>1 DEF Pos
<1>4. QED
  BY <1>2, <1>3 DEF WInv, WOn, WApart, Distinct, Complete

\* An addition leaves what was returned behind the walker.
LEMMA WAddStep ==
    ASSUME WInv, NEW k \in WKey, WAdd(k) \/ ReusableAdd(k)
    PROVE  WInv'
<1> USE DEF WInv
<1>1. /\ Link(k) /\ UNCHANGED <<walk, cur, seen, stable>>
      /\ ~dup' => ~dup /\ k \notin Present
  <2>1. CASE WAdd(k)
    BY <2>1 DEF WAdd
  <2>2. CASE ReusableAdd(k)
    BY <2>2, Zenon DEF ReusableAdd
  <2>3. QED
    BY <2>1, <2>2
<1>2. /\ chain' \in [Bucket -> Seq(WKey)] /\ (\A b \in Bucket : Len(chain'[b]) <= MaxLen)
      /\ WHashed' /\ Present' = Present \cup {k}
      /\ \A u, m : After(u, m) => After(u, m)'
      /\ \A u, m : After(u, m)' /\ u # k => After(u, m) \/ (m = k /\ Hash[u] < Hash[k])
      /\ Distinct /\ k \notin Present => Distinct'
  BY <1>1, LinkKeeps
<1>3. WTypes' /\ Complete'
  BY <1>1, <1>2 DEF WTypes, Complete
<1>4. \A u, m : u = cur => (After(cur, m)' <=> After(u, m)')
  BY <1>1 DEF After
<1>5. WOn'
  BY <1>1, <1>2, <1>4 DEF WOn
<1>6. WApart'
  <2> SUFFICES ASSUME ~dup'
               PROVE  /\ Distinct'
                      /\ walk = "on" /\ cur # NULL => \A m \in seen : ~ After(cur, m)'
    BY <1>1 DEF WApart
  <2>1. ~dup /\ k \notin Present /\ Distinct
    BY <1>1 DEF WApart
  <2>2. ASSUME walk = "on", cur # NULL, NEW m \in seen, After(cur, m)' PROVE FALSE
    <3>1. cur \in Present /\ Hash[m] <= Hash[cur] /\ ~ After(cur, m)
      BY <2>1, <2>2 DEF WOn, WApart
    <3>2. cur # k /\ Hash[m] \in Nat /\ Hash[cur] \in Nat
      BY <2>1, <2>2, <3>1, WHash DEF WTypes
    <3>3. PICK u : u = cur
      OBVIOUS
    <3>4. After(u, m)' /\ u # k /\ ~ After(u, m)
      BY <1>4, <2>2, <3>1, <3>2, <3>3
    <3>5. m = k /\ Hash[u] < Hash[k]
      BY <1>2, <3>4
    <3>6. QED
      BY <3>1, <3>2, <3>3, <3>5
  <2>3. QED
    BY <1>2, <2>1, <2>2
<1>7. QED
  BY <1>2, <1>3, <1>5, <1>6

\* A deletion spares the walker's element.
LEMMA WDelStep ==
    ASSUME WInv, NEW k \in WKey, Del(k) \/ ReusableDel(k)
    PROVE  WInv'
<1> USE DEF WInv
<1>1. PICK I : I \subseteq PlacesOf(k) /\ Delete(k, I)
  <2>1. CASE Del(k)
    <3>1. PICK i \in PlacesOf(k) : Delete(k, {i})
      BY <2>1 DEF Del
    <3>2. {i} \subseteq PlacesOf(k)
      OBVIOUS
    <3>3. QED
      BY <3>1, <3>2
  <2>2. CASE ReusableDel(k)
    BY <2>2 DEF ReusableDel
  <2>3. QED
    BY <2>1, <2>2
<1>2. /\ Unlink(Hash[k], I) /\ UNCHANGED <<walk, cur, seen, dup>> /\ stable' = stable \ {k}
      /\ walk = "on" => k # cur
  BY <1>1 DEF Delete
<1>3. /\ chain' \in [Bucket -> Seq(WKey)] /\ (\A b \in Bucket : Len(chain'[b]) <= MaxLen)
      /\ WHashed' /\ Present \ {k} \subseteq Present' /\ Present' \subseteq Present
      /\ \A u, m : After(u, m) /\ u # k /\ m # k => After(u, m)'
      /\ \A u, m : After(u, m)' => After(u, m)
      /\ Distinct => Distinct'
  BY <1>1, <1>2, UnlinkKeeps
<1>4. WTypes' /\ Complete'
  BY <1>2, <1>3 DEF WTypes, Complete
<1>5. \A u, m : u = cur => (After(cur, m)' <=> After(u, m)')
  BY <1>2 DEF After
<1>6. WOn'
  BY <1>2, <1>3, <1>5 DEF WOn
<1>7. WApart'
  BY <1>2, <1>3, <1>5 DEF WApart
<1>8. QED
  BY <1>3, <1>4, <1>6, <1>7

\* A call of hash_table_next_by_user passes over nothing that is not equal to
\* what it was called for or to what it returns.
LEMMA WAdvanceStep ==
    ASSUME WInv, WalkOn
    PROVE  WInv' /\ (~dup => cur' \notin seen)
<1> USE DEF WInv
<1> DEFINE C == IF cur = NULL THEN Pos ELSE Behind(cur)
<1>1. walk = "on" /\ UNCHANGED <<chain, stable, dup>>
  BY DEF WalkOn
<1>2. /\ cur = NULL \/ (cur \in WKey /\ cur \in Present)
      /\ seen \subseteq WKey /\ stable \subseteq Present
  BY <1>1 DEF WOn, WTypes
<1>3. /\ C = {} => NextByUser(cur) = NULL
      /\ C # {} => \E c \in C : /\ NextByUser(cur) = At(c) /\ At(c) # NULL /\ c \in Pos
                                /\ \A r \in C : r = c \/ Before(c, r)
  BY WNext
<1>4. ASSUME NEW q \in Pos
      PROVE  q \in C <=> cur = NULL \/ (At(q) # cur /\ \E p \in Pos : At(p) = cur /\ Before(p, q))
  BY <1>2, WBehind
<1>5. \A m \in stable : m \in seen \/ \E q \in C : At(q) = m
  <2> SUFFICES ASSUME NEW m \in stable, m \notin seen PROVE \E q \in C : At(q) = m
    OBVIOUS
  <2>1. CASE cur = NULL
    BY <1>2, <2>1 DEF Present
  <2>2. CASE cur # NULL
    <3>1. After(cur, m) /\ cur \in seen
      BY <1>1, <2>2 DEF WOn
    <3>2. PICK p \in Pos, q \in Pos : At(p) = cur /\ At(q) = m /\ Before(p, q)
      BY <3>1 DEF After
    <3>3. q \in C
      BY <1>4, <3>1, <3>2
    <3>4. QED
      BY <3>2, <3>3
  <2>3. QED
    BY <2>1, <2>2
<1> HIDE DEF C
<1>6. CASE NextByUser(cur) = NULL
  <2>1. cur' = NULL /\ walk' = "ended" /\ seen' = seen /\ C = {}
    BY <1>3, <1>6 DEF WalkOn
  <2>2. stable \subseteq seen
    BY <1>5, <2>1
  <2>3. WTypes' /\ WHashed' /\ WOn' /\ Complete'
    BY <1>1, <2>1, <2>2 DEF WTypes, WHashed, WOn, Complete
  <2>4. WApart'
    BY <1>1, <2>1 DEF WApart, Distinct, Pos, At
  <2>5. cur' \notin seen
    BY <1>2, <2>1, WalkAssumption
  <2>6. QED
    BY <2>3, <2>4, <2>5
<1>7. CASE NextByUser(cur) # NULL
  <2>1. PICK c \in C : /\ NextByUser(cur) = At(c) /\ At(c) # NULL /\ c \in Pos
                       /\ \A r \in C : r = c \/ Before(c, r)
    BY <1>3, <1>7
  <2>2. PICK v \in WKey : v = At(c) /\ v \in Present /\ v # NULL
    BY <2>1, WPos
  <2>3. cur' = v /\ walk' = "on" /\ seen' = seen \cup {v}
    BY <1>1, <1>7, <2>1, <2>2 DEF WalkOn
  <2>4. cur # NULL => v # cur /\ \E p \in Pos : At(p) = cur /\ Before(p, c)
    BY <1>4, <2>1, <2>2
  <2>5. Present' = Present /\ WTypes' /\ WHashed' /\ Complete'
    BY <1>1, <2>2, <2>3 DEF Present, Pos, At, WTypes, WHashed, Complete
  <2>6. \A u, m : After(u, m)' <=> After(u, m)
    BY <1>1 DEF After, Pos, At, Before
  <2>7. \A m : After(cur, m)' <=> After(v, m)'
    BY <2>3 DEF After
  <2>8. \A m \in seen \cup {v} : Hash[m] <= Hash[v]
    <3>1. Hash[v] \in Nat
      BY WHash
    <3>2. ASSUME NEW m \in seen PROVE Hash[m] <= Hash[v]
      <4>1. cur # NULL /\ cur \in WKey /\ Hash[m] <= Hash[cur]
        BY <1>1, <1>2 DEF WOn
      <4>2. PICK p \in Pos : At(p) = cur /\ Before(p, c)
        BY <2>4, <4>1
      <4>3. p[1] = Hash[cur] /\ c[1] = Hash[v]
        BY <2>1, <2>2, <4>2, WPos
      <4>4. Hash[cur] \in Nat /\ Hash[m] \in Nat
        BY <1>2, <4>1, WHash
      <4>5. Hash[cur] <= Hash[v]
        BY <3>1, <4>2, <4>3, <4>4 DEF Before
      <4>6. QED
        BY <3>1, <4>1, <4>4, <4>5
    <3>3. QED
      BY <3>1, <3>2
  <2>9. \A m \in stable : m \in seen \cup {v} \/ After(v, m)
    <3> SUFFICES ASSUME NEW m \in stable, m \notin seen, m # v PROVE After(v, m)
      OBVIOUS
    <3>1. PICK q \in C : At(q) = m
      BY <1>5
    <3>2. Before(c, q)
      BY <2>1, <2>2, <3>1
    <3>3. q \in Pos
      <4>1. C \subseteq Pos
        BY DEF C, Behind
      <4>2. QED
        BY <4>1
    <3>4. QED
      BY <2>1, <2>2, <3>1, <3>2, <3>3 DEF After
  <2>10. WOn'
    BY <1>1, <1>2, <2>2, <2>3, <2>5, <2>6, <2>7, <2>8, <2>9 DEF WOn
  <2>11. ASSUME ~dup
         PROVE  v \notin seen /\ \A m \in seen \cup {v} : ~ After(v, m)
    <3>1. Distinct /\ (cur # NULL => \A m \in seen : ~ After(cur, m))
      BY <1>1, <2>11 DEF WApart
    <3>2. v \notin seen
      <4>1. CASE cur = NULL
        BY <1>1, <4>1 DEF WOn
      <4>2. CASE cur # NULL
        <5>1. After(cur, v)
          BY <2>1, <2>2, <2>4, <4>2 DEF After
        <5>2. QED
          BY <3>1, <4>2, <5>1
      <4>3. QED
        BY <4>1, <4>2
    <3>3. ASSUME NEW m \in seen \cup {v}, After(v, m) PROVE FALSE
      <4>1. PICK p \in Pos, q \in Pos : At(p) = v /\ At(q) = m /\ Before(p, q)
        BY <3>3 DEF After
      <4>2. p = c
        BY <2>1, <2>2, <3>1, <4>1 DEF Distinct
      <4>3. m # v
        BY <3>1, <4>1, WOrder DEF Distinct
      <4>4. m \in seen /\ cur # NULL
        BY <1>1, <3>3, <4>3 DEF WOn
      <4>5. PICK r \in Pos : At(r) = cur /\ Before(r, c)
        BY <2>4, <4>4
      <4>6. Before(r, q)
        BY <2>1, <4>1, <4>2, <4>5, WOrder
      <4>7. After(cur, m)
        BY <4>1, <4>5, <4>6 DEF After
      <4>8. QED
        BY <3>1, <4>4, <4>7
    <3>4. QED
      BY <3>2, <3>3
  <2>12. Distinct' <=> Distinct
    BY <1>1 DEF Distinct, Pos, At
  <2>13. WApart'
    BY <1>1, <2>3, <2>6, <2>7, <2>11, <2>12 DEF WApart
  <2>14. QED
    BY <2>3, <2>5, <2>10, <2>11, <2>13
<1>8. QED
  BY <1>6, <1>7

\* The invariant, over every step.
LEMMA WStep ==
    ASSUME WInv, [WalkNext]_walkVars
    PROVE  WInv'
<1>1. CASE \E k \in WKey : WAdd(k) \/ ReusableAdd(k)
  BY <1>1, WAddStep
<1>2. CASE \E k \in WKey : Del(k) \/ ReusableDel(k)
  BY <1>2, WDelStep
<1>3. CASE Begin
  <2>1. /\ walk' = "on" /\ cur' = NULL /\ seen' = {} /\ stable' = Present /\ chain' = chain
        /\ dup' = ~Distinct
    BY <1>3 DEF Begin
  <2>2. Present \subseteq WKey
    BY WPos DEF WInv, Present
  <2>3. WTypes' /\ WHashed' /\ Present' = Present /\ (Distinct' <=> Distinct)
    BY <2>1, <2>2 DEF WInv, WTypes, WHashed, Present, Distinct, Pos, At
  <2>4. WOn' /\ WApart' /\ Complete'
    BY <2>1, <2>3 DEF WOn, WApart, Complete
  <2>5. QED
    BY <2>3, <2>4 DEF WInv
<1>4. CASE WalkOn
  BY <1>4, WAdvanceStep
<1>5. CASE EndWalk
  <2>1. walk' = "off" /\ seen' = {} /\ stable' = {} /\ UNCHANGED <<chain, cur, dup>>
    BY <1>5 DEF EndWalk
  <2>2. WTypes' /\ WHashed' /\ (Distinct' <=> Distinct) /\ WOn' /\ WApart' /\ Complete'
    BY <2>1 DEF WInv, WTypes, WHashed, WOn, WApart, Complete, Distinct, Pos, At
  <2>3. QED
    BY <2>2 DEF WInv
<1>6. CASE UNCHANGED walkVars
  <2>1. UNCHANGED <<chain, walk, cur, seen, stable, dup>>
    BY <1>6 DEF walkVars
  <2>2. WTypes' /\ WHashed' /\ Present' = Present /\ (Distinct' <=> Distinct)
    BY <2>1 DEF WInv, WTypes, WHashed, Present, Distinct, Pos, At
  <2>3. \A m : After(cur, m)' <=> After(cur, m)
    BY <2>1 DEF After, Pos, At, Before
  <2>4. WOn' /\ WApart' /\ Complete'
    BY <2>1, <2>2, <2>3 DEF WInv, WOn, WApart, Complete
  <2>5. QED
    BY <2>2, <2>4 DEF WInv
<1>7. QED
  BY <1>1, <1>2, <1>3, <1>4, <1>5, <1>6 DEF WalkNext

\* The invariant of a walk holds for every table and every interleaving of the
\* walker's calls with additions and deletions.
THEOREM WalkInvariant == WalkSpec => []WInv
<1>1. WalkInit => WInv
  BY WInitInv
<1>2. WInv /\ [WalkNext]_walkVars => WInv'
  BY WStep
<1>3. QED
  BY <1>1, <1>2, PTL DEF WalkSpec

\* A walk with hash_table_next_by_user that ended has returned every element
\* that was in the table all the time, whichever functions filled it.
THEOREM WalkComplete == WalkSpec => []Complete
<1>1. WInv => Complete
  BY DEF WInv
<1>2. QED
  BY <1>1, WalkInvariant, PTL

\* As long as no two equal elements have been in the table during the walk, no
\* call of hash_table_next_by_user returns what the walk has returned before.
THEOREM NothingTwice == WalkSpec => OnlyOnce
<1>1. WInv /\ [WalkNext]_walkVars => [WalkOn /\ ~dup => cur' \notin seen]_walkVars
  BY WAdvanceStep
<1>2. QED
  BY <1>1, WalkInvariant, PTL DEF WalkSpec, OnlyOnce

-----------------------------------------------------------------------------
(* TimerLib: for every number of timers and every delay                     *)

\* The queue has no timer twice and is sorted; no flag outlives its timer.
QTypes ==
    /\ timerq \in Seq(Timer) /\ due \in [Timer -> Nat]
    /\ inUse \subseteq Timer
    /\ arg \in [Timer -> {"live", "freed", "handled", "twice"}]
QDistinct == \A i, j \in DOMAIN timerq : timerq[i] = timerq[j] => i = j
QSorted == \A i, j \in DOMAIN timerq : i <= j => due[timerq[i]] <= due[timerq[j]]
QFlags ==
    /\ cancelled \cup hasArg \cup removed \cup inUse \subseteq ToSet(timerq)
    /\ removed \subseteq cancelled
    /\ run \notin ToSet(timerq)
\* The timer in use is the first one; an argument that is still to be passed on
\* has not been freed.
QFirst == /\ inUse \subseteq {First}
          /\ tlPc \in {"sigwait", "fire"} => First \in inUse
QArg == /\ \A t \in Timer : arg[t] # "twice"
        /\ \A t \in ToSet(timerq) : /\ arg[t] # "handled"
                                    /\ t \in hasArg => arg[t] = "live"
QInv == QTypes /\ QDistinct /\ QSorted /\ QFlags /\ QFirst /\ QArg

\* A queued timer is at some place of the queue.
LEMMA QPlaces == ASSUME QTypes, NEW t PROVE t \in ToSet(timerq) <=> \E i \in DOMAIN timerq : timerq[i] = t
  BY DEF ToSet

\* The first timer of a queue that is not empty is the one at place 1.
LEMMA QHead ==
    ASSUME QTypes
    PROVE  /\ timerq # <<>> => 1 \in DOMAIN timerq /\ First = timerq[1] /\ First \in Timer
           /\ timerq = <<>> => DOMAIN timerq = {} /\ First = NULL /\ First \notin Timer
           /\ DOMAIN timerq = 1 .. Len(timerq) /\ Len(timerq) \in Nat
           /\ \A i \in DOMAIN timerq : timerq[i] \in Timer
  BY TimerLibAssumption DEF QTypes, First

\* Queued timers are timers.
LEMMA QMembers == ASSUME QTypes PROVE ToSet(timerq) \subseteq Timer
  BY QPlaces, QHead

\* timer_dequeue keeps the rest of the queue as it is, in order; what is first
\* stays first unless it is the timer that goes.
LEMMA DequeueKeeps ==
    ASSUME QTypes, QDistinct, QSorted, NEW t \in ToSet(timerq), Dequeue(t)
    PROVE  /\ timerq' \in Seq(Timer) /\ due' \in [Timer -> Nat]
           /\ QDistinct' /\ QSorted'
           /\ ToSet(timerq)' = ToSet(timerq) \ {t}
           /\ t # First => First' = First
<1>1. PICK p \in DOMAIN timerq : timerq[p] = t /\ timerq' = RemoveAt(timerq, p)
  BY DEF Dequeue
<1>2. /\ timerq' \in Seq(Timer)
      /\ DOMAIN timerq' = 1 .. Len(timerq) - 1
      /\ \A j \in 1 .. Len(timerq) - 1 : timerq'[j] = timerq[IF j < p THEN j ELSE j + 1]
  BY <1>1, RemovePlaces DEF QTypes
<1>3. DOMAIN timerq = 1 .. Len(timerq) /\ Len(timerq) \in Nat /\ t \in Timer /\ p \in 1 .. Len(timerq)
  BY <1>1, QHead
<1>4. due' \in [Timer -> Nat] /\ \A u \in Timer \ {t} : due'[u] = due[u]
  BY <1>3 DEF Dequeue, QTypes
<1> DEFINE Old(j) == IF j < p THEN j ELSE j + 1
<1>5. ASSUME NEW j \in DOMAIN timerq'
      PROVE  Old(j) \in DOMAIN timerq \ {p} /\ timerq'[j] = timerq[Old(j)]
  BY <1>2, <1>3
<1>6. ASSUME NEW i \in DOMAIN timerq', NEW j \in DOMAIN timerq'
      PROVE  (i <= j => Old(i) <= Old(j)) /\ (Old(i) = Old(j) => i = j)
  BY <1>2, <1>3
<1> HIDE DEF Old
<1>7. \A j \in DOMAIN timerq' : timerq'[j] \in Timer \ {t}
  BY <1>1, <1>5, QHead DEF QDistinct
<1>8. QDistinct'
  BY <1>5, <1>6 DEF QDistinct
<1>9. QSorted'
  <2> SUFFICES ASSUME NEW i \in DOMAIN timerq', NEW j \in DOMAIN timerq', i <= j
               PROVE  due'[timerq'[i]] <= due'[timerq'[j]]
    BY DEF QSorted
  <2>1. due[timerq[Old(i)]] <= due[timerq[Old(j)]]
    BY <1>5, <1>6 DEF QSorted
  <2>2. due'[timerq'[i]] = due[timerq[Old(i)]] /\ due'[timerq'[j]] = due[timerq[Old(j)]]
    BY <1>4, <1>5, <1>7
  <2>3. QED
    BY <2>1, <2>2
<1>10. ToSet(timerq)' = ToSet(timerq) \ {t}
  <2>1. ASSUME NEW u \in ToSet(timerq)' PROVE u \in ToSet(timerq) \ {t}
    <3>1. PICK j \in DOMAIN timerq' : timerq'[j] = u
      BY DEF ToSet
    <3>2. QED
      BY <1>5, <1>7, <3>1 DEF ToSet
  <2>2. ASSUME NEW u \in ToSet(timerq), u # t PROVE u \in ToSet(timerq)'
    <3>1. PICK i \in DOMAIN timerq : timerq[i] = u
      BY DEF ToSet
    <3>2. i # p
      BY <1>1, <2>2, <3>1
    <3>3. PICK j \in DOMAIN timerq' : i = IF j < p THEN j ELSE j + 1
      <4>1. CASE i < p
        BY <1>2, <1>3, <4>1
      <4>2. CASE i > p
        <5>1. i - 1 \in DOMAIN timerq' /\ ~(i - 1 < p) /\ (i - 1) + 1 = i
          BY <1>2, <1>3, <4>2
        <5>2. QED
          BY <5>1
      <4>3. QED
        BY <1>3, <3>2, <4>1, <4>2
    <3>4. timerq'[j] = u
      BY <1>5, <3>1, <3>3 DEF Old
    <3>5. QED
      BY <3>4 DEF ToSet
  <2>3. QED
    BY <2>1, <2>2
<1>11. ASSUME t # First PROVE First' = First
  <2>1. p # 1 /\ timerq # <<>> /\ Len(timerq) > 1
    BY <1>1, <1>3, <1>11, QHead
  <2>2. 1 \in DOMAIN timerq' /\ timerq'[1] = timerq[1]
    BY <1>2, <1>3, <2>1
  <2>3. QED
    BY <1>2, <2>1, <2>2 DEF First
<1>12. QED
  BY <1>2, <1>4, <1>8, <1>9, <1>10, <1>11

\* timer_add keeps the order, and puts the new timer first only when it expires
\* before the one that was.
LEMMA AddKeeps ==
    ASSUME QTypes, QDistinct, QSorted, NEW t \in Timer \ ToSet(timerq), NEW d \in Nat,
           NEW i \in Places(d), timerq' = InsertAt(timerq, i, t), due' = [due EXCEPT ![t] = d]
    PROVE  /\ timerq' \in Seq(Timer) /\ due' \in [Timer -> Nat]
           /\ QDistinct' /\ QSorted'
           /\ ToSet(timerq)' = ToSet(timerq) \cup {t}
           /\ First' = IF i = 1 THEN t ELSE First
           /\ timerq = <<>> => i = 1
<1>1. /\ DOMAIN timerq = 1 .. Len(timerq) /\ Len(timerq) \in Nat /\ i \in 1 .. Len(timerq) + 1
      /\ t \in Timer /\ timerq \in Seq(Timer)
  BY QHead DEF Places, QTypes
<1>2. /\ timerq' \in Seq(Timer)
      /\ DOMAIN timerq' = 1 .. Len(timerq) + 1
      /\ \A j \in 1 .. Len(timerq) + 1 :
            timerq'[j] = IF j < i THEN timerq[j] ELSE IF j = i THEN t ELSE timerq[j - 1]
  <2> DEFINE Inserted(S, s, k, x) ==
               /\ InsertAt(s, k, x) \in Seq(S)
               /\ DOMAIN InsertAt(s, k, x) = 1 .. Len(s) + 1
               /\ \A j \in 1 .. Len(s) + 1 : /\ j < k => InsertAt(s, k, x)[j] = s[j]
                                             /\ j = k => InsertAt(s, k, x)[j] = x
                                             /\ j > k => InsertAt(s, k, x)[j] = s[j - 1]
  <2>1. ASSUME NEW S, NEW s \in Seq(S), NEW k \in 1 .. Len(s) + 1, NEW x \in S
        PROVE  Inserted(S, s, k, x)
    BY InsertPlaces, SMT
  <2> HIDE DEF Inserted
  <2>2. Inserted(Timer, timerq, i, t)
    BY <1>1, <2>1, Zenon
  <2>3. /\ InsertAt(timerq, i, t) \in Seq(Timer)
        /\ DOMAIN InsertAt(timerq, i, t) = 1 .. Len(timerq) + 1
        /\ \A j \in 1 .. Len(timerq) + 1 : /\ j < i => InsertAt(timerq, i, t)[j] = timerq[j]
                                           /\ j = i => InsertAt(timerq, i, t)[j] = t
                                           /\ j > i => InsertAt(timerq, i, t)[j] = timerq[j - 1]
    BY <2>2 DEF Inserted
  <2>4. \A j \in 1 .. Len(timerq) + 1 : ~(j < i) /\ j # i => j > i
    BY <1>1
  <2>5. QED
    BY <2>3, <2>4
<1>3. due' \in [Timer -> Nat] /\ due'[t] = d /\ \A u \in Timer \ {t} : due'[u] = due[u]
  <2>1. t \in Timer /\ due \in [Timer -> Nat]
    BY DEF QTypes
  <2>2. QED
    BY <2>1
<1>4. \A j \in DOMAIN timerq : timerq[j] \in Timer \ {t} /\ due'[timerq[j]] = due[timerq[j]]
  <2>1. \A j \in DOMAIN timerq : timerq[j] \in Timer /\ timerq[j] \in ToSet(timerq)
    BY QHead, QPlaces
  <2>2. QED
    BY <1>3, <2>1
<1>5. /\ \A j \in DOMAIN timerq : j < i => due[timerq[j]] <= d
      /\ \A j \in DOMAIN timerq : j >= i => d < due[timerq[j]]
  <2>1. \A j \in 1 .. i - 1 : due[timerq[j]] <= d
    BY DEF Places
  <2>2. ASSUME NEW j \in DOMAIN timerq, j >= i PROVE d < due[timerq[j]]
    <3>1. i \in DOMAIN timerq /\ i <= Len(timerq)
      BY <1>1, <2>2
    <3>2. d < due[timerq[i]] /\ due[timerq[i]] <= due[timerq[j]]
      BY <2>2, <3>1 DEF Places, QSorted
    <3>3. due[timerq[i]] \in Nat /\ due[timerq[j]] \in Nat
      BY <3>1, QHead DEF QTypes
    <3>4. QED
      BY <3>2, <3>3
  <2>3. QED
    BY <1>1, <2>1, <2>2
<1> DEFINE Old(j) == IF j < i THEN j ELSE j - 1
<1>6. ASSUME NEW j \in DOMAIN timerq', j # i
      PROVE  /\ Old(j) \in DOMAIN timerq /\ timerq'[j] = timerq[Old(j)]
             /\ Old(j) < i <=> j < i
  BY <1>1, <1>2, <1>6
<1>7. ASSUME NEW j \in DOMAIN timerq', NEW l \in DOMAIN timerq', j # i, l # i
      PROVE  (j <= l => Old(j) <= Old(l)) /\ (Old(j) = Old(l) => j = l)
  BY <1>1, <1>2, <1>7
<1> HIDE DEF Old
<1>8. i \in DOMAIN timerq' /\ timerq'[i] = t
  BY <1>1, <1>2
<1>9. \A j \in DOMAIN timerq' : j \in Nat
  BY <1>2
<1>10. QDistinct'
  <2> SUFFICES ASSUME NEW j \in DOMAIN timerq', NEW l \in DOMAIN timerq', timerq'[j] = timerq'[l]
               PROVE  j = l
    BY DEF QDistinct
  <2>1. CASE j # i /\ l # i
    BY <1>6, <1>7, <2>1 DEF QDistinct
  <2>2. CASE j = i \/ l = i
    BY <1>4, <1>6, <1>8, <2>2
  <2>3. QED
    BY <2>1, <2>2
<1>11. QSorted'
  <2> SUFFICES ASSUME NEW j \in DOMAIN timerq', NEW l \in DOMAIN timerq', j <= l
               PROVE  due'[timerq'[j]] <= due'[timerq'[l]]
    BY DEF QSorted
  <2>1. CASE j # i /\ l # i
    <3>1. due[timerq[Old(j)]] <= due[timerq[Old(l)]]
      BY <1>6, <1>7, <2>1 DEF QSorted
    <3>2. QED
      BY <1>4, <1>6, <2>1, <3>1
  <2>2. CASE j = i /\ l # i
    <3>1. l > i /\ ~(Old(l) < i)
      BY <1>1, <1>6, <1>9, <2>2
    <3>2. Old(l) \in DOMAIN timerq /\ Old(l) >= i
      BY <1>1, <1>6, <2>2, <3>1
    <3>3. d < due[timerq[Old(l)]] /\ due[timerq[Old(l)]] \in Nat
      BY <1>5, <3>2, QHead DEF QTypes
    <3>4. due'[timerq'[j]] = d /\ due'[timerq'[l]] = due[timerq[Old(l)]]
      BY <1>3, <1>4, <1>6, <1>8, <2>2
    <3>5. QED
      BY <3>3, <3>4
  <2>3. CASE j # i /\ l = i
    <3>1. j < i
      BY <1>1, <1>9, <2>3
    <3>2. Old(j) \in DOMAIN timerq /\ Old(j) < i
      BY <1>6, <2>3, <3>1
    <3>3. due[timerq[Old(j)]] <= d
      BY <1>5, <3>2
    <3>4. due'[timerq'[l]] = d /\ due'[timerq'[j]] = due[timerq[Old(j)]]
      BY <1>3, <1>4, <1>6, <1>8, <2>3
    <3>5. QED
      BY <3>3, <3>4
  <2>4. CASE j = i /\ l = i
    BY <1>3, <1>8, <2>4
  <2>5. QED
    BY <2>1, <2>2, <2>3, <2>4
<1>12. ToSet(timerq)' = ToSet(timerq) \cup {t}
  <2>1. ASSUME NEW u \in ToSet(timerq)' PROVE u \in ToSet(timerq) \cup {t}
    <3>1. PICK j \in DOMAIN timerq' : timerq'[j] = u
      BY DEF ToSet
    <3>2. QED
      BY <1>6, <1>8, <3>1 DEF ToSet
  <2>2. ASSUME NEW u \in ToSet(timerq) PROVE u \in ToSet(timerq)'
    <3>1. PICK k \in DOMAIN timerq : timerq[k] = u
      BY DEF ToSet
    <3>2. PICK j \in DOMAIN timerq' : j # i /\ k = IF j < i THEN j ELSE j - 1
      <4>1. CASE k < i
        <5>1. k \in DOMAIN timerq' /\ k # i
          BY <1>1, <1>2, <4>1
        <5>2. QED
          BY <4>1, <5>1
      <4>2. CASE k >= i
        <5>1. k + 1 \in DOMAIN timerq' /\ ~(k + 1 < i) /\ k + 1 # i /\ (k + 1) - 1 = k
          BY <1>1, <1>2, <4>2
        <5>2. QED
          BY <5>1
      <4>3. QED
        BY <1>1, <4>1, <4>2
    <3>3. timerq'[j] = u
      BY <1>6, <3>1, <3>2 DEF Old
    <3>4. QED
      BY <3>3 DEF ToSet
  <2>3. t \in ToSet(timerq)'
    BY <1>8 DEF ToSet
  <2>4. QED
    BY <2>1, <2>2, <2>3
<1>13. First' = IF i = 1 THEN t ELSE First
  <2>1. timerq' # <<>> /\ First' = timerq'[1]
    BY <1>1, <1>2 DEF First
  <2>2. CASE i = 1
    BY <1>8, <2>1, <2>2
  <2>3. CASE i # 1
    <3>1. timerq # <<>> /\ timerq'[1] = timerq[1]
      BY <1>1, <1>2, <2>3
    <3>2. QED
      BY <2>1, <2>3, <3>1 DEF First
  <2>4. QED
    BY <2>2, <2>3
<1>14. timerq = <<>> => i = 1
  BY <1>1
<1>15. QED
  BY <1>2, <1>3, <1>10, <1>11, <1>12, <1>13, <1>14

-----------------------------------------------------------------------------
(* The invariant *)

\* Nothing is queued at the beginning.
LEMMA QInit == tlInit => QInv
<1> SUFFICES ASSUME tlInit PROVE QInv
  OBVIOUS
<1>1. timerq = <<>> /\ ToSet(timerq) = {} /\ DOMAIN timerq = {} /\ timerq \in Seq(Timer)
  BY DEF tlInit, ToSet
<1>2. QTypes
  BY <1>1 DEF tlInit, QTypes
<1>3. QDistinct /\ QSorted
  BY <1>1 DEF QDistinct, QSorted
<1>4. QFlags /\ QFirst /\ QArg
  BY <1>1 DEF tlInit, QFlags, QFirst, QArg
<1>5. QED
  BY <1>2, <1>3, <1>4 DEF QInv

\* A step that leaves the queue and the flags alone and does not start waiting
\* keeps everything; timer_dequeue keeps everything when the flag of the first
\* timer goes with it.
LEMMA QSame ==
    ASSUME QInv, UNCHANGED <<timerq, due, inUse, cancelled, arg, hasArg, removed, run>>,
           tlPc' \in {"sigwait", "fire"} => tlPc \in {"sigwait", "fire"}
    PROVE  QInv'
<1>1. First' = First /\ ToSet(timerq)' = ToSet(timerq)
  BY DEF First
<1>2. QTypes' /\ QDistinct' /\ QSorted'
  BY DEF QInv, QTypes, QDistinct, QSorted
<1>3. QFlags' /\ QFirst' /\ QArg'
  BY <1>1 DEF QInv, QFlags, QFirst, QArg
<1>4. QED
  BY <1>2, <1>3 DEF QInv

\* timer_init, timer_destroy and the users' calls.
LEMMA QUser ==
    ASSUME QInv, InitCall \/ Booted \/ InitTimedOut \/ Destroy
                 \/ \E t \in Timer : \/ \E d \in 1 .. MaxDelay : TimerAdd(t, d)
                                    \/ \E free \in BOOLEAN : RemInUse(t, free) \/ RemWaiting(t, free)
    PROVE  QInv' /\ run' \notin removed
<1>0. run \notin removed
  BY DEF QInv, QFlags
<1>1. CASE InitCall \/ Booted \/ InitTimedOut
  <2>1. /\ UNCHANGED <<timerq, due, inUse, cancelled, arg, hasArg, removed, run>>
        /\ tlPc' \notin {"sigwait", "fire"}
    BY <1>1 DEF InitCall, Booted, InitTimedOut, flags
  <2>2. QED
    BY <1>0, <2>1, QSame
<1>2. CASE Destroy
  <2>1. /\ timerq' = <<>> /\ due' = [t \in Timer |-> 0] /\ tlPc' = "off"
        /\ inUse' = {} /\ cancelled' = {} /\ hasArg' = {} /\ removed' = {}
        /\ UNCHANGED <<arg, run>>
    BY <1>2 DEF Destroy
  <2>2. ToSet(timerq)' = {} /\ DOMAIN timerq' = {} /\ timerq' \in Seq(Timer)
    BY <2>1 DEF ToSet
  <2>3. QTypes' /\ QDistinct' /\ QSorted'
    BY <2>1, <2>2 DEF QInv, QTypes, QDistinct, QSorted
  <2>4. QFlags' /\ QFirst' /\ QArg'
    BY <2>1, <2>2 DEF QInv, QFlags, QFirst, QArg
  <2>5. QED
    BY <1>0, <2>1, <2>3, <2>4 DEF QInv
<1>3. ASSUME NEW t \in Timer, NEW d \in 1 .. MaxDelay, TimerAdd(t, d)
      PROVE  QInv' /\ run' \notin removed
  <2>1. PICK i \in Places(d) :
            /\ NotInUse(t) /\ timerq' = InsertAt(timerq, i, t) /\ due' = [due EXCEPT ![t] = d]
            /\ arg' = [arg EXCEPT ![t] = "live"] /\ hasArg' = hasArg \cup {t}
            /\ IF timerq # <<>> /\ i = 1 THEN TakesOver(t, First) ELSE inUse' = inUse
            /\ tlPc' = IF timerq = <<>> /\ tlPc = "asleep" THEN "top" ELSE tlPc
            /\ UNCHANGED <<cancelled, removed, run>>
    BY <1>3 DEF TimerAdd
  <2>2. t \notin ToSet(timerq) /\ run # t /\ d \in Nat
    BY <2>1, TimerLibAssumption DEF NotInUse, Queued
  <2>3. /\ timerq' \in Seq(Timer) /\ due' \in [Timer -> Nat]
        /\ QDistinct' /\ QSorted'
        /\ ToSet(timerq)' = ToSet(timerq) \cup {t}
        /\ First' = IF i = 1 THEN t ELSE First
        /\ timerq = <<>> => i = 1
    BY <2>1, <2>2, AddKeeps DEF QInv
  <2>4. inUse' \subseteq {First'} /\ (tlPc' \in {"sigwait", "fire"} => First' \in inUse')
    <3>1. CASE timerq = <<>>
      <4>1. inUse = {} /\ First = NULL
        BY <3>1, QHead DEF QInv, QFirst, QTypes
      <4>2. QED
        BY <2>1, <3>1, <4>1 DEF QInv, QFirst
    <3>2. CASE timerq # <<>> /\ i = 1
      BY <2>1, <2>3, <3>2 DEF QInv, QFirst, TakesOver
    <3>3. CASE timerq # <<>> /\ i # 1
      BY <2>1, <2>3, <3>3 DEF QInv, QFirst
    <3>4. QED
      BY <3>1, <3>2, <3>3
  <2>5. QTypes'
    <3>1. inUse' \subseteq Timer
      BY <2>1 DEF QInv, QTypes, TakesOver
    <3>2. QED
      BY <2>1, <2>3, <3>1 DEF QInv, QTypes
  <2>6. QFlags'
    <3>1. inUse' \subseteq ToSet(timerq)'
      BY <2>1, <2>3 DEF QInv, QFlags, TakesOver
    <3>2. QED
      BY <2>1, <2>2, <2>3, <3>1 DEF QInv, QFlags
  <2>7. QArg'
    BY <2>1, <2>2, <2>3 DEF QInv, QArg, QTypes
  <2>8. QFirst'
    BY <2>4 DEF QFirst
  <2>9. QED
    BY <1>0, <2>1, <2>3, <2>5, <2>6, <2>7, <2>8 DEF QInv
<1>4. ASSUME NEW t \in Timer, NEW free \in BOOLEAN, RemInUse(t, free)
      PROVE  QInv' /\ run' \notin removed
  <2>1. /\ t \in inUse
        /\ IF free THEN FreeArg(t) /\ DropsArg(t) ELSE UNCHANGED <<arg, hasArg>>
        /\ cancelled' = cancelled \cup {t} /\ removed' = removed \cup {t}
        /\ UNCHANGED <<timerq, due, inUse, tlPc, run>>
    BY <1>4 DEF RemInUse
  <2>2. First' = First /\ ToSet(timerq)' = ToSet(timerq) /\ t \in ToSet(timerq)
    BY <2>1 DEF First, QInv, QFlags
  <2>3. /\ arg' \in [Timer -> {"live", "freed", "handled", "twice"}] /\ QArg'
        /\ hasArg' \subseteq hasArg
    <3>1. CASE free
      <4>1. arg' = [arg EXCEPT ![t] = IF t \notin hasArg THEN arg[t]
                                     ELSE IF arg[t] = "live" THEN "freed" ELSE "twice"]
        BY <2>1, <3>1 DEF FreeArg
      <4>2. /\ arg'[t] \in {"live", "freed", "handled"}
            /\ arg'[t] # "handled"
        BY <2>1, <2>2, <4>1 DEF QInv, QTypes, QArg
      <4>3. arg' \in [Timer -> {"live", "freed", "handled", "twice"}] /\ \A u \in Timer \ {t} : arg'[u] = arg[u]
        BY <4>1, <4>2 DEF QInv, QTypes
      <4>4. QED
        BY <2>1, <2>2, <3>1, <4>2, <4>3, QMembers DEF QInv, QArg, DropsArg
    <3>2. CASE ~free
      BY <2>1, <2>2, <3>2 DEF QInv, QTypes, QArg
    <3>3. QED
      BY <3>1, <3>2
  <2>4. QTypes' /\ QDistinct' /\ QSorted'
    BY <2>1, <2>3 DEF QInv, QTypes, QDistinct, QSorted
  <2>5. QFlags' /\ QFirst'
    BY <2>1, <2>2, <2>3 DEF QInv, QFlags, QFirst
  <2>6. QED
    BY <1>0, <2>1, <2>3, <2>4, <2>5 DEF QInv
<1>5. ASSUME NEW t \in Timer, NEW free \in BOOLEAN, RemWaiting(t, free)
      PROVE  QInv' /\ run' \notin removed
  <2>1. /\ t \in ToSet(timerq) /\ t \notin inUse /\ Dequeue(t)
        /\ IF free THEN FreeArg(t) ELSE UNCHANGED arg
        /\ UNCHANGED <<tlPc, run>>
    BY <1>5 DEF RemWaiting, Queued
  <2>2. /\ timerq' \in Seq(Timer) /\ due' \in [Timer -> Nat]
        /\ QDistinct' /\ QSorted' /\ ToSet(timerq)' = ToSet(timerq) \ {t}
        /\ t # First => First' = First
    BY <2>1, DequeueKeeps DEF QInv
  <2>3. /\ inUse' = inUse \ {t} /\ cancelled' = cancelled \ {t}
        /\ hasArg' = hasArg \ {t} /\ removed' = removed \ {t}
    BY <2>1 DEF Dequeue
  <2>4. /\ arg' \in [Timer -> {"live", "freed", "handled", "twice"}] /\ QArg'
    <3>1. CASE free
      <4>1. arg' = [arg EXCEPT ![t] = IF t \notin hasArg THEN arg[t]
                                     ELSE IF arg[t] = "live" THEN "freed" ELSE "twice"]
        BY <2>1, <3>1 DEF FreeArg
      <4>2. /\ arg'[t] \in {"live", "freed", "handled"}
            /\ arg'[t] # "handled"
        BY <2>1, <4>1 DEF QInv, QTypes, QArg
      <4>3. arg' \in [Timer -> {"live", "freed", "handled", "twice"}] /\ \A u \in Timer \ {t} : arg'[u] = arg[u]
        BY <4>1, <4>2 DEF QInv, QTypes
      <4>4. QED
        BY <2>1, <2>2, <2>3, <4>2, <4>3, QMembers DEF QInv, QArg
    <3>2. CASE ~free
      BY <2>1, <2>2, <2>3, <3>2 DEF QInv, QTypes, QArg
    <3>3. QED
      BY <3>1, <3>2
  <2>5. QFirst'
    <3>1. CASE t # First
      BY <2>1, <2>2, <2>3, <3>1 DEF QInv, QFirst
    <3>2. CASE t = First
      BY <2>1, <2>3, <3>2 DEF QInv, QFirst
    <3>3. QED
      BY <3>1, <3>2
  <2>6. QTypes' /\ QFlags'
    BY <2>1, <2>2, <2>3, <2>4 DEF QInv, QTypes, QFlags
  <2>7. QED
    BY <1>0, <2>1, <2>2, <2>4, <2>5, <2>6 DEF QInv
<1>6. QED
  BY <1>1, <1>2, <1>3, <1>4, <1>5

\* cronometer, and time.
LEMMA QTicker ==
    ASSUME QInv, Sleep \/ Arm \/ Sigwait \/ Fire \/ HandlerReturns \/ Tick
    PROVE  QInv' /\ run' \notin removed
<1>0. run \notin removed
  BY DEF QInv, QFlags
<1>1. CASE Sleep \/ Sigwait
  <2>1. /\ UNCHANGED <<timerq, due, inUse, cancelled, arg, hasArg, removed, run>>
        /\ tlPc' \in {"sigwait", "fire"} => tlPc \in {"sigwait", "fire"}
    BY <1>1 DEF Sleep, Sigwait, flags
  <2>2. QED
    BY <1>0, <2>1, QSame
<1>2. CASE Arm
  <2>1. /\ timerq # <<>> /\ inUse' = inUse \cup {First} /\ tlPc' = "sigwait"
        /\ UNCHANGED <<timerq, due, cancelled, arg, hasArg, removed, run>>
    BY <1>2 DEF Arm
  <2>2. First' = First /\ ToSet(timerq)' = ToSet(timerq) /\ First \in Timer /\ First \in ToSet(timerq)
    <3>1. First' = First /\ ToSet(timerq)' = ToSet(timerq)
      BY <2>1 DEF First
    <3>2. 1 \in DOMAIN timerq /\ First = timerq[1] /\ First \in Timer
      BY <2>1, QHead DEF QInv
    <3>3. QED
      BY <3>1, <3>2, QPlaces DEF QInv
  <2>3. QTypes' /\ QDistinct' /\ QSorted'
    BY <2>1, <2>2 DEF QInv, QTypes, QDistinct, QSorted
  <2>4. QFlags' /\ QFirst' /\ QArg'
    BY <2>1, <2>2 DEF QInv, QFlags, QFirst, QArg
  <2>5. QED
    BY <1>0, <2>1, <2>3, <2>4 DEF QInv
<1>3. CASE Fire
  <2>1. /\ tlPc = "fire" /\ Dequeue(First) /\ tlPc' \in {"top", "handler"}
        /\ \/ First \in cancelled /\ UNCHANGED <<run, arg>>
           \/ /\ First \notin cancelled /\ run' = First
              /\ arg' = [arg EXCEPT ![First] = IF First \in hasArg /\ @ = "live" THEN "handled" ELSE @]
    BY <1>3 DEF Fire
  <2>2. First \in ToSet(timerq) /\ First \in Timer
    BY <2>1 DEF QInv, QFirst, QFlags, QTypes
  <2>3. /\ timerq' \in Seq(Timer) /\ due' \in [Timer -> Nat]
        /\ QDistinct' /\ QSorted' /\ ToSet(timerq)' = ToSet(timerq) \ {First}
    BY <2>1, <2>2, DequeueKeeps DEF QInv
  <2>4. /\ inUse' = inUse \ {First} /\ cancelled' = cancelled \ {First}
        /\ hasArg' = hasArg \ {First} /\ removed' = removed \ {First}
    BY <2>1 DEF Dequeue
  <2>5. run' \notin removed /\ run' \notin ToSet(timerq)'
    BY <1>0, <2>1, <2>3 DEF QInv, QFlags
  <2>6. /\ arg' \in [Timer -> {"live", "freed", "handled", "twice"}]
        /\ \A u \in Timer \ {First} : arg'[u] = arg[u]
        /\ arg'[First] \in {arg[First], "handled"}
    <3>1. CASE UNCHANGED arg
      BY <3>1 DEF QInv, QTypes
    <3>2. CASE arg' = [arg EXCEPT ![First] = IF First \in hasArg /\ @ = "live" THEN "handled" ELSE @]
      BY <2>2, <3>2 DEF QInv, QTypes
    <3>3. QED
      BY <2>1, <3>1, <3>2
  <2>7. QArg'
    <3>1. \A u \in ToSet(timerq)' : u \in Timer \ {First} /\ u \in ToSet(timerq)
      BY <2>3, QMembers DEF QInv
    <3>2. arg[First] # "twice"
      BY <2>2 DEF QInv, QArg
    <3>3. \A u \in Timer : arg'[u] # "twice"
      BY <2>6, <3>2 DEF QInv, QArg
    <3>4. QED
      BY <2>4, <2>6, <3>1, <3>3 DEF QInv, QArg
  <2>8. QFirst'
    BY <2>1, <2>4 DEF QInv, QFirst
  <2>9. QTypes' /\ QFlags'
    BY <2>3, <2>4, <2>5, <2>6 DEF QInv, QTypes, QFlags
  <2>10. QED
    BY <2>3, <2>5, <2>7, <2>8, <2>9 DEF QInv
<1>4. CASE HandlerReturns
  <2>1. /\ tlPc' = "top" /\ run' = NULL
        /\ UNCHANGED <<timerq, due, inUse, cancelled, arg, hasArg, removed>>
    BY <1>4 DEF HandlerReturns, flags
  <2>2. First' = First /\ ToSet(timerq)' = ToSet(timerq) /\ NULL \notin ToSet(timerq)
    <3>1. NULL \notin ToSet(timerq)
      BY QHead, QPlaces, TimerLibAssumption DEF QInv
    <3>2. QED
      BY <2>1, <3>1 DEF First
  <2>3. QTypes' /\ QDistinct' /\ QSorted'
    BY <2>1 DEF QInv, QTypes, QDistinct, QSorted
  <2>4. QFlags' /\ QFirst' /\ QArg'
    BY <2>1, <2>2 DEF QInv, QFlags, QFirst, QArg
  <2>5. NULL \notin removed
    BY <2>2 DEF QInv, QFlags
  <2>6. QED
    BY <2>1, <2>3, <2>4, <2>5 DEF QInv
<1>5. CASE Tick
  <2>1. /\ due' = [t \in Timer |-> IF due[t] > 0 THEN due[t] - 1 ELSE 0]
        /\ UNCHANGED <<timerq, inUse, cancelled, arg, hasArg, removed, run, tlPc>>
    BY <1>5 DEF Tick, flags
  <2>2. First' = First /\ ToSet(timerq)' = ToSet(timerq)
    BY <2>1 DEF First
  <2>3. QTypes' /\ QDistinct'
    BY <2>1 DEF QInv, QTypes, QDistinct
  <2>4. QSorted'
    <3> SUFFICES ASSUME NEW i \in DOMAIN timerq, NEW j \in DOMAIN timerq, i <= j
                 PROVE  due'[timerq[i]] <= due'[timerq[j]]
      BY <2>1 DEF QSorted
    <3>1. timerq[i] \in Timer /\ timerq[j] \in Timer
      BY QHead DEF QInv
    <3>2. due[timerq[i]] <= due[timerq[j]] /\ due[timerq[i]] \in Nat /\ due[timerq[j]] \in Nat
      BY <3>1 DEF QInv, QSorted, QTypes
    <3>3. QED
      BY <2>1, <3>1, <3>2
  <2>5. QFlags' /\ QFirst' /\ QArg'
    BY <2>1, <2>2 DEF QInv, QFlags, QFirst, QArg
  <2>6. QED
    BY <1>0, <2>1, <2>3, <2>4, <2>5 DEF QInv
<1>6. QED
  BY <1>1, <1>2, <1>3, <1>4, <1>5

\* The inductive invariant of the timer library, and what no step of it does.
LEMMA QNext == QInv /\ [tlNext]_tlVars => QInv' /\ [run' \notin removed]_tlVars
<1> SUFFICES ASSUME QInv, [tlNext]_tlVars
             PROVE  QInv' /\ [run' \notin removed]_tlVars
  OBVIOUS
<1>1. CASE UNCHANGED tlVars
  BY <1>1, QSame DEF tlVars, flags
<1>2. CASE tlNext
  BY <1>2, QUser, QTicker DEF tlNext, Ticker, User
<1>3. QED
  BY <1>1, <1>2

\* The queue is sorted and without repetitions, and the flags belong to queued
\* timers, for every number of timers and every delay.
THEOREM TimerInvariant == tlSpec => []QInv
<1>1. QInv /\ [tlNext]_tlVars => QInv'
  BY QNext
<1>2. QED
  BY <1>1, QInit, PTL DEF tlSpec

\* timerq.first is the timer in use, the one due first, whenever the ticker
\* reads it (timerlib.c:225).
THEOREM FirstStays == tlSpec => []FirstInUse
<1>1. QInv => FirstInUse
  <2> SUFFICES ASSUME QInv PROVE FirstInUse
    OBVIOUS
  <2>1. tlPc \in {"sigwait", "fire"} => timerq # <<>> /\ First \in inUse
    BY QHead DEF QInv, QFirst, QTypes
  <2>2. ASSUME NEW t \in ToSet(timerq) PROVE due[First] <= due[t]
    <3>1. PICK j \in DOMAIN timerq : timerq[j] = t
      BY QPlaces DEF QInv
    <3>2. 1 \in DOMAIN timerq /\ First = timerq[1] /\ 1 <= j
      BY <3>1, QHead DEF QInv
    <3>3. QED
      BY <3>1, <3>2 DEF QInv, QSorted
  <2>3. QED
    BY <2>1, <2>2 DEF FirstInUse, QInv, QFirst
<1>2. QED
  BY <1>1, TimerInvariant, PTL

\* No argument is freed twice, or freed when its handler has it
\* (timerlib.c:461-477).
THEOREM ArgFreedOnce == tlSpec => []ArgOnce
<1>1. QInv => ArgOnce
  BY DEF QInv, QArg, ArgOnce, Queued
<1>2. QED
  BY <1>1, TimerInvariant, PTL

\* No handler starts for a timer that timer_rem has returned for
\* (timerlib.c:227-243).
THEOREM RemovedStays == tlSpec => NeverAfterRemoval
<1>1. QInv /\ [tlNext]_tlVars => [run' \notin removed]_tlVars
  BY QNext
<1>2. QED
  BY <1>1, TimerInvariant, PTL DEF tlSpec, NeverAfterRemoval

\* Every variable is of the kind its declaration in timerlib.c says, the
\* microseconds are below a second and no interval is negative: TV_MINUS is
\* taken only of times that are still ahead.
THEOREM TimerTypes == tlSpec => []TypeOK
<1> DEFINE Rest == /\ {run, alarmFor, pendingFor} \subseteq Timer \cup {NULL}
                   /\ usec \in 0 .. Second - 1 /\ alarm \in Nat
                   /\ {pending, zero} \subseteq BOOLEAN
<1>1. tlInit => Rest
  <2> SUFFICES ASSUME tlInit PROVE Rest
    OBVIOUS
  <2>1. {run, alarmFor, pendingFor} \subseteq Timer \cup {NULL} /\ alarm \in Nat
    BY DEF tlInit
  <2>2. usec \in 0 .. Second - 1
    BY TimerLibAssumption DEF tlInit
  <2>3. {pending, zero} \subseteq BOOLEAN
    <3>1. pending = FALSE /\ zero = FALSE
      BY DEF tlInit
    <3>2. QED
      BY <3>1, Zenon
  <2>4. QED
    BY <2>1, <2>2, <2>3
<1>2. QInv /\ Rest => TypeOK
  <2> SUFFICES ASSUME QInv, Rest PROVE TypeOK
    OBVIOUS
  <2>1. ToSet(timerq) \subseteq Timer
    BY QPlaces, QHead DEF QInv
  <2>2. cancelled \subseteq Timer /\ hasArg \subseteq Timer /\ removed \subseteq Timer
    BY <2>1 DEF QInv, QFlags
  <2>3. UNION {inUse, cancelled, hasArg, removed} \subseteq Timer
    BY <2>2 DEF QInv, QTypes
  <2>4. QED
    BY <2>3 DEF QInv, QTypes, TypeOK
<1>3. ASSUME QInv, Rest, [tlNext]_tlVars PROVE Rest'
  <2>1. First \in Timer \cup {NULL}
    BY <1>3, QHead DEF QInv
  <2>2. ASSUME NEW t \in Timer \cup {NULL}, NEW d \in Nat, TimerStart(t, d)
        PROVE  alarm' \in Nat /\ alarmFor' \in Timer \cup {NULL} /\ zero' \in BOOLEAN
    BY <2>2, TimerLibAssumption DEF TimerStart, Minus
  <2>3. ASSUME NEW t \in Timer \cup {NULL}, Forget(t), Rest
        PROVE  {alarmFor', pendingFor'} \subseteq Timer \cup {NULL}
    BY <2>3 DEF Forget
  <2>4. CASE InitCall \/ Booted \/ InitTimedOut \/ Sleep \/ HandlerReturns \/ UNCHANGED tlVars
    BY <1>3, <2>4 DEF InitCall, Booted, InitTimedOut, Sleep, HandlerReturns, tlVars, clock, signal
  <2>5. CASE Destroy
    BY <1>3, <2>5 DEF Destroy
  <2>6. ASSUME NEW t \in Timer, NEW d \in 1 .. MaxDelay, TimerAdd(t, d) PROVE Rest'
    <3>1. d \in Nat /\ UNCHANGED <<run, usec, pending, pendingFor>>
          /\ (TimerStart(t, d) \/ UNCHANGED <<alarm, alarmFor, zero>>)
      BY <2>6, TimerLibAssumption DEF TimerAdd, clock, signal
    <3>2. alarm' \in Nat /\ alarmFor' \in Timer \cup {NULL} /\ zero' \in BOOLEAN
      BY <1>3, <2>2, <3>1
    <3>3. QED
      BY <1>3, <3>1, <3>2
  <2>7. ASSUME NEW t \in Timer, NEW free \in BOOLEAN, RemInUse(t, free) PROVE Rest'
    BY <1>3, <2>7 DEF RemInUse, clock, signal
  <2>8. ASSUME NEW t \in Timer, NEW free \in BOOLEAN, RemWaiting(t, free) PROVE Rest'
    BY <1>3, <2>8, <2>3 DEF RemWaiting
  <2>9. CASE Arm
    <3>1. timerq # <<>> /\ TimerStart(First, due[First]) /\ UNCHANGED <<run, usec, pending, pendingFor>>
      BY <2>9 DEF Arm, signal
    <3>2. First \in Timer /\ due[First] \in Nat
      BY <1>3, <3>1, QHead DEF QInv, QTypes
    <3>3. alarm' \in Nat /\ alarmFor' \in Timer \cup {NULL} /\ zero' \in BOOLEAN
      BY <2>2, <3>1, <3>2
    <3>4. QED
      BY <1>3, <3>1, <3>3
  <2>10. CASE Sigwait
    BY <1>3, <2>10 DEF Sigwait, clock
  <2>11. CASE Fire
    <3>1. (run' = run \/ run' = First) /\ Forget(First) /\ UNCHANGED <<usec, alarm, zero, pending>>
      BY <2>11 DEF Fire
    <3>2. {alarmFor', pendingFor'} \subseteq Timer \cup {NULL}
      BY <1>3, <2>1, <2>3, <3>1
    <3>3. QED
      BY <1>3, <2>1, <3>1, <3>2
  <2>12. CASE Tick
    <3>1. usec' \in 0 .. Second - 1 /\ alarm' \in Nat
      BY <1>3, <2>12, TimerLibAssumption DEF Tick
    <3>2. /\ pending' \in BOOLEAN /\ pendingFor' \in Timer \cup {NULL}
          /\ UNCHANGED <<run, alarmFor, zero>>
      BY <1>3, <2>12 DEF Tick, signal
    <3>3. QED
      BY <1>3, <3>1, <3>2
  <2>13. QED
    BY <1>3, <2>4, <2>5, <2>6, <2>7, <2>8, <2>9, <2>10, <2>11, <2>12 DEF tlNext, Ticker, User
<1> HIDE DEF Rest
<1>4. QED
  BY <1>1, <1>2, <1>3, TimerInvariant, PTL DEF tlSpec

-----------------------------------------------------------------------------
(* The interval timer *)

\* The timer an alarm is for, running or gone off, is queued.  A running alarm
\* is at most one microsecond ahead of its timer, what TV_MINUS may lose; a timer
\* whose alarm has gone off is due within one.
AInv == /\ alarm \in Nat
        /\ alarmFor # NULL => alarmFor \in ToSet(timerq) /\ due[alarmFor] <= alarm + 1
        /\ pendingFor # NULL => pendingFor \in ToSet(timerq) /\ due[pendingFor] <= 1

\* timer_start is at most a microsecond early.
LEMMA StartsClose ==
    ASSUME NEW t, NEW d \in Nat, TimerStart(t, d)
    PROVE  alarm' \in Nat /\ alarmFor' = t /\ d <= alarm' + 1
  BY TimerLibAssumption DEF TimerStart, Minus

\* Taking a timer out of the queue, the alarms forget it.
LEMMA DequeueForgets ==
    ASSUME QInv, AInv, NEW t \in ToSet(timerq), Dequeue(t), Forget(t), UNCHANGED alarm
    PROVE  AInv'
<1>1. ToSet(timerq)' = ToSet(timerq) \ {t} /\ due' \in [Timer -> Nat]
  BY DequeueKeeps DEF QInv
<1>2. \A u \in Timer \ {t} : due'[u] = due[u]
  BY DEF Dequeue, QInv, QTypes
<1>3. ToSet(timerq) \subseteq Timer
  BY QMembers DEF QInv
<1>4. /\ alarmFor' # NULL => alarmFor' = alarmFor /\ alarmFor # t
      /\ pendingFor' # NULL => pendingFor' = pendingFor /\ pendingFor # t
  BY DEF Forget
<1>5. alarmFor' # NULL => alarmFor' \in ToSet(timerq)' /\ due'[alarmFor'] <= alarm' + 1
  BY <1>1, <1>2, <1>3, <1>4 DEF AInv
<1>6. pendingFor' # NULL => pendingFor' \in ToSet(timerq)' /\ due'[pendingFor'] <= 1
  BY <1>1, <1>2, <1>3, <1>4 DEF AInv
<1>7. QED
  BY <1>5, <1>6 DEF AInv

\* How far ahead of its timer an alarm is, over every step.
LEMMA AlarmStep ==
    ASSUME QInv, AInv, [tlNext]_tlVars
    PROVE  AInv'
<1>1. ASSUME UNCHANGED <<timerq, due, alarm, alarmFor, pendingFor>> PROVE AInv'
  BY <1>1 DEF AInv
<1>2. CASE \/ InitCall \/ Booted \/ InitTimedOut \/ Sleep \/ Sigwait \/ HandlerReturns
           \/ UNCHANGED tlVars
  BY <1>1, <1>2 DEF InitCall, Booted, InitTimedOut, Sleep, Sigwait, HandlerReturns,
     tlVars, clock, signal
<1>3. CASE Destroy
  BY <1>3 DEF Destroy, AInv
<1>4. ASSUME NEW t \in Timer, NEW d \in 1 .. MaxDelay, TimerAdd(t, d) PROVE AInv'
  <2>1. PICK i \in Places(d) :
            /\ NotInUse(t) /\ timerq' = InsertAt(timerq, i, t) /\ due' = [due EXCEPT ![t] = d]
            /\ (TimerStart(t, d) \/ UNCHANGED <<alarm, alarmFor>>) /\ UNCHANGED pendingFor
    BY <1>4 DEF TimerAdd, clock, signal
  <2>2. t \notin ToSet(timerq) /\ d \in Nat
    BY <2>1, TimerLibAssumption DEF NotInUse, Queued
  <2>3. ToSet(timerq)' = ToSet(timerq) \cup {t}
    BY <2>1, <2>2, AddKeeps DEF QInv
  <2>4. due'[t] = d /\ \A u \in ToSet(timerq) : due'[u] = due[u]
    BY <2>1, <2>2, QMembers DEF QInv, QTypes
  <2>5. pendingFor' # NULL => pendingFor' \in ToSet(timerq)' /\ due'[pendingFor'] <= 1
    BY <2>1, <2>3, <2>4 DEF AInv
  <2>6. alarm' \in Nat
        /\ (alarmFor' # NULL => alarmFor' \in ToSet(timerq)' /\ due'[alarmFor'] <= alarm' + 1)
    <3>1. CASE TimerStart(t, d)
      <4>1. alarm' \in Nat /\ alarmFor' = t /\ d <= alarm' + 1
        BY <2>2, <3>1, StartsClose
      <4>2. QED
        BY <2>3, <2>4, <4>1
    <3>2. CASE UNCHANGED <<alarm, alarmFor>>
      BY <2>3, <2>4, <3>2 DEF AInv
    <3>3. QED
      BY <2>1, <3>1, <3>2
  <2>7. QED
    BY <2>5, <2>6 DEF AInv
<1>5. ASSUME NEW t \in Timer, NEW free \in BOOLEAN, RemInUse(t, free) PROVE AInv'
  BY <1>1, <1>5 DEF RemInUse, clock, signal
<1>6. ASSUME NEW t \in Timer, NEW free \in BOOLEAN, RemWaiting(t, free) PROVE AInv'
  <2>1. t \in ToSet(timerq) /\ Dequeue(t) /\ Forget(t) /\ UNCHANGED alarm
    BY <1>6 DEF RemWaiting, Queued
  <2>2. QED
    BY <2>1, DequeueForgets
<1>7. CASE Arm
  <2>1. /\ timerq # <<>> /\ TimerStart(First, due[First])
        /\ UNCHANGED <<timerq, due, pendingFor>>
    BY <1>7 DEF Arm, signal
  <2>2. First \in ToSet(timerq) /\ due[First] \in Nat
    BY <2>1, QHead, QPlaces DEF QInv, QTypes
  <2>3. alarm' \in Nat /\ alarmFor' = First /\ due[First] <= alarm' + 1
    BY <2>1, <2>2, StartsClose
  <2>4. QED
    BY <2>1, <2>2, <2>3 DEF AInv
<1>8. CASE Fire
  <2>1. Dequeue(First) /\ Forget(First) /\ UNCHANGED alarm /\ tlPc = "fire"
    BY <1>8 DEF Fire
  <2>2. First \in ToSet(timerq)
    BY <2>1 DEF QInv, QFirst, QFlags
  <2>3. QED
    BY <2>1, <2>2, DequeueForgets
<1>9. CASE Tick
  <2>1. /\ due' = [t \in Timer |-> IF due[t] > 0 THEN due[t] - 1 ELSE 0]
        /\ alarm' = (IF alarm > 0 THEN alarm - 1 ELSE 0)
        /\ pendingFor' = (IF alarm = 1 THEN alarmFor ELSE pendingFor)
        /\ UNCHANGED <<timerq, alarmFor>>
    BY <1>9 DEF Tick, signal
  <2>2. \A t \in ToSet(timerq) : /\ t \in Timer /\ due[t] \in Nat
                                 /\ due'[t] = IF due[t] > 0 THEN due[t] - 1 ELSE 0
    BY <2>1, QMembers DEF QInv, QTypes
  <2>3. alarm' \in Nat /\ alarm \in Nat
    BY <2>1 DEF AInv
  <2>4. alarmFor' # NULL => alarmFor' \in ToSet(timerq)' /\ due'[alarmFor'] <= alarm' + 1
    BY <2>1, <2>2, <2>3 DEF AInv
  <2>5. pendingFor' # NULL => pendingFor' \in ToSet(timerq)' /\ due'[pendingFor'] <= 1
    BY <2>1, <2>2, <2>3 DEF AInv
  <2>6. QED
    BY <2>3, <2>4, <2>5 DEF AInv
<1>10. QED
  BY <1>2, <1>3, <1>4, <1>5, <1>6, <1>7, <1>8, <1>9 DEF tlNext, Ticker, User

\* A handler is started early, by more than the microsecond TV_MINUS loses, only
\* by an alarm that was started for another timer: for every number of timers,
\* every delay and every moment at which time passes (timerlib.c:139-160, 215-260).
THEOREM FiresOnTime == tlSpec => []NotEarly
<1>1. tlInit => AInv
  BY DEF tlInit, AInv
<1>2. QInv /\ AInv => NotEarly
  <2> SUFFICES ASSUME QInv, AInv, tlPc = "fire", pendingFor = First PROVE due[First] <= 1
    BY DEF NotEarly
  <2>1. First \in Timer
    BY DEF QInv, QFirst, QTypes
  <2>2. QED
    BY <2>1, TimerLibAssumption DEF AInv
<1>3. QInv /\ AInv /\ [tlNext]_tlVars => AInv'
  BY AlarmStep
<1>4. QED
  BY <1>1, <1>2, <1>3, TimerInvariant, PTL DEF tlSpec

-----------------------------------------------------------------------------
(* Dictionary and IniParser: for every file, name and value                 *)

Dicts == [key : Seq(Name \cup {NULL}), val : Seq(Val \cup {NULL}), hash : Seq(Nat),
          n : Nat, gone : SUBSET {"key", "val", "hash"}]
Good(d) == d \in Dicts /\ Size(d) \in Nat \ {0} /\ DictShape(d)

\* Dictionary e answers every query like d.
Same(d, e) == \A k \in Name : Get(e, k, Absent) = Get(d, k, Absent)
\* Dictionary e answers like d but for name k, whose value is v.
Differs(d, e, k, v) == /\ Get(e, k, Absent) = v
                       /\ \A l \in Name \ {k} : Get(e, l, Absent) = Get(d, l, Absent)

-----------------------------------------------------------------------------
(* Slots *)

\* A set of numbers that is not empty has a least one.
LEMMA HasLowest ==
    ASSUME NEW S \in SUBSET Nat, S # {}
    PROVE  Lowest(S) \in S /\ \A j \in S : Lowest(S) <= j
  BY Least DEF Lowest

\* What the arrays of a dictionary hold.
LEMMA DictArrays ==
    ASSUME NEW d \in Dicts, Len(d.val) = Size(d), Len(d.hash) = Size(d)
    PROVE  /\ Size(d) \in Nat /\ d.n \in Nat
           /\ DOMAIN d.key = 1 .. Size(d) /\ DOMAIN d.val = 1 .. Size(d)
           /\ \A i \in 1 .. Size(d) : /\ d.key[i] \in Name \cup {NULL}
                                      /\ d.val[i] \in Val \cup {NULL}
                                      /\ d.hash[i] \in Nat
           /\ Filled(d) \subseteq 1 .. Size(d)
           /\ IsFiniteSet(Filled(d)) /\ Cardinality(Filled(d)) \in Nat
<1>1. d.key \in Seq(Name \cup {NULL}) /\ d.val \in Seq(Val \cup {NULL}) /\ d.hash \in Seq(Nat) /\ d.n \in Nat
  BY DEF Dicts
<1>2. Size(d) \in Nat /\ DOMAIN d.key = 1 .. Size(d) /\ DOMAIN d.val = 1 .. Size(d)
  BY <1>1 DEF Size
<1>3. ASSUME NEW i \in 1 .. Size(d)
      PROVE  d.key[i] \in Name \cup {NULL} /\ d.val[i] \in Val \cup {NULL} /\ d.hash[i] \in Nat
  BY <1>1, <1>3 DEF Size
<1>4. Filled(d) \subseteq 1 .. Size(d)
  BY DEF Filled
<1>5. IsFiniteSet(1 .. Size(d))
  BY <1>2, FS_Interval
<1>6. IsFiniteSet(Filled(d)) /\ Cardinality(Filled(d)) \in Nat
  BY <1>4, <1>5, FS_Subset, FS_CardinalityType
<1>7. QED
  BY <1>1, <1>2, <1>3, <1>4, <1>6

\* The searches stop at the one slot that holds the name.
LEMMA HitsAt ==
    ASSUME NEW d, Good(d), NEW k \in Name, NEW i \in 1 .. Size(d), d.key[i] = k
    PROVE  /\ Hits(d, k) = {i} /\ Lowest(Hits(d, k)) = i
           /\ \A a : Get(d, k, a) = d.val[i]
<1>1. i \in Filled(d) /\ d.hash[i] = NameHash[k]
  BY DictAssumption DEF Filled, Good, DictShape
<1>2. \A j \in Filled(d) : d.key[j] = k => j = i
  BY <1>1 DEF Good, DictShape
<1>3. Hits(d, k) = {i}
  BY <1>1, <1>2 DEF Hits
<1>4. Lowest({i}) = i
  <2>1. i \in Nat /\ i <= i
    BY DEF Good
  <2>2. \A j \in {i} : (\A l \in {i} : j <= l) <=> j = i
    BY <2>1
  <2>3. QED
    BY <2>1, <2>2 DEF Lowest
<1>5. QED
  BY <1>3, <1>4 DEF Get

\* A name that is in no slot is not found.
LEMMA HitsNone ==
    ASSUME NEW d, NEW k \in Name, \A i \in 1 .. Size(d) : d.key[i] # k
    PROVE  Hits(d, k) = {} /\ \A a : Get(d, k, a) = a
<1>1. Hits(d, k) = {}
  BY DEF Hits, Filled
<1>2. QED
  BY <1>1 DEF Get

\* The searches decide whether a name is there.
LEMMA HitsKeys ==
    ASSUME NEW d, Good(d), NEW k \in Name
    PROVE  Hits(d, k) = {} <=> \A i \in 1 .. Size(d) : d.key[i] # k
  BY HitsAt, HitsNone

\* A name that is in the same slots of two dictionaries, with the same value,
\* has the same answer.
LEMMA SameSlots ==
    ASSUME NEW d, Good(d), NEW e, Good(e), NEW k \in Name,
           \A i \in 1 .. Size(d) : d.key[i] = k =>
               i \in 1 .. Size(e) /\ e.key[i] = k /\ e.val[i] = d.val[i],
           \A i \in 1 .. Size(e) : e.key[i] = k => i \in 1 .. Size(d) /\ d.key[i] = k
    PROVE  Get(e, k, Absent) = Get(d, k, Absent)
<1>1. CASE \E i \in 1 .. Size(d) : d.key[i] = k
  <2>1. PICK i \in 1 .. Size(d) : d.key[i] = k
    BY <1>1
  <2>2. Get(d, k, Absent) = d.val[i] /\ Get(e, k, Absent) = e.val[i]
    BY <2>1, HitsAt
  <2>3. QED
    BY <2>1, <2>2
<1>2. CASE \A i \in 1 .. Size(d) : d.key[i] # k
  <2>1. \A i \in 1 .. Size(e) : e.key[i] # k
    BY <1>2
  <2>2. QED
    BY <1>2, <2>1, HitsNone
<1>3. QED
  BY <1>1, <1>2

-----------------------------------------------------------------------------
(* The operations *)

\* A new dictionary is empty, whichever of its arrays are missing.
LEMMA NewGood ==
    ASSUME NEW lost \in SUBSET {"key", "val", "hash"}
    PROVE  LET d == [NewDict EXCEPT !.gone = lost]
           IN Good(d) /\ Filled(d) = {} /\ \A k \in Name : Get(d, k, Absent) = Absent
<1> DEFINE d == [NewDict EXCEPT !.gone = lost]
           N == [i \in 1 .. DictMinSz |-> NULL]
           Z == [i \in 1 .. DictMinSz |-> 0]
<1>1. DictMinSz \in Nat \ {0}
  BY DictAssumption
<1>2. /\ N \in Seq(Name \cup {NULL}) /\ N \in Seq(Val \cup {NULL}) /\ Z \in Seq(Nat)
      /\ Len(N) = DictMinSz /\ Len(Z) = DictMinSz
      /\ \A i \in 1 .. DictMinSz : N[i] = NULL
  BY <1>1
<1> HIDE DEF N, Z
<1>3. d = [key |-> N, val |-> N, hash |-> Z, n |-> 0, gone |-> lost]
  <2>1. NewDict = [key |-> N, val |-> N, hash |-> Z, n |-> 0, gone |-> {}]
    BY DEF NewDict, N, Z
  <2>2. QED
    BY <2>1
<1>4. d \in Dicts
  BY <1>2, <1>3 DEF Dicts
<1>5. Size(d) = DictMinSz /\ Filled(d) = {}
  BY <1>2, <1>3 DEF Size, Filled
<1>6. Good(d)
  <2>1. Cardinality(Filled(d)) = 0
    BY <1>5, FS_EmptySet
  <2>2. Len(d.val) = Size(d) /\ Len(d.hash) = Size(d) /\ d.n = 0
    BY <1>2, <1>3, <1>5
  <2>3. DictShape(d)
    BY <1>1, <1>5, <2>1, <2>2 DEF DictShape
  <2>4. QED
    BY <1>1, <1>4, <1>5, <2>3 DEF Good
<1>7. \A k \in Name : Get(d, k, Absent) = Absent
  BY <1>5 DEF Get, Hits
<1>8. QED
  BY <1>5, <1>6, <1>7

\* Losing arrays to a failed mem_double changes no name and no value that are
\* still to be seen.
LEMMA UngrownGood ==
    ASSUME NEW d, Good(d), NEW e \in Ungrown(d)
    PROVE  Good(e) /\ Same(d, e) /\ Filled(e) = Filled(d)
<1>1. PICK lost \in SUBSET {"key", "val", "hash"} : e = [d EXCEPT !.gone = lost]
  BY DEF Ungrown
<1>2. e \in Dicts
  BY <1>1 DEF Dicts, Good
<1>3. e.key = d.key /\ e.val = d.val /\ e.hash = d.hash /\ e.n = d.n
  BY <1>1 DEF Dicts, Good
<1>4. Size(e) = Size(d) /\ Filled(e) = Filled(d)
  BY <1>3 DEF Size, Filled
<1>5. Good(e)
  BY <1>2, <1>3, <1>4 DEF Good, DictShape
<1>6. Same(d, e)
  BY <1>3, <1>4 DEF Same, Get, Hits
<1>7. QED
  BY <1>4, <1>5, <1>6

\* The fields of a dictionary.
LEMMA DictFields ==
    ASSUME NEW e, NEW K, NEW V, NEW H, NEW m, NEW g,
           e = [key |-> K, val |-> V, hash |-> H, n |-> m, gone |-> g]
    PROVE  e.key = K /\ e.val = V /\ e.hash = H /\ e.n = m /\ e.gone = g
  OBVIOUS

\* Writing one slot of the three arrays, and the count.
Put(d, i, ck, cv, h, m) == [d EXCEPT !.key[i] = ck, !.val[i] = cv, !.hash[i] = h, !.n = m]

\* Its fields.
LEMMA PutRecord ==
    ASSUME NEW d, NEW a, NEW b, NEW c, NEW n, NEW g,
           d = [key |-> a, val |-> b, hash |-> c, n |-> n, gone |-> g],
           NEW i, NEW ck, NEW cv, NEW h, NEW m
    PROVE  Put(d, i, ck, cv, h, m) = [key |-> [a EXCEPT ![i] = ck], val |-> [b EXCEPT ![i] = cv],
                                      hash |-> [c EXCEPT ![i] = h], n |-> m, gone |-> g]
<1> DEFINE K == [a EXCEPT ![i] = ck]
           V == [b EXCEPT ![i] = cv]
           H == [c EXCEPT ![i] = h]
           d1 == [d EXCEPT !.key[i] = ck]
           d2 == [d1 EXCEPT !.val[i] = cv]
           d3 == [d2 EXCEPT !.hash[i] = h]
           d4 == [d3 EXCEPT !.n = m]
<1>1. d1 = [key |-> K, val |-> b, hash |-> c, n |-> n, gone |-> g]
  OBVIOUS
<1> HIDE DEF d1
<1>2. d2 = [key |-> K, val |-> V, hash |-> c, n |-> n, gone |-> g]
  BY <1>1
<1> HIDE DEF d2
<1>3. d3 = [key |-> K, val |-> V, hash |-> H, n |-> n, gone |-> g]
  BY <1>2
<1> HIDE DEF d3
<1>4. d4 = [key |-> K, val |-> V, hash |-> H, n |-> m, gone |-> g]
  BY <1>3
<1> HIDE DEF d4
<1>5. Put(d, i, ck, cv, h, m) = d4
  BY DEF d1, d2, d3, d4, Put
<1>6. QED
  BY <1>4, <1>5

\* The slot holds what was written, the others what they held.
Written(d, i, ck, cv, h, m, e) ==
    /\ e \in Dicts /\ e.n = m /\ Size(e) = Size(d)
    /\ Len(e.val) = Size(d) /\ Len(e.hash) = Size(d)
    /\ e.key[i] = ck /\ e.val[i] = cv /\ e.hash[i] = h
    /\ \A j \in 1 .. Size(d) \ {i} :
           e.key[j] = d.key[j] /\ e.val[j] = d.val[j] /\ e.hash[j] = d.hash[j]

\* Put does that.
LEMMA PutSlot ==
    ASSUME NEW d, Good(d), NEW i \in 1 .. Size(d), NEW ck \in Name \cup {NULL},
           NEW cv \in Val \cup {NULL}, NEW h \in Nat, NEW m \in Nat,
           NEW e, e = Put(d, i, ck, cv, h, m)
    PROVE  Written(d, i, ck, cv, h, m, e)
<1>1. /\ d \in Dicts /\ d.key \in Seq(Name \cup {NULL}) /\ d.val \in Seq(Val \cup {NULL})
      /\ d.hash \in Seq(Nat) /\ d.gone \in SUBSET {"key", "val", "hash"}
      /\ Len(d.val) = Size(d) /\ Len(d.hash) = Size(d) /\ Len(d.key) = Size(d)
  BY DEF Good, Dicts, DictShape, Size
<1> DEFINE K == [d.key EXCEPT ![i] = ck]
           V == [d.val EXCEPT ![i] = cv]
           H == [d.hash EXCEPT ![i] = h]
<1>2. /\ K \in Seq(Name \cup {NULL}) /\ Len(K) = Size(d)
      /\ \A j \in 1 .. Size(d) : K[j] = IF j = i THEN ck ELSE d.key[j]
  BY <1>1, ExceptSeq
<1>3. /\ V \in Seq(Val \cup {NULL}) /\ Len(V) = Size(d)
      /\ \A j \in 1 .. Size(d) : V[j] = IF j = i THEN cv ELSE d.val[j]
  BY <1>1, ExceptSeq
<1>4. /\ H \in Seq(Nat) /\ Len(H) = Size(d)
      /\ \A j \in 1 .. Size(d) : H[j] = IF j = i THEN h ELSE d.hash[j]
  BY <1>1, ExceptSeq
<1>5. e = [key |-> K, val |-> V, hash |-> H, n |-> m, gone |-> d.gone]
  <2>1. d = [key |-> d.key, val |-> d.val, hash |-> d.hash, n |-> d.n, gone |-> d.gone]
    BY <1>1 DEF Dicts
  <2>2. QED
    BY <2>1, PutRecord
<1> HIDE DEF K, V, H
<1>6. e \in Dicts
  BY <1>1, <1>2, <1>3, <1>4, <1>5 DEF Dicts
<1>7. e.key = K /\ e.val = V /\ e.hash = H /\ e.n = m
  <2>1. e.key = K
    BY <1>5
  <2>2. e.val = V
    BY <1>5
  <2>3. e.hash = H
    BY <1>5
  <2>4. e.n = m
    BY <1>5
  <2>5. QED
    BY <2>1, <2>2, <2>3, <2>4
<1>8. QED
  BY <1>2, <1>3, <1>4, <1>6, <1>7 DEF Size, Written

\* dictionary_set of a name that is there.
LEMMA ReplacementsGood ==
    ASSUME NEW d, Good(d), NEW k \in Name, NEW v \in Val \cup {NULL}, Hits(d, k) # {},
           NEW e \in Replacements(d, k, v)
    PROVE  Good(e) /\ Filled(e) = Filled(d) /\ \E c \in Val \cup {NULL} : Differs(d, e, k, c)
<1>1. PICK i \in 1 .. Size(d) : d.key[i] = k
  BY HitsKeys
<1>2. PICK c \in Copies(v) : e = [d EXCEPT !.val[i] = c]
  BY <1>1, HitsAt DEF Replacements
<1>3. c \in Val \cup {NULL}
  BY DEF Copies
<1>4. /\ d \in Dicts /\ d.key \in Seq(Name \cup {NULL}) /\ d.val \in Seq(Val \cup {NULL})
      /\ d.hash \in Seq(Nat) /\ d.gone \in SUBSET {"key", "val", "hash"} /\ d.n \in Nat
      /\ Len(d.val) = Size(d)
  BY DEF Good, Dicts, DictShape
<1> DEFINE V == [d.val EXCEPT ![i] = c]
<1>5. /\ V \in Seq(Val \cup {NULL}) /\ Len(V) = Size(d)
      /\ \A j \in 1 .. Size(d) : V[j] = IF j = i THEN c ELSE d.val[j]
  BY <1>1, <1>3, <1>4, ExceptSeq
<1>6. e = [key |-> d.key, val |-> V, hash |-> d.hash, n |-> d.n, gone |-> d.gone]
  BY <1>2, <1>4 DEF Dicts
<1> HIDE DEF V
<1>7. e.key = d.key /\ e.val = V /\ e.hash = d.hash /\ e.n = d.n /\ e \in Dicts
  BY <1>4, <1>5, <1>6 DEF Dicts
<1>8. Size(e) = Size(d) /\ Filled(e) = Filled(d)
  BY <1>7 DEF Size, Filled
<1>9. Good(e)
  BY <1>5, <1>7, <1>8 DEF Good, DictShape
<1>10. Get(e, k, Absent) = c
  BY <1>1, <1>5, <1>7, <1>8, <1>9, HitsAt
<1>11. ASSUME NEW l \in Name \ {k} PROVE Get(e, l, Absent) = Get(d, l, Absent)
  <2>1. \A j \in 1 .. Size(d) : d.key[j] = l => e.val[j] = d.val[j]
    BY <1>1, <1>5, <1>7
  <2>2. QED
    BY <1>7, <1>8, <1>9, <2>1, SameSlots
<1>12. QED
  BY <1>3, <1>8, <1>9, <1>10, <1>11 DEF Differs

\* dictionary_unset.
LEMMA UnsetGood ==
    ASSUME NEW d, Good(d), NEW k \in Name
    PROVE  Good(Unset(d, k)) /\ (Unset(d, k) # d => Differs(d, Unset(d, k), k, Absent))
<1>1. CASE Hits(d, k) = {}
  BY <1>1 DEF Unset
<1>2. CASE Hits(d, k) # {}
  <2>1. PICK i \in 1 .. Size(d) : d.key[i] = k
    BY <1>2, HitsKeys
  <2>2. Hits(d, k) = {i} /\ Lowest(Hits(d, k)) = i
    BY <2>1, HitsAt
  <2> DEFINE e == Unset(d, k)
  <2>3. /\ IsFiniteSet(Filled(d)) /\ Cardinality(Filled(d)) \in Nat /\ d.n \in Nat
        /\ Size(d) \in Nat
        /\ Cardinality(Filled(d)) <= d.n /\ d.n <= Size(d)
    BY DictArrays DEF Good, DictShape
  <2>4. i \in Filled(d) /\ k # NULL
    BY <2>1, DictAssumption DEF Filled
  <2>5. /\ IsFiniteSet(Filled(d) \ {i})
        /\ Cardinality(Filled(d) \ {i}) = Cardinality(Filled(d)) - 1
        /\ Cardinality(Filled(d) \ {i}) \in Nat
    BY <2>3, <2>4, FS_RemoveElement, FS_CardinalityType
  <2>6. PICK m \in Nat : m = d.n - 1 /\ m <= Size(d) /\ Cardinality(Filled(d) \ {i}) <= m
    BY <2>3, <2>5
  <2>7. e = Put(d, i, NULL, NULL, 0, m)
    BY <1>2, <2>2, <2>6 DEF Unset, Put
  <2> HIDE DEF e
  <2>8. /\ e \in Dicts /\ e.n = m /\ Size(e) = Size(d)
        /\ Len(e.val) = Size(d) /\ Len(e.hash) = Size(d)
        /\ e.key[i] = NULL
        /\ \A j \in 1 .. Size(d) \ {i} :
               e.key[j] = d.key[j] /\ e.val[j] = d.val[j] /\ e.hash[j] = d.hash[j]
    <3>1. NULL \in Name \cup {NULL} /\ NULL \in Val \cup {NULL} /\ 0 \in Nat
      OBVIOUS
    <3>2. Written(d, i, NULL, NULL, 0, m, e)
      BY <2>7, <3>1, PutSlot
    <3>3. QED
      BY <3>2 DEF Written
  <2>9. Filled(e) = Filled(d) \ {i}
    BY <2>8 DEF Filled
  <2>10. Good(e)
    <3>1. Cardinality(Filled(e)) <= e.n /\ e.n <= Size(e)
      BY <2>6, <2>8, <2>9
    <3>2. \A j \in Filled(e) : j \in 1 .. Size(d) \ {i} /\ j \in Filled(d)
      BY <2>9 DEF Filled
    <3>3. \A j \in Filled(e) : /\ e.hash[j] = NameHash[e.key[j]]
                               /\ \A l \in Filled(e) : e.key[j] = e.key[l] => j = l
      BY <2>8, <3>2 DEF Good, DictShape
    <3>4. QED
      BY <2>8, <3>1, <3>3 DEF Good, DictShape
  <2>11. Get(e, k, Absent) = Absent
    <3>1. \A j \in 1 .. Size(d) : d.key[j] = k => j = i
      BY <2>1, HitsAt
    <3>2. \A j \in 1 .. Size(e) : e.key[j] # k
      BY <2>4, <2>8, <3>1
    <3>3. QED
      BY <3>2, HitsNone
  <2>12. ASSUME NEW l \in Name \ {k} PROVE Get(e, l, Absent) = Get(d, l, Absent)
    <3>1. \A j \in 1 .. Size(d) : d.key[j] = l => e.key[j] = l /\ e.val[j] = d.val[j]
      BY <2>1, <2>8
    <3>2. \A j \in 1 .. Size(e) : e.key[j] = l => d.key[j] = l
      BY <2>8, DictAssumption
    <3>3. QED
      BY <2>8, <2>10, <3>1, <3>2, SameSlots
  <2>13. QED
    BY <2>10, <2>11, <2>12 DEF Differs, e
<1>3. QED
  BY <1>1, <1>2

\* A doubled array holds what it held, and the empty element behind it.
IsDoubled(s, z, S, r) ==
    /\ r \in Seq(S) /\ Len(r) = Len(s) + Len(s)
    /\ \A j \in 1 .. Len(s) : r[j] = s[j]
    /\ \A j \in Len(s) + 1 .. Len(s) + Len(s) : r[j] = z

\* mem_double does that, which clears the second half.
LEMMA DoubledIs ==
    ASSUME NEW S, NEW s \in Seq(S), NEW z \in S
    PROVE  IsDoubled(s, z, S, Doubled(s, z))
<1> DEFINE u == [i \in 1 .. Len(s) |-> z]
<1>1. Len(s) \in Nat
  OBVIOUS
<1>2. u \in Seq(S) /\ Len(u) = Len(s) /\ \A j \in 1 .. Len(s) : u[j] = z
  BY <1>1
<1>3. Doubled(s, z) = s \o u
  BY DEF Doubled
<1> HIDE DEF u
<1>4. /\ s \o u \in Seq(S) /\ Len(s \o u) = Len(s) + Len(u)
      /\ \A j \in 1 .. Len(s) + Len(u) : (s \o u)[j] = IF j <= Len(s) THEN s[j] ELSE u[j - Len(s)]
  BY <1>2, ConcatProperties, Zenon
<1>5. \A j \in 1 .. Len(s) : (s \o u)[j] = s[j]
  BY <1>1, <1>2, <1>4
<1>6. ASSUME NEW j \in Len(s) + 1 .. Len(s) + Len(s) PROVE (s \o u)[j] = z
  <2>1. j \in 1 .. Len(s) + Len(u) /\ ~(j <= Len(s)) /\ j - Len(s) \in 1 .. Len(s)
    BY <1>1, <1>2
  <2>2. (s \o u)[j] = u[j - Len(s)]
    BY <1>4, <2>1
  <2>3. QED
    BY <1>2, <2>1, <2>2
<1>7. QED
  BY <1>2, <1>3, <1>4, <1>5, <1>6 DEF IsDoubled

\* The growth of a dictionary whose three allocations succeed.
LEMMA GrownGood ==
    ASSUME NEW d, Good(d)
    PROVE  /\ Good(Grown(d)) /\ Same(d, Grown(d)) /\ Filled(Grown(d)) = Filled(d)
           /\ Grown(d).n = d.n /\ Size(Grown(d)) = Size(d) + Size(d)
           /\ \A k \in Name : Hits(d, k) = {} => Hits(Grown(d), k) = {}
<1>1. /\ d \in Dicts /\ d.key \in Seq(Name \cup {NULL}) /\ d.val \in Seq(Val \cup {NULL})
      /\ d.hash \in Seq(Nat) /\ d.gone \in SUBSET {"key", "val", "hash"} /\ d.n \in Nat
      /\ Len(d.val) = Size(d) /\ Len(d.hash) = Size(d) /\ Len(d.key) = Size(d)
      /\ Size(d) \in Nat \ {0} /\ d.n <= Size(d)
  BY DEF Good, Dicts, DictShape, Size
<1> DEFINE K == Doubled(d.key, NULL)
           V == Doubled(d.val, NULL)
           H == Doubled(d.hash, 0)
           e == Grown(d)
<1>2. /\ IsDoubled(d.key, NULL, Name \cup {NULL}, K)
      /\ IsDoubled(d.val, NULL, Val \cup {NULL}, V)
      /\ IsDoubled(d.hash, 0, Nat, H)
  BY <1>1, DoubledIs
<1>3. e = [key |-> K, val |-> V, hash |-> H, n |-> d.n, gone |-> d.gone]
  <2> DEFINE d1 == [d EXCEPT !.key = K]
             d2 == [d1 EXCEPT !.val = V]
             d3 == [d2 EXCEPT !.hash = H]
  <2> HIDE DEF K, V, H
  <2>1. d = [key |-> d.key, val |-> d.val, hash |-> d.hash, n |-> d.n, gone |-> d.gone]
    BY <1>1 DEF Dicts
  <2>2. d1 = [key |-> K, val |-> d.val, hash |-> d.hash, n |-> d.n, gone |-> d.gone]
    BY <2>1
  <2> HIDE DEF d1
  <2>3. d2 = [key |-> K, val |-> V, hash |-> d.hash, n |-> d.n, gone |-> d.gone]
    BY <2>2
  <2> HIDE DEF d2
  <2>4. d3 = [key |-> K, val |-> V, hash |-> H, n |-> d.n, gone |-> d.gone]
    BY <2>3
  <2> HIDE DEF d3
  <2>5. Grown(d) = [d EXCEPT !.key = K, !.val = V, !.hash = H]
    BY DEF Grown, K, V, H
  <2>6. [d EXCEPT !.key = K, !.val = V, !.hash = H] = d3
    BY DEF d1, d2, d3
  <2>7. QED
    BY <2>4, <2>5, <2>6
<1> HIDE DEF K, V, H, e
<1>4. /\ K \in Seq(Name \cup {NULL}) /\ Len(K) = Size(d) + Size(d)
      /\ \A j \in 1 .. Size(d) : K[j] = d.key[j]
      /\ \A j \in Size(d) + 1 .. Size(d) + Size(d) : K[j] = NULL
  BY <1>1, <1>2 DEF IsDoubled
<1>5. /\ V \in Seq(Val \cup {NULL}) /\ Len(V) = Size(d) + Size(d)
      /\ \A j \in 1 .. Size(d) : V[j] = d.val[j]
  BY <1>1, <1>2 DEF IsDoubled
<1>6. /\ H \in Seq(Nat) /\ Len(H) = Size(d) + Size(d)
      /\ \A j \in 1 .. Size(d) : H[j] = d.hash[j]
  BY <1>1, <1>2 DEF IsDoubled
<1>7. e \in Dicts
  BY <1>1, <1>3, <1>4, <1>5, <1>6 DEF Dicts
<1>8. e.key = K /\ e.val = V /\ e.hash = H /\ e.n = d.n
  BY <1>3
<1>9. Size(e) = Size(d) + Size(d)
  BY <1>4, <1>8 DEF Size
<1>10. ASSUME NEW j \in 1 .. Size(e)
       PROVE  (j \in 1 .. Size(d) /\ e.key[j] = d.key[j]) \/ e.key[j] = NULL
  BY <1>1, <1>4, <1>8, <1>9
<1>11. ASSUME NEW j \in 1 .. Size(d)
       PROVE  /\ j \in 1 .. Size(e) /\ e.key[j] = d.key[j] /\ e.val[j] = d.val[j]
              /\ e.hash[j] = d.hash[j]
  BY <1>1, <1>4, <1>5, <1>6, <1>8, <1>9
<1>12. Filled(e) = Filled(d)
  BY <1>10, <1>11 DEF Filled
<1>13. Good(e)
  <2>1. Cardinality(Filled(e)) <= e.n /\ e.n <= Size(e)
    BY <1>1, <1>8, <1>9, <1>12 DEF Good, DictShape
  <2>2. \A j \in Filled(e) : j \in Filled(d) /\ j \in 1 .. Size(d)
    BY <1>12 DEF Filled
  <2>3. \A j \in Filled(e) : /\ e.hash[j] = NameHash[e.key[j]]
                             /\ \A l \in Filled(e) : e.key[j] = e.key[l] => j = l
    BY <1>11, <2>2 DEF Good, DictShape
  <2>4. Len(e.val) = Size(e) /\ Len(e.hash) = Size(e) /\ Size(e) \in Nat \ {0}
    BY <1>1, <1>5, <1>6, <1>8, <1>9
  <2>5. QED
    BY <1>7, <2>1, <2>3, <2>4 DEF Good, DictShape
<1>14. Same(d, e)
  <2> SUFFICES ASSUME NEW k \in Name PROVE Get(e, k, Absent) = Get(d, k, Absent)
    BY DEF Same
  <2>1. \A j \in 1 .. Size(e) : e.key[j] = k => j \in 1 .. Size(d) /\ d.key[j] = k
    BY <1>10, DictAssumption
  <2>2. \A j \in 1 .. Size(d) : d.key[j] = k =>
            j \in 1 .. Size(e) /\ e.key[j] = k /\ e.val[j] = d.val[j]
    BY <1>11
  <2>3. QED
    BY <1>13, <2>1, <2>2, SameSlots
<1>15. ASSUME NEW k \in Name, Hits(d, k) = {} PROVE Hits(e, k) = {}
  <2>1. \A j \in 1 .. Size(d) : d.key[j] # k
    BY <1>15, HitsKeys
  <2>2. \A j \in 1 .. Size(e) : e.key[j] # k
    BY <1>10, <2>1, DictAssumption
  <2>3. QED
    BY <2>2, HitsNone
<1>16. QED
  BY <1>8, <1>9, <1>12, <1>13, <1>14, <1>15 DEF e

\* A dictionary that is not full has an empty slot, and the search finds it.
LEMMA EmptySlot ==
    ASSUME NEW d, Good(d), d.n < Size(d)
    PROVE  Lowest(Empty(d)) \in 1 .. Size(d) /\ d.key[Lowest(Empty(d))] = NULL
<1>1. /\ Size(d) \in Nat /\ d.n \in Nat /\ Filled(d) \subseteq 1 .. Size(d)
      /\ Cardinality(Filled(d)) \in Nat /\ Cardinality(Filled(d)) <= d.n
  BY DictArrays DEF Good, DictShape
<1>2. Cardinality(1 .. Size(d)) = Size(d)
  <2>1. 1 \in Int /\ Size(d) \in Int
    BY <1>1
  <2>2. Cardinality(1 .. Size(d)) = IF 1 > Size(d) THEN 0 ELSE Size(d) - 1 + 1
    BY <2>1, FS_Interval, Zenon
  <2>3. QED
    BY <1>1, <2>2
<1>3. Filled(d) # 1 .. Size(d)
  BY <1>1, <1>2
<1>4. Empty(d) # {} /\ Empty(d) \in SUBSET Nat
  BY <1>1, <1>3 DEF Empty, Filled
<1>5. Lowest(Empty(d)) \in Empty(d)
  BY <1>4, HasLowest
<1>6. QED
  BY <1>5 DEF Empty

\* A new name in an empty slot; the copies of name and value may fail.
LEMMA AdditionsGood ==
    ASSUME NEW d, Good(d), d.n < Size(d), NEW k \in Name, Hits(d, k) = {},
           NEW v \in Val \cup {NULL}, NEW e \in Additions(d, k, v)
    PROVE  Good(e) /\ (Same(d, e) \/ \E c \in Val \cup {NULL} : Differs(d, e, k, c))
<1> DEFINE low == Lowest(Empty(d))
<1>1. PICK i \in 1 .. Size(d) : i = low /\ d.key[i] = NULL
  BY EmptySlot
<1>2. PICK ck \in Copies(k), cv \in Copies(v) :
          e = Entry(d, i, NameHash[k], ck, cv)
  <2>1. PICK ck \in Copies(k), cv \in Copies(v) : e = Entry(d, low, NameHash[k], ck, cv)
    BY DEF Additions
  <2>2. QED
    BY <1>1, <2>1
<1>3. ck \in {k, NULL} /\ ck \in Name \cup {NULL} /\ cv \in Val \cup {NULL} /\ NameHash[k] \in Nat
  BY DictAssumption DEF Copies
<1>4. /\ IsFiniteSet(Filled(d)) /\ Cardinality(Filled(d)) \in Nat /\ d.n \in Nat
      /\ Size(d) \in Nat /\ Cardinality(Filled(d)) <= d.n
  BY DictArrays DEF Good, DictShape
<1>5. /\ IsFiniteSet(Filled(d) \cup {i})
      /\ Cardinality(Filled(d) \cup {i}) \in Nat
      /\ Cardinality(Filled(d) \cup {i}) <= Cardinality(Filled(d)) + 1
  <2>1. /\ IsFiniteSet(Filled(d) \cup {i})
        /\ Cardinality(Filled(d) \cup {i}) =
               IF i \in Filled(d) THEN Cardinality(Filled(d)) ELSE Cardinality(Filled(d)) + 1
    BY <1>4, FS_AddElement, Zenon
  <2>2. QED
    BY <1>4, <2>1
<1>6. PICK m \in Nat : m = d.n + 1 /\ m <= Size(d) /\ Cardinality(Filled(d) \cup {i}) <= m
  BY <1>4, <1>5
<1>7. e = Put(d, i, ck, cv, NameHash[k], m)
  BY <1>2, <1>6 DEF Put, Entry
<1>8. Written(d, i, ck, cv, NameHash[k], m, e)
  <2>1. PICK h \in Nat : h = NameHash[k]
    BY <1>3
  <2>2. Written(d, i, ck, cv, h, m, e)
    BY <1>3, <1>7, <2>1, PutSlot
  <2>3. QED
    BY <2>1, <2>2
<1>9. \A j \in 1 .. Size(d) : d.key[j] # k
  BY HitsKeys
<1>10. Good(e)
  <2>1. Filled(e) \subseteq Filled(d) \cup {i}
    BY <1>8 DEF Written, Filled
  <2>2. Cardinality(Filled(e)) <= e.n /\ e.n <= Size(e)
    <3>1. Cardinality(Filled(e)) \in Nat /\ Cardinality(Filled(e)) <= Cardinality(Filled(d) \cup {i})
      BY <1>5, <2>1, FS_Subset, FS_CardinalityType
    <3>2. e.n = m /\ Size(e) = Size(d)
      BY <1>8 DEF Written
    <3>3. QED
      BY <1>5, <1>6, <3>1, <3>2
  <2>3. \A j \in Filled(e) : j # i => /\ j \in 1 .. Size(d) \ {i} /\ j \in Filled(d)
                                      /\ e.key[j] = d.key[j] /\ e.hash[j] = d.hash[j]
                                      /\ d.key[j] # k
    BY <1>8, <1>9, <2>1 DEF Written, Filled
  <2>4. i \in Filled(e) => e.key[i] = k /\ e.hash[i] = NameHash[k]
    BY <1>3, <1>8 DEF Written, Filled
  <2>5. ASSUME NEW j \in Filled(e)
        PROVE  /\ e.hash[j] = NameHash[e.key[j]]
               /\ \A l \in Filled(e) : e.key[j] = e.key[l] => j = l
    BY <2>3, <2>4 DEF Good, DictShape
  <2>6. QED
    BY <1>8, <2>2, <2>5 DEF Written, Good, DictShape
<1>11. ASSUME NEW l \in Name, l # ck PROVE Get(e, l, Absent) = Get(d, l, Absent)
  <2>1. \A j \in 1 .. Size(d) : d.key[j] = l => e.key[j] = l /\ e.val[j] = d.val[j]
    BY <1>1, <1>8, DictAssumption DEF Written
  <2>2. \A j \in 1 .. Size(e) : e.key[j] = l => d.key[j] = l
    BY <1>8, <1>11 DEF Written
  <2>3. Size(e) = Size(d)
    BY <1>8 DEF Written
  <2>4. QED
    BY <1>10, <2>1, <2>2, <2>3, SameSlots
<1>12. CASE ck = NULL
  BY <1>10, <1>11, <1>12, DictAssumption DEF Same
<1>13. CASE ck = k
  <2>1. Get(e, k, Absent) = cv
    <3>1. i \in 1 .. Size(e) /\ e.key[i] = k /\ e.val[i] = cv
      BY <1>8, <1>13 DEF Written
    <3>2. QED
      BY <1>10, <3>1, HitsAt
  <2>2. QED
    BY <1>3, <1>10, <1>11, <1>13, <2>1 DEF Differs
<1>14. QED
  BY <1>3, <1>12, <1>13

\* One name at most has another value in e than in d.
OneName(d, e) == Same(d, e) \/ \E k \in Name, c \in Val \cup {NULL, Absent} : Differs(d, e, k, c)

\* The names other than k have the value in e they have in d.
OtherNames(d, e, k) == \A l \in Name \ {k} : Get(e, l, Absent) = Get(d, l, Absent)

\* dictionary_set, whatever of it fails.
LEMMA SetsGood ==
    ASSUME NEW d, Good(d), NEW k \in Name, NEW v \in Val \cup {NULL}, NEW e \in Sets(d, k, v)
    PROVE  Good(e) /\ OneName(d, e) /\ OtherNames(d, e, k)
<1>1. CASE d.n > 0 /\ Hits(d, k) # {}
  <2>1. e \in Replacements(d, k, v)
    BY <1>1 DEF Sets
  <2>2. Good(e) /\ \E c \in Val \cup {NULL} : Differs(d, e, k, c)
    BY <1>1, <2>1, ReplacementsGood
  <2>3. QED
    BY <2>2 DEF OneName, OtherNames, Differs
<1>2. CASE ~(d.n > 0 /\ Hits(d, k) # {})
  <2>1. /\ IsFiniteSet(Filled(d)) /\ Cardinality(Filled(d)) \in Nat /\ d.n \in Nat
        /\ Size(d) \in Nat \ {0} /\ Cardinality(Filled(d)) <= d.n /\ d.n <= Size(d)
    BY DictArrays DEF Good, DictShape
  <2>2. Hits(d, k) = {}
    <3>1. CASE d.n = 0
      <4>1. Cardinality(Filled(d)) = 0
        BY <2>1, <3>1
      <4>2. Filled(d) = {}
        BY <2>1, <4>1, FS_EmptySet
      <4>3. QED
        BY <4>2 DEF Hits
    <3>2. QED
      BY <1>2, <2>1, <3>1
  <2> DEFINE r == Roomy(d)
  <2>3. Good(r) /\ Same(d, r) /\ r.n < Size(r) /\ Hits(r, k) = {}
    <3>1. CASE d.n = Size(d)
      <4>1. r = Grown(d)
        BY <3>1 DEF Roomy
      <4>2. Good(r) /\ Same(d, r) /\ Hits(r, k) = {} /\ r.n = d.n /\ Size(r) = Size(d) + Size(d)
        BY <2>2, <4>1, GrownGood
      <4>3. QED
        BY <2>1, <4>2
    <3>2. CASE d.n # Size(d)
      <4>1. r = d
        BY <3>2 DEF Roomy
      <4>2. QED
        BY <2>1, <2>2, <3>2, <4>1 DEF Same
    <3>3. QED
      BY <3>1, <3>2
  <2>4. e \in Additions(r, k, v)
    BY <1>2 DEF Sets
  <2> HIDE DEF r
  <2>5. Good(e) /\ (Same(r, e) \/ \E c \in Val \cup {NULL} : Differs(r, e, k, c))
    BY <2>3, <2>4, AdditionsGood
  <2>6. QED
    BY <2>3, <2>5 DEF Same, Differs, OneName, OtherNames
<1>3. QED
  BY <1>1, <1>2

\* A growth that fails.
LEMMA SetFailsGood ==
    ASSUME NEW d, Good(d), NEW k, NEW e \in SetFails(d, k)
    PROVE  Good(e) /\ Same(d, e)
<1>1. e \in Ungrown(d)
  BY DEF SetFails
<1>2. QED
  BY <1>1, UngrownGood

\* What a query can answer.
LEMMA GetTypes ==
    ASSUME NEW d, Good(d), NEW k \in Name
    PROVE  Get(d, k, Absent) \in Val \cup {NULL, Absent}
<1>1. CASE \E i \in 1 .. Size(d) : d.key[i] = k
  <2>1. PICK i \in 1 .. Size(d) : d.key[i] = k
    BY <1>1
  <2>2. d.val[i] \in Val \cup {NULL}
    BY DictArrays DEF Good, DictShape
  <2>3. QED
    BY <2>1, <2>2, HitsAt
<1>2. CASE \A i \in 1 .. Size(d) : d.key[i] # k
  BY <1>2, HitsNone
<1>3. QED
  BY <1>1, <1>2

\* The dictionary of dictionary_new(0).
LEMMA NewDictGood == Good(NewDict) /\ Filled(NewDict) = {} /\ \A k \in Name : Get(NewDict, k, Absent) = Absent
<1>1. NewDict = [NewDict EXCEPT !.gone = {}]
  <2> DEFINE N == [i \in 1 .. DictMinSz |-> NULL]
             Z == [i \in 1 .. DictMinSz |-> 0]
  <2>1. NewDict = [key |-> N, val |-> N, hash |-> Z, n |-> 0, gone |-> {}]
    BY DEF NewDict
  <2> HIDE DEF N, Z
  <2>2. QED
    BY <2>1
<1>2. QED
  BY <1>1, NewGood

-----------------------------------------------------------------------------
(* The parser *)

PendingKinds == {"blank", "comment", "section", "value", "junk", "ended", "broken"}
\* A line as it is put together from m physical ones.
PendingOk(p, m) ==
    /\ p \in [kind : PendingKinds, name : Name \cup {NULL}, val : Seq(IniText)]
    /\ Len(p.val) <= m
    /\ p.kind \in {"section", "broken", "value", "ended"} => p.name # NULL
    /\ p.kind \in Keyless \cup {"value", "ended"} => p.val # <<>>

\* The dictionary is well formed and, where nobody holds it, empty; the line
\* that is being put together is not longer than what was read.
IniInv == /\ Good(dict)
          /\ iniRead \in Seq(IniLines) /\ Len(iniRead) <= MaxLines
          /\ PendingOk(iniLine, Len(iniRead)) /\ (iniPc # "reading" => iniLine = NoText)
          /\ iniPc \in {"closed", "null"} => Filled(dict) = {}

\* What a step may do to the dictionary.
Blank(d) == \A k \in Name : Get(d, k, Absent) = Absent
DictStep == Good(dict') /\ (OneName(dict, dict') \/ Blank(dict'))

\* The texts of some lines of a file are a value, and make a name with a key.
LEMMA TextsIn ==
    ASSUME NEW v \in Seq(IniText), v # <<>>, Len(v) <= MaxLines
    PROVE  v \in Texts
<1>1. PICK n \in 1 .. MaxLines : n = Len(v)
  BY IniAssumption
<1>2. v \in [1 .. n -> IniText]
  BY <1>1
<1>3. QED
  BY <1>2 DEF Texts

\* A line joined to what is iniLine.
LEMMA JoinOk ==
    ASSUME NEW p, NEW m \in Nat, PendingOk(p, m), m <= MaxLines, NEW l \in IniLines
    PROVE  PendingOk(Join(p, l), m + 1)
<1>1. /\ l.kind \in {"blank", "comment", "section", "value", "junk"}
      /\ l.name \in Name \cup {NULL} /\ l.text \in IniText
      /\ l.kind \in {"section", "value"} => l.name # NULL
  BY IniAssumption
<1>2. /\ p \in [kind : PendingKinds, name : Name \cup {NULL}, val : Seq(IniText)]
      /\ Len(p.val) \in Nat /\ Len(p.val) <= m /\ p.val \in Seq(IniText)
  BY DEF PendingOk
<1>3. CASE p.kind = "blank"
  <2> DEFINE v == <<l.text>>
             q == [kind |-> l.kind, name |-> l.name, val |-> v]
  <2>1. v \in Seq(IniText) /\ Len(v) = 1 /\ v # <<>>
    BY <1>1
  <2> HIDE DEF v
  <2>2. PendingOk(q, m + 1)
    <3>1. q \in [kind : PendingKinds, name : Name \cup {NULL}, val : Seq(IniText)]
      BY <1>1, <2>1 DEF PendingKinds
    <3>2. q.kind = l.kind /\ q.name = l.name /\ q.val = v
      OBVIOUS
    <3>3. Len(v) <= m + 1
      BY <2>1
    <3> HIDE DEF q
    <3>4. QED
      BY <1>1, <2>1, <3>1, <3>2, <3>3 DEF PendingOk
  <2>3. Join(p, l) = q
    BY <1>3 DEF Join, Keyless, v
  <2>4. QED
    BY <2>2, <2>3
<1>4. CASE p.kind = "value" /\ l.kind = "comment"
  <2>1. Join(p, l) = [p EXCEPT !.kind = "ended"]
    BY <1>4 DEF Join, Keyless
  <2>2. QED
    BY <1>2, <1>4, <2>1 DEF PendingOk, PendingKinds
<1>5. CASE p.kind = "value" /\ l.kind \notin {"blank", "comment"}
  <2> DEFINE v == Append(p.val, l.text)
  <2>1. Join(p, l) = [p EXCEPT !.val = v]
    BY <1>1, <1>5 DEF Join, Keyless
  <2>2. v \in Seq(IniText) /\ Len(v) = Len(p.val) + 1 /\ v # <<>>
    BY <1>1, <1>2, AppendProperties
  <2> HIDE DEF v
  <2>3. QED
    BY <1>2, <1>5, <2>1, <2>2, SMTT(30) DEF PendingOk, PendingKinds
<1>6. CASE p.kind \in Keyless /\ l.kind = "value"
  <2> DEFINE k == Glue[p.val][l.name]
             v == <<l.text>>
             q == [kind |-> "value", name |-> k, val |-> v]
  <2>1. p.val \in Texts
    <3>1. p.val # <<>> /\ Len(p.val) <= MaxLines
      BY <1>2, <1>6, IniAssumption DEF PendingOk
    <3>2. QED
      BY <1>2, <3>1, TextsIn
  <2>2. k \in Name /\ k # NULL
    BY <1>1, <1>6, <2>1, IniAssumption, DictAssumption
  <2>3. v \in Seq(IniText) /\ Len(v) = 1 /\ v # <<>>
    BY <1>1
  <2>4. Join(p, l) = q
    BY <1>6 DEF Join, Keyless
  <2> HIDE DEF k, v
  <2>5. /\ q \in [kind : PendingKinds, name : Name \cup {NULL}, val : Seq(IniText)]
        /\ q.name = k /\ q.val = v
    BY <2>2, <2>3 DEF PendingKinds
  <2>6. Len(v) <= m + 1
    BY <2>3
  <2> HIDE DEF q
  <2>7. QED
    BY <2>2, <2>3, <2>4, <2>5, <2>6 DEF PendingOk
<1>7. CASE p.kind \in Keyless /\ l.kind \notin {"blank", "value"}
  <2> DEFINE v == Append(p.val, l.text)
             w == Turns(p.kind, l)
  <2>1. Join(p, l) = [p EXCEPT !.kind = w, !.val = v]
    BY <1>7 DEF Join, Keyless
  <2>2. v \in Seq(IniText) /\ Len(v) = Len(p.val) + 1 /\ v # <<>>
    BY <1>1, <1>2, AppendProperties
  <2>3. w \in Keyless /\ (w # "junk" => p.name # NULL)
    BY <1>7 DEF Turns, Keyless, PendingOk
  <2> HIDE DEF v, w
  <2> DEFINE q == [p EXCEPT !.kind = w, !.val = v]
  <2>4. /\ q \in [kind : PendingKinds, name : Name \cup {NULL}, val : Seq(IniText)]
        /\ q.kind = w /\ q.name = p.name /\ q.val = v
    BY <1>2, <2>2, <2>3 DEF PendingKinds, Keyless
  <2>5. Len(v) <= m + 1
    BY <1>2, <2>2
  <2> HIDE DEF q
  <2>6. PendingOk(q, m + 1)
    BY <2>2, <2>3, <2>4, <2>5 DEF PendingOk, Keyless
  <2>7. QED
    BY <2>1, <2>6 DEF q
<1>8. CASE /\ p.kind # "blank" /\ ~(p.kind = "value" /\ l.kind # "blank")
           /\ ~(p.kind \in Keyless /\ l.kind # "blank")
  <2>1. Join(p, l) = p
    BY <1>1, <1>8 DEF Join, Keyless
  <2>2. QED
    BY <1>2, <2>1 DEF PendingOk
<1>9. QED
  BY <1>3, <1>4, <1>5, <1>6, <1>7, <1>8

\* A complete line has a name and a value the dictionary can take.
LEMMA ValueOk ==
    ASSUME NEW p, NEW m \in Nat, PendingOk(p, m), m <= MaxLines
    PROVE  /\ p.kind \in {"section", "value", "ended"} => p.name \in Name
           /\ p.kind \in {"value", "ended"} => p.val \in Val \cup {NULL}
<1>1. p.kind \in {"section", "value", "ended"} => p.name \in Name
  BY DEF PendingOk
<1>2. ASSUME p.kind \in {"value", "ended"} PROVE p.val \in Val
  <2>1. p.val \in Seq(IniText) /\ p.val # <<>> /\ Len(p.val) <= MaxLines
    BY <1>2, IniAssumption DEF PendingOk
  <2>2. QED
    BY <2>1, TextsIn, IniAssumption
<1>3. QED
  BY <1>1, <1>2

\* Nothing is iniLine.
LEMMA NoTextOk == ASSUME NEW m \in Nat PROVE PendingOk(NoText, m)
  BY DEF NoText, PendingOk, PendingKinds, Keyless

\* dictionary_del.
LEMMA DiscardStep ==
    ASSUME Good(dict), NEW d, Good(d), Same(dict, d), NEW l, Discard(d, l)
    PROVE  /\ DictStep
           /\ iniPc' # "crash" => Filled(dict') = {}
           /\ iniPc' \in {l, "crash"}
<1>1. CASE DelFaults(d)
  BY <1>1 DEF Discard, DictStep, OneName
<1>2. CASE ~DelFaults(d)
  BY <1>2, NewDictGood DEF Discard, DictStep, Blank
<1>3. QED
  BY <1>1, <1>2

\* dictionary_set in the loop of iniparser_load.
LEMMA StoreStep ==
    ASSUME Good(dict), iniPc = "reading", NEW k \in Name, NEW v \in Val \cup {NULL}, Store(k, v)
    PROVE  DictStep /\ (iniPc' \in {"closed", "null"} => Filled(dict') = {})
<1>1. CASE dict.gone # {} /\ iniPc' = "crash" /\ UNCHANGED dict
  BY <1>1 DEF DictStep, OneName, Same
<1>2. CASE UNCHANGED iniPc /\ dict' \in Sets(dict, k, v)
  BY <1>2, SetsGood DEF DictStep
<1>3. CASE \E d \in SetFails(dict, k) : Discard(d, "null")
  <2>1. PICK d \in SetFails(dict, k) : Discard(d, "null")
    BY <1>3
  <2>2. Good(d) /\ Same(dict, d)
    BY SetFailsGood
  <2>3. QED
    BY <2>1, <2>2, DiscardStep
<1>4. QED
  BY <1>1, <1>2, <1>3 DEF Store

\* One turn of the loop of iniparser_load.
LEMMA ReadStep ==
    ASSUME IniInv, ReadLine
    PROVE  IniInv' /\ DictStep
<1>1. PICK l \in IniLines : /\ iniPc = "reading" /\ Len(iniRead) < MaxLines
                            /\ iniRead' = Append(iniRead, l)
                            /\ CutLine(l) \/ Continue(l) \/ EndLine(l)
  BY DEF ReadLine
<1> DEFINE m == Len(iniRead)
           p == Join(iniLine, l)
<1>2. m \in Nat /\ m + 1 \in Nat /\ m + 1 <= MaxLines /\ PendingOk(iniLine, m)
  BY <1>1, IniAssumption DEF IniInv
<1>3. iniRead' \in Seq(IniLines) /\ Len(iniRead') = m + 1 /\ Len(iniRead') <= MaxLines
  BY <1>1, <1>2, AppendProperties DEF IniInv
<1>4. PendingOk(p, m + 1) /\ PendingOk(NoText, m + 1)
  <2>1. m <= MaxLines
    BY <1>2, IniAssumption
  <2>2. QED
    BY <1>2, <2>1, JoinOk, NoTextOk
<1>5. Good(dict)
  BY DEF IniInv
<1>6. ASSUME CutLine(l)
      PROVE  DictStep /\ (iniPc' \in {"closed", "null"} => Filled(dict') = {}) /\ iniLine' = NoText
  <2>1. Same(dict, dict)
    BY DEF Same
  <2>2. QED
    BY <1>5, <1>6, <2>1, DiscardStep DEF CutLine
<1>7. ASSUME Continue(l)
      PROVE  DictStep /\ UNCHANGED <<iniPc, dict>> /\ iniLine' = p
  BY <1>5, <1>7 DEF Continue, DictStep, OneName, Same
<1>8. ASSUME EndLine(l)
      PROVE  DictStep /\ (iniPc' \in {"closed", "null"} => Filled(dict') = {}) /\ iniLine' = NoText
  <2>1. iniLine' = NoText /\ Take(p)
    BY <1>8 DEF EndLine
  <2>2. p.kind \in PendingKinds
    BY <1>4 DEF PendingOk
  <2>3. /\ p.kind \in {"section", "value", "ended"} => p.name \in Name
        /\ p.kind \in {"value", "ended"} => p.val \in Val \cup {NULL}
    BY <1>2, <1>4, ValueOk
  <2> HIDE DEF p
  <2>4. CASE p.kind = "section"
    <3>1. Store(p.name, NULL)
      BY <2>1, <2>4 DEF Take
    <3>2. QED
      BY <1>1, <1>5, <2>1, <2>3, <2>4, <3>1, StoreStep
  <2>5. CASE p.kind \in {"value", "ended"}
    <3>1. Store(p.name, p.val)
      BY <2>1, <2>5 DEF Take
    <3>2. QED
      BY <1>1, <1>5, <2>1, <2>3, <2>5, <3>1, StoreStep
  <2>6. CASE p.kind \in {"blank", "comment", "junk", "broken"}
    <3>1. UNCHANGED dict /\ iniPc' \in {"reading", "stray"}
      BY <1>1, <2>1, <2>6 DEF Take
    <3>2. QED
      BY <1>5, <2>1, <3>1 DEF DictStep, OneName, Same
  <2>7. QED
    BY <2>2, <2>4, <2>5, <2>6 DEF PendingKinds
<1>9. /\ DictStep /\ (iniPc' \in {"closed", "null"} => Filled(dict') = {})
      /\ iniLine' \in {NoText, p} /\ (iniPc' # "reading" => iniLine' = NoText)
  BY <1>1, <1>6, <1>7, <1>8
<1>10. PendingOk(iniLine', m + 1)
  BY <1>4, <1>9
<1> HIDE DEF m, p
<1>11. IniInv'
  BY <1>3, <1>9, <1>10 DEF IniInv, DictStep
<1>12. QED
  BY <1>9, <1>11

\* Every step keeps the dictionary well formed and changes one name at most.
LEMMA IniStep == ASSUME IniInv, iniNext PROVE IniInv' /\ DictStep
<1>1. Good(dict) /\ iniRead \in Seq(IniLines) /\ Len(iniRead) \in Nat /\ Len(iniRead) <= MaxLines
  BY DEF IniInv
<1>2. /\ <<>> \in Seq(IniLines) /\ Len(<<>>) = 0 /\ 0 <= MaxLines
      /\ PendingOk(NoText, 0) /\ PendingOk(NoText, Len(iniRead))
  BY <1>1, NoTextOk, IniAssumption
<1>3. UNCHANGED dict => DictStep
  BY <1>1 DEF DictStep, OneName, Same
<1>4. Same(dict, dict)
  BY DEF Same
<1>5. /\ PendingOk(iniLine, Len(iniRead)) /\ (iniPc \in {"closed", "null"} => Filled(dict) = {})
      /\ iniPc # "reading" => iniLine = NoText
  BY DEF IniInv
<1>6. CASE Open
  <2>1. PICK lost \in SUBSET {"key", "val", "hash"} : dict' = [NewDict EXCEPT !.gone = lost]
    BY <1>6 DEF Open
  <2>2. Good(dict') /\ Blank(dict') /\ Filled(dict') = {}
    BY <2>1, NewGood DEF Blank
  <2>3. QED
    BY <1>1, <1>5, <1>6, <2>2 DEF Open, IniInv, DictStep
<1>7. CASE OpenFails
  BY <1>1, <1>3, <1>5, <1>7 DEF OpenFails, IniInv
<1>8. CASE ReadLine
  BY <1>8, ReadStep
<1>9. CASE Eof
  <2>1. CASE errs = 0
    BY <1>1, <1>2, <1>3, <1>9, <2>1 DEF Eof, IniInv
  <2>2. CASE errs # 0
    <3>1. DictStep /\ (iniPc' # "crash" => Filled(dict') = {})
      BY <1>1, <1>4, <1>9, <2>2, DiscardStep DEF Eof
    <3>2. QED
      BY <1>1, <1>2, <1>9, <3>1 DEF Eof, IniInv, DictStep
  <2>3. QED
    BY <2>1, <2>2
<1>10. CASE LoadFailed
  <2>1. iniLine = NoText /\ iniRead' = <<>> /\ UNCHANGED <<dict, iniLine>> /\ iniPc' = "closed"
        /\ Filled(dict) = {}
    BY <1>5, <1>10 DEF LoadFailed
  <2>2. QED
    BY <1>1, <1>2, <1>3, <2>1 DEF IniInv
<1>11. CASE IniFree
  <2>1. DictStep /\ (iniPc' # "crash" => Filled(dict') = {})
    BY <1>1, <1>4, <1>11, DiscardStep DEF IniFree
  <2>2. iniLine = NoText /\ iniRead' = <<>> /\ UNCHANGED iniLine /\ iniPc' \in {"closed", "crash"}
    BY <1>1, <1>4, <1>5, <1>11, DiscardStep DEF IniFree, Owned
  <2>3. QED
    BY <1>2, <2>1, <2>2 DEF IniInv, DictStep
<1>12. ASSUME Crash, Owned PROVE IniInv' /\ DictStep
  BY <1>1, <1>3, <1>5, <1>12 DEF Crash, IniInv, Owned
<1>13. ASSUME NEW k \in Name, IniUnset(k) PROVE IniInv' /\ DictStep
  <2>1. CASE Crash
    BY <1>12, <1>13, <2>1 DEF IniUnset
  <2>2. CASE dict' = Unset(dict, k) /\ Edited
    <3>1. /\ dict' = Unset(dict, k) /\ iniLine = NoText /\ iniRead' = <<>> /\ UNCHANGED iniLine
          /\ iniPc' = "edited"
      BY <1>5, <1>13, <2>2 DEF IniUnset, Owned, Edited
    <3>2. Good(dict') /\ (dict' = dict \/ Differs(dict, dict', k, Absent))
      BY <1>1, <3>1, UnsetGood
    <3>3. DictStep
      BY <1>3, <3>2 DEF DictStep, OneName
    <3>4. QED
      BY <1>2, <3>1, <3>3 DEF IniInv, DictStep
  <2>3. QED
    BY <1>13, <2>1, <2>2 DEF IniUnset
<1>14. ASSUME NEW k \in Name, IniAsk(k) PROVE IniInv' /\ DictStep
  BY <1>12, <1>14 DEF IniAsk
<1>15. ASSUME NEW k \in Name, NEW v \in EditVal, IniSet(k, v) PROVE IniInv' /\ DictStep
  <2>1. CASE Crash
    BY <1>12, <1>15, <2>1 DEF IniSet
  <2>2. CASE dict' \in Sets(dict, k, v) \cup SetFails(dict, k) /\ Edited
    <3>1. iniLine = NoText /\ iniRead' = <<>> /\ UNCHANGED iniLine /\ iniPc' = "edited"
      BY <1>5, <1>15, <2>2 DEF IniSet, Owned, Edited
    <3>2. v \in Val \cup {NULL}
      BY IniAssumption
    <3>3. ASSUME dict' \in Sets(dict, k, v) PROVE DictStep
      <4>1. Good(dict') /\ OneName(dict, dict')
        BY <1>1, <3>2, <3>3, SetsGood
      <4>2. QED
        BY <4>1 DEF DictStep
    <3>4. ASSUME dict' \in SetFails(dict, k) PROVE DictStep
      <4>1. Good(dict') /\ Same(dict, dict')
        BY <1>1, <3>4, SetFailsGood
      <4>2. QED
        BY <4>1 DEF DictStep, OneName
    <3>5. DictStep
      BY <2>2, <3>3, <3>4
    <3>6. QED
      BY <1>2, <3>1, <3>5 DEF IniInv, DictStep
  <2>3. QED
    BY <1>15, <2>1, <2>2 DEF IniSet
<1>16. QED
  BY <1>6, <1>7, <1>8, <1>9, <1>10, <1>11, <1>13, <1>14, <1>15 DEF iniNext

\* A closed parser with an empty dictionary.
LEMMA IniStart == iniInit => IniInv
<1> SUFFICES ASSUME iniInit PROVE IniInv
  OBVIOUS
<1>1. Good(dict) /\ Filled(dict) = {}
  BY NewDictGood DEF iniInit
<1>2. <<>> \in Seq(IniLines) /\ Len(<<>>) = 0 /\ 0 <= MaxLines /\ PendingOk(NoText, 0)
  BY NoTextOk, IniAssumption
<1>3. QED
  BY <1>1, <1>2 DEF iniInit, IniInv

\* The invariant and what a step does hold for every behaviour.
LEMMA IniNext == IniInv /\ [iniNext]_iniVars => IniInv' /\ (dict' = dict \/ DictStep)
<1> SUFFICES ASSUME IniInv, [iniNext]_iniVars PROVE IniInv' /\ (dict' = dict \/ DictStep)
  OBVIOUS
<1>1. CASE iniNext
  BY <1>1, IniStep
<1>2. CASE UNCHANGED iniVars
  BY <1>2 DEF iniVars, IniInv
<1>3. QED
  BY <1>1, <1>2

\* The parser's inductive invariant, for every file, every set of names and
\* values, every hash function and every outcome of malloc.
THEOREM ParserInvariant == IniSpec => []IniInv
<1>1. IniInv /\ [iniNext]_iniVars => IniInv'
  BY IniNext
<1>2. QED
  BY <1>1, IniStart, PTL DEF IniSpec

\* The parallel arrays, the count and the hashes agree in every dictionary the
\* parser or its user builds: dictionary_set, dictionary_unset, mem_double and
\* the copies that fail never leave one that a search could miss an entry of.
THEOREM ShapeKept == IniSpec => []IniShape
<1>1. IniInv => IniShape
  BY DEF IniInv, IniShape, Good
<1>2. QED
  BY <1>1, ParserInvariant, PTL

\* No change of the answers is one of the map, with some name that keeps its
\* value; without names there is nothing to change.
LEMMA MapStutters ==
    ASSUME IniInv, Same(dict, dict')
    PROVE  Map!Next
<1> DEFINE M == [k \in Name |-> Get(dict, k, Absent)]
           N == [k \in Name |-> Get(dict', k, Absent)]
<1>1. N = M
  BY DEF Same
<1>2. CASE Name = {}
  <2>1. N = [k \in Name |-> Absent]
    BY <1>2
  <2>2. QED
    BY <2>1 DEF Map!Next, Map!Clear
<1>3. CASE Name # {}
  <2>1. PICK k \in Name : TRUE
    BY <1>3
  <2>2. M[k] \in Val \cup {NULL, Absent}
    BY <2>1, GetTypes DEF IniInv
  <2>3. N = [M EXCEPT ![k] = M[k]]
    BY <1>1
  <2>4. N[k] = M[k]
    BY <1>1
  <2> HIDE DEF M, N
  <2>5. (N[k] \in Val \cup {NULL} /\ N = [M EXCEPT ![k] = N[k]]) \/ N = [M EXCEPT ![k] = Absent]
    BY <2>2, <2>3, <2>4
  <2>6. QED
    BY <2>1, <2>5 DEF Map!Next, Map!Set, Map!Unset, M, N
<1>4. QED
  BY <1>2, <1>3

\* A step of the dictionary is one of the map it stands for.
LEMMA MapStep == ASSUME IniInv, DictStep PROVE Map!Next
<1> DEFINE M == [k \in Name |-> Get(dict, k, Absent)]
           N == [k \in Name |-> Get(dict', k, Absent)]
<1>1. CASE Same(dict, dict')
  BY <1>1, MapStutters
<1>2. CASE Blank(dict')
  <2>1. N = [k \in Name |-> Absent]
    BY <1>2 DEF Blank
  <2>2. QED
    BY <2>1 DEF Map!Next, Map!Clear
<1>3. ASSUME NEW k \in Name, NEW c \in Val \cup {NULL, Absent}, Differs(dict, dict', k, c)
      PROVE  Map!Next
  <2>1. N = [M EXCEPT ![k] = c]
    BY <1>3 DEF Differs
  <2>2. N[k] = c
    BY <2>1
  <2> HIDE DEF M, N
  <2>3. (N[k] \in Val \cup {NULL} /\ N = [M EXCEPT ![k] = N[k]]) \/ N = [M EXCEPT ![k] = Absent]
    BY <2>1, <2>2
  <2>4. QED
    BY <2>3 DEF Map!Next, Map!Set, Map!Unset, M, N
<1>4. QED
  BY <1>1, <1>2, <1>3 DEF DictStep, OneName

\* The dictionary implements the map: whatever iniparser_load, _set, _unset and
\* _freedict do, also when memory runs out, changes one name at most, or
\* forgets them all together.
THEOREM DictImplementsMap == IniSpec => DictIsMap
<1>1. iniInit => Map!Init
  BY NewDictGood DEF iniInit, Map!Init
<1>2. IniInv /\ [iniNext]_iniVars => [Map!Next]_dict
  BY IniNext, MapStep
<1>3. QED
  BY <1>1, <1>2, ParserInvariant, PTL DEF IniSpec, DictIsMap

-----------------------------------------------------------------------------
(* The sections, by number *)

\* A set of numbers up to m that is not empty has a greatest one.
LEMMA HasHighest ==
    ASSUME NEW S, NEW m \in Nat, S \subseteq 1 .. m, S # {}
    PROVE  \E i \in S : \A j \in S : j <= i
<1> DEFINE U == {u \in Nat : \A j \in S : j <= u}
<1>1. m \in U
  OBVIOUS
<1>2. PICK u \in U : \A x \in U : u <= x
  <2>1. U \in SUBSET Nat /\ U # {}
    BY <1>1
  <2> HIDE DEF U
  <2>2. QED
    BY <2>1, HasLowest
<1>3. u \in S
  <2> SUFFICES ASSUME u \notin S PROVE FALSE
    OBVIOUS
  <2>1. PICK j \in S : j \in 1 .. m /\ j <= u
    BY <1>2
  <2>2. u - 1 \in Nat /\ u \in Nat
    BY <1>2, <2>1
  <2>3. \A l \in S : l \in Nat /\ l <= u /\ l # u
    BY <1>2
  <2>4. u - 1 \in U
    BY <2>2, <2>3
  <2>5. QED
    BY <1>2, <2>2, <2>4
<1>4. QED
  BY <1>2, <1>3

\* The ranks of a finite set are numbers up to its size.
LEMMA RankType ==
    ASSUME NEW S, IsFiniteSet(S), NEW i
    PROVE  /\ IsFiniteSet({j \in S : j <= i})
           /\ Rank(S, i) \in Nat /\ Rank(S, i) <= Cardinality(S) /\ Cardinality(S) \in Nat
<1>1. {j \in S : j <= i} \subseteq S
  OBVIOUS
<1>2. QED
  BY <1>1, FS_Subset, FS_CardinalityType DEF Rank

\* The greatest element's rank is the size of the set.
LEMMA HighestRank ==
    ASSUME NEW S, NEW i, \A j \in S : j <= i
    PROVE  Rank(S, i) = Cardinality(S)
<1>1. {j \in S : j <= i} = S
  OBVIOUS
<1>2. QED
  BY <1>1 DEF Rank

\* The elements of rank above n; those iniparser_getsecname stops at.
Above(S, n) == {i \in S : Rank(S, i) > n}

\* The lowest element of rank above n has rank n + 1, and there is one for
\* every n below the size of the set.
LEMMA NthElement ==
    ASSUME NEW S, NEW m \in Nat, S \subseteq 1 .. m, IsFiniteSet(S),
           NEW n \in Nat, n < Cardinality(S)
    PROVE  /\ Above(S, n) # {} /\ Lowest(Above(S, n)) \in S
           /\ Rank(S, Lowest(Above(S, n))) = n + 1
<1>1. Cardinality(S) \in Nat
  BY FS_CardinalityType
<1>2. S # {}
  BY <1>1, FS_EmptySet
<1>3. Above(S, n) # {}
  <2>1. PICK i \in S : \A j \in S : j <= i
    BY <1>2, HasHighest
  <2>2. Rank(S, i) = Cardinality(S)
    BY <2>1, HighestRank
  <2>3. QED
    BY <2>2 DEF Above
<1> DEFINE i == Lowest(Above(S, n))
<1>4. i \in Above(S, n) /\ \A j \in Above(S, n) : i <= j
  <2>1. Above(S, n) \in SUBSET Nat
    <3>1. Above(S, n) \subseteq S
      BY Zenon DEF Above
    <3>2. \A j \in S : j \in Nat
      OBVIOUS
    <3>3. QED
      BY <3>1, <3>2, Zenon
  <2>2. QED
    BY <1>3, <2>1, HasLowest
<1> HIDE DEF i
<1>5. i \in S /\ i \in 1 .. m /\ i \in Nat /\ Rank(S, i) > n /\ Rank(S, i) \in Nat
  <2>1. i \in S /\ Rank(S, i) > n
    BY <1>4, Zenon DEF Above
  <2>2. i \in 1 .. m /\ i \in Nat
    BY <2>1
  <2>3. Rank(S, i) \in Nat
    BY RankType, Zenon
  <2>4. QED
    BY <2>1, <2>2, <2>3
<1> DEFINE T == {j \in S : j < i}
           R == {j \in S : j <= i}
<1>6. IsFiniteSet(R) /\ Cardinality(R) = Rank(S, i)
  <2>1. IsFiniteSet({j \in S : j <= i})
    BY RankType, Zenon
  <2>2. Cardinality({j \in S : j <= i}) = Rank(S, i)
    BY DEF Rank
  <2>3. QED
    BY <2>1, <2>2
<1>7. T = R \ {i} /\ i \in R
  <2>1. \A j \in S : j \in Nat
    OBVIOUS
  <2>2. \A j \in S : j < i <=> (j <= i /\ j # i)
    BY <1>5, <2>1
  <2>3. i <= i
    BY <1>5
  <2>4. QED
    BY <1>5, <2>2, <2>3, Zenon
<1>8. IsFiniteSet(T) /\ Cardinality(T) = Rank(S, i) - 1 /\ Cardinality(T) \in Nat
  <2> HIDE DEF T, R
  <2>1. IsFiniteSet(R \ {i}) /\ Cardinality(R \ {i}) = Cardinality(R) - 1
    BY <1>6, <1>7, FS_RemoveElement
  <2>2. QED
    BY <1>6, <1>7, <2>1, FS_CardinalityType
<1>9. Cardinality(T) <= n
  <2>1. CASE T = {}
    <3>1. Cardinality(T) = 0
      BY <2>1, FS_EmptySet
    <3>2. QED
      BY <3>1
  <2>2. CASE T # {}
    <3>1. PICK p \in T : \A j \in T : j <= p
      <4>1. T \subseteq 1 .. m
        OBVIOUS
      <4> HIDE DEF T
      <4>2. QED
        BY <2>2, <4>1, HasHighest
    <3>2. p \in S /\ p \in Nat /\ p < i
      BY <3>1
    <3>3. \A j \in S : j <= p <=> j < i
      <4>1. ASSUME NEW j \in S PROVE j <= p <=> j < i
        <5>1. j \in Nat /\ i \in Nat /\ p \in Nat
          BY <1>5, <3>2
        <5>2. j < i => j <= p
          BY <3>1
        <5>3. QED
          BY <3>2, <5>1, <5>2
      <4>2. QED
        BY <4>1
    <3>4. Rank(S, p) = Cardinality(T)
      <4>1. {j \in S : j <= p} = T
        BY <3>3
      <4>2. QED
        BY <4>1 DEF Rank
    <3>5. ~(i <= p)
      BY <1>5, <3>2
    <3>6. p \notin Above(S, n)
      BY <1>4, <3>5
    <3> HIDE DEF T
    <3>7. QED
      BY <1>8, <3>2, <3>4, <3>6 DEF Above
  <2>3. QED
    BY <2>1, <2>2
<1>10. Rank(S, i) = n + 1
  <2> HIDE DEF T
  <2>1. QED
    BY <1>5, <1>8, <1>9
<1>11. QED
  BY <1>3, <1>5, <1>10 DEF i

\* No element has a rank above the size.
LEMMA NoneAbove ==
    ASSUME NEW S, IsFiniteSet(S) PROVE Above(S, Cardinality(S)) = {}
<1>1. ASSUME NEW i \in S PROVE ~(Rank(S, i) > Cardinality(S))
  <2>1. Rank(S, i) \in Nat /\ Rank(S, i) <= Cardinality(S) /\ Cardinality(S) \in Nat
    BY RankType, Zenon
  <2>2. QED
    BY <2>1
<1>2. QED
  BY <1>1 DEF Above

\* The slot of the section with number n.
SecSlot(n) == Lowest(Above(SectionSlots(dict), n))

\* The slots of the sections.
LEMMA SectionsFinite ==
    ASSUME Good(dict)
    PROVE  /\ SectionSlots(dict) \subseteq Filled(dict) /\ SectionSlots(dict) \subseteq 1 .. Size(dict)
           /\ Size(dict) \in Nat /\ IsFiniteSet(SectionSlots(dict)) /\ Nsec \in Nat
           /\ \A n : SecName(n) = IF Above(SectionSlots(dict), n) = {} THEN NULL
                                  ELSE dict.key[SecSlot(n)]
<1>1. /\ Size(dict) \in Nat /\ Filled(dict) \subseteq 1 .. Size(dict)
      /\ IsFiniteSet(Filled(dict))
  BY DictArrays DEF Good, DictShape
<1>2. SectionSlots(dict) \subseteq Filled(dict)
  BY DEF SectionSlots
<1>3. IsFiniteSet(SectionSlots(dict)) /\ Nsec \in Nat
  BY <1>1, <1>2, FS_Subset, FS_CardinalityType DEF Nsec
<1>4. \A n : SecName(n) = IF Above(SectionSlots(dict), n) = {} THEN NULL
                          ELSE dict.key[SecSlot(n)]
  BY DEF SecName, SecSlot, Above, Rank
<1>5. QED
  BY <1>1, <1>2, <1>3, <1>4

\* Every number below iniparser_getnsec has a slot of its own, with a name.
LEMMA SectionAt ==
    ASSUME Good(dict), NEW n \in 0 .. Nsec - 1
    PROVE  /\ SecSlot(n) \in Filled(dict) /\ Rank(SectionSlots(dict), SecSlot(n)) = n + 1
           /\ SecName(n) = dict.key[SecSlot(n)]
           /\ SecName(n) # NULL /\ FindEntry(SecName(n))
<1>1. n \in Nat /\ n < Cardinality(SectionSlots(dict))
  BY SectionsFinite DEF Nsec
<1>2. /\ Above(SectionSlots(dict), n) # {} /\ SecSlot(n) \in SectionSlots(dict)
      /\ Rank(SectionSlots(dict), SecSlot(n)) = n + 1
  BY <1>1, SectionsFinite, NthElement DEF SecSlot
<1>3. SecName(n) = dict.key[SecSlot(n)] /\ SecSlot(n) \in Filled(dict)
  BY <1>2, SectionsFinite
<1>4. SecSlot(n) \in 1 .. Size(dict) /\ SecName(n) # NULL
  BY <1>3 DEF Filled
<1>5. dict.key[SecSlot(n)] \in Name
  BY <1>3, <1>4, DictArrays DEF Good, DictShape
<1>6. Hits(dict, SecName(n)) = {SecSlot(n)}
  BY <1>3, <1>4, <1>5, HitsAt
<1>7. QED
  BY <1>2, <1>3, <1>4, <1>6 DEF FindEntry

\* Different numbers are different sections.
LEMMA SectionsDiffer ==
    ASSUME Good(dict), NEW n \in 0 .. Nsec - 1, NEW m \in 0 .. Nsec - 1, n # m
    PROVE  SecName(n) # SecName(m)
<1>1. n \in Nat /\ m \in Nat
  BY SectionsFinite
<1>2. SecSlot(n) # SecSlot(m)
  BY <1>1, SectionAt
<1>3. \A i, j \in Filled(dict) : dict.key[i] = dict.key[j] => i = j
  BY DEF Good, DictShape
<1>4. QED
  BY <1>2, <1>3, SectionAt

\* iniparser_getsecname names the sections one by one, whatever gaps deletions
\* left in the arrays: no number below iniparser_getnsec is without a name or
\* names a section twice, and iniparser_dump_ini prints no entry twice.
THEOREM SectionsNamed == IniSpec => []IniSections
<1>1. IniInv => IniSections
  <2> SUFFICES ASSUME IniInv PROVE IniSections
    OBVIOUS
  <2>1. Good(dict)
    BY DEF IniInv
  <2>2. Nsec \in Nat
    BY <2>1, SectionsFinite
  <2>3. ASSUME NEW n \in 0 .. Nsec - 1
        PROVE  /\ SecName(n) # NULL /\ FindEntry(SecName(n))
               /\ \A m \in 0 .. n - 1 : SecName(m) # SecName(n)
    <3>1. \A m \in 0 .. n - 1 : m \in 0 .. Nsec - 1 /\ m # n
      BY <2>2
    <3>2. QED
      BY <2>1, <3>1, SectionAt, SectionsDiffer
  <2>4. SecName(Nsec) = NULL
    BY <2>1, SectionsFinite, NoneAbove DEF Nsec
  <2>5. ASSUME NEW n \in 0 .. Nsec - 1, NEW m \in 0 .. Nsec - 1, n # m
        PROVE  DumpedUnder(SecName(n)) \cap DumpedUnder(SecName(m)) = {}
    <3>1. SecName(n) # SecName(m)
      BY <2>1, <2>5, SectionsDiffer
    <3>2. QED
      BY <3>1 DEF DumpedUnder
  <2>6. QED
    BY <2>3, <2>4, <2>5 DEF IniSections
<1>2. QED
  BY <1>1, ParserInvariant, PTL

-----------------------------------------------------------------------------
(* Values of several lines *)

\* An element's rank is a number from 1 to the size of the set.
LEMMA RankRange ==
    ASSUME NEW S, NEW m \in Nat, S \subseteq 1 .. m, IsFiniteSet(S), NEW i \in S
    PROVE  Rank(S, i) \in 1 .. Cardinality(S)
<1>1. Rank(S, i) \in Nat /\ Rank(S, i) <= Cardinality(S) /\ Cardinality(S) \in Nat
  BY RankType, Zenon
<1>2. i \in Nat /\ i <= i
  OBVIOUS
<1>3. i \in {j \in S : j <= i}
  BY <1>2
<1>4. Rank(S, i) # 0
  <2>1. IsFiniteSet({j \in S : j <= i})
    BY RankType, Zenon
  <2>2. QED
    BY <1>3, <2>1, FS_EmptySet DEF Rank
<1>5. QED
  BY <1>1, <1>4

\* A higher element has a higher rank.
LEMMA RankGrows ==
    ASSUME NEW S, NEW m \in Nat, S \subseteq 1 .. m, IsFiniteSet(S),
           NEW a \in S, NEW b \in S, a < b
    PROVE  Rank(S, a) < Rank(S, b)
<1> DEFINE A == {j \in S : j <= a}
           B == {j \in S : j <= b}
<1>1. a \in Nat /\ b \in Nat /\ \A j \in S : j \in Nat
  OBVIOUS
<1>2. \A j \in S : j <= a => j <= b
  BY <1>1
<1>3. ~(b <= a) /\ b <= b
  BY <1>1
<1>4. A \cup {b} \subseteq B /\ b \notin A
  BY <1>2, <1>3
<1>5. IsFiniteSet(A) /\ IsFiniteSet(B)
  BY RankType, Zenon
<1>6. Rank(S, a) = Cardinality(A) /\ Rank(S, b) = Cardinality(B)
  BY DEF Rank
<1> HIDE DEF A, B
<1>7. IsFiniteSet(A \cup {b}) /\ Cardinality(A \cup {b}) = Cardinality(A) + 1
  BY <1>4, <1>5, FS_AddElement
<1>8. Cardinality(A \cup {b}) <= Cardinality(B)
  BY <1>4, <1>5, FS_Subset
<1>9. Cardinality(A) \in Nat /\ Cardinality(B) \in Nat
  BY <1>5, FS_CardinalityType
<1>10. QED
  BY <1>6, <1>7, <1>8, <1>9

\* So no two elements have the same one.
LEMMA RankUnique ==
    ASSUME NEW S, NEW m \in Nat, S \subseteq 1 .. m, IsFiniteSet(S),
           NEW a \in S, NEW b \in S, Rank(S, a) = Rank(S, b)
    PROVE  a = b
<1>1. a \in Nat /\ b \in Nat
  OBVIOUS
<1>2. Rank(S, a) \in Nat
  BY RankType, Zenon
<1>3. ~(a < b)
  <2> SUFFICES ASSUME a < b PROVE FALSE
    OBVIOUS
  <2>1. Rank(S, a) < Rank(S, b)
    BY RankGrows
  <2>2. QED
    BY <1>2, <2>1
<1>4. ~(b < a)
  <2> SUFFICES ASSUME b < a PROVE FALSE
    OBVIOUS
  <2>1. Rank(S, b) < Rank(S, a)
    BY RankGrows
  <2>2. QED
    BY <1>2, <2>1
<1>5. QED
  BY <1>1, <1>3, <1>4

\* The ranks when the set gets a new greatest element.
LEMMA RankAdd ==
    ASSUME NEW S, NEW n \in Nat, S \subseteq 1 .. n, IsFiniteSet(S)
    PROVE  LET T == S \cup {n + 1}
           IN /\ IsFiniteSet(T) /\ Cardinality(T) = Cardinality(S) + 1
              /\ Rank(T, n + 1) = Cardinality(S) + 1
              /\ \A i \in S : Rank(T, i) = Rank(S, i)
<1> DEFINE T == S \cup {n + 1}
<1>1. n + 1 \notin S /\ \A j \in T : j <= n + 1
  OBVIOUS
<1>2. IsFiniteSet(T) /\ Cardinality(T) = Cardinality(S) + 1
  BY <1>1, FS_AddElement
<1>3. Rank(T, n + 1) = Cardinality(T)
  <2> HIDE DEF T
  <2>1. QED
    BY <1>1, HighestRank
<1>4. ASSUME NEW i \in S PROVE Rank(T, i) = Rank(S, i)
  <2>1. i \in Nat /\ ~(n + 1 <= i)
    OBVIOUS
  <2>2. {j \in T : j <= i} = {j \in S : j <= i}
    BY <2>1
  <2>3. QED
    BY <2>2 DEF Rank
<1>5. QED
  BY <1>2, <1>3, <1>4

\* v holds the texts of the lines in M, in order.
IsText(f, M, v) == /\ Len(v) = Cardinality(M)
                   /\ \A m \in M : v[Rank(M, m)] = f[m].text

\* There is one such sequence.
LEMMA TextIs ==
    ASSUME NEW f, NEW m \in Nat, NEW M, M \subseteq 1 .. m, IsFiniteSet(M),
           NEW v \in Seq(IniText), IsText(f, M, v)
    PROVE  v = TextOf(f, M)
<1> DEFINE at(r) == CHOOSE x \in M : Rank(M, x) = r
<1>1. Cardinality(M) \in Nat
  BY FS_CardinalityType
<1>2. ASSUME NEW r \in 1 .. Cardinality(M)
      PROVE  at(r) \in M /\ Rank(M, at(r)) = r
  <2>1. r - 1 \in Nat /\ r - 1 < Cardinality(M) /\ (r - 1) + 1 = r
    BY <1>1
  <2>2. \E x \in M : Rank(M, x) = r
    BY <2>1, NthElement
  <2>3. QED
    BY <2>2
<1>3. ASSUME NEW r \in 1 .. Cardinality(M)
      PROVE  v[r] = f[at(r)].text
  BY <1>2 DEF IsText
<1>4. v = [r \in 1 .. Cardinality(M) |-> v[r]]
  BY DEF IsText
<1> HIDE DEF at
<1>5. [r \in 1 .. Cardinality(M) |-> v[r]] = [r \in 1 .. Cardinality(M) |-> f[at(r)].text]
  BY <1>3
<1>6. QED
  BY <1>4, <1>5 DEF at, TextOf

\* The text of one line.
LEMMA TextOne ==
    ASSUME NEW f, NEW i \in Nat
    PROVE  IsText(f, {i}, <<f[i].text>>)
<1>1. Cardinality({i}) = 1
  BY FS_Singleton
<1>2. Rank({i}, i) = 1
  <2>1. i <= i
    OBVIOUS
  <2>2. {j \in {i} : j <= i} = {i}
    BY <2>1
  <2>3. QED
    BY <1>1, <2>2 DEF Rank
<1>3. QED
  BY <1>1, <1>2 DEF IsText

\* The text with that of another line behind it.
LEMMA TextAppend ==
    ASSUME NEW f, NEW n \in Nat, NEW M, M \subseteq 1 .. n, IsFiniteSet(M),
           NEW v \in Seq(IniText), IsText(f, M, v), f[n + 1].text \in IniText
    PROVE  IsText(f, M \cup {n + 1}, Append(v, f[n + 1].text))
<1> DEFINE T == M \cup {n + 1}
           w == Append(v, f[n + 1].text)
<1>1. /\ IsFiniteSet(T) /\ Cardinality(T) = Cardinality(M) + 1
      /\ Rank(T, n + 1) = Cardinality(M) + 1
      /\ \A i \in M : Rank(T, i) = Rank(M, i)
  BY RankAdd
<1>2. /\ Len(v) = Cardinality(M) /\ Len(w) = Cardinality(M) + 1
      /\ \A r \in 1 .. Cardinality(M) : w[r] = v[r]
      /\ w[Cardinality(M) + 1] = f[n + 1].text
  BY AppendProperties DEF IsText
<1>3. \A i \in M : w[Rank(T, i)] = f[i].text
  BY <1>1, <1>2, RankRange DEF IsText
<1> HIDE DEF w
<1>4. QED
  BY <1>1, <1>2, <1>3 DEF IsText, w

\* A text does not change when the lines in it do not.
LEMMA TextSame ==
    ASSUME NEW f, NEW g, NEW M, NEW v, IsText(f, M, v), \A m \in M : g[m] = f[m]
    PROVE  IsText(g, M, v)
  BY DEF IsText

-----------------------------------------------------------------------------
(* One more line *)

\* File g is f with line l behind it.
Longer(f, l, g) ==
    /\ Len(f) \in Nat /\ Len(g) = Len(f) + 1
    /\ DOMAIN f = 1 .. Len(f) /\ DOMAIN g = 1 .. Len(f) + 1
    /\ \A i \in 1 .. Len(f) : g[i] = f[i]
    /\ g[Len(f) + 1] = l

\* Reading a line gives that.
LEMMA AppendLonger ==
    ASSUME NEW f \in Seq(IniLines), NEW l \in IniLines
    PROVE  Longer(f, l, Append(f, l))
  BY AppendProperties DEF Longer

\* The number of the new line is above those of the old ones.
LEMMA NewLine ==
    ASSUME NEW f, NEW l, NEW g, Longer(f, l, g)
    PROVE  /\ Len(f) \in Nat /\ Len(g) \in Nat \ {0} /\ Len(g) = Len(f) + 1 /\ g[Len(g)] = l
           /\ \A i \in 1 .. Len(f) : i < Len(g) /\ i # Len(g) /\ i <= Len(g)
  BY DEF Longer

\* The texts of lines that stay.
LEMMA TextOfSame ==
    ASSUME NEW f, NEW g, NEW m \in Nat, NEW M, M \subseteq 1 .. m, IsFiniteSet(M),
           \A i \in M : g[i] = f[i]
    PROVE  TextOf(g, M) = TextOf(f, M)
<1> DEFINE at(r) == CHOOSE x \in M : Rank(M, x) = r
<1>1. Cardinality(M) \in Nat
  BY FS_CardinalityType
<1>2. ASSUME NEW r \in 1 .. Cardinality(M) PROVE g[at(r)] = f[at(r)]
  <2>1. r - 1 \in Nat /\ r - 1 < Cardinality(M) /\ (r - 1) + 1 = r
    BY <1>1
  <2>2. \E x \in M : Rank(M, x) = r
    BY <2>1, NthElement
  <2>3. QED
    BY <2>2
<1> HIDE DEF at
<1>3. [r \in 1 .. Cardinality(M) |-> g[at(r)].text] = [r \in 1 .. Cardinality(M) |-> f[at(r)].text]
  BY <1>2
<1>4. QED
  BY <1>3 DEF at, TextOf

-----------------------------------------------------------------------------
(* What a set of lines is, one behind the other *)

\* A set of line numbers is finite, and has a lowest one unless it is empty.
LEMMA LinesFinite ==
    ASSUME NEW m \in Nat, NEW S \in SUBSET (1 .. m)
    PROVE  /\ IsFiniteSet(S) /\ S \subseteq Nat
           /\ S # {} => Lowest(S) \in S /\ \A j \in S : Lowest(S) <= j
<1>1. IsFiniteSet(1 .. m)
  BY FS_Interval
<1>2. IsFiniteSet(S)
  BY <1>1, FS_Subset
<1>3. S \in SUBSET Nat
  OBVIOUS
<1>4. QED
  BY <1>2, <1>3, HasLowest

\* The lowest number of a set.
LEMMA LowestIs ==
    ASSUME NEW S \in SUBSET Nat, NEW i \in S, \A j \in S : i <= j
    PROVE  Lowest(S) = i
<1>1. Lowest(S) \in S /\ Lowest(S) <= i
  BY HasLowest
<1>2. i <= Lowest(S)
  BY <1>1
<1>3. i \in Nat /\ Lowest(S) \in Nat
  BY <1>1
<1> DEFINE low == Lowest(S)
<1> HIDE DEF low
<1>4. i \in Nat /\ low \in Nat /\ low <= i /\ i <= low
  BY <1>1, <1>2, <1>3 DEF low
<1>5. low = i
  BY <1>4
<1>6. QED
  BY <1>5 DEF low

\* Lines that are the same are the same together.
LEMMA LinesSame ==
    ASSUME NEW f, NEW g, NEW m \in Nat, NEW S \in SUBSET (1 .. m), \A i \in S : g[i] = f[i]
    PROVE  /\ LineKind(g, S) = LineKind(f, S)
           /\ Keyed(g, S) = Keyed(f, S) /\ KeyLine(g, S) = KeyLine(f, S)
           /\ ValueLines(g, S) = ValueLines(f, S)
           /\ S # {} => Lowest(S) \in S /\ g[Lowest(S)] = f[Lowest(S)]
           /\ Keyed(f, S) # {} => KeyLine(f, S) \in S /\ KeyName(g, S) = KeyName(f, S)
           /\ TextOf(g, ValueLines(g, S)) = TextOf(f, ValueLines(f, S))
<1>1. Keyed(g, S) = Keyed(f, S)
  BY DEF Keyed
<1>2. KeyLine(g, S) = KeyLine(f, S) /\ Ahead(g, S) = Ahead(f, S)
  BY <1>1 DEF KeyLine, Ahead
<1>3. ValueLines(g, S) = ValueLines(f, S)
  BY <1>2 DEF ValueLines
<1>4. S # {} => Lowest(S) \in S /\ g[Lowest(S)] = f[Lowest(S)]
  BY LinesFinite
<1>5. EndsIn(g, S, "section") <=> EndsIn(f, S, "section")
  BY DEF EndsIn
<1>6. LineKind(g, S) = LineKind(f, S)
  BY <1>1, <1>4, <1>5 DEF LineKind
<1>7. ASSUME NEW M \in SUBSET S PROVE TextOf(g, M) = TextOf(f, M)
  <2>1. M \in SUBSET (1 .. m)
    OBVIOUS
  <2>2. IsFiniteSet(M) /\ \A i \in M : g[i] = f[i]
    BY <2>1, LinesFinite
  <2>3. QED
    BY <2>1, <2>2, TextOfSame
<1>8. TextOf(g, ValueLines(g, S)) = TextOf(f, ValueLines(f, S))
  BY <1>3, <1>7 DEF ValueLines
<1>9. ASSUME Keyed(f, S) # {} PROVE KeyLine(f, S) \in S /\ KeyName(g, S) = KeyName(f, S)
  <2>1. Keyed(f, S) \in SUBSET (1 .. m) /\ Keyed(f, S) \subseteq S
    BY DEF Keyed
  <2>2. KeyLine(f, S) \in S
    BY <1>9, <2>1, LinesFinite DEF KeyLine
  <2>3. Ahead(f, S) \in SUBSET S
    BY DEF Ahead
  <2>4. TextOf(g, Ahead(g, S)) = TextOf(f, Ahead(f, S))
    BY <1>2, <1>7, <2>3
  <2>5. QED
    BY <1>2, <2>2, <2>4 DEF KeyName
<1>10. QED
  BY <1>1, <1>2, <1>3, <1>4, <1>6, <1>8, <1>9

\* A comment among the lines S behind the key.
Closed(f, S) == \E q \in S : KeyLine(f, S) < q /\ f[q].kind = "comment"

\* The lines S of f, joined, are p.
Makes(f, S, p) ==
    /\ LineKind(f, S) \in {"blank", "comment"} => p.kind = LineKind(f, S)
    /\ LineKind(f, S) \in {"section", "junk"} =>
           /\ p.kind = IF LineKind(f, S) = "section" THEN "section"
                       ELSE IF f[Lowest(S)].kind = "section" THEN "broken" ELSE "junk"
           /\ p.kind # "junk" => p.name = f[Lowest(S)].name
           /\ IsText(f, S, p.val)
    /\ LineKind(f, S) = "value" =>
           /\ p.kind = IF Closed(f, S) THEN "ended" ELSE "value"
           /\ p.name = KeyName(f, S)
           /\ IsText(f, ValueLines(f, S), p.val)

\* There is no other kind.
LEMMA LineKinds ==
    ASSUME NEW f, NEW S
    PROVE  LineKind(f, S) \in {"blank", "comment", "value", "section", "junk"}
  BY DEF LineKind

\* They are so in every file with these lines.
LEMMA MakesSame ==
    ASSUME NEW f, NEW g, NEW m \in Nat, NEW S \in SUBSET (1 .. m), \A i \in S : g[i] = f[i],
           NEW p, Makes(f, S, p)
    PROVE  Makes(g, S, p)
<1>1. /\ LineKind(g, S) = LineKind(f, S)
      /\ KeyLine(g, S) = KeyLine(f, S) /\ ValueLines(g, S) = ValueLines(f, S)
      /\ S # {} => Lowest(S) \in S /\ g[Lowest(S)] = f[Lowest(S)]
      /\ Keyed(f, S) # {} => KeyName(g, S) = KeyName(f, S)
  BY LinesSame
<1>2. CASE LineKind(f, S) \in {"blank", "comment"}
  BY <1>1, <1>2 DEF Makes
<1>3. CASE LineKind(f, S) \in {"section", "junk"}
  <2>1. S # {}
    BY <1>3 DEF LineKind
  <2>2. IsText(g, S, p.val)
    BY <1>3, TextSame DEF Makes
  <2>3. QED
    BY <1>1, <1>3, <2>1, <2>2 DEF Makes
<1>4. CASE LineKind(f, S) = "value"
  <2>1. Keyed(f, S) # {}
    BY <1>4 DEF LineKind
  <2>2. ValueLines(f, S) \subseteq S
    BY DEF ValueLines
  <2>3. IsText(g, ValueLines(f, S), p.val)
    BY <1>4, <2>2, TextSame DEF Makes
  <2>4. Closed(g, S) <=> Closed(f, S)
    BY <1>1 DEF Closed
  <2>5. QED
    BY <1>1, <1>4, <2>1, <2>3, <2>4 DEF Makes
<1>5. QED
  BY <1>2, <1>3, <1>4, LineKinds

\* S is a set of lines of f, n is the line l that g has behind f: what S and n are
\* together, seen in g.
More(f, l, g, S) ==
    LET n == Len(g)
        T == S \cup {n}
    IN  /\ T \in SUBSET (1 .. n) /\ T # {}
        /\ \A i \in S : i \in Nat /\ i < n /\ g[i] = f[i]
        /\ Keyed(g, T) = IF l.kind = "value" THEN Keyed(f, S) \cup {n} ELSE Keyed(f, S)
        /\ \A kind : EndsIn(g, T, kind) <=> l.kind = kind
        /\ Lowest(T) = IF S = {} THEN n ELSE Lowest(S)
        /\ S # {} => Lowest(S) \in S
        /\ Keyed(f, S) # {} => KeyLine(g, T) = KeyLine(f, S) /\ KeyLine(f, S) \in S
        /\ Keyed(f, S) = {} /\ l.kind = "value" => KeyLine(g, T) = n

\* One more line behind the lines S.
LEMMA MoreLines ==
    ASSUME NEW f, NEW l, NEW g, Longer(f, l, g), NEW S \in SUBSET (1 .. Len(f))
    PROVE  More(f, l, g, S)
<1> DEFINE n == Len(g)
           T == S \cup {n}
<1>1. /\ n \in Nat \ {0} /\ Len(f) \in Nat /\ n = Len(f) + 1 /\ g[n] = l /\ n \in T
      /\ T \in SUBSET (1 .. n) /\ S \in SUBSET Nat /\ T \in SUBSET Nat
  <2>1. n \in Nat \ {0} /\ Len(f) \in Nat /\ n = Len(f) + 1 /\ g[n] = l
    BY NewLine
  <2> HIDE DEF n
  <2>2. S \in SUBSET (1 .. n) /\ n \in 1 .. n /\ S \in SUBSET Nat
    BY <2>1
  <2>3. n \in T /\ T \in SUBSET (1 .. n)
    BY <2>2
  <2>4. T \in SUBSET Nat
    BY <2>1, <2>2
  <2>5. QED
    BY <2>1, <2>2, <2>3, <2>4
<1>2. \A i \in S : i \in Nat /\ i < n /\ i <= n /\ i # n /\ g[i] = f[i]
  BY <1>1, NewLine DEF Longer
<1> HIDE DEF n, T
<1>3. ASSUME NEW A \in SUBSET S, NEW B, B = A \cup {n}
      PROVE  Lowest(B) = IF A = {} THEN n ELSE Lowest(A)
  <2>1. B \in SUBSET Nat
    BY <1>1, <1>3
  <2>2. CASE A = {}
    <3>1. n \in B /\ \A j \in B : n <= j
      BY <1>1, <1>3, <2>2
    <3>2. QED
      BY <2>1, <2>2, <3>1, LowestIs
  <2>3. CASE A # {}
    <3>1. Lowest(A) \in A /\ \A j \in A : Lowest(A) <= j
      <4>1. A \in SUBSET Nat
        BY <1>1
      <4>2. QED
        BY <2>3, <4>1, HasLowest
    <3>2. Lowest(A) \in B /\ \A j \in B : Lowest(A) <= j
      BY <1>2, <1>3, <3>1
    <3>3. QED
      BY <2>1, <2>3, <3>2, LowestIs
  <2>4. QED
    BY <2>2, <2>3
<1>4. Lowest(T) = IF S = {} THEN n ELSE Lowest(S)
  BY <1>3 DEF T
<1>5. Keyed(g, T) = IF l.kind = "value" THEN Keyed(f, S) \cup {n} ELSE Keyed(f, S)
  <2>1. \A i : i \in Keyed(g, T) <=> i \in Keyed(f, S) \/ (i = n /\ l.kind = "value")
    BY <1>1, <1>2 DEF Keyed, T
  <2>2. CASE l.kind = "value"
    <3>1. \A i : i \in Keyed(g, T) <=> i \in Keyed(f, S) \cup {n}
      BY <2>1, <2>2
    <3>2. QED
      BY <2>2, <3>1
  <2>3. CASE l.kind # "value"
    <3>1. \A i : i \in Keyed(g, T) <=> i \in Keyed(f, S)
      BY <2>1, <2>3
    <3>2. QED
      BY <2>3, <3>1
  <2>4. QED
    BY <2>2, <2>3
<1>6. ASSUME NEW kind PROVE EndsIn(g, T, kind) <=> l.kind = kind
  <2>1. \A m \in T : m <= n
    BY <1>1, <1>2 DEF T
  <2>2. \A i \in T : (\A m \in T : m <= i) => i = n
    <3>1. \A i \in S : ~(n <= i)
      BY <1>1, <1>2
    <3>2. QED
      BY <1>1, <3>1 DEF T
  <2>3. QED
    BY <1>1, <2>1, <2>2 DEF EndsIn
<1>7. S # {} => Lowest(S) \in S
  BY <1>1, HasLowest
<1>8. ASSUME Keyed(f, S) # {} PROVE KeyLine(g, T) = KeyLine(f, S) /\ KeyLine(f, S) \in S
  <2>1. Keyed(f, S) \in SUBSET S /\ Keyed(f, S) \in SUBSET Nat
    BY <1>1 DEF Keyed
  <2>2. Lowest(Keyed(f, S)) \in S
    BY <1>8, <2>1, HasLowest
  <2>3. CASE l.kind = "value"
    <3>1. Lowest(Keyed(g, T)) = Lowest(Keyed(f, S))
      BY <1>3, <1>5, <1>8, <2>1, <2>3
    <3>2. QED
      BY <2>2, <3>1 DEF KeyLine
  <2>4. CASE l.kind # "value"
    BY <1>5, <2>2, <2>4 DEF KeyLine
  <2>5. QED
    BY <2>3, <2>4
<1>9. ASSUME Keyed(f, S) = {}, l.kind = "value" PROVE KeyLine(g, T) = n
  <2>1. Keyed(g, T) = {} \cup {n}
    BY <1>5, <1>9
  <2>2. QED
    BY <1>3, <2>1 DEF KeyLine
<1>10. T # {}
  BY <1>1
<1>11. QED
  BY <1>1, <1>2, <1>4, <1>5, <1>6, <1>7, <1>8, <1>9, <1>10 DEF More, n, T

\* The first line.
LEMMA JoinFirst ==
    ASSUME NEW f, NEW l \in IniLines, NEW g, Longer(f, l, g), l.kind # "blank",
           NEW p, p.kind = "blank"
    PROVE  Makes(g, {Len(g)}, Join(p, l))
<1> DEFINE n == Len(g)
           T == {n}
           q == Join(p, l)
<1>1. n \in Nat /\ g[n] = l
  BY NewLine
<1>2. /\ T \in SUBSET (1 .. n) /\ T # {} /\ Lowest(T) = n
      /\ Keyed(g, T) = IF l.kind = "value" THEN {n} ELSE {}
      /\ \A kind : EndsIn(g, T, kind) <=> l.kind = kind
      /\ l.kind = "value" => KeyLine(g, T) = n
  <2>1. Keyed(f, {}) = {}
    BY DEF Keyed
  <2>2. More(f, l, g, {})
    <3>1. {} \in SUBSET (1 .. Len(f))
      OBVIOUS
    <3>2. QED
      BY <3>1, MoreLines
  <2>3. {} \cup {n} = {n}
    OBVIOUS
  <2>4. QED
    BY <2>1, <2>2, <2>3 DEF More
<1>3. l.kind \in {"blank", "comment", "section", "value", "junk"}
  BY IniAssumption
<1>4. q.kind = l.kind /\ q.name = l.name /\ q.val = <<l.text>>
  <2>1. q = [kind |-> l.kind, name |-> l.name, val |-> <<l.text>>]
    BY DEF Join, Keyless
  <2>2. QED
    BY <2>1
<1>5. IsText(g, {n}, <<l.text>>)
  BY <1>1, TextOne
<1> HIDE DEF n, q
<1>6. CASE l.kind = "value"
  <2>1. LineKind(g, T) = "value"
    BY <1>1, <1>2, <1>6 DEF LineKind
  <2>2. Ahead(g, T) = {} /\ ValueLines(g, T) = {n} /\ ~Closed(g, T)
    <3>1. KeyLine(g, T) = n /\ ~(n < n)
      BY <1>1, <1>2, <1>6
    <3>2. QED
      BY <3>1 DEF Ahead, ValueLines, Closed
  <2>3. KeyName(g, T) = l.name
    BY <1>1, <1>2, <1>6, <2>2 DEF KeyName
  <2>4. QED
    BY <1>4, <1>5, <1>6, <2>1, <2>2, <2>3 DEF Makes, n, q
<1>7. CASE l.kind = "comment"
  <2>1. LineKind(g, T) = "comment"
    BY <1>1, <1>2, <1>7 DEF LineKind
  <2>2. QED
    BY <1>4, <1>7, <2>1 DEF Makes, n, q
<1>8. CASE l.kind \in {"section", "junk"}
  <2>1. LineKind(g, T) = l.kind
    BY <1>1, <1>2, <1>8 DEF LineKind
  <2>2. g[Lowest(T)] = l
    BY <1>1, <1>2
  <2>3. QED
    BY <1>4, <1>5, <1>8, <2>1, <2>2 DEF Makes, n, q
<1>9. QED
  BY <1>3, <1>6, <1>7, <1>8

\* A line behind a value.
LEMMA JoinValue ==
    ASSUME NEW f, NEW l \in IniLines, NEW g, Longer(f, l, g), l.kind # "blank",
           NEW S \in SUBSET (1 .. Len(f)), NEW p, NEW c \in Nat, PendingOk(p, c), Makes(f, S, p),
           LineKind(f, S) = "value"
    PROVE  Makes(g, S \cup {Len(g)}, Join(p, l))
<1> DEFINE n == Len(g)
           T == S \cup {n}
           q == Join(p, l)
           M == ValueLines(f, S)
           i == KeyLine(f, S)
<1>1. S # {} /\ Keyed(f, S) # {} /\ f[Lowest(S)].kind # "comment"
  BY DEF LineKind
<1>2. /\ T # {} /\ \A m \in S : m \in Nat /\ m < n /\ g[m] = f[m]
      /\ Keyed(g, T) # {} /\ Lowest(T) = Lowest(S) /\ Lowest(S) \in S
      /\ KeyLine(g, T) = i /\ i \in S
  <2>1. More(f, l, g, S)
    BY MoreLines
  <2> HIDE DEF M, q
  <2>2. QED
    BY <1>1, <2>1 DEF More
<1>3. n \in Nat /\ g[n] = l /\ Len(f) \in Nat /\ n = Len(f) + 1
  BY NewLine
<1>4. LineKind(g, T) = "value"
  BY <1>1, <1>2 DEF LineKind
<1>5. /\ p.kind = IF Closed(f, S) THEN "ended" ELSE "value"
      /\ p.name = KeyName(f, S) /\ IsText(f, M, p.val)
  BY DEF Makes
<1>6. /\ p \in [kind : PendingKinds, name : Name \cup {NULL}, val : Seq(IniText)]
      /\ p.val \in Seq(IniText) /\ l.text \in IniText
      /\ l.kind \in {"blank", "comment", "section", "value", "junk"}
  BY IniAssumption DEF PendingOk
<1> HIDE DEF n, T, q, i
<1>7. Ahead(g, T) = Ahead(f, S)
  <2>1. ~(n < i)
    BY <1>2, <1>3
  <2>2. QED
    BY <1>2, <2>1 DEF Ahead, T, i
<1>8. KeyName(g, T) = KeyName(f, S)
  <2>1. Ahead(f, S) \in SUBSET (1 .. Len(f)) /\ \A m \in Ahead(f, S) : g[m] = f[m]
    BY <1>2 DEF Ahead
  <2>2. IsFiniteSet(Ahead(f, S))
    BY <1>3, <2>1, LinesFinite
  <2>3. TextOf(g, Ahead(f, S)) = TextOf(f, Ahead(f, S))
    BY <1>3, <2>1, <2>2, TextOfSame
  <2>4. QED
    BY <1>2, <1>7, <2>3 DEF KeyName, i
<1>9. Closed(g, T) <=> Closed(f, S) \/ l.kind = "comment"
  BY <1>2, <1>3 DEF Closed, T, i
<1>10. \A m : m \in ValueLines(g, T) <=> m \in M \/ (m = n /\ ~Closed(g, T))
  <2>1. ASSUME NEW m \in S PROVE m \in ValueLines(g, T) <=> m \in M
    <3>1. \A x \in T : x <= m => x \in S /\ g[x] = f[x]
      BY <1>2, <1>3 DEF T
    <3>2. (\A x \in T : i < x /\ x <= m => g[x].kind # "comment")
          <=> (\A x \in S : i < x /\ x <= m => f[x].kind # "comment")
      BY <3>1 DEF T
    <3>3. QED
      BY <1>2, <1>7, <3>2 DEF ValueLines, T, i
  <2>2. n \in ValueLines(g, T) <=> ~Closed(g, T)
    <3>1. n \notin Ahead(g, T) /\ n \in T /\ \A x \in T : x <= n
      BY <1>2, <1>3 DEF Ahead, T
    <3>2. QED
      BY <3>1 DEF ValueLines, Closed
  <2>3. \A m : m \in ValueLines(g, T) => m \in S \/ m = n
    BY DEF ValueLines, T
  <2>4. M \subseteq S /\ n \notin S
    BY <1>2, <1>3 DEF ValueLines
  <2>5. QED
    BY <2>1, <2>2, <2>3, <2>4
<1>11. M \in SUBSET (1 .. Len(f)) /\ IsFiniteSet(M) /\ M \subseteq S
  <2>1. M \in SUBSET (1 .. Len(f)) /\ M \subseteq S
    BY DEF ValueLines
  <2>2. QED
    BY <1>3, <2>1, LinesFinite
<1> HIDE DEF M
<1>12. IsText(g, M, p.val)
  BY <1>2, <1>5, <1>11, TextSame
<1>13. CASE Closed(f, S)
  <2>1. q = p
    BY <1>5, <1>13 DEF Join, q, Keyless
  <2>2. ValueLines(g, T) = M
    BY <1>9, <1>10, <1>13
  <2>3. QED
    BY <1>4, <1>5, <1>8, <1>9, <1>12, <1>13, <2>1, <2>2 DEF Makes, T, n, q
<1>14. CASE ~Closed(f, S) /\ l.kind = "comment"
  <2>1. q = [p EXCEPT !.kind = "ended"]
    BY <1>5, <1>14 DEF Join, Keyless, q
  <2>2. q.kind = "ended" /\ q.name = p.name /\ q.val = p.val
    BY <1>6, <2>1
  <2>3. ValueLines(g, T) = M
    BY <1>9, <1>10, <1>14
  <2>4. QED
    BY <1>4, <1>5, <1>8, <1>9, <1>12, <1>14, <2>2, <2>3 DEF Makes, T, n, q
<1>15. CASE ~Closed(f, S) /\ l.kind # "comment"
  <2> DEFINE v == Append(p.val, l.text)
  <2>1. q = [p EXCEPT !.val = v]
    BY <1>5, <1>6, <1>15 DEF Join, Keyless, q
  <2> HIDE DEF v
  <2>2. q.kind = "value" /\ q.name = p.name /\ q.val = v
    BY <1>5, <1>6, <1>15, <2>1
  <2>3. ValueLines(g, T) = M \cup {n}
    <3>1. \A m : m \in ValueLines(g, T) <=> m \in M \cup {n}
      BY <1>9, <1>10, <1>15
    <3>2. QED
      BY <3>1
  <2>4. IsText(g, M \cup {n}, v)
    <3>1. IsText(g, M \cup {Len(f) + 1}, Append(p.val, g[Len(f) + 1].text))
      BY <1>3, <1>6, <1>11, <1>12, TextAppend
    <3>2. QED
      BY <1>3, <3>1 DEF v
  <2>5. QED
    BY <1>4, <1>5, <1>8, <1>9, <1>15, <2>2, <2>3, <2>4 DEF Makes, T, n, q
<1>16. QED
  BY <1>13, <1>14, <1>15

\* A line behind the beginning of a section or behind junk.
LEMMA JoinKeyless ==
    ASSUME NEW f, NEW l \in IniLines, NEW g, Longer(f, l, g), l.kind # "blank",
           NEW S \in SUBSET (1 .. Len(f)), NEW p, NEW c \in Nat, PendingOk(p, c), Makes(f, S, p),
           LineKind(f, S) \in {"section", "junk"}
    PROVE  Makes(g, S \cup {Len(g)}, Join(p, l))
<1> DEFINE n == Len(g)
           T == S \cup {n}
           q == Join(p, l)
           a == Lowest(S)
<1>1. S # {} /\ Keyed(f, S) = {} /\ f[a].kind # "comment"
  BY DEF LineKind
<1>2. /\ T # {} /\ \A m \in S : m \in Nat /\ m < n /\ g[m] = f[m]
      /\ Keyed(g, T) = (IF l.kind = "value" THEN {n} ELSE {})
      /\ \A kind : EndsIn(g, T, kind) <=> l.kind = kind
      /\ Lowest(T) = a /\ a \in S /\ (l.kind = "value" => KeyLine(g, T) = n)
  <2>1. More(f, l, g, S)
    BY MoreLines
  <2>2. /\ T # {} /\ \A m \in S : m \in Nat /\ m < n /\ g[m] = f[m]
        /\ Keyed(g, T) = IF l.kind = "value" THEN Keyed(f, S) \cup {n} ELSE Keyed(f, S)
        /\ \A kind : EndsIn(g, T, kind) <=> l.kind = kind
        /\ Lowest(T) = a /\ a \in S /\ (l.kind = "value" => KeyLine(g, T) = n)
    BY <1>1, <2>1 DEF More
  <2>3. Keyed(f, S) \cup {n} = {n}
    BY <1>1
  <2>4. QED
    BY <1>1, <2>2, <2>3
<1>3. n \in Nat /\ g[n] = l /\ Len(f) \in Nat /\ n = Len(f) + 1 /\ g[a] = f[a]
  BY <1>2, NewLine
<1>4. /\ p.kind = IF LineKind(f, S) = "section" THEN "section"
                 ELSE IF f[a].kind = "section" THEN "broken" ELSE "junk"
      /\ p.kind # "junk" => p.name = f[a].name
      /\ IsText(f, S, p.val)
  BY DEF Makes
<1>5. /\ p \in [kind : PendingKinds, name : Name \cup {NULL}, val : Seq(IniText)]
      /\ p.val \in Seq(IniText) /\ l.text \in IniText
      /\ l.kind \in {"blank", "comment", "section", "value", "junk"}
  BY IniAssumption DEF PendingOk
<1>6. p.kind \in Keyless /\ (p.kind = "junk" <=> f[a].kind # "section")
  BY <1>4 DEF Keyless, LineKind
<1>7. IsFiniteSet(S) /\ IsText(g, S, p.val)
  BY <1>2, <1>3, <1>4, LinesFinite, TextSame
<1> HIDE DEF n, T, q, a
<1>8. CASE l.kind = "value"
  <2> DEFINE k == Glue[p.val][l.name]
  <2>1. q = [kind |-> "value", name |-> k, val |-> <<l.text>>]
    BY <1>6, <1>8 DEF Join, q, Keyless
  <2> HIDE DEF k
  <2>2. q.kind = "value" /\ q.name = k /\ q.val = <<l.text>>
    BY <2>1
  <2>3. LineKind(g, T) = "value"
    BY <1>1, <1>2, <1>3, <1>8 DEF LineKind
  <2>4. Ahead(g, T) = S /\ ValueLines(g, T) = {n} /\ ~Closed(g, T)
    <3>1. KeyLine(g, T) = n /\ ~(n < n) /\ \A m \in S : ~(n < m)
      BY <1>2, <1>3, <1>8
    <3>2. Ahead(g, T) = S
      BY <1>2, <3>1 DEF Ahead, T
    <3>3. ~Closed(g, T)
      BY <3>1 DEF Closed, T
    <3>4. ValueLines(g, T) = {n}
      BY <1>2, <3>1, <3>2 DEF ValueLines, T
    <3>5. QED
      BY <3>2, <3>3, <3>4
  <2>5. KeyName(g, T) = k
    <3>1. p.val = TextOf(g, S)
      BY <1>3, <1>5, <1>7, TextIs
    <3>2. QED
      BY <1>1, <1>2, <1>3, <1>8, <2>4, <3>1 DEF KeyName, k
  <2>6. IsText(g, {n}, <<l.text>>)
    BY <1>3, TextOne
  <2>7. QED
    BY <2>2, <2>3, <2>4, <2>5, <2>6 DEF Makes, T, n, q
<1>9. CASE l.kind # "value"
  <2> DEFINE v == Append(p.val, l.text)
             w == Turns(p.kind, l)
  <2>1. q = [p EXCEPT !.kind = w, !.val = v]
    BY <1>6, <1>9 DEF Join, q, Keyless
  <2>2. w = IF p.kind = "junk" THEN "junk" ELSE IF l.kind = "section" THEN "section" ELSE "broken"
    BY DEF Turns
  <2> HIDE DEF v, w
  <2>3. q.kind = w /\ q.name = p.name /\ q.val = v
    BY <1>5, <2>1
  <2>4. LineKind(g, T) = IF f[a].kind = "section" /\ l.kind = "section" THEN "section" ELSE "junk"
    BY <1>1, <1>2, <1>3, <1>9 DEF LineKind, a
  <2>5. IsText(g, T, v)
    <3>1. IsText(g, S \cup {Len(f) + 1}, Append(p.val, g[Len(f) + 1].text))
      BY <1>3, <1>5, <1>7, TextAppend
    <3>2. QED
      BY <1>3, <3>1 DEF v, T
  <2>6. /\ w = IF LineKind(g, T) = "section" THEN "section"
              ELSE IF f[a].kind = "section" THEN "broken" ELSE "junk"
        /\ w # "junk" => p.name = f[a].name
    BY <1>4, <1>6, <2>2, <2>4
  <2>7. QED
    BY <1>2, <1>3, <2>3, <2>4, <2>5, <2>6 DEF Makes, T, n, q
<1>10. QED
  BY <1>8, <1>9

\* Join makes the lines with one more.
LEMMA JoinMakes ==
    ASSUME NEW f, NEW l \in IniLines, NEW g, Longer(f, l, g), NEW S \in SUBSET (1 .. Len(f)),
           NEW p, NEW c \in Nat, PendingOk(p, c), Makes(f, S, p)
    PROVE  Makes(g, IF l.kind = "blank" THEN S ELSE S \cup {Len(g)}, Join(p, l))
<1>1. Len(f) \in Nat /\ \A i \in S : g[i] = f[i]
  BY DEF Longer
<1>2. p.kind = "blank" <=> LineKind(f, S) = "blank"
  BY LineKinds DEF Makes
<1>3. LineKind(f, S) = "blank" <=> S = {}
  BY DEF LineKind
<1>4. CASE l.kind = "blank"
  <2>1. Makes(g, S, p)
    BY <1>1, MakesSame
  <2>2. CASE p.kind = "blank"
    <3>1. Join(p, l).kind = "blank"
      BY <1>4, <2>2 DEF Join
    <3>2. LineKind(g, S) = "blank"
      BY <1>2, <1>3, <2>2 DEF LineKind
    <3>3. QED
      BY <1>4, <3>1, <3>2 DEF Makes
  <2>3. CASE p.kind # "blank"
    <3>1. Join(p, l) = p
      BY <1>4, <2>3 DEF Join
    <3>2. QED
      BY <1>4, <2>1, <3>1
  <2>4. QED
    BY <2>2, <2>3
<1>5. CASE l.kind # "blank" /\ LineKind(f, S) = "blank"
  <2>1. S \cup {Len(g)} = {Len(g)}
    BY <1>3, <1>5
  <2>2. QED
    BY <1>2, <1>5, <2>1, JoinFirst
<1>6. CASE l.kind # "blank" /\ LineKind(f, S) = "comment"
  <2>1. p.kind = "comment"
    BY <1>6 DEF Makes
  <2>2. Join(p, l) = p
    BY <2>1 DEF Join, Keyless
  <2> DEFINE T == S \cup {Len(g)}
  <2>3. S # {} /\ f[Lowest(S)].kind = "comment"
    BY <1>6 DEF LineKind
  <2>4. T # {} /\ Lowest(T) = Lowest(S) /\ Lowest(S) \in S
    <3>1. More(f, l, g, S)
      BY MoreLines
    <3>2. QED
      BY <2>3, <3>1 DEF More
  <2>5. LineKind(g, T) = "comment"
    BY <1>1, <2>3, <2>4 DEF LineKind
  <2> HIDE DEF T
  <2>6. Makes(g, T, p)
    BY <2>1, <2>5 DEF Makes
  <2>7. QED
    BY <1>6, <2>2, <2>6 DEF T
<1>7. CASE l.kind # "blank" /\ LineKind(f, S) = "value"
  BY <1>7, JoinValue
<1>8. CASE l.kind # "blank" /\ LineKind(f, S) \in {"section", "junk"}
  BY <1>8, JoinKeyless
<1>9. QED
  BY <1>4, <1>5, <1>6, <1>7, <1>8, LineKinds

-----------------------------------------------------------------------------
(* One more line *)

\* The lines at the end of the file that wait for the next one.
Waiting(f) == {i \in DOMAIN f : /\ f[i].kind # "blank"
                                /\ \A m \in i .. Len(f) : f[m].end = "backslash"}

\* The lines that wait are p.
Pend(f, p) == Makes(f, Waiting(f), p)

\* A logical line that ended before consists of the same lines.
LEMMA SolidSame ==
    ASSUME NEW f, NEW l, NEW g, Longer(f, l, g), NEW j \in 1 .. Len(f)
    PROVE  /\ Solid(g, j) = Solid(f, j) /\ Solid(f, j) \in SUBSET (1 .. j)
           /\ j \in Nat /\ \A i \in Solid(f, j) : g[i] = f[i]
<1>1. j \in Nat /\ \A i \in 1 .. j : g[i] = f[i] /\ \A m \in i .. j - 1 : g[m] = f[m]
  BY DEF Longer
<1>2. QED
  BY <1>1 DEF Solid

\* The logical line a new line belongs to.
LEMMA SolidNew ==
    ASSUME NEW f, NEW l, NEW g, Longer(f, l, g)
    PROVE  /\ Waiting(f) \in SUBSET (1 .. Len(f))
           /\ Solid(g, Len(g)) = IF l.kind = "blank" THEN Waiting(f) ELSE Waiting(f) \cup {Len(g)}
<1>1. /\ Len(f) \in Nat /\ Len(g) = Len(f) + 1 /\ DOMAIN f = 1 .. Len(f)
      /\ \A i \in 1 .. Len(f) : g[i] = f[i]
      /\ g[Len(g)] = l /\ Len(g) - 1 = Len(f)
  BY DEF Longer
<1>2. Waiting(f) \in SUBSET (1 .. Len(f))
  BY <1>1 DEF Waiting
<1>3. ASSUME NEW i \in 1 .. Len(f) PROVE i \in Solid(g, Len(g)) <=> i \in Waiting(f)
  <2>1. g[i] = f[i] /\ i \in 1 .. Len(g) /\ \A m \in i .. Len(f) : g[m] = f[m]
    BY <1>1
  <2>2. QED
    BY <1>1, <2>1 DEF Waiting, Solid
<1>4. Len(g) \in Solid(g, Len(g)) <=> l.kind # "blank"
  <2>1. Len(g) \in 1 .. Len(g) /\ \A m \in Len(g) .. Len(g) - 1 : FALSE
    BY <1>1
  <2>2. QED
    BY <1>1, <2>1 DEF Solid
<1>5. \A i \in Solid(g, Len(g)) : i \in 1 .. Len(f) \/ i = Len(g)
  BY <1>1 DEF Solid
<1>6. \A i : i \in Solid(g, Len(g)) <=> i \in Waiting(f) \/ (i = Len(g) /\ l.kind # "blank")
  BY <1>2, <1>3, <1>4, <1>5
<1>7. CASE l.kind = "blank"
  <2>1. \A i : i \in Solid(g, Len(g)) <=> i \in Waiting(f)
    BY <1>6, <1>7
  <2>2. Solid(g, Len(g)) = Waiting(f)
    BY <2>1
  <2>3. QED
    BY <1>2, <1>7, <2>2
<1>8. CASE l.kind # "blank"
  <2>1. \A i : i \in Solid(g, Len(g)) <=> i \in Waiting(f) \cup {Len(g)}
    BY <1>6, <1>8
  <2>2. Solid(g, Len(g)) = Waiting(f) \cup {Len(g)}
    BY <2>1
  <2>3. QED
    BY <1>2, <1>8, <2>2
<1>9. QED
  BY <1>7, <1>8

\* It goes on waiting when it ends in a backslash, and no other does.
LEMMA WaitingNew ==
    ASSUME NEW f, NEW l, NEW g, Longer(f, l, g)
    PROVE  Waiting(g) = IF l.end = "backslash" THEN Solid(g, Len(g)) ELSE {}
<1>1. /\ Len(f) \in Nat /\ Len(g) = Len(f) + 1 /\ DOMAIN g = 1 .. Len(g) /\ g[Len(g)] = l
  BY DEF Longer
<1>2. CASE l.end = "backslash"
  <2>1. ASSUME NEW i \in 1 .. Len(g)
        PROVE  (\A m \in i .. Len(g) : g[m].end = "backslash")
               <=> (\A m \in i .. Len(g) - 1 : g[m].end = "backslash")
    BY <1>1, <1>2
  <2>2. QED
    BY <1>1, <1>2, <2>1 DEF Waiting, Solid
<1>3. CASE l.end # "backslash"
  <2>1. \A i \in 1 .. Len(g) : Len(g) \in i .. Len(g)
    BY <1>1
  <2>2. QED
    BY <1>1, <1>3, <2>1 DEF Waiting
<1>4. QED
  BY <1>2, <1>3

\* The last line of g is a logical line, q.
Line(g, q) == Makes(g, Solid(g, Len(g)), q)

\* Join makes the new logical line.
LEMMA LineNew ==
    ASSUME NEW f, NEW l \in IniLines, NEW g, Longer(f, l, g),
           NEW p, NEW c \in Nat, PendingOk(p, c), Pend(f, p)
    PROVE  Line(g, Join(p, l))
<1> DEFINE S == Waiting(f)
<1>1. S \in SUBSET (1 .. Len(f)) /\ Makes(f, S, p)
  BY SolidNew DEF Pend
<1>2. Solid(g, Len(g)) = IF l.kind = "blank" THEN S ELSE S \cup {Len(g)}
  BY SolidNew
<1> HIDE DEF S
<1>3. Makes(g, IF l.kind = "blank" THEN S ELSE S \cup {Len(g)}, Join(p, l))
  BY <1>1, JoinMakes
<1>4. QED
  BY <1>2, <1>3 DEF Line

\* A line that ends in a backslash waits, joined to those that did.
LEMMA PendNew ==
    ASSUME NEW f, NEW l \in IniLines, NEW g, Longer(f, l, g), l.end = "backslash",
           NEW p, NEW c \in Nat, PendingOk(p, c), Pend(f, p)
    PROVE  Pend(g, Join(p, l))
<1>1. Line(g, Join(p, l))
  BY LineNew
<1>2. Waiting(g) = Solid(g, Len(g))
  BY WaitingNew
<1>3. QED
  BY <1>1, <1>2 DEF Line, Pend

\* Nothing is made of no lines.
LEMMA PendNothing == ASSUME NEW f, Waiting(f) = {} PROVE Pend(f, NoText)
<1>1. LineKind(f, {}) = "blank" /\ NoText.kind = "blank"
  BY DEF LineKind, NoText
<1>2. QED
  BY <1>1 DEF Pend, Makes

\* After the end of a logical line nothing waits.
LEMMA PendEnded ==
    ASSUME NEW f, NEW l, NEW g, Longer(f, l, g), l.end # "backslash"
    PROVE  Pend(g, NoText)
  BY WaitingNew, PendNothing

\* What the old lines mean.
LEMMA MeaningSame ==
    ASSUME NEW f, NEW l, NEW g, Longer(f, l, g), NEW j \in 1 .. Len(f)
    PROVE  /\ KindAt(g, j) = KindAt(f, j)
           /\ KindAt(f, j) \in {"section", "value"} =>
                  NameAt(g, j) = NameAt(f, j) /\ ValueAt(g, j) = ValueAt(f, j)
<1> DEFINE S == Solid(f, j)
<1>1. Solid(g, j) = S /\ S \in SUBSET (1 .. j) /\ j \in Nat /\ \A i \in S : g[i] = f[i]
  BY SolidSame
<1> HIDE DEF S
<1>2. /\ LineKind(g, S) = LineKind(f, S)
      /\ S # {} => g[Lowest(S)] = f[Lowest(S)]
      /\ Keyed(f, S) # {} => KeyName(g, S) = KeyName(f, S)
      /\ TextOf(g, ValueLines(g, S)) = TextOf(f, ValueLines(f, S))
  BY <1>1, LinesSame
<1>3. /\ LineKind(f, S) = "value" => Keyed(f, S) # {}
      /\ LineKind(f, S) = "section" => S # {}
  BY DEF LineKind
<1>4. QED
  BY <1>1, <1>2, <1>3 DEF KindAt, NameAt, ValueAt, S

-----------------------------------------------------------------------------
(* What the logical lines mean *)

Mentioning == {"section", "value", "ended"}
Wrong == {"junk", "broken"}

\* What the last line is.
LEMMA LineMeans ==
    ASSUME NEW g, Len(g) \in Nat, NEW q, q.val \in Seq(IniText), Line(g, q)
    PROVE  /\ KindAt(g, Len(g)) = "junk" <=> q.kind \in Wrong
           /\ KindAt(g, Len(g)) \in {"section", "value"} <=> q.kind \in Mentioning
           /\ q.kind \in Mentioning => NameAt(g, Len(g)) = q.name
           /\ q.kind = "section" => ValueAt(g, Len(g)) = NULL
           /\ q.kind \in {"value", "ended"} => ValueAt(g, Len(g)) = q.val
<1> DEFINE S == Solid(g, Len(g))
<1>1. Makes(g, S, q) /\ KindAt(g, Len(g)) = LineKind(g, S) /\ S \in SUBSET (1 .. Len(g))
  BY DEF Line, KindAt, Solid
<1>2. /\ NameAt(g, Len(g)) = IF LineKind(g, S) = "section" THEN g[Lowest(S)].name ELSE KeyName(g, S)
      /\ ValueAt(g, Len(g)) = IF LineKind(g, S) = "section" THEN NULL ELSE TextOf(g, ValueLines(g, S))
  BY <1>1 DEF NameAt, ValueAt
<1> HIDE DEF S
<1>3. CASE LineKind(g, S) \in {"blank", "comment"}
  BY <1>1, <1>3 DEF Makes, Mentioning, Wrong
<1>4. CASE LineKind(g, S) = "section"
  BY <1>1, <1>2, <1>4 DEF Makes, Mentioning, Wrong
<1>5. CASE LineKind(g, S) = "junk"
  BY <1>1, <1>5 DEF Makes, Mentioning, Wrong
<1>6. CASE LineKind(g, S) = "value"
  <2>1. /\ q.kind \in {"value", "ended"} /\ q.name = KeyName(g, S)
        /\ IsText(g, ValueLines(g, S), q.val)
    BY <1>1, <1>6 DEF Makes
  <2>2. ValueLines(g, S) \in SUBSET (1 .. Len(g))
    BY <1>1 DEF ValueLines
  <2>3. q.val = TextOf(g, ValueLines(g, S))
    BY <2>1, <2>2, LinesFinite, TextIs
  <2>4. QED
    BY <1>1, <1>2, <1>6, <2>1, <2>3 DEF Mentioning, Wrong
<1>7. QED
  BY <1>3, <1>4, <1>5, <1>6, LineKinds

Cut(f) == \E i \in DOMAIN f : f[i].end = "none"
\* A syntax error with no section or value line after it.
Bad(f) == \E j \in Ended(f) : /\ KindAt(f, j) = "junk"
                              /\ \A m \in Ended(f) : KindAt(f, m) \in {"section", "value"} => m < j
\* Dictionary d holds what file f says.
Stored(f, d) ==
    \A k \in Name :
        /\ Mentions(f, k) = {} => Hits(d, k) = {}
        /\ \A j \in Mentions(f, k) : (\A m \in Mentions(f, k) : m <= j) =>
               Hits(d, k) # {} /\ Get(d, k, NULL) = ValueAt(f, j)

\* The logical lines and unfinished ones when a line is read.
LEMMA EndedNew ==
    ASSUME NEW f, NEW l, NEW g, Longer(f, l, g)
    PROVE  /\ Ended(f) \subseteq 1 .. Len(f) /\ Len(g) \notin Ended(f)
           /\ Ended(g) = IF l.end = "newline" THEN Ended(f) \cup {Len(g)} ELSE Ended(f)
           /\ Cut(g) <=> Cut(f) \/ l.end = "none"
<1>1. /\ Len(f) \in Nat /\ Len(g) = Len(f) + 1 /\ DOMAIN f = 1 .. Len(f)
      /\ DOMAIN g = (1 .. Len(f)) \cup {Len(g)} /\ g[Len(g)] = l
      /\ \A i \in 1 .. Len(f) : g[i] = f[i]
      /\ Len(g) \notin 1 .. Len(f)
  BY DEF Longer
<1>2. Ended(f) \subseteq 1 .. Len(f)
  BY <1>1 DEF Ended
<1>3. \A j : j \in Ended(g) <=> j \in Ended(f) \/ (j = Len(g) /\ l.end = "newline")
  BY <1>1 DEF Ended
<1>4. Cut(g) <=> Cut(f) \/ l.end = "none"
  BY <1>1 DEF Cut
<1>5. CASE l.end = "newline"
  <2>1. \A j : j \in Ended(g) <=> j \in Ended(f) \cup {Len(g)}
    BY <1>3, <1>5
  <2>2. Ended(g) = Ended(f) \cup {Len(g)}
    BY <2>1
  <2>3. QED
    BY <1>1, <1>2, <1>4, <1>5, <2>2
<1>6. CASE l.end # "newline"
  <2>1. \A j : j \in Ended(g) <=> j \in Ended(f)
    BY <1>3, <1>6
  <2>2. Ended(g) = Ended(f)
    BY <2>1
  <2>3. QED
    BY <1>1, <1>2, <1>4, <1>6, <2>2
<1>7. QED
  BY <1>5, <1>6

\* A line that ends no logical line changes nothing of what the file means.
LEMMA MeaningWaits ==
    ASSUME NEW f, NEW l, NEW g, Longer(f, l, g), l.end # "newline"
    PROVE  (Bad(g) <=> Bad(f)) /\ \A d : Stored(f, d) => Stored(g, d)
<1>1. Ended(g) = Ended(f) /\ Ended(f) \subseteq 1 .. Len(f)
  BY EndedNew
<1>2. \A j \in Ended(f) : /\ KindAt(g, j) = KindAt(f, j)
                          /\ KindAt(f, j) \in {"section", "value"} =>
                                 NameAt(g, j) = NameAt(f, j) /\ ValueAt(g, j) = ValueAt(f, j)
  BY <1>1, MeaningSame
<1>3. Bad(g) <=> Bad(f)
  BY <1>1, <1>2 DEF Bad
<1>4. \A k : Mentions(g, k) = Mentions(f, k)
  BY <1>1, <1>2 DEF Mentions
<1>5. \A k : \A j \in Mentions(f, k) : ValueAt(g, j) = ValueAt(f, j)
  BY <1>2 DEF Mentions
<1>6. ASSUME NEW d, Stored(f, d) PROVE Stored(g, d)
  BY <1>4, <1>5, <1>6 DEF Stored
<1>7. QED
  BY <1>3, <1>6

\* A syntax error counts until a section or a value is read.
LEMMA BadNew ==
    ASSUME NEW f, NEW l, NEW g, Longer(f, l, g), l.end = "newline",
           NEW q, q.val \in Seq(IniText), Line(g, q)
    PROVE  /\ q.kind \in Wrong => Bad(g)
           /\ q.kind \in Mentioning => ~Bad(g)
           /\ q.kind \notin Wrong \cup Mentioning => (Bad(g) <=> Bad(f))
<1>1. /\ Ended(g) = Ended(f) \cup {Len(g)} /\ Ended(f) \subseteq 1 .. Len(f)
      /\ Len(f) \in Nat /\ Len(g) = Len(f) + 1
  BY EndedNew DEF Longer
<1>2. \A j \in Ended(f) : j < Len(g) /\ ~(Len(g) < j) /\ KindAt(g, j) = KindAt(f, j)
  BY <1>1, MeaningSame
<1>3. /\ KindAt(g, Len(g)) = "junk" <=> q.kind \in Wrong
      /\ KindAt(g, Len(g)) \in {"section", "value"} <=> q.kind \in Mentioning
  BY <1>1, LineMeans
<1>4. ASSUME q.kind \in Wrong PROVE Bad(g)
  <2>1. q.kind \notin Mentioning
    BY <1>4 DEF Mentioning, Wrong
  <2>2. \A m \in Ended(g) : KindAt(g, m) \in {"section", "value"} => m < Len(g)
    BY <1>1, <1>2, <1>3, <2>1
  <2>3. QED
    BY <1>1, <1>3, <1>4, <2>2 DEF Bad
<1>5. ASSUME q.kind \in Mentioning PROVE ~Bad(g)
  <2>1. q.kind \notin Wrong
    BY <1>5 DEF Mentioning, Wrong
  <2>2. QED
    BY <1>1, <1>2, <1>3, <1>5, <2>1 DEF Bad
<1>6. ASSUME q.kind \notin Wrong \cup Mentioning PROVE Bad(g) <=> Bad(f)
  BY <1>1, <1>2, <1>3, <1>6 DEF Bad
<1>7. QED
  BY <1>4, <1>5, <1>6

\* The mentions of a name when a logical line ends.
LEMMA MentionsNew ==
    ASSUME NEW f, NEW l, NEW g, Longer(f, l, g), l.end = "newline",
           NEW q, q.val \in Seq(IniText), Line(g, q), NEW k
    PROVE  /\ Mentions(g, k) = Mentions(f, k) \cup {j \in {Len(g)} : q.kind \in Mentioning /\ q.name = k}
           /\ \A j \in Mentions(f, k) : j < Len(g) /\ j \in Nat /\ ValueAt(g, j) = ValueAt(f, j)
<1>1. /\ Ended(g) = Ended(f) \cup {Len(g)} /\ Ended(f) \subseteq 1 .. Len(f)
      /\ Len(f) \in Nat /\ Len(g) = Len(f) + 1
  BY EndedNew DEF Longer
<1>2. \A j \in Ended(f) : /\ j < Len(g) /\ j \in Nat /\ KindAt(g, j) = KindAt(f, j)
                          /\ KindAt(f, j) \in {"section", "value"} =>
                                 NameAt(g, j) = NameAt(f, j) /\ ValueAt(g, j) = ValueAt(f, j)
  BY <1>1, MeaningSame
<1>3. /\ KindAt(g, Len(g)) \in {"section", "value"} <=> q.kind \in Mentioning
      /\ q.kind \in Mentioning => NameAt(g, Len(g)) = q.name
  BY <1>1, LineMeans
<1>4. \A j : j \in Mentions(g, k) <=>
                 j \in Mentions(f, k) \/ (j = Len(g) /\ q.kind \in Mentioning /\ q.name = k)
  BY <1>1, <1>2, <1>3 DEF Mentions
<1>5. \A j \in Mentions(f, k) : j < Len(g) /\ j \in Nat /\ ValueAt(g, j) = ValueAt(f, j)
  BY <1>2 DEF Mentions
<1>6. \A j : j \in Mentions(g, k) <=>
                 j \in Mentions(f, k) \cup {x \in {Len(g)} : q.kind \in Mentioning /\ q.name = k}
  BY <1>4
<1>7. QED
  BY <1>5, <1>6

\* A blank, a comment, a syntax error: what was stored is what the file says.
LEMMA StoredSame ==
    ASSUME NEW f, NEW l, NEW g, Longer(f, l, g), l.end = "newline",
           NEW q, q.val \in Seq(IniText), Line(g, q), q.kind \notin Mentioning,
           NEW d, Stored(f, d)
    PROVE  Stored(g, d)
<1>1. \A k : /\ Mentions(g, k) = Mentions(f, k)
             /\ \A j \in Mentions(f, k) : ValueAt(g, j) = ValueAt(f, j)
  BY MentionsNew
<1>2. QED
  BY <1>1 DEF Stored

\* Dictionary e has for name k what d has.
SameEntry(d, e, k) == /\ Hits(e, k) = {} <=> Hits(d, k) = {}
                      /\ Hits(d, k) # {} => Get(e, k, NULL) = Get(d, k, NULL)

\* A section or value line is what the file says of its name.
LEMMA StoredNew ==
    ASSUME NEW f, NEW l, NEW g, Longer(f, l, g), l.end = "newline",
           NEW q, q.val \in Seq(IniText), Line(g, q), q.kind \in Mentioning,
           NEW d, Stored(f, d), NEW e,
           \A k \in Name \ {q.name} : SameEntry(d, e, k),
           Hits(e, q.name) # {},
           Get(e, q.name, NULL) = IF q.kind = "section" THEN NULL ELSE q.val
    PROVE  Stored(g, e)
<1>1. Len(f) \in Nat /\ Len(g) = Len(f) + 1 /\ Len(g) \in Nat
  BY DEF Longer
<1>2. Get(e, q.name, NULL) = ValueAt(g, Len(g))
  BY <1>1, LineMeans DEF Mentioning
<1>3. ASSUME NEW k \in Name, k # q.name
      PROVE  /\ Mentions(g, k) = {} => Hits(e, k) = {}
             /\ \A j \in Mentions(g, k) : (\A m \in Mentions(g, k) : m <= j) =>
                    Hits(e, k) # {} /\ Get(e, k, NULL) = ValueAt(g, j)
  <2>1. /\ Mentions(g, k) = Mentions(f, k)
        /\ \A j \in Mentions(f, k) : ValueAt(g, j) = ValueAt(f, j)
    <3>1. /\ Mentions(g, k) = Mentions(f, k) \cup {j \in {Len(g)} : q.kind \in Mentioning /\ q.name = k}
          /\ \A j \in Mentions(f, k) : ValueAt(g, j) = ValueAt(f, j)
      BY MentionsNew
    <3>2. {j \in {Len(g)} : q.kind \in Mentioning /\ q.name = k} = {}
      BY <1>3
    <3>3. QED
      BY <3>1, <3>2
  <2>2. SameEntry(d, e, k)
    BY <1>3
  <2>3. /\ Mentions(f, k) = {} => Hits(d, k) = {}
        /\ \A j \in Mentions(f, k) : (\A m \in Mentions(f, k) : m <= j) =>
               Hits(d, k) # {} /\ Get(d, k, NULL) = ValueAt(f, j)
    BY DEF Stored
  <2>4. QED
    BY <2>1, <2>2, <2>3 DEF SameEntry
<1>4. ASSUME NEW k \in Name, k = q.name
      PROVE  /\ Mentions(g, k) = {} => Hits(e, k) = {}
             /\ \A j \in Mentions(g, k) : (\A m \in Mentions(g, k) : m <= j) =>
                    Hits(e, k) # {} /\ Get(e, k, NULL) = ValueAt(g, j)
  <2>1. /\ Mentions(g, k) = Mentions(f, k) \cup {Len(g)}
        /\ \A j \in Mentions(f, k) : j < Len(g) /\ j \in Nat
    BY <1>4, MentionsNew
  <2>2. ASSUME NEW j \in Mentions(g, k), \A m \in Mentions(g, k) : m <= j
        PROVE  j = Len(g)
    <3>1. Len(g) <= j
      BY <2>1, <2>2
    <3>2. QED
      BY <1>1, <2>1, <3>1
  <2>3. Mentions(g, k) # {}
    BY <2>1
  <2>4. Hits(e, k) # {} /\ Get(e, k, NULL) = ValueAt(g, Len(g))
    BY <1>2, <1>4
  <2>5. QED
    BY <2>2, <2>3, <2>4, Zenon
<1>5. QED
  BY <1>3, <1>4 DEF Stored

-----------------------------------------------------------------------------
(* The loop of iniparser_load *)

\* A dictionary that gives the same answer has the same entry.
LEMMA AnswerEntry ==
    ASSUME NEW d, Good(d), NEW e, Good(e), NEW k \in Name,
           Get(e, k, Absent) = Get(d, k, Absent)
    PROVE  SameEntry(d, e, k)
<1>1. ASSUME NEW x, Good(x)
      PROVE  /\ Hits(x, k) = {} <=> Get(x, k, Absent) = Absent
             /\ Hits(x, k) # {} => Get(x, k, NULL) = Get(x, k, Absent)
  <2>1. CASE Hits(x, k) = {}
    BY <2>1 DEF Get
  <2>2. CASE Hits(x, k) # {}
    <3>1. PICK i \in 1 .. Size(x) : x.key[i] = k
      BY <1>1, <2>2, HitsKeys
    <3>2. Get(x, k, Absent) = x.val[i] /\ Get(x, k, NULL) = x.val[i]
      BY <1>1, <3>1, HitsAt
    <3>3. x.val[i] \in Val \cup {NULL}
      BY <1>1, DictArrays DEF Good, DictShape
    <3>4. x.val[i] # Absent
      BY <3>3, IniAssumption
    <3>5. QED
      BY <2>2, <3>2, <3>4
  <2>3. QED
    BY <2>1, <2>2
<1>2. QED
  BY <1>1 DEF SameEntry

\* As long as memory lasts, the dictionary, the line in hand and the count of
\* errors are what the lines read so far mean.
FileInv ==
    /\ errs \in Nat
    /\ iniPc = "closed" => iniRead = <<>>
    /\ iniPc \in {"closed", "null", "held", "edited"} => errs = 0
    /\ ~noMem =>
           /\ iniPc = "null" => Refused(iniRead)
           /\ iniPc = "held" => ~Refused(iniRead) /\ Stored(iniRead, dict)
           /\ iniPc = "reading" => /\ ~Cut(iniRead) /\ Pend(iniRead, iniLine)
                                   /\ (errs # 0 <=> Bad(iniRead)) /\ Stored(iniRead, dict)

\* A file is refused for an unfinished line or an error.
LEMMA RefusedIs == ASSUME NEW f PROVE Refused(f) <=> Cut(f) \/ Bad(f)
  BY DEF Refused, Cut, Bad

\* The empty file says nothing.
LEMMA EmptyFile ==
    ASSUME NEW d, Filled(d) = {}
    PROVE  ~Cut(<<>>) /\ Pend(<<>>, NoText) /\ ~Bad(<<>>) /\ Stored(<<>>, d)
<1> DEFINE f == <<>>
<1>1. DOMAIN f = {}
  OBVIOUS
<1> HIDE DEF f
<1>2. Ended(f) = {} /\ Waiting(f) = {} /\ ~Cut(f)
  BY <1>1 DEF Ended, Waiting, Cut
<1>3. ~Bad(f) /\ \A k : Mentions(f, k) = {}
  BY <1>2 DEF Bad, Mentions
<1>4. \A k : Hits(d, k) = {}
  BY DEF Hits
<1>5. Stored(f, d)
  BY <1>3, <1>4 DEF Stored
<1>6. Pend(f, NoText)
  BY <1>2, PendNothing
<1>7. QED
  BY <1>2, <1>3, <1>5, <1>6 DEF f

\* dictionary_del and its end.
LEMMA DiscardEnds ==
    ASSUME NEW d, NEW l, Discard(d, l) PROVE iniPc' \in {l, "crash"}
  BY DEF Discard

\* dictionary_set in the loop.
LEMMA StoreEnds ==
    ASSUME IniInv, iniPc = "reading", errs \in Nat, NEW k \in Name, NEW v \in Val \cup {NULL},
           Store(k, v)
    PROVE  /\ errs' \in Nat /\ iniPc' \in {"reading", "crash", "null"} /\ (noMem => noMem')
           /\ iniPc' = "null" => errs' = 0 /\ noMem'
           /\ iniPc' = "reading" /\ ~noMem' =>
                  /\ errs' = 0 /\ Hits(dict', k) # {} /\ Get(dict', k, NULL) = v
                  /\ \A l \in Name \ {k} : SameEntry(dict, dict', l)
<1>1. CASE iniPc' = "crash" /\ UNCHANGED <<errs, noMem>>
  BY <1>1
<1>2. CASE ~noMem /\ noMem' = TRUE /\ errs' = 0 /\ \E d \in SetFails(dict, k) : Discard(d, "null")
  BY <1>2, DiscardEnds
<1>3. CASE /\ errs' = 0 /\ UNCHANGED iniPc /\ dict' \in Sets(dict, k, v)
           /\ noMem' = (noMem \/ Hits(dict', k) = {} \/ Get(dict', k, NULL) # v)
  <2>1. Good(dict) /\ Good(dict') /\ OtherNames(dict, dict', k)
    BY <1>3, SetsGood DEF IniInv
  <2>2. \A l \in Name \ {k} : SameEntry(dict, dict', l)
    BY <2>1, AnswerEntry DEF OtherNames
  <2>3. QED
    BY <1>3, <2>2
<1>4. QED
  BY <1>1, <1>2, <1>3 DEF Store

\* What one logical line does to the parser.
LEMMA TakeMeans ==
    ASSUME IniInv, iniPc = "reading", errs \in Nat, NEW q, NEW c \in Nat, PendingOk(q, c), c <= MaxLines,
           Take(q)
    PROVE  /\ errs' \in Nat /\ iniPc' \in {"reading", "stray", "crash", "null"} /\ (noMem => noMem')
           /\ iniPc' = "null" => errs' = 0 /\ noMem'
           /\ iniPc' = "reading" /\ ~noMem' =>
                  /\ q.kind \in Wrong => errs' = errs + 1
                  /\ q.kind \in Mentioning =>
                         /\ errs' = 0 /\ q.name \in Name /\ Hits(dict', q.name) # {}
                         /\ Get(dict', q.name, NULL) = IF q.kind = "section" THEN NULL ELSE q.val
                         /\ \A l \in Name \ {q.name} : SameEntry(dict, dict', l)
                  /\ q.kind \notin Mentioning => UNCHANGED dict
                  /\ q.kind \notin Wrong \cup Mentioning => UNCHANGED errs
<1>1. q.kind \in PendingKinds
  BY DEF PendingOk
<1>2. /\ q.kind \in {"section", "value", "ended"} => q.name \in Name
      /\ q.kind \in {"value", "ended"} => q.val \in Val \cup {NULL}
  BY ValueOk
<1>3. CASE q.kind \in {"blank", "comment"}
  BY <1>3 DEF Take, Mentioning, Wrong
<1>4. CASE q.kind \in Wrong
  <2>1. errs' = errs + 1 /\ UNCHANGED <<iniPc, dict, noMem>>
    BY <1>4 DEF Take, Wrong
  <2>2. QED
    BY <1>4, <2>1 DEF Mentioning, Wrong
<1>5. CASE q.kind = "section"
  <2>1. Store(q.name, NULL)
    BY <1>5 DEF Take
  <2>2. QED
    BY <1>2, <1>5, <2>1, StoreEnds DEF Mentioning, Wrong
<1>6. CASE q.kind \in {"value", "ended"}
  <2>1. Store(q.name, q.val)
    BY <1>6 DEF Take
  <2>2. QED
    BY <1>2, <1>6, <2>1, StoreEnds DEF Mentioning, Wrong
<1>7. QED
  BY <1>1, <1>3, <1>4, <1>5, <1>6 DEF PendingKinds, Wrong

\* One turn of the loop keeps the meaning.
LEMMA ReadMeans ==
    ASSUME IniInv, FileInv, ReadLine
    PROVE  FileInv'
<1>1. PICK l \in IniLines : /\ iniPc = "reading" /\ Len(iniRead) < MaxLines
                            /\ iniRead' = Append(iniRead, l)
                            /\ CutLine(l) \/ Continue(l) \/ EndLine(l)
  BY DEF ReadLine
<1> DEFINE f == iniRead
           g == iniRead'
           c == Len(iniRead)
           q == Join(iniLine, l)
<1>2. /\ f \in Seq(IniLines) /\ c \in Nat /\ c + 1 \in Nat /\ c + 1 <= MaxLines
      /\ PendingOk(iniLine, c) /\ errs \in Nat
  BY <1>1, IniAssumption DEF IniInv, FileInv
<1>3. Longer(f, l, g) /\ Len(g) \in Nat
  <2>1. Longer(f, l, g)
    BY <1>1, <1>2, AppendLonger
  <2>2. QED
    BY <2>1 DEF Longer
<1>4. PendingOk(q, c + 1) /\ q.val \in Seq(IniText)
  <2>1. PendingOk(q, c + 1)
    <3>1. c <= MaxLines
      BY <1>2, IniAssumption
    <3>2. QED
      BY <1>2, <3>1, JoinOk
  <2>2. QED
    BY <2>1 DEF PendingOk
<1>5. ~noMem => /\ ~Cut(f) /\ Pend(f, iniLine) /\ (errs # 0 <=> Bad(f)) /\ Stored(f, dict)
  BY <1>1 DEF FileInv
<1> HIDE DEF f, g, c, q
<1>6. ASSUME CutLine(l) PROVE FileInv'
  <2>1. /\ l.end = "none" /\ iniPc' \in {"null", "crash"} /\ errs' = 0
    BY <1>6, DiscardEnds DEF CutLine
  <2>2. Refused(g)
    BY <1>3, <2>1, EndedNew, RefusedIs
  <2>3. QED
    BY <2>1, <2>2 DEF FileInv, g
<1>7. ASSUME Continue(l) PROVE FileInv'
  <2>1. l.end = "backslash" /\ iniLine' = q /\ UNCHANGED <<iniPc, dict, errs, noMem>>
    BY <1>7 DEF Continue, q
  <2>2. ASSUME ~noMem
        PROVE  ~Cut(g) /\ Pend(g, q) /\ (errs # 0 <=> Bad(g)) /\ Stored(g, dict)
    <3>1. Pend(g, q)
      BY <1>2, <1>3, <1>5, <2>1, <2>2, PendNew DEF q
    <3>2. ~Cut(g)
      BY <1>3, <1>5, <2>1, <2>2, EndedNew
    <3>3. (errs # 0 <=> Bad(g)) /\ Stored(g, dict)
      BY <1>3, <1>5, <2>1, <2>2, MeaningWaits
    <3>4. QED
      BY <3>1, <3>2, <3>3
  <2>3. QED
    BY <1>1, <1>2, <2>1, <2>2 DEF FileInv, g
<1>8. ASSUME EndLine(l) PROVE FileInv'
  <2>1. l.end = "newline" /\ iniLine' = NoText /\ Take(q)
    BY <1>8 DEF EndLine, q
  <2>2. /\ errs' \in Nat /\ iniPc' \in {"reading", "stray", "crash", "null"} /\ (noMem => noMem')
        /\ iniPc' = "null" => errs' = 0 /\ noMem'
        /\ iniPc' = "reading" /\ ~noMem' =>
               /\ q.kind \in Wrong => errs' = errs + 1
               /\ q.kind \in Mentioning =>
                      /\ errs' = 0 /\ q.name \in Name /\ Hits(dict', q.name) # {}
                      /\ Get(dict', q.name, NULL) = IF q.kind = "section" THEN NULL ELSE q.val
                      /\ \A k \in Name \ {q.name} : SameEntry(dict, dict', k)
               /\ q.kind \notin Mentioning => UNCHANGED dict
               /\ q.kind \notin Wrong \cup Mentioning => UNCHANGED errs
    BY <1>1, <1>2, <1>4, <2>1, TakeMeans
  <2>3. ASSUME iniPc' = "reading", ~noMem'
        PROVE  ~Cut(g) /\ Pend(g, NoText) /\ (errs' # 0 <=> Bad(g)) /\ Stored(g, dict')
    <3>1. ~Cut(f) /\ Pend(f, iniLine) /\ (errs # 0 <=> Bad(f)) /\ Stored(f, dict)
      BY <1>5, <2>2, <2>3
    <3>2. Line(g, q)
      BY <1>2, <1>3, <3>1, LineNew DEF q
    <3>3. Pend(g, NoText)
      BY <1>3, <2>1, PendEnded
    <3>4. ~Cut(g)
      BY <1>3, <2>1, <3>1, EndedNew
    <3>5. /\ q.kind \in Wrong => Bad(g)
          /\ q.kind \in Mentioning => ~Bad(g)
          /\ q.kind \notin Wrong \cup Mentioning => (Bad(g) <=> Bad(f))
      BY <1>3, <1>4, <2>1, <3>2, BadNew
    <3>6. errs' # 0 <=> Bad(g)
      <4>1. errs + 1 # 0
        BY <1>2
      <4>2. QED
        BY <2>2, <2>3, <3>1, <3>5, <4>1 DEF Mentioning
    <3>7. Stored(g, dict')
      <4>1. CASE q.kind \in Mentioning
        <5>1. /\ \A k \in Name \ {q.name} : SameEntry(dict, dict', k)
              /\ Hits(dict', q.name) # {}
              /\ Get(dict', q.name, NULL) = IF q.kind = "section" THEN NULL ELSE q.val
          BY <2>2, <2>3, <4>1
        <5>2. Longer(f, l, g) /\ l.end = "newline" /\ q.val \in Seq(IniText)
          BY <1>3, <1>4, <2>1
        <5>3. QED
          BY <3>1, <3>2, <4>1, <5>1, <5>2, StoredNew, Zenon
      <4>2. CASE q.kind \notin Mentioning
        <5>1. Stored(g, dict)
          BY <1>3, <1>4, <2>1, <3>1, <3>2, <4>2, StoredSame
        <5>2. QED
          BY <2>2, <2>3, <4>2, <5>1
      <4>3. QED
        BY <4>1, <4>2
    <3>8. QED
      BY <3>3, <3>4, <3>6, <3>7
  <2>4. QED
    BY <2>1, <2>2, <2>3 DEF FileInv, g
<1>9. QED
  BY <1>1, <1>6, <1>7, <1>8

\* Every step keeps it.
LEMMA FileStep == ASSUME IniInv, FileInv, iniNext PROVE FileInv'
<1>1. CASE Open
  <2>1. PICK lost \in SUBSET {"key", "val", "hash"} :
            dict' = [NewDict EXCEPT !.gone = lost]
    BY <1>1 DEF Open
  <2>2. Filled(dict') = {}
    BY <2>1, NewGood
  <2>3. iniRead' = <<>> /\ iniLine' = NoText /\ errs' = 0 /\ iniPc' = "reading"
    BY <1>1 DEF Open, IniInv, FileInv
  <2>4. ~Cut(iniRead') /\ Pend(iniRead', iniLine') /\ ~Bad(iniRead') /\ Stored(iniRead', dict')
    BY <2>2, <2>3, EmptyFile
  <2>5. QED
    BY <2>3, <2>4 DEF FileInv
<1>2. CASE OpenFails
  BY <1>2 DEF OpenFails, FileInv
<1>3. CASE ReadLine
  BY <1>3, ReadMeans
<1>4. CASE Eof
  <2>1. iniPc = "reading" /\ errs' = 0 /\ UNCHANGED <<iniRead, noMem>>
    BY <1>4 DEF Eof
  <2>2. CASE errs = 0
    <3>1. iniPc' = "held" /\ UNCHANGED dict
      BY <1>4, <2>2 DEF Eof
    <3>2. ~noMem => ~Refused(iniRead) /\ Stored(iniRead, dict)
      BY <2>1, <2>2, RefusedIs DEF FileInv
    <3>3. QED
      BY <2>1, <3>1, <3>2 DEF FileInv
  <2>3. CASE errs # 0
    <3>1. iniPc' \in {"null", "crash"}
      BY <1>4, <2>3, DiscardEnds DEF Eof
    <3>2. ~noMem => Refused(iniRead)
      BY <2>1, <2>3, RefusedIs DEF FileInv
    <3>3. QED
      BY <2>1, <3>1, <3>2 DEF FileInv
  <2>4. QED
    BY <2>2, <2>3
<1>5. CASE LoadFailed
  BY <1>5 DEF LoadFailed, FileInv
<1>6. CASE IniFree
  <2>1. iniPc' \in {"closed", "crash"} /\ iniRead' = <<>> /\ errs' = 0
    BY <1>6, DiscardEnds DEF IniFree, Owned, FileInv
  <2>2. QED
    BY <2>1 DEF FileInv
<1>7. ASSUME Crash, Owned PROVE FileInv'
  BY <1>7 DEF Crash, Owned, FileInv
<1>8. ASSUME Edited, Owned PROVE FileInv'
  BY <1>8 DEF Edited, Owned, FileInv
<1>9. ASSUME NEW k \in Name, IniUnset(k) \/ IniAsk(k) \/ \E v \in EditVal : IniSet(k, v)
      PROVE  FileInv'
  <2>1. Owned /\ (Crash \/ Edited)
    BY <1>9 DEF IniUnset, IniAsk, IniSet
  <2>2. QED
    BY <1>7, <1>8, <2>1
<1>10. QED
  BY <1>1, <1>2, <1>3, <1>4, <1>5, <1>6, <1>9 DEF iniNext

\* The last mention of a name.
LEMMA LastMention ==
    ASSUME NEW f, f \in Seq(IniLines), NEW k, Mentions(f, k) # {}
    PROVE  LET j == CHOOSE j \in Mentions(f, k) : \A m \in Mentions(f, k) : m <= j
           IN j \in Mentions(f, k) /\ \A m \in Mentions(f, k) : m <= j
<1>1. Len(f) \in Nat /\ Mentions(f, k) \subseteq 1 .. Len(f)
  BY DEF Mentions, Ended
<1>2. \E j \in Mentions(f, k) : \A m \in Mentions(f, k) : m <= j
  BY <1>1, HasHighest
<1>3. QED
  BY <1>2

\* iniparser_load builds what the file means, for every file of any length:
\* continued lines of every kind are joined, comments and blanks dropped, of
\* several mentions of a plain name the last one counts, and NULL is returned
\* exactly for a file with an unfinished line or with an error that no section or
\* value line follows.
THEOREM FileMeaning == IniSpec => []IniMeaning
<1>1. iniInit => FileInv
  BY DEF iniInit, FileInv
<1>2. IniInv /\ FileInv /\ [iniNext]_iniVars => FileInv'
  <2> SUFFICES ASSUME IniInv, FileInv, [iniNext]_iniVars PROVE FileInv'
    OBVIOUS
  <2>1. CASE iniNext
    BY <2>1, FileStep
  <2>2. CASE UNCHANGED iniVars
    BY <2>2 DEF iniVars, FileInv
  <2>3. QED
    BY <2>1, <2>2
<1>3. IniInv /\ FileInv => IniMeaning
  <2> SUFFICES ASSUME IniInv, FileInv PROVE IniMeaning
    OBVIOUS
  <2>1. iniPc = "null" /\ ~noMem => Refused(iniRead)
    BY DEF FileInv
  <2>2. ASSUME iniPc = "held", ~noMem
        PROVE  /\ ~Refused(iniRead)
               /\ \A k \in Name :
                      IF Mentions(iniRead, k) = {} THEN ~FindEntry(k)
                      ELSE /\ FindEntry(k)
                           /\ LET j == CHOOSE j \in Mentions(iniRead, k) :
                                           \A m \in Mentions(iniRead, k) : m <= j
                              IN Get(dict, k, NULL) = ValueAt(iniRead, j)
    <3>1. ~Refused(iniRead) /\ Stored(iniRead, dict) /\ iniRead \in Seq(IniLines)
      BY <2>2 DEF FileInv, IniInv
    <3>2. ASSUME NEW k \in Name, Mentions(iniRead, k) = {} PROVE ~FindEntry(k)
      BY <3>1, <3>2 DEF Stored, FindEntry
    <3>3. ASSUME NEW k \in Name, Mentions(iniRead, k) # {}
          PROVE  /\ FindEntry(k)
                 /\ LET j == CHOOSE j \in Mentions(iniRead, k) :
                                 \A m \in Mentions(iniRead, k) : m <= j
                    IN Get(dict, k, NULL) = ValueAt(iniRead, j)
      <4> DEFINE j == CHOOSE j \in Mentions(iniRead, k) : \A m \in Mentions(iniRead, k) : m <= j
      <4>1. j \in Mentions(iniRead, k) /\ \A m \in Mentions(iniRead, k) : m <= j
        BY <3>1, <3>3, LastMention
      <4> HIDE DEF j
      <4>2. Hits(dict, k) # {} /\ Get(dict, k, NULL) = ValueAt(iniRead, j)
        BY <3>1, <4>1 DEF Stored
      <4>3. QED
        BY <4>2 DEF FindEntry, j
    <3>4. QED
      BY <3>1, <3>2, <3>3
  <2>3. QED
    BY <2>1, <2>2 DEF IniMeaning, Mentions
<1>4. QED
  BY <1>1, <1>2, <1>3, ParserInvariant, PTL DEF IniSpec

=============================================================================
