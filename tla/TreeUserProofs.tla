---------------------------- MODULE TreeUserProofs ----------------------------
(***************************************************************************)
(* Proofs about the users of the red-black tree: its client, the timer     *)
(* queue and the tree container, for every number of nodes, timers,        *)
(* threads, keys and blocks.  The first part reads a tree as the list of   *)
(* its nodes from left to right: what rb_first, rb_last, rb_next and       *)
(* rb_prev visit, and what each operation does to the list.                *)
(***************************************************************************)
EXTENDS TimerQueue, RbClient, RbContainer, RbTreeProofs

-----------------------------------------------------------------------------
(* A tree as the list of its nodes                                           *)

\* What holds of the root and passes to the children holds of every node.
LEMMA TopDown ==
    ASSUME NEW N, NULL \notin N, IsFiniteSet(N), NEW t, NEW sub, Tree(t, N, sub),
           NEW X, X = sub[t.root], NEW Q, t.root \in X => t.root \in Q,
           \A m \in X \cap Q : \A d \in Side : t.kid[d][m] \in Q \cup {NULL}
    PROVE  X \subseteq Q
<1> DEFINE P == {m \in X : m \in Q => sub[m] \subseteq Q}
<1>1. ASSUME NEW m \in X, \A d \in Side : t.kid[d][m] \in P \cup {NULL} PROVE m \in P
  <2>a. PICK a : a = t.kid["L"][m]
    OBVIOUS
  <2>b. PICK b : b = t.kid["R"][m]
    OBVIOUS
  <2>1. "L" \in Side /\ "R" \in Side /\ Other("L") = "R" /\ sub[NULL] = {}
    BY DEF Side, Other, Tree
  <2>2. Splits(t, sub, m, "L")
    BY <2>1 DEF Tree
  <2>3. sub[m] = {m} \cup sub[a] \cup sub[b]
    BY <2>1, <2>2, <2>a, <2>b DEF Splits
  <2>4. a \in P \cup {NULL} /\ b \in P \cup {NULL}
    BY <1>1, <2>1, <2>a, <2>b
  <2>5. m \in Q => a \in Q \cup {NULL} /\ b \in Q \cup {NULL}
    BY <2>1, <2>a, <2>b
  <2>6. QED
    BY <2>1, <2>3, <2>4, <2>5
<1>2. X \subseteq P
  <2> HIDE DEF P
  <2>1. \A m \in X : (\A d \in Side : t.kid[d][m] \in P \cup {NULL}) => m \in P
    BY <1>1
  <2>2. QED
    BY <2>1, TreeInduction
<1>3. t.root \in X \/ X = {}
  BY DEF Tree
<1>4. QED
  BY <1>2, <1>3


\* Where a walk up stops that leaves the nodes `below' behind on side s: a is the
\* nearest node on that side, NULL when there is none.
Beyond(a, X, below, v, s) ==
    IF a = NULL THEN \A k \in X \ below : \A j \in below : Beside(s, v[j], v[k])
    ELSE /\ a \in X \ below /\ \A j \in below : Beside(s, v[a], v[j])
         /\ \A k \in X \ below : \/ k = a \/ Beside(s, v[k], v[a])
                                 \/ \A j \in below : Beside(s, v[j], v[k])

\* A child on side s has the same nearest node on that side as its parent m; for
\* the other child it is m.
LEMMA BeyondKids ==
    ASSUME NEW X, NULL \notin X, NEW v, \A k \in X : v[k] \in Nat, NEW s \in Side,
           NEW S, S \subseteq X, NEW A, NEW B, NEW m,
           S = {m} \cup A \cup B, m \notin A, m \notin B, A \cap B = {},
           \A k \in A : Beside(s, v[k], v[m]), \A k \in B : Beside(s, v[m], v[k]),
           NEW a, Beyond(a, X, S, v, s)
    PROVE  Beyond(a, X, A, v, s) /\ Beyond(m, X, B, v, s)
<1>1. \A x, y, z \in X : Beside(s, v[x], v[y]) /\ Beside(s, v[y], v[z]) => Beside(s, v[x], v[z])
  BY BesideChains
<1>2. m \in X /\ A \subseteq X /\ B \subseteq X /\ m # NULL
  OBVIOUS
<1>3. \A j \in A, k \in B : Beside(s, v[j], v[k])
  BY <1>1, <1>2
<1>4. CASE a = NULL
  <2>1. \A k \in X \ S : \A j \in S : Beside(s, v[j], v[k])
    BY <1>4 DEF Beyond
  <2>2. \A k \in X \ A : \A j \in A : Beside(s, v[j], v[k])
    BY <1>3, <2>1
  <2>3. \A k \in X \ B : k = m \/ Beside(s, v[k], v[m]) \/ \A j \in B : Beside(s, v[j], v[k])
    BY <2>1
  <2>4. QED
    BY <1>2, <1>4, <2>2, <2>3 DEF Beyond
<1>5. CASE a # NULL
  <2>1. /\ a \in X \ S /\ \A j \in S : Beside(s, v[a], v[j])
        /\ \A k \in X \ S : \/ k = a \/ Beside(s, v[k], v[a]) \/ \A j \in S : Beside(s, v[j], v[k])
    BY <1>5 DEF Beyond
  <2>2. \A k \in X \ A : \/ k = a \/ Beside(s, v[k], v[a]) \/ \A j \in A : Beside(s, v[j], v[k])
    BY <1>3, <2>1
  <2>3. \A k \in X \ S : Beside(s, v[k], v[m]) \/ \A j \in B : Beside(s, v[j], v[k])
    <3>1. ASSUME NEW k \in X \ S
          PROVE  Beside(s, v[k], v[m]) \/ \A j \in B : Beside(s, v[j], v[k])
      <4>1. Beside(s, v[a], v[m])
        BY <2>1
      <4>2. Beside(s, v[k], v[a]) => Beside(s, v[k], v[m])
        BY <1>1, <1>2, <2>1, <4>1
      <4>3. QED
        BY <2>1, <4>1, <4>2
    <3>2. QED
      BY <3>1
  <2>4. \A k \in X \ B : k = m \/ Beside(s, v[k], v[m]) \/ \A j \in B : Beside(s, v[j], v[k])
    BY <2>3
  <2>5. Beyond(a, X, A, v, s)
    BY <1>5, <2>1, <2>2 DEF Beyond
  <2>6. Beyond(m, X, B, v, s)
    BY <1>2, <2>4 DEF Beyond
  <2>7. QED
    BY <2>5, <2>6
<1>6. QED
  BY <1>4, <1>5

\* The walk up from a node finds the nearest node on side s outside its subtree.
LEMMA AscendIs ==
    ASSUME NEW N, NULL \notin N, IsFiniteSet(N), NEW t, NEW sub, NEW v, Tree(t, N, sub),
           Ordered(t, sub, v), NEW X, X = sub[t.root], NEW n \in X, NEW s \in Side
    PROVE  Beyond(Ascend(t, n, s), X, sub[n], v, s)
<1>1. /\ t \in TreeOn(N) /\ DOMAIN t.par = N /\ sub[NULL] = {} /\ X \subseteq N /\ NULL \notin X
      /\ \A m \in N : t.par[m] \in N \cup {NULL}
      /\ \A k \in X : v[k] \in Nat
  <2>1. t \in TreeOn(N) /\ sub[NULL] = {} /\ sub \in [N \cup {NULL} -> SUBSET N]
    BY DEF Tree
  <2>2. t.root \in N \cup {NULL} /\ \A m \in N : t.par[m] \in N \cup {NULL}
    BY <2>1, KidType
  <2>3. QED
    BY <2>1, <2>2, KidType DEF Ordered
<1> DEFINE above[m \in N] == IF t.par[m] # NULL /\ t.kid[s][t.par[m]] = m
                             THEN above[t.par[m]] ELSE t.par[m]
<1>2. Ascend(t, n, s) = above[n]
  BY <1>1 DEF Ascend
<1>3. \E f : f = [m \in N |-> IF t.par[m] # NULL /\ t.kid[s][t.par[m]] = m
                              THEN f[t.par[m]] ELSE t.par[m]]
  <2> DEFINE B == {m \in N : ~(t.par[m] # NULL /\ t.kid[s][t.par[m]] = m)}
             G == [m \in N |-> t.par[m]]
  <2>1. \A m \in N \ B : G[m] \in N
    BY <1>1
  <2>2. \A m \in N : /\ m \in B <=> ~(t.par[m] # NULL /\ t.kid[s][t.par[m]] = m)
                     /\ G[m] = t.par[m]
    OBVIOUS
  <2> HIDE DEF B, G
  <2>3. PICK f : Arrives(f, N, B, G, G)
    BY <2>1, TailRecursion
  <2>4. /\ f = [m \in N |-> f[m]]
        /\ \A m \in N : f[m] = IF t.par[m] # NULL /\ t.kid[s][t.par[m]] = m
                               THEN f[t.par[m]] ELSE t.par[m]
    BY <2>2, <2>3 DEF Arrives
  <2>5. f = [m \in N |-> IF t.par[m] # NULL /\ t.kid[s][t.par[m]] = m
                         THEN f[t.par[m]] ELSE t.par[m]]
    BY <2>4, Zenon
  <2>6. QED
    BY <2>5
<1>4. above = [m \in N |-> IF t.par[m] # NULL /\ t.kid[s][t.par[m]] = m
                           THEN above[t.par[m]] ELSE t.par[m]]
  BY <1>3, Zenon
<1> HIDE DEF above
<1>5. \A m \in N : above[m] = IF t.par[m] # NULL /\ t.kid[s][t.par[m]] = m
                              THEN above[t.par[m]] ELSE t.par[m]
  BY <1>4
<1> DEFINE Q == {m \in X : Beyond(above[m], X, sub[m], v, s)}
<1>6. t.root \in X => t.root \in Q
  <2>1. ASSUME t.root \in X PROVE t.root \in Q
    <3>1. t.par[t.root] = NULL
      BY <1>1, <2>1 DEF Tree
    <3>2. above[t.root] = NULL /\ X \ sub[t.root] = {}
      BY <1>1, <1>5, <2>1, <3>1
    <3>3. Beyond(above[t.root], X, sub[t.root], v, s)
      BY <3>2 DEF Beyond
    <3>4. QED
      BY <2>1, <3>3
  <2>2. QED
    BY <2>1
<1>7. ASSUME NEW m \in X \cap Q, NEW d \in Side PROVE t.kid[d][m] \in Q \cup {NULL}
  <2>a. PICK a : a = t.kid[s][m]
    OBVIOUS
  <2>b. PICK b : b = t.kid[Other(s)][m]
    OBVIOUS
  <2>u. PICK u : u = above[m]
    OBVIOUS
  <2>1. /\ Fork(t, sub, v, m, s, a, b)
        /\ \A e \in Side : t.kid[e][m] # NULL => t.kid[e][m] \in X /\ t.par[t.kid[e][m]] = m
    BY <2>a, <2>b, Forks
  <2>2. /\ sub[m] = {m} \cup sub[a] \cup sub[b] /\ m \notin sub[a] /\ m \notin sub[b]
        /\ sub[a] \cap sub[b] = {} /\ sub[m] \subseteq X
        /\ \A k \in sub[a] : Beside(s, v[k], v[m])
        /\ \A k \in sub[b] : Beside(s, v[m], v[k])
    BY <2>1 DEF Fork
  <2>3. Beyond(u, X, sub[m], v, s)
    BY <1>7, <2>u
  <2>4. Beyond(u, X, sub[a], v, s) /\ Beyond(m, X, sub[b], v, s)
    <3>a. PICK A : A = sub[a]
      OBVIOUS
    <3>b. PICK B : B = sub[b]
      OBVIOUS
    <3>c. PICK S : S = sub[m]
      OBVIOUS
    <3>1. /\ S = {m} \cup A \cup B /\ m \notin A /\ m \notin B /\ A \cap B = {} /\ S \subseteq X
          /\ \A k \in A : Beside(s, v[k], v[m])
          /\ \A k \in B : Beside(s, v[m], v[k])
          /\ Beyond(u, X, S, v, s)
      BY <2>2, <2>3, <3>a, <3>b, <3>c
    <3>2. Beyond(u, X, A, v, s) /\ Beyond(m, X, B, v, s)
      BY <1>1, <3>1, BeyondKids
    <3>3. QED
      BY <3>2, <3>a, <3>b
  <2>5. CASE d = s /\ a # NULL
    <3>1. a \in X /\ t.par[a] = m
      BY <2>1, <2>5, <2>a
    <3>2. above[a] = u
      BY <1>1, <1>5, <2>a, <2>u, <3>1
    <3>3. QED
      BY <2>4, <2>5, <2>a, <3>1, <3>2
  <2>6. CASE d = Other(s) /\ b # NULL
    <3>1. b \in X /\ t.par[b] = m /\ a # b
      <4>1. Other(s) \in Side /\ m \in sub[t.root]
        BY TwoSides
      <4>2. b \in X /\ t.par[b] = m
        BY <2>1, <2>6, <2>b, <4>1
      <4>3. b \in sub[b]
        BY <2>b, <2>6, <4>1, Family
      <4>4. QED
        BY <1>1, <2>2, <2>6, <4>2, <4>3
    <3>2. above[b] = m
      BY <1>1, <1>5, <2>a, <3>1
    <3>3. QED
      BY <2>4, <2>6, <2>b, <3>1, <3>2
  <2>7. d = s \/ d = Other(s)
    BY TwoSides
  <2>8. QED
    BY <2>5, <2>6, <2>7, <2>a, <2>b
<1> HIDE DEF Q
<1>8. \A m \in X \cap Q : \A d \in Side : t.kid[d][m] \in Q \cup {NULL}
  BY <1>7
<1>9. X \subseteq Q
  BY <1>6, <1>8, TopDown
<1>10. n \in Q
  BY <1>9
<1>11. QED
  BY <1>2, <1>10 DEF Q

\* rb_next and rb_prev return the nearest node on their side.
Nearest(y, X, v, s, n) ==
    IF y = NULL THEN \A k \in X \ {n} : Beside(s, v[n], v[k])
    ELSE /\ y \in X \ {n} /\ Beside(s, v[y], v[n])
         /\ \A k \in X \ {n} : k = y \/ Beside(s, v[k], v[y]) \/ Beside(s, v[n], v[k])

LEMMA NeighbourIs ==
    ASSUME NEW N, NULL \notin N, IsFiniteSet(N), NEW t, NEW sub, NEW v, Tree(t, N, sub),
           Ordered(t, sub, v), NEW X, X = sub[t.root], NEW n \in X, NEW s \in Side
    PROVE  Nearest(Neighbour(t, n, s), X, v, s, n)
<1>a. PICK a : a = t.kid[s][n]
  OBVIOUS
<1>b. PICK b : b = t.kid[Other(s)][n]
  OBVIOUS
<1>u. PICK u : u = Ascend(t, n, s)
  OBVIOUS
<1>1. /\ t.par[n] # n /\ X \subseteq N /\ NULL \notin X /\ sub[NULL] = {}
      /\ \A k \in X : v[k] \in Nat
  <2>1. /\ n # t.root => t.par[n] \in X /\ \E d \in Side : t.kid[d][t.par[n]] = n
        /\ t.root # NULL => t.root \in X /\ t.par[t.root] = NULL
    BY DEF Tree, Agrees
  <2>2. X \subseteq N /\ sub[NULL] = {} /\ \A k \in X : v[k] \in Nat
    <3>1. t.root \in N \cup {NULL} /\ sub \in [N \cup {NULL} -> SUBSET N] /\ sub[NULL] = {}
      BY KidType DEF Tree
    <3>2. QED
      BY <3>1 DEF Ordered
  <2>3. t.par[n] # n
    <3>1. CASE n = t.root
      BY <2>1, <2>2, <3>1
    <3>2. CASE n # t.root
      <4>1. PICK p, d : p = t.par[n] /\ p \in X /\ d \in Side /\ n = t.kid[d][p]
        BY <2>1, <3>2
      <4>2. n # NULL /\ p \in sub[t.root]
        BY <2>2, <4>1, SMTT(30)
      <4>3. n # p
        BY <4>1, <4>2, Family
      <4>4. QED
        BY <4>1, <4>3
    <3>3. QED
      BY <3>1, <3>2
  <2>4. QED
    BY <2>2, <2>3
<1>2. Fork(t, sub, v, n, s, a, b)
  BY <1>a, <1>b, Forks
<1>3. /\ sub[n] = {n} \cup sub[a] \cup sub[b] /\ sub[n] \subseteq X
      /\ n \notin sub[a] /\ n \notin sub[b]
      /\ \A k \in sub[a] : Beside(s, v[k], v[n])
      /\ \A k \in sub[b] : Beside(s, v[n], v[k])
  BY <1>2 DEF Fork
<1>4. Beyond(u, X, sub[n], v, s)
  BY <1>u, AscendIs
<1>5. \A x, y, z \in X : Beside(s, v[x], v[y]) /\ Beside(s, v[y], v[z]) => Beside(s, v[x], v[z])
  BY <1>1, BesideChains
<1>6. CASE a = NULL
  <2>1. Neighbour(t, n, s) = u
    BY <1>1, <1>6, <1>a, <1>u DEF Neighbour
  <2>2. sub[a] = {}
    BY <1>1, <1>6
  <2>3. Nearest(u, X, v, s, n)
    <3>1. CASE u = NULL
      <4>1. \A k \in X \ sub[n] : Beside(s, v[n], v[k])
        BY <1>3, <1>4, <3>1 DEF Beyond
      <4>2. QED
        BY <1>3, <2>2, <3>1, <4>1 DEF Nearest
    <3>2. CASE u # NULL
      <4>1. /\ u \in X \ sub[n] /\ Beside(s, v[u], v[n])
            /\ \A k \in X \ sub[n] : k = u \/ Beside(s, v[k], v[u]) \/ Beside(s, v[n], v[k])
        BY <1>3, <1>4, <3>2 DEF Beyond
      <4>2. QED
        BY <1>3, <2>2, <3>2, <4>1 DEF Nearest
    <3>3. QED
      BY <3>1, <3>2
  <2>4. QED
    BY <2>1, <2>3
<1>7. CASE a # NULL
  <2>y. PICK y : y = Outermost(t, a, Other(s))
    OBVIOUS
  <2>1. Neighbour(t, n, s) = y
    BY <1>1, <1>7, <1>a, <2>y DEF Neighbour
  <2>2. a \in sub[t.root] /\ Other(s) \in Side
    <3>1. t.kid[s][n] # NULL => t.kid[s][n] \in sub[t.root]
      BY Forks
    <3>2. QED
      BY <1>7, <1>a, <3>1, TwoSides
  <2>3. /\ y \in sub[a]
        /\ \A k \in sub[a] : k = y \/ Beside(Other(s), v[y], v[k])
    BY <2>2, <2>y, OutermostIs
  <2>4. y \in X /\ y # n /\ y # NULL /\ Beside(s, v[y], v[n]) /\ y \in sub[n]
    BY <1>1, <1>3, <2>3
  <2>5. \A k \in sub[a] : k = y \/ Beside(s, v[k], v[y])
    <3>1. ASSUME NEW k \in sub[a], k # y PROVE Beside(s, v[k], v[y])
      <4>1. Beside(Other(s), v[y], v[k]) /\ v[y] \in Nat /\ v[k] \in Nat
        BY <1>1, <1>3, <2>3, <2>4, <3>1
      <4>2. QED
        BY <4>1, BesideFlips
    <3>2. QED
      BY <3>1
  <2>6. ASSUME NEW k \in X \ sub[n] PROVE Beside(s, v[k], v[y]) \/ Beside(s, v[n], v[k])
    <3>1. CASE u = NULL
      BY <1>3, <1>4, <3>1 DEF Beyond
    <3>2. CASE u # NULL
      <4>1. /\ u \in X /\ Beside(s, v[u], v[y])
            /\ k = u \/ Beside(s, v[k], v[u]) \/ Beside(s, v[n], v[k])
        BY <1>3, <1>4, <2>4, <3>2 DEF Beyond
      <4>2. QED
        BY <1>5, <2>4, <4>1
    <3>3. QED
      BY <3>1, <3>2
  <2>7. \A k \in X \ {n} : k = y \/ Beside(s, v[k], v[y]) \/ Beside(s, v[n], v[k])
    BY <1>3, <2>5, <2>6
  <2>8. QED
    BY <2>1, <2>4, <2>7 DEF Nearest
<1>8. QED
  BY <1>6, <1>7



-----------------------------------------------------------------------------
(* A tree as the list of its nodes                                           *)

\* q has the nodes of t from left to right
Placed(v, q) == \A i \in DOMAIN q : v[q[i]] = i
Lists(t, N, q) == /\ q \in Seq(N)
                  /\ \E v : Placed(v, q) /\ Good(t, N, N \ ToSet(q), ToSet(q), v)

LEMMA Places ==
    ASSUME NEW N, NEW q \in Seq(N), NEW v, Placed(v, q)
    PROVE  /\ Len(q) \in Nat /\ DOMAIN q = 1 .. Len(q) /\ ToSet(q) \subseteq N
           /\ \A i \in 1 .. Len(q) : q[i] \in ToSet(q) /\ v[q[i]] = i
           /\ \A m \in ToSet(q) : v[m] \in 1 .. Len(q) /\ q[v[m]] = m
<1>1. Len(q) \in Nat /\ DOMAIN q = 1 .. Len(q) /\ \A i \in DOMAIN q : q[i] \in N
  OBVIOUS
<1>2. ToSet(q) = {q[i] : i \in DOMAIN q}
  BY DEF ToSet
<1>3. QED
  BY <1>1, <1>2 DEF Placed

\* rb_next, rb_prev, rb_first and rb_last walk along the list.
Walks(t, N, q) ==
    /\ \A i \in 1 .. Len(q) : /\ RbNext(t, q[i]) = IF i = Len(q) THEN NULL ELSE q[i + 1]
                              /\ RbPrev(t, q[i]) = IF i = 1 THEN NULL ELSE q[i - 1]
    /\ RbFirst(t) = IF Len(q) = 0 THEN NULL ELSE q[1]
    /\ RbLast(t) = IF Len(q) = 0 THEN NULL ELSE q[Len(q)]
    /\ t.root = NULL <=> Len(q) = 0
    /\ \A n \in N \ ToSet(q) : t.par[n] = n /\ RbNext(t, n) = NULL
    /\ \A n \in ToSet(q) : t.par[n] # n

LEMMA NearestPlace ==
    ASSUME NEW N, NULL \notin N, NEW q \in Seq(N), NEW v, Placed(v, q),
           NEW i \in 1 .. Len(q), NEW y
    PROVE  /\ Nearest(y, ToSet(q), v, "R", q[i]) => y = IF i = Len(q) THEN NULL ELSE q[i + 1]
           /\ Nearest(y, ToSet(q), v, "L", q[i]) => y = IF i = 1 THEN NULL ELSE q[i - 1]
<1>X. PICK X : X = ToSet(q)
  OBVIOUS
<1>n. PICK n : n = q[i]
  OBVIOUS
<1>1. /\ Len(q) \in Nat /\ \A j \in 1 .. Len(q) : q[j] \in X /\ v[q[j]] = j
      /\ \A m \in X : v[m] \in 1 .. Len(q) /\ q[v[m]] = m
      /\ X \subseteq N /\ n \in X /\ v[n] = i
  BY <1>X, <1>n, Places
<1>2. ASSUME Nearest(y, X, v, "R", n) PROVE y = IF i = Len(q) THEN NULL ELSE q[i + 1]
  <2>1. CASE i = Len(q)
    <3>1. ASSUME y # NULL PROVE FALSE
      <4>1. y \in X \ {n} /\ v[n] < v[y]
        BY <1>2, <3>1 DEF Nearest, Beside
      <4>2. QED
        BY <1>1, <2>1, <4>1
    <3>2. QED
      BY <2>1, <3>1
  <2>2. CASE i # Len(q)
    <3>k. PICK k : k = q[i + 1]
      OBVIOUS
    <3>1. k \in X \ {n} /\ v[k] = i + 1
      BY <1>1, <2>2, <3>k
    <3>2. y # NULL
      <4>1. ASSUME y = NULL PROVE FALSE
        <5>1. v[k] < v[n]
          BY <1>2, <3>1, <4>1 DEF Nearest, Beside
        <5>2. QED
          BY <1>1, <3>1, <5>1
      <4>2. QED
        BY <4>1
    <3>3. /\ y \in X \ {n} /\ v[n] < v[y] /\ (k = y \/ v[y] < v[k] \/ v[k] < v[n])
      BY <1>2, <3>1, <3>2 DEF Nearest, Beside
    <3>4. k = y
      BY <1>1, <3>1, <3>3
    <3>5. QED
      BY <2>2, <3>4, <3>k
  <2>3. QED
    BY <2>1, <2>2
<1>3. ASSUME Nearest(y, X, v, "L", n) PROVE y = IF i = 1 THEN NULL ELSE q[i - 1]
  <2>1. CASE i = 1
    <3>1. ASSUME y # NULL PROVE FALSE
      <4>1. y \in X \ {n} /\ v[y] < v[n]
        BY <1>3, <3>1 DEF Nearest, Beside
      <4>2. QED
        BY <1>1, <2>1, <4>1
    <3>2. QED
      BY <2>1, <3>1
  <2>2. CASE i # 1
    <3>k. PICK k : k = q[i - 1]
      OBVIOUS
    <3>1. k \in X \ {n} /\ v[k] = i - 1
      BY <1>1, <2>2, <3>k
    <3>2. y # NULL
      <4>1. ASSUME y = NULL PROVE FALSE
        <5>1. v[n] < v[k]
          BY <1>3, <3>1, <4>1 DEF Nearest, Beside
        <5>2. QED
          BY <1>1, <3>1, <5>1
      <4>2. QED
        BY <4>1
    <3>3. /\ y \in X \ {n} /\ v[y] < v[n] /\ (k = y \/ v[k] < v[y] \/ v[n] < v[k])
      BY <1>3, <3>1, <3>2 DEF Nearest, Beside
    <3>4. k = y
      BY <1>1, <3>1, <3>3
    <3>5. QED
      BY <2>2, <3>4, <3>k
  <2>3. QED
    BY <2>1, <2>2
<1>4. QED
  BY <1>2, <1>3, <1>X, <1>n

LEMMA ListWalks ==
    ASSUME NEW N, NULL \notin N, IsFiniteSet(N), NEW t, NEW q, Lists(t, N, q)
    PROVE  Walks(t, N, q)
<1>1. PICK v : Placed(v, q) /\ Good(t, N, N \ ToSet(q), ToSet(q), v)
  BY DEF Lists
<1>q. q \in Seq(N)
  BY DEF Lists
<1>X. PICK X : X = ToSet(q)
  OBVIOUS
<1>2. PICK sub : Whole(t, N, N \ X, sub, v) /\ sub[t.root] = X
  BY <1>1, <1>X DEF Good
<1>3. Tree(t, N, sub) /\ Ordered(t, sub, v) /\ Rest(t, N \ X)
  BY <1>2 DEF Whole
<1>4. /\ Len(q) \in Nat /\ \A j \in 1 .. Len(q) : q[j] \in X /\ v[q[j]] = j
      /\ \A m \in X : v[m] \in 1 .. Len(q) /\ q[v[m]] = m
      /\ X \subseteq N
  BY <1>1, <1>q, <1>X, Places
<1>5. "L" \in Side /\ "R" \in Side /\ sub[NULL] = {} /\ NULL \notin X
  BY <1>3, <1>4 DEF Side, Tree
<1>6. ASSUME NEW i \in 1 .. Len(q)
      PROVE  /\ RbNext(t, q[i]) = IF i = Len(q) THEN NULL ELSE q[i + 1]
             /\ RbPrev(t, q[i]) = IF i = 1 THEN NULL ELSE q[i - 1]
  <2>n. PICK n : n = q[i] /\ n \in X
    BY <1>4
  <2>1. Nearest(Neighbour(t, n, "R"), X, v, "R", n) /\ Nearest(Neighbour(t, n, "L"), X, v, "L", n)
    BY <1>2, <1>3, <1>5, <2>n, NeighbourIs
  <2>2. QED
    BY <1>1, <1>q, <1>X, <2>1, <2>n, NearestPlace DEF RbNext, RbPrev
<1>7. t.root = NULL <=> Len(q) = 0
  <2>1. t.root # NULL => t.root \in X
    BY <1>2, <1>3 DEF Tree
  <2>2. t.root = NULL => X = {}
    BY <1>2, <1>5
  <2>3. QED
    BY <1>4, <2>1, <2>2
<1>8. ASSUME Len(q) # 0 PROVE RbFirst(t) = q[1] /\ RbLast(t) = q[Len(q)]
  <2>1. t.root # NULL /\ t.root \in sub[t.root]
    BY <1>3, <1>7, <1>8 DEF Tree
  <2>a. PICK a : a = Outermost(t, t.root, "L")
    OBVIOUS
  <2>b. PICK b : b = Outermost(t, t.root, "R")
    OBVIOUS
  <2>2. a \in X /\ \A k \in X : k = a \/ Beside("L", v[a], v[k])
    BY <1>2, <1>3, <1>5, <2>1, <2>a, OutermostIs
  <2>3. b \in X /\ \A k \in X : k = b \/ Beside("R", v[b], v[k])
    BY <1>2, <1>3, <1>5, <2>1, <2>b, OutermostIs
  <2>4. a = q[1]
    <3>1. q[1] = a \/ v[a] < v[q[1]]
      BY <1>4, <1>8, <2>2 DEF Beside
    <3>2. QED
      BY <1>4, <1>8, <2>2, <3>1
  <2>5. b = q[Len(q)]
    <3>1. q[Len(q)] = b \/ v[q[Len(q)]] < v[b]
      BY <1>4, <1>8, <2>3 DEF Beside
    <3>2. QED
      BY <1>4, <1>8, <2>3, <3>1
  <2>6. QED
    BY <2>1, <2>4, <2>5, <2>a, <2>b DEF RbFirst, RbLast
<1>9. Len(q) = 0 => RbFirst(t) = NULL /\ RbLast(t) = NULL
  BY <1>7 DEF RbFirst, RbLast
<1>10. \A n \in N \ X : t.par[n] = n /\ RbNext(t, n) = NULL
  BY <1>3 DEF Rest, RbNext, Neighbour
<1>11. ASSUME NEW n \in X PROVE t.par[n] # n
  <2>1. n \in sub[t.root]
    BY <1>2
  <2>2. CASE n = t.root
    BY <1>3, <1>5, <2>2 DEF Tree
  <2>3. CASE n # t.root
    <3>1. PICK p, d : p = t.par[n] /\ p \in X /\ d \in Side /\ n = t.kid[d][p]
      BY <1>2, <1>3, <2>1, <2>3 DEF Tree, Agrees
    <3>2. n # NULL /\ p \in sub[t.root]
      BY <1>2, <1>5, <3>1, SMTT(30)
    <3>3. n # p
      BY <1>3, <3>1, <3>2, Family
    <3>4. QED
      BY <3>1, <3>3
  <2>4. QED
    BY <2>2, <2>3
<1>12. QED
  BY <1>6, <1>7, <1>8, <1>9, <1>10, <1>11, <1>X DEF Walks

\* A suffix of a list is its first node and the next suffix.
LEMMA SuffixIs ==
    ASSUME NEW N, NEW q \in Seq(N), NEW i \in 1 .. Len(q)
    PROVE  SubSeq(q, i, Len(q)) = IF i = Len(q) THEN <<q[i]>>
                                  ELSE <<q[i]>> \o SubSeq(q, i + 1, Len(q))
<1>1. Len(q) \in Nat /\ Len(q) \in Int /\ i \in 1 .. Len(q) /\ Len(q) \in i .. Len(q)
  OBVIOUS
<1>2. SubSeq(q, i, Len(q)) = <<q[i]>> \o SubSeq(q, i + 1, Len(q))
  BY <1>1, SubSeqRecursiveFirst
<1>3. ASSUME i = Len(q) PROVE SubSeq(q, i, Len(q)) = <<q[i]>>
  <2>1. i + 1 \in Int /\ Len(q) < i + 1
    BY <1>1, <1>3
  <2>2. SubSeq(q, i + 1, Len(q)) = <<>>
    BY <1>1, <2>1, SubSeqEmpty
  <2>3. PICK e : e = q[i] /\ <<e>> \in Seq(N)
    BY <1>1
  <2>4. <<e>> \o <<>> = <<e>>
    BY <2>3, ConcatEmptySeq
  <2>5. QED
    BY <1>2, <2>2, <2>3, <2>4
<1>4. QED
  BY <1>2, <1>3

\* A walk that collects the nodes collects the list.
LEMMA WalkCollects ==
    ASSUME NEW N, NEW q \in Seq(N), NEW f,
           \A i \in 1 .. Len(q) : f[q[i]] = IF i = Len(q) THEN <<q[i]>> ELSE <<q[i]>> \o f[q[i + 1]]
    PROVE  \A i \in 1 .. Len(q) : f[q[i]] = SubSeq(q, i, Len(q))
<1>1. Len(q) \in Nat /\ \A i \in 1 .. Len(q) : q[i] \in N
  OBVIOUS
<1>2. \A i \in 1 .. Len(q) :
          SubSeq(q, i, Len(q)) = IF i = Len(q) THEN <<q[i]>>
                                 ELSE <<q[i]>> \o SubSeq(q, i + 1, Len(q))
  BY SuffixIs
<1> DEFINE Off == {j \in 0 .. Len(q) - 1 : f[q[Len(q) - j]] # SubSeq(q, Len(q) - j, Len(q))}
<1>4. ASSUME Off # {} PROVE FALSE
  <2>1. Off \in SUBSET Nat
    BY <1>1
  <2>2. PICK j \in Off : \A k \in Off : j <= k
    <3> HIDE DEF Off
    <3>1. QED
      BY <1>4, <2>1, Least
  <2>3. j \in 0 .. Len(q) - 1 /\ f[q[Len(q) - j]] # SubSeq(q, Len(q) - j, Len(q))
    BY <2>2
  <2>i. PICK i : i = Len(q) - j
    OBVIOUS
  <2>4. CASE j = 0
    <3>1. i = Len(q) /\ i \in 1 .. Len(q) /\ Len(q) # 0
      BY <1>1, <2>3, <2>4, <2>i
    <3>2. f[q[i]] = <<q[i]>>
      BY <3>1
    <3>3. QED
      BY <1>2, <2>3, <2>i, <3>1, <3>2
  <2>5. CASE j # 0
    <3>1. i \in 1 .. Len(q) /\ i # Len(q) /\ Len(q) - (j - 1) = i + 1 /\ j - 1 \in 0 .. Len(q) - 1
      BY <1>1, <2>3, <2>5, <2>i
    <3>2. j - 1 \notin Off
      <4> HIDE DEF Off
      <4>1. j \in Int /\ ~(j <= j - 1)
        BY <1>1, <2>3
      <4>2. QED
        BY <2>2, <4>1
    <3>3. f[q[i + 1]] = SubSeq(q, i + 1, Len(q))
      BY <3>1, <3>2
    <3>4. f[q[i]] = <<q[i]>> \o f[q[i + 1]]
      BY <3>1
    <3>5. QED
      BY <1>2, <2>3, <2>i, <3>1, <3>3, <3>4
  <2>6. QED
    BY <2>4, <2>5
<1>5. ASSUME NEW i \in 1 .. Len(q) PROVE f[q[i]] = SubSeq(q, i, Len(q))
  <2>1. Len(q) - i \in 0 .. Len(q) - 1 /\ Len(q) - (Len(q) - i) = i
    BY <1>1
  <2>2. Len(q) - i \notin Off
    BY <1>4
  <2>3. QED
    BY <2>1, <2>2
<1>6. QED
  BY <1>5


\* InOrder is the list.
LEMMA InOrderIs ==
    ASSUME NEW N, NULL \notin N, IsFiniteSet(N), NEW t, NEW q, Lists(t, N, q)
    PROVE  InOrder(t) = q
<1>1. PICK v : Placed(v, q) /\ Good(t, N, N \ ToSet(q), ToSet(q), v)
  BY DEF Lists
<1>q. q \in Seq(N)
  BY DEF Lists
<1>X. PICK X : X = ToSet(q)
  OBVIOUS
<1>2. /\ Len(q) \in Nat /\ \A j \in 1 .. Len(q) : q[j] \in X /\ v[q[j]] = j
      /\ \A m \in X : v[m] \in 1 .. Len(q) /\ q[v[m]] = m
      /\ X \subseteq N /\ NULL \notin X
  BY <1>1, <1>q, <1>X, Places
<1>3. Walks(t, N, q)
  BY ListWalks
<1>4. /\ \A i \in 1 .. Len(q) : RbNext(t, q[i]) = IF i = Len(q) THEN NULL ELSE q[i + 1]
      /\ RbFirst(t) = IF Len(q) = 0 THEN NULL ELSE q[1]
      /\ \A n \in N \ X : RbNext(t, n) = NULL
  BY <1>3, <1>X DEF Walks
<1>5. DOMAIN t.par = N
  <2>1. t \in TreeOn(N)
    BY <1>1 DEF Good, Whole, Tree
  <2>2. QED
    BY <2>1, KidType
<1>6. /\ \A i \in 1 .. Len(q) : SubSeq(q, i, Len(q)) = IF i = Len(q) THEN <<q[i]>>
                                                       ELSE <<q[i]>> \o SubSeq(q, i + 1, Len(q))
      /\ \A n \in N : <<n>> \o <<>> = <<n>>
  <2>1. \A i \in 1 .. Len(q) : SubSeq(q, i, Len(q)) = IF i = Len(q) THEN <<q[i]>>
                                                      ELSE <<q[i]>> \o SubSeq(q, i + 1, Len(q))
    BY <1>q, SuffixIs
  <2>2. ASSUME NEW n \in N PROVE <<n>> \o <<>> = <<n>>
    <3>1. <<n>> \in Seq(N)
      OBVIOUS
    <3>2. QED
      BY <3>1, ConcatEmptySeq
  <2>3. QED
    BY <2>1, <2>2
<1> DEFINE D == N \cup {NULL}
           from[n \in D] == IF n = NULL THEN <<>> ELSE <<n>> \o from[RbNext(t, n)]
<1>7. InOrder(t) = from[RbFirst(t)]
  BY <1>5 DEF InOrder
<1>8. \E f : f = [n \in D |-> IF n = NULL THEN <<>> ELSE <<n>> \o f[RbNext(t, n)]]
  <2> DEFINE f == [n \in D |-> IF n \in X THEN SubSeq(q, v[n], Len(q))
                               ELSE IF n = NULL THEN <<>> ELSE <<n>>]
  <2>1. /\ \A n \in X : f[n] = SubSeq(q, v[n], Len(q))
        /\ f[NULL] = <<>> /\ \A n \in N \ X : f[n] = <<n>>
    BY <1>2
  <2>2. f = [n \in D |-> f[n]]
    OBVIOUS
  <2> HIDE DEF f
  <2>3. ASSUME NEW n \in N PROVE f[n] = <<n>> \o f[RbNext(t, n)]
    <3>1. CASE n \in X
      <4>i. PICK i \in 1 .. Len(q) : i = v[n] /\ q[i] = n
        BY <1>2, <3>1
      <4>1. CASE i = Len(q)
        <5>1. RbNext(t, n) = NULL /\ f[n] = <<n>>
          BY <1>4, <1>6, <2>1, <3>1, <4>1, <4>i
        <5>2. QED
          BY <1>6, <2>1, <5>1
      <4>2. CASE i # Len(q)
        <5>1. i + 1 \in 1 .. Len(q)
          BY <1>2, <4>2, <4>i
        <5>2. RbNext(t, n) = q[i + 1] /\ q[i + 1] \in X /\ v[q[i + 1]] = i + 1
          BY <1>2, <1>4, <4>2, <4>i, <5>1
        <5>3. f[RbNext(t, n)] = SubSeq(q, i + 1, Len(q)) /\ f[n] = SubSeq(q, i, Len(q))
          BY <2>1, <3>1, <4>i, <5>2
        <5>4. SubSeq(q, i, Len(q)) = <<n>> \o SubSeq(q, i + 1, Len(q))
          BY <1>6, <4>2, <4>i
        <5>5. QED
          BY <5>3, <5>4
      <4>3. QED
        BY <4>1, <4>2
    <3>2. CASE n \notin X
      <4>1. RbNext(t, n) = NULL
        BY <1>4, <3>2
      <4>2. QED
        BY <1>6, <2>1, <3>2, <4>1
    <3>3. QED
      BY <3>1, <3>2
  <2>4. \A n \in D : f[n] = IF n = NULL THEN <<>> ELSE <<n>> \o f[RbNext(t, n)]
    BY <2>1, <2>3
  <2>5. f = [n \in D |-> IF n = NULL THEN <<>> ELSE <<n>> \o f[RbNext(t, n)]]
    BY <2>2, <2>4, Zenon
  <2>6. QED
    BY <2>5, Zenon
<1>9. from = [n \in D |-> IF n = NULL THEN <<>> ELSE <<n>> \o from[RbNext(t, n)]]
  BY <1>8, Zenon
<1> HIDE DEF from
<1>10. from[NULL] = <<>> /\ \A n \in N : from[n] = <<n>> \o from[RbNext(t, n)]
  <2>1. \A n \in D : from[n] = IF n = NULL THEN <<>> ELSE <<n>> \o from[RbNext(t, n)]
    BY <1>9, Zenon
  <2>2. QED
    BY <2>1
<1>11. \A i \in 1 .. Len(q) :
           from[q[i]] = IF i = Len(q) THEN <<q[i]>> ELSE <<q[i]>> \o from[q[i + 1]]
  <2>1. ASSUME NEW i \in 1 .. Len(q)
        PROVE  from[q[i]] = IF i = Len(q) THEN <<q[i]>> ELSE <<q[i]>> \o from[q[i + 1]]
    <3>1. q[i] \in N /\ from[q[i]] = <<q[i]>> \o from[RbNext(t, q[i])]
      BY <1>2, <1>10
    <3>2. CASE i = Len(q)
      <4>1. RbNext(t, q[i]) = NULL
        BY <1>4, <3>2
      <4>2. QED
        BY <1>6, <1>10, <3>1, <3>2, <4>1
    <3>3. CASE i # Len(q)
      <4>1. RbNext(t, q[i]) = q[i + 1]
        BY <1>4, <3>3
      <4>2. QED
        BY <3>1, <3>3, <4>1
    <3>4. QED
      BY <3>2, <3>3
  <2>2. QED
    BY <2>1
<1>12. \A i \in 1 .. Len(q) : from[q[i]] = SubSeq(q, i, Len(q))
  BY <1>11, <1>q, WalkCollects
<1>13. CASE Len(q) = 0
  <2>1. q = <<>>
    BY <1>13, <1>q, SMTT(30)
  <2>2. QED
    BY <1>4, <1>7, <1>10, <1>13, <2>1
<1>14. CASE Len(q) # 0
  <2>1. 1 \in 1 .. Len(q)
    BY <1>2, <1>14
  <2>2. from[q[1]] = SubSeq(q, 1, Len(q))
    BY <1>12, <2>1
  <2>3. SubSeq(q, 1, Len(q)) = q
    BY <1>q, SubSeqFull
  <2>4. QED
    BY <1>4, <1>7, <1>14, <2>2, <2>3
<1>15. QED
  BY <1>13, <1>14


-----------------------------------------------------------------------------
(* What Good means for the tree as rbtree.h shows it                         *)

\* Every path down from a node has as many black nodes as bh says.
LEMMA BlackHeightsAre ==
    ASSUME NEW N, NULL \notin N, IsFiniteSet(N), NEW t, NEW X, NEW v, NEW sub, NEW bh,
           Whole(t, N, N \ X, sub, v), sub[t.root] = X, Level(t, N, X, bh)
    PROVE  \A m \in X \cup {NULL} : BlackHeights(t, m) = {bh[m]}
<1>1. Whole(t, N, N \ X, sub, v) /\ sub[t.root] = X
  OBVIOUS
<1>2. Tree(t, N, sub) /\ Rest(t, N \ X)
  BY <1>1 DEF Whole
<1>3. /\ DOMAIN t.par = N /\ "L" \in Side /\ "R" \in Side /\ sub[NULL] = {}
      /\ t.root \in N \cup {NULL} /\ X \subseteq N /\ NULL \notin X
      /\ \A d \in Side, m \in N : t.kid[d][m] \in N \cup {NULL}
  <2>1. t \in TreeOn(N) /\ "L" \in Side /\ "R" \in Side /\ sub[NULL] = {}
        /\ sub \in [N \cup {NULL} -> SUBSET N]
    BY <1>2 DEF Tree, Side
  <2>2. QED
    BY <1>1, <2>1, KidType
<1>4. /\ bh[NULL] = 0 /\ \A m \in N : bh[m] \in Nat
      /\ \A m \in X, d \in Side : bh[m] = One(t, m) + bh[t.kid[d][m]]
      /\ \A m : One(t, m) \in {0, 1}
  BY DEF Level, One
<1>5. \A m \in X, d \in Side : t.kid[d][m] \in X \cup {NULL}
  <2>1. ASSUME NEW m \in X, NEW d \in Side PROVE t.kid[d][m] \in X \cup {NULL}
    <3>1. Agrees(t, X, m)
      BY <1>1, <1>2 DEF Tree
    <3>2. QED
      BY <3>1 DEF Agrees
  <2>2. QED
    BY <2>1
<1> DEFINE D == N \cup {NULL}
           More(m, H) == {h + IF m \in t.black THEN 1 ELSE 0 : h \in H}
           heights[m \in D] == IF m = NULL THEN {0}
                               ELSE More(m, heights[t.kid["L"][m]] \cup heights[t.kid["R"][m]])
<1>6. \A m : BlackHeights(t, m) = heights[m]
  BY <1>3 DEF BlackHeights
<1>7. \A m, h : More(m, {h}) = {h + One(t, m)}
  BY DEF One
<1> HIDE DEF More
<1>8. ASSUME NEW m \in X, NEW f, f[t.kid["L"][m]] = {bh[t.kid["L"][m]]},
             f[t.kid["R"][m]] = {bh[t.kid["R"][m]]}
      PROVE  More(m, f[t.kid["L"][m]] \cup f[t.kid["R"][m]]) = {bh[m]}
  <2>a. PICK a : a = t.kid["L"][m]
    OBVIOUS
  <2>b. PICK b : b = t.kid["R"][m]
    OBVIOUS
  <2>1. a \in X \cup {NULL} /\ b \in X \cup {NULL}
    BY <1>3, <1>5, <2>a, <2>b
  <2>2. bh[m] = One(t, m) + bh[a] /\ bh[m] = One(t, m) + bh[b]
    BY <1>3, <1>4, <2>a, <2>b
  <2>3. bh[a] \in Nat /\ bh[b] \in Nat /\ One(t, m) \in {0, 1}
    BY <1>3, <1>4, <2>1
  <2>4. bh[a] = bh[b] /\ bh[m] = bh[a] + One(t, m)
    BY <2>2, <2>3
  <2>5. f[a] \cup f[b] = {bh[a]}
    BY <1>8, <2>4, <2>a, <2>b
  <2>6. QED
    BY <1>7, <2>4, <2>5, <2>a, <2>b, Zenon
<1>9. \E f : f = [m \in D |-> IF m = NULL THEN {0}
                              ELSE More(m, f[t.kid["L"][m]] \cup f[t.kid["R"][m]])]
  <2> DEFINE f == [m \in D |-> IF m \in X \cup {NULL} THEN {bh[m]} ELSE More(m, {0})]
  <2>1. /\ \A m \in X \cup {NULL} : f[m] = {bh[m]}
        /\ \A m \in N \ X : f[m] = More(m, {0})
    BY <1>3
  <2>2. f = [m \in D |-> f[m]]
    OBVIOUS
  <2> HIDE DEF f
  <2>3. ASSUME NEW m \in D, m # NULL
        PROVE  f[m] = More(m, f[t.kid["L"][m]] \cup f[t.kid["R"][m]])
    <3>1. CASE m \in X
      <4>1. t.kid["L"][m] \in X \cup {NULL} /\ t.kid["R"][m] \in X \cup {NULL}
        BY <1>3, <1>5, <3>1
      <4>2. f[t.kid["L"][m]] = {bh[t.kid["L"][m]]} /\ f[t.kid["R"][m]] = {bh[t.kid["R"][m]]}
        BY <2>1, <4>1
      <4>3. More(m, f[t.kid["L"][m]] \cup f[t.kid["R"][m]]) = {bh[m]}
        BY ONLY <1>8, <3>1, <4>2
      <4>4. f[m] = {bh[m]}
        BY <2>1, <3>1
      <4>5. QED
        BY <4>3, <4>4
    <3>2. CASE m \notin X
      <4>1. t.kid["L"][m] = NULL /\ t.kid["R"][m] = NULL
        BY <1>2, <1>3, <2>3, <3>2 DEF Rest
      <4>2. f[NULL] = {0}
        BY <1>4, <2>1
      <4>3. f[NULL] \cup f[NULL] = {0}
        BY <4>2
      <4>4. QED
        BY <2>1, <2>3, <3>2, <4>1, <4>3
    <3>3. QED
      BY <3>1, <3>2
  <2>4. f[NULL] = {0}
    BY <1>4, <2>1
  <2>5. \A m \in D : f[m] = IF m = NULL THEN {0}
                            ELSE More(m, f[t.kid["L"][m]] \cup f[t.kid["R"][m]])
    BY <2>3, <2>4, Zenon
  <2>6. f = [m \in D |-> IF m = NULL THEN {0}
                         ELSE More(m, f[t.kid["L"][m]] \cup f[t.kid["R"][m]])]
    BY <2>2, <2>5, Zenon
  <2>7. QED
    BY <2>6, Zenon
<1>10. heights = [m \in D |-> IF m = NULL THEN {0}
                              ELSE More(m, heights[t.kid["L"][m]] \cup heights[t.kid["R"][m]])]
  BY <1>9, Zenon
<1> HIDE DEF heights
<1>11. /\ heights[NULL] = {bh[NULL]}
       /\ \A m \in X : heights[m] = More(m, heights[t.kid["L"][m]] \cup heights[t.kid["R"][m]])
  <2>1. \A m \in D : heights[m] = IF m = NULL THEN {0}
                                  ELSE More(m, heights[t.kid["L"][m]] \cup heights[t.kid["R"][m]])
    BY <1>10, Zenon
  <2>2. heights[NULL] = {0}
    BY <2>1, Zenon
  <2>3. ASSUME NEW m \in X
        PROVE  heights[m] = More(m, heights[t.kid["L"][m]] \cup heights[t.kid["R"][m]])
    <3>1. m \in D /\ m # NULL
      BY <1>3
    <3>2. QED
      BY <2>1, <3>1, Zenon
  <2>4. QED
    BY <1>4, <2>2, <2>3
<1> DEFINE Q == {m \in X : heights[m] = {bh[m]}}
<1>12. ASSUME NEW m \in X, \A d \in Side : t.kid[d][m] \in Q \cup {NULL} PROVE m \in Q
  <2>1. heights[t.kid["L"][m]] = {bh[t.kid["L"][m]]} /\ heights[t.kid["R"][m]] = {bh[t.kid["R"][m]]}
    BY <1>3, <1>11, <1>12
  <2>2. QED
    BY <1>8, <1>11, <2>1
<1> HIDE DEF Q
<1>13. X \subseteq Q
  <2>1. \A m \in X : (\A d \in Side : t.kid[d][m] \in Q \cup {NULL}) => m \in Q
    BY <1>12
  <2>2. X = sub[t.root]
    BY <1>1
  <2>3. QED
    BY <1>2, <2>1, <2>2, TreeInduction
<1>14. QED
  BY <1>6, <1>11, <1>13 DEF Q

LEMMA GoodIsRedBlack ==
    ASSUME NEW N, NULL \notin N, IsFiniteSet(N), NEW t, NEW X, NEW v, Good(t, N, N \ X, X, v)
    PROVE  RedBlack(t)
<1>1. PICK sub, bh : /\ Whole(t, N, N \ X, sub, v) /\ sub[t.root] = X
                     /\ Level(t, N, X, bh) /\ RbShape(t, sub, bh)
  BY DEF Good
<1>2. Linked(t) = X
  BY LinkedAre
<1>3. Tree(t, N, sub)
  BY <1>1 DEF Whole
<1>4. t.root \in X \cup {NULL}
  <2>1. t.root \in N \cup {NULL} /\ (t.root = NULL \/ t.root \in sub[t.root])
    BY <1>3, KidType DEF Tree
  <2>2. QED
    BY <1>1, <2>1
<1>5. LinksAgree(t)
  <2>1. t.root # NULL => t.par[t.root] = NULL
    BY <1>3 DEF Tree
  <2>2. \A n \in X, s \in Side : t.kid[s][n] # NULL => t.par[t.kid[s][n]] = n
    BY <1>1, <1>3 DEF Tree, Agrees
  <2>3. QED
    BY <1>2, <2>1, <2>2 DEF LinksAgree
<1>6. ~Red(t, t.root) /\ \A n \in X, s \in Side : Red(t, n) => ~Red(t, t.kid[s][n])
  BY <1>1 DEF RbShape, Red
<1>7. Cardinality(BlackHeights(t, t.root)) = 1
  <2>1. BlackHeights(t, t.root) = {bh[t.root]}
    BY <1>1, <1>4, BlackHeightsAre
  <2>2. QED
    BY <2>1, FS_Singleton
<1>8. QED
  BY <1>2, <1>5, <1>6, <1>7 DEF RedBlack


-----------------------------------------------------------------------------
(* The operations on a tree as operations on its list                        *)

LEMMA EmptyGood ==
    ASSUME NEW N, NULL \notin N, NEW v
    PROVE  Good(EmptyTree(N), N, N, {}, v)
<1>t. PICK t : t = EmptyTree(N)
  OBVIOUS
<1>1. /\ t \in TreeOn(N) /\ t.root = NULL
      /\ \A m \in N : t.par[m] = m /\ \A s \in Side : t.kid[s][m] = NULL
  BY <1>t DEF EmptyTree, TreeOn
<1>s. PICK sub : sub = [m \in N \cup {NULL} |-> {}]
  OBVIOUS
<1>h. PICK bh : bh = [m \in N \cup {NULL} |-> 0]
  OBVIOUS
<1>2. sub \in [N \cup {NULL} -> SUBSET N] /\ sub[NULL] = {}
  BY <1>s
<1>3. bh \in [N \cup {NULL} -> Nat] /\ bh[NULL] = 0
  BY <1>h
<1>4. sub[t.root] = {}
  BY <1>1, <1>2
<1>5. Tree(t, N, sub) /\ Ordered(t, sub, v) /\ Rest(t, N)
  BY <1>1, <1>2, <1>4 DEF Tree, Ordered, Rest
<1>6. Whole(t, N, N, sub, v)
  BY <1>4, <1>5 DEF Whole
<1>7. Level(t, N, {}, bh)
  BY <1>3 DEF Level
<1>8. RbShape(t, sub, bh)
  BY <1>1, <1>4 DEF RbShape, Red
<1>9. QED
  BY <1>4, <1>6, <1>7, <1>8, <1>t DEF Good

\* Only the order of the values counts.
LEMMA Revalues ==
    ASSUME NEW N, NULL \notin N, NEW t, NEW S, NEW X, NEW v, Good(t, N, S, X, v),
           NEW v2, \A m \in X : v2[m] \in Nat,
           \A m, n \in X : v[m] < v[n] => v2[m] < v2[n]
    PROVE  Good(t, N, S, X, v2)
<1>1. PICK sub, bh : /\ Whole(t, N, S, sub, v) /\ sub[t.root] = X
                     /\ Level(t, N, X, bh) /\ RbShape(t, sub, bh)
  BY DEF Good
<1>2. Tree(t, N, sub) /\ Ordered(t, sub, v)
  BY <1>1 DEF Whole
<1>3. ASSUME NEW n \in X, NEW s \in Side, NEW m \in sub[t.kid[s][n]]
      PROVE  Beside(s, v2[m], v2[n])
  <2>1. Splits(t, sub, n, s) /\ sub[n] \subseteq X
    BY <1>1, <1>2 DEF Tree
  <2>2. m \in X
    BY <2>1 DEF Splits
  <2>3. Beside(s, v[m], v[n])
    BY <1>1, <1>2 DEF Ordered
  <2>4. QED
    BY <2>2, <2>3 DEF Beside
<1>4. Ordered(t, sub, v2)
  BY <1>1, <1>3 DEF Ordered
<1>5. Whole(t, N, S, sub, v2)
  BY <1>1, <1>4 DEF Whole
<1>6. QED
  BY <1>1, <1>5 DEF Good

\* u is a red-black tree of X, n among them, which differs from sub where n came
\* in, and at the nodes that rotations moved, just above n
Inserted(u, N, S, X, v, sub, n) ==
    \E p, new : GoodAs(u, N, S, X, v, new) /\ Stirs(u, X, Grown(N, sub, n, p), new, n)

LEMMA InsertStirs ==
    ASSUME NEW N, NULL \notin N, IsFiniteSet(N), NEW t, NEW S, NEW X, NEW v, NEW sub,
           GoodAs(t, N, S, X, v, sub),
           NEW n \in S, v[n] \in Nat, NEW larger,
           \A m \in X : v[m] # v[n] /\ (m \in larger <=> v[n] < v[m]),
           NEW S2, S2 = S \ {n}, NEW Y, Y = X \cup {n}
    PROVE  Inserted(InsertSorted(t, n, larger), N, S2, Y, v, sub, n)
<1>k. PICK k \in Nat : k = v[n]
  OBVIOUS
<1>1. PICK bh : /\ Whole(t, N, S, sub, v) /\ sub[t.root] = X
                /\ Level(t, N, X, bh) /\ RbShape(t, sub, bh)
  BY DEF GoodAs
<1>2. Tree(t, N, sub) /\ \A m \in X : v[m] \in Nat
  BY <1>1 DEF Whole, Ordered
<1>a. PICK at : at = IF t.root = NULL THEN <<NULL, "L">> ELSE DescendFrom(t, t.root, larger)
  OBVIOUS
<1>3. InsertSorted(t, n, larger) = LinkNode(t, n, at[1], at[2])
  BY <1>a DEF InsertSorted
<1>4. \E p, s : at[1] = p /\ at[2] = s /\ s \in Side /\ Fits(t, sub, v, n, p, s)
  <2>1. CASE t.root = NULL
    <3>1. Fits(t, sub, v, n, NULL, "L") /\ "L" \in Side
      BY <2>1 DEF Fits, Side
    <3>2. at[1] = NULL /\ at[2] = "L"
      BY <1>a, <2>1
    <3>3. QED
      BY <3>1, <3>2
  <2>2. CASE t.root # NULL
    <3>r. PICK r : r = t.root
      OBVIOUS
    <3>1. r \in sub[t.root] /\ at = DescendFrom(t, r, larger)
      BY <1>2, <1>a, <2>2, <3>r DEF Tree
    <3>2. \A m \in sub[t.root] : v[m] \in Nat /\ v[m] # k /\ (m \in larger <=> k < v[m])
      BY <1>1, <1>2, <1>k
    <3>3. Spot(at, t, sub, v, r, k)
      BY <1>2, <3>1, <3>2, Descends
    <3>4. PICK p \in sub[r], s \in Side :
              /\ at = <<p, s>> /\ t.kid[s][p] = NULL /\ Beside(s, k, v[p])
              /\ \A m \in sub[r], d \in Side : p \in sub[t.kid[d][m]] => Beside(d, k, v[m])
      BY <3>3 DEF Spot
    <3>5. at[1] = p /\ at[2] = s
      BY <3>4
    <3>6. Fits(t, sub, v, n, p, s)
      <4>1. p # NULL
        <5>1. sub[t.root] \subseteq N
          BY <1>2, KidType DEF Tree
        <5>2. QED
          BY <3>4, <3>r, <5>1
      <4>2. QED
        BY <1>k, <3>4, <3>r, <4>1 DEF Fits
    <3>7. QED
      BY <3>4, <3>5, <3>6
  <2>3. QED
    BY <2>1, <2>2
<1>5. PICK p, s : at[1] = p /\ at[2] = s /\ s \in Side /\ Fits(t, sub, v, n, p, s)
  BY <1>4
<1>6. Inserted(LinkNode(t, n, p, s), N, S2, Y, v, sub, n)
  <2>1. Level(t, N, sub[t.root], bh)
    BY <1>1
  <2>2. \E new : /\ GoodAs(LinkNode(t, n, p, s), N, S \ {n}, sub[t.root] \cup {n}, v, new)
                 /\ Stirs(LinkNode(t, n, p, s), sub[t.root] \cup {n},
                          Grown(N, sub, n, p), new, n)
    BY <1>1, <1>5, <2>1, LinkNodeStirs
  <2>3. QED
    BY <1>1, <2>2 DEF Inserted
<1>7. QED
  BY <1>3, <1>5, <1>6

LEMMA SortedInserts ==
    ASSUME NEW N, NULL \notin N, IsFiniteSet(N), NEW t, NEW S, NEW X, NEW v, Good(t, N, S, X, v),
           NEW n \in S, v[n] \in Nat, NEW larger,
           \A m \in X : v[m] # v[n] /\ (m \in larger <=> v[n] < v[m])
    PROVE  Good(InsertSorted(t, n, larger), N, S \ {n}, X \cup {n}, v)
<1>1. PICK sub : GoodAs(t, N, S, X, v, sub)
  BY DEF Good, GoodAs
<1>2. PICK S2, Y : S2 = S \ {n} /\ Y = X \cup {n}
  OBVIOUS
<1>3. Inserted(InsertSorted(t, n, larger), N, S2, Y, v, sub, n)
  BY <1>1, <1>2, InsertStirs
<1>4. PICK new : GoodAs(InsertSorted(t, n, larger), N, S2, Y, v, new)
  BY <1>3 DEF Inserted
<1>5. QED
  BY <1>2, <1>4, GoodAsGood

\* rb_replace_node: node y, which is in no tree, takes the place of z.
IsReplaced(u, t, N, X, z, y) ==
    /\ u \in TreeOn(N) /\ u.root = IF z = t.root THEN y ELSE t.root
    /\ u.black = IF z \in t.black THEN t.black \cup {y} ELSE t.black \ {y}
    /\ \A m \in N : u.par[m] = IF m = y THEN t.par[z]
                               ELSE IF m = t.kid["R"][z] \/ m = t.kid["L"][z] THEN y ELSE t.par[m]
    /\ \A d \in Side : u.kid[d][y] = t.kid[d][z]
    /\ \A m \in X \ {y}, d \in Side : u.kid[d][m] = IF t.kid[d][m] = z THEN y ELSE t.kid[d][m]
    /\ \A m \in N \ (X \cup {y}), d \in Side : u.kid[d][m] = t.kid[d][m]

LEMMA ReplaceLinks ==
    ASSUME NEW N, NULL \notin N, NEW t, NEW sub, Tree(t, N, sub), NEW X, X = sub[t.root],
           NEW z \in X, NEW y \in N \ X
    PROVE  IsReplaced(RbReplace(t, z, y), t, N, X, z, y)
<1>l. PICK l : l = t.kid["L"][z]
  OBVIOUS
<1>r. PICK r : r = t.kid["R"][z]
  OBVIOUS
<1>p. PICK p : p = t.par[z]
  OBVIOUS
<1>1. /\ t \in TreeOn(N) /\ "L" \in Side /\ "R" \in Side /\ z \in N /\ y \in N
      /\ l \in N \cup {NULL} /\ r \in N \cup {NULL} /\ p \in N \cup {NULL}
      /\ \A d \in Side : d = "L" \/ d = "R"
  <2>1. t \in TreeOn(N) /\ z \in N
    BY OneParent
  <2>2. QED
    BY <2>1, <1>l, <1>r, <1>p, KidType DEF Side
<1>2. l \in X \cup {NULL} /\ r \in X \cup {NULL} /\ y # NULL /\ l # y /\ r # y
  <2>1. Agrees(t, X, z)
    BY DEF Tree
  <2>2. l \in X \cup {NULL} /\ r \in X \cup {NULL}
    BY <1>1, <1>l, <1>r, <2>1 DEF Agrees
  <2>3. QED
    BY <1>1, <2>2
<1>3. PICK t1 : t1 = Hang(t, p, "L", z, y)
  OBVIOUS
<1>4. Hung(t1, t, N, X, z, y)
  BY <1>1, <1>3, <1>p, HangsInTree
<1>5. PICK u1 : u1 = SetParent(t1, l, y)
  OBVIOUS
<1>6. ParentSet(u1, t1, N, l, y)
  <2>1. t1 \in TreeOn(N)
    BY <1>4 DEF Hung
  <2>2. QED
    BY <1>1, <1>5, <2>1, SetsParent
<1>7. PICK t2 : t2 = SetParent(u1, r, y)
  OBVIOUS
<1>8. ParentSet(t2, u1, N, r, y)
  <2>1. u1 \in TreeOn(N)
    BY <1>6 DEF ParentSet
  <2>2. QED
    BY <1>1, <1>7, <2>1, SetsParent
<1>9. PICK u2 : u2 = SetKid(t2, y, "L", l)
  OBVIOUS
<1>10. KidSet(u2, t2, N, y, "L", l)
  <2>1. t2 \in TreeOn(N)
    BY <1>8 DEF ParentSet
  <2>2. QED
    BY <1>1, <1>9, <2>1, KidSets
<1>11. PICK t3 : t3 = SetKid(u2, y, "R", r)
  OBVIOUS
<1>12. KidSet(t3, u2, N, y, "R", r)
  <2>1. u2 \in TreeOn(N)
    BY <1>10 DEF KidSet
  <2>2. QED
    BY <1>1, <1>11, <2>1, KidSets
<1>13. PICK t4 : t4 = SetParent(t3, y, p)
  OBVIOUS
<1>14. ParentSet(t4, t3, N, y, p)
  <2>1. t3 \in TreeOn(N)
    BY <1>12 DEF KidSet
  <2>2. QED
    BY <1>1, <1>13, <2>1, SetsParent
<1>15. PICK u : u = SetColor(t4, y, z)
  OBVIOUS
<1>16. RbReplace(t, z, y) = u
  BY <1>3, <1>5, <1>7, <1>9, <1>11, <1>13, <1>15, <1>l, <1>r, <1>p DEF RbReplace
<1>17. t4 \in TreeOn(N) /\ t4.black = t.black
  BY <1>4, <1>6, <1>8, <1>10, <1>12, <1>14 DEF Hung, ParentSet, KidSet
<1>18. /\ u \in TreeOn(N) /\ u.root = t4.root /\ u.kid = t4.kid /\ u.par = t4.par
       /\ u.black = IF z \in t.black THEN t.black \cup {y} ELSE t.black \ {y}
  <2>1. CASE z \in t.black
    <3>1. u = SetRed(SetBlack(t4, {y}), {})
      BY <1>15, <1>17, <2>1 DEF SetColor, SetBlack, SetRed, TreeOn
    <3>2. PICK w \in TreeOn(N) :
              /\ w = SetRed(SetBlack(t4, {y}), {})
              /\ w.root = t4.root /\ w.kid = t4.kid /\ w.par = t4.par
              /\ w.black = (t4.black \cup {y}) \ {}
      BY <1>1, <1>17, Repaints
    <3>3. QED
      BY <1>17, <2>1, <3>1, <3>2
  <2>2. CASE z \notin t.black
    <3>1. u = SetRed(SetBlack(t4, {}), {y})
      BY <1>15, <1>17, <2>2 DEF SetColor, SetBlack, SetRed, TreeOn
    <3>2. PICK w \in TreeOn(N) :
              /\ w = SetRed(SetBlack(t4, {}), {y})
              /\ w.root = t4.root /\ w.kid = t4.kid /\ w.par = t4.par
              /\ w.black = (t4.black \cup {}) \ {y}
      BY <1>1, <1>17, Repaints
    <3>3. QED
      BY <1>17, <2>2, <3>1, <3>2
  <2>3. QED
    BY <2>1, <2>2
<1>19. u.root = IF z = t.root THEN y ELSE t.root
  BY <1>4, <1>6, <1>8, <1>10, <1>12, <1>14, <1>18 DEF Hung, ParentSet, KidSet
<1>20. \A m \in N : u.par[m] = IF m = y THEN p ELSE IF m = r \/ m = l THEN y ELSE t.par[m]
  BY <1>4, <1>6, <1>8, <1>10, <1>12, <1>14, <1>18 DEF Hung, ParentSet, KidSet
<1>21. /\ \A d \in Side : t4.kid[d][y] = IF d = "L" THEN l ELSE r
       /\ \A d \in Side, m \in N : m # y => t4.kid[d][m] = t1.kid[d][m]
  BY <1>1, <1>6, <1>8, <1>10, <1>12, <1>14 DEF ParentSet, KidSet
<1>22. /\ \A m \in X, d \in Side : t1.kid[d][m] = IF t.kid[d][m] = z THEN y ELSE t.kid[d][m]
       /\ \A m \in N \ X, d \in Side : t1.kid[d][m] = t.kid[d][m]
  BY <1>4 DEF Hung
<1>23. X \subseteq N
  BY OneParent
<1>24. \A d \in Side : u.kid[d][y] = t.kid[d][z]
  BY <1>1, <1>18, <1>21, <1>l, <1>r
<1>25. \A m \in X \ {y}, d \in Side : u.kid[d][m] = IF t.kid[d][m] = z THEN y ELSE t.kid[d][m]
  BY <1>18, <1>21, <1>22, <1>23
<1>26. \A m \in N \ (X \cup {y}), d \in Side : u.kid[d][m] = t.kid[d][m]
  BY <1>18, <1>21, <1>22
<1>27. QED
  BY <1>16, <1>18, <1>19, <1>20, <1>24, <1>25, <1>26, <1>l, <1>r, <1>p DEF IsReplaced

LEMMA ReplacedRests ==
    ASSUME NEW N, NULL \notin N, NEW t, NEW sub, Tree(t, N, sub), NEW X, X = sub[t.root],
           NEW z \in X, NEW y \in N \ X, NEW u, IsReplaced(u, t, N, X, z, y),
           NEW S, S \subseteq N, S \cap X = {}, y \notin S, Rest(t, S)
    PROVE  Rest(u, S)
<1>1. \A d \in Side : t.kid[d][z] \in X \cup {NULL}
  BY DEF Tree, Agrees
<1>2. t.kid["L"][z] \in X \cup {NULL} /\ t.kid["R"][z] \in X \cup {NULL}
  BY <1>1 DEF Side
<1>3. ASSUME NEW m \in S PROVE u.par[m] = m /\ \A s \in Side : u.kid[s][m] = NULL
  <2>1. m \in N \ (X \cup {y}) /\ m # NULL
    OBVIOUS
  <2>2. t.par[m] = m /\ \A s \in Side : t.kid[s][m] = NULL
    BY DEF Rest
  <2>3. m # t.kid["L"][z] /\ m # t.kid["R"][z] /\ m # y
    BY <1>2, <2>1
  <2>4. u.par[m] = m
    BY <2>1, <2>2, <2>3 DEF IsReplaced
  <2>5. \A s \in Side : u.kid[s][m] = NULL
    BY <2>1, <2>2 DEF IsReplaced
  <2>6. QED
    BY <2>4, <2>5
<1>4. QED
  BY <1>3 DEF Rest

LEMMA ReplacedRenames ==
    ASSUME NEW N, NULL \notin N, NEW t, NEW sub, Tree(t, N, sub), NEW X, X = sub[t.root],
           NEW z \in X, NEW y \in N \ X, NEW u, IsReplaced(u, t, N, X, z, y),
           NEW r, r = Renaming(N, z, y)
    PROVE  IsRenamed(u, t, N, X, r)
<1>1. z \in N /\ z # NULL /\ y \in N /\ y # NULL /\ y # z /\ X \subseteq N /\ t \in TreeOn(N)
  BY OneParent
<1>2. r[NULL] = NULL /\ r[z] = y /\ \A m \in N \cup {NULL} : m # z => r[m] = m
  BY <1>1, Zenon DEF Renaming
<1>3. /\ \A m \in X, d \in Side : t.kid[d][m] # NULL => t.kid[d][m] \in X /\ t.par[t.kid[d][m]] = m
      /\ t.root # NULL /\ t.root \in X /\ t.par[t.root] = NULL
      /\ \A m \in X : m # t.root => t.par[m] \in X /\ \E s \in Side : t.kid[s][t.par[m]] = m
  BY <1>1 DEF Tree, Agrees
<1>4. "L" \in Side /\ "R" \in Side /\ \A d \in Side : d = "L" \/ d = "R"
  BY DEF Side
<1>5. t.par[z] \in (X \cup {NULL}) /\ t.par[z] # z
  <2>1. CASE z = t.root
    BY <1>1, <1>3, <2>1
  <2>2. CASE z # t.root
    <3>1. t.par[z] \in X /\ \E s \in Side : t.kid[s][t.par[z]] = z
      BY <1>3, <2>2
    <3>2. t.par[z] # z
      <4>1. SUFFICES ASSUME t.par[z] = z PROVE FALSE
        OBVIOUS
      <4>2. PICK s \in Side : t.kid[s][z] = z
        BY <3>1, <4>1
      <4>3. z # t.kid[s][z]
        BY <1>1, <4>2, Family
      <4>4. QED
        BY <4>2, <4>3
    <3>3. QED
      BY <3>1, <3>2
  <2>3. QED
    BY <2>1, <2>2
<1>6. u.root = r[t.root]
  BY <1>1, <1>2, <1>3 DEF IsReplaced
<1>7. ASSUME NEW m \in X, NEW d \in Side PROVE u.kid[d][r[m]] = r[t.kid[d][m]]
  <2>1. t.kid[d][m] \in N \cup {NULL}
    BY <1>1, <1>3
  <2>2. CASE m = z
    <3>1. t.kid[d][z] # z
      BY <1>1, Family
    <3>2. u.kid[d][y] = t.kid[d][z]
      BY DEF IsReplaced
    <3>3. QED
      BY <1>2, <2>1, <2>2, <3>1, <3>2
  <2>3. CASE m # z
    <3>1. r[m] = m /\ m \in X \ {y}
      BY <1>1, <1>2, <2>3
    <3>2. u.kid[d][m] = IF t.kid[d][m] = z THEN y ELSE t.kid[d][m]
      BY <3>1 DEF IsReplaced
    <3>3. QED
      BY <1>2, <2>1, <3>1, <3>2
  <2>4. QED
    BY <2>2, <2>3
<1>8. ASSUME NEW m \in X PROVE u.par[r[m]] = r[t.par[m]]
  <2>1. CASE m = z
    <3>1. u.par[y] = t.par[z]
      BY <1>1 DEF IsReplaced
    <3>2. QED
      BY <1>1, <1>2, <1>5, <2>1, <3>1
  <2>2. CASE m # z
    <3>1. r[m] = m /\ m \in N /\ m # y /\ m # NULL
      BY <1>1, <1>2, <2>2
    <3>2. u.par[m] = IF m = t.kid["R"][z] \/ m = t.kid["L"][z] THEN y ELSE t.par[m]
      BY <3>1 DEF IsReplaced
    <3>3. m = t.kid["R"][z] \/ m = t.kid["L"][z] <=> t.par[m] = z
      <4>1. t.par[m] = z => m # t.root
        BY <1>1, <1>3
      <4>2. t.par[m] = z => \E s \in Side : t.kid[s][z] = m
        BY <1>3, <4>1
      <4>3. QED
        BY <1>3, <1>4, <3>1, <4>2
    <3>4. t.par[m] \in N \cup {NULL}
      BY <1>1, <1>3
    <3>5. QED
      BY <1>2, <3>1, <3>2, <3>3, <3>4
  <2>3. QED
    BY <2>1, <2>2
<1>9. ASSUME NEW m \in X PROVE r[m] \in u.black <=> m \in t.black
  <2>1. u.black = IF z \in t.black THEN t.black \cup {y} ELSE t.black \ {y}
    BY DEF IsReplaced
  <2>2. CASE m = z
    BY <1>1, <1>2, <2>1, <2>2
  <2>3. CASE m # z
    <3>1. r[m] = m /\ m # y
      BY <1>1, <1>2, <2>3
    <3>2. QED
      BY <2>1, <3>1
  <2>4. QED
    BY <2>2, <2>3
<1>10. u \in TreeOn(N)
  BY DEF IsReplaced
<1>11. QED
  BY <1>6, <1>7, <1>8, <1>9, <1>10 DEF IsRenamed

LEMMA ReplacesAs ==
    ASSUME NEW N, NULL \notin N, NEW t, NEW S, NEW X, NEW v, NEW sub, GoodAs(t, N, S, X, v, sub),
           NEW z \in X, NEW y \in S, v[y] = v[z], NEW new, new = RenamedSub(N, sub, z, y),
           NEW S2, S2 = (S \ {y}) \cup {z}, NEW Y, Y = (X \ {z}) \cup {y}
    PROVE  GoodAs(Forget(RbReplace(t, z, y), z), N, S2, Y, v, new)
<1>1. PICK bh : /\ Whole(t, N, S, sub, v) /\ sub[t.root] = X
                /\ Level(t, N, X, bh) /\ RbShape(t, sub, bh)
  BY DEF GoodAs
<1>T. PICK T : T = S \ {y}
  OBVIOUS
<1>2. Tree(t, N, sub) /\ Ordered(t, sub, v) /\ S \subseteq N /\ S \cap X = {} /\ Rest(t, S)
  BY <1>1 DEF Whole
<1>3. y \in N \ X /\ T \subseteq N /\ T \cap X = {} /\ y \notin T /\ Rest(t, T)
  BY <1>2, <1>T DEF Rest
<1>4. Whole(t, N, T, sub, v)
  BY <1>1, <1>2, <1>3 DEF Whole
<1>u. PICK u : u = RbReplace(t, z, y)
  OBVIOUS
<1>r. PICK r : r = Renaming(N, z, y)
  OBVIOUS
<1>n. new = RenamedSub(N, sub, z, y)
  OBVIOUS
<1>5. IsReplaced(u, t, N, X, z, y)
  BY <1>1, <1>2, <1>3, <1>u, ReplaceLinks
<1>6. IsRenamed(u, t, N, X, r)
  BY <1>1, <1>2, <1>3, <1>5, <1>r, ReplacedRenames
<1>7. Rest(u, T)
  BY <1>1, <1>2, <1>3, <1>5, ReplacedRests
<1>8. InPlace(t, sub, v, z, y)
  <2>1. /\ \A n \in X : v[n] \in Nat
        /\ \A n \in X, s \in Side : \A m \in sub[t.kid[s][n]] : Beside(s, v[m], v[n])
    BY <1>1, <1>2 DEF Ordered
  <2>2. v[y] \in Nat
    BY <2>1
  <2>3. \A m \in X, d \in Side : z \in sub[t.kid[d][m]] => Beside(d, v[y], v[m])
    BY <2>1
  <2>4. \A d \in Side : \A m \in sub[t.kid[d][z]] : Beside(d, v[m], v[y])
    BY <2>1
  <2>5. QED
    BY <1>1, <2>2, <2>3, <2>4 DEF InPlace
<1>9. Whole(u, N, T, new, v)
  BY <1>1, <1>3, <1>4, <1>6, <1>7, <1>8, <1>r, <1>n, RenamesWhole
<1>Y. Y = (X \ {z}) \cup {y}
  OBVIOUS
<1>10. Y = Swap(X, z, y)
  BY <1>Y DEF Swap
<1>11. new[u.root] = Y
  BY <1>1, <1>2, <1>3, <1>6, <1>10, <1>r, <1>n, RenamesTree
<1>12. ColorsGo(u, t, N, X, Swap(X, z, y), sub, new, r)
  BY <1>1, <1>2, <1>3, <1>6, <1>r, <1>n, RenamesColors
<1>13. \E b2 : Level(u, N, Y, b2) /\ RbShape(u, new, b2)
  BY <1>1, <1>10, <1>12 DEF ColorsGo
<1>14. GoodAs(u, N, T, Y, v, new)
  BY <1>9, <1>11, <1>13 DEF GoodAs
<1>15. z \in N \ Y
  <2>1. z \in N /\ z # y
    BY <1>1, <1>2, <1>3, OneParent
  <2>2. QED
    BY <2>1, <1>Y
<1>16. GoodAs(Forget(u, z), N, S2, Y, v, new)
  <2>1. S2 = T \cup {z}
    BY <1>T
  <2>2. QED
    BY <1>14, <1>15, <2>1, ForgetsAs
<1>17. QED
  BY <1>16, <1>u

LEMMA Replaces ==
    ASSUME NEW N, NULL \notin N, NEW t, NEW S, NEW X, NEW v, Good(t, N, S, X, v),
           NEW z \in X, NEW y \in S, v[y] = v[z]
    PROVE  Good(Forget(RbReplace(t, z, y), z), N, (S \ {y}) \cup {z}, (X \ {z}) \cup {y}, v)
<1>1. PICK sub : GoodAs(t, N, S, X, v, sub)
  BY DEF Good, GoodAs
<1>2. PICK S2, Y, new : /\ S2 = (S \ {y}) \cup {z} /\ Y = (X \ {z}) \cup {y}
                        /\ new = RenamedSub(N, sub, z, y)
  OBVIOUS
<1>3. GoodAs(Forget(RbReplace(t, z, y), z), N, S2, Y, v, new)
  BY <1>1, <1>2, ReplacesAs
<1>4. QED
  BY <1>2, <1>3, GoodAsGood

-----------------------------------------------------------------------------
(* What an insertion, an erasure and a replacement do to the list            *)

LEMMA EmptyLists ==
    ASSUME NEW N, NULL \notin N
    PROVE  Lists(EmptyTree(N), N, <<>>)
<1>1. ToSet(<<>>) = {} /\ <<>> \in Seq(N)
  BY DEF ToSet
<1>2. \A v : Placed(v, <<>>)
  BY DEF Placed
<1>3. \A v : Good(EmptyTree(N), N, N, {}, v)
  BY EmptyGood
<1>4. N \ ToSet(<<>>) = N
  BY <1>1
<1>5. QED
  BY <1>1, <1>2, <1>3, <1>4 DEF Lists

LEMMA InsertMembers ==
    ASSUME NEW N, NEW q \in Seq(N), NEW n \in N, NEW k \in 0 .. Len(q)
    PROVE  ToSet(InsertAt(q, k + 1, n)) = ToSet(q) \cup {n}
<1>p. PICK p : p = InsertAt(q, k + 1, n)
  OBVIOUS
<1>l. Len(q) \in Nat /\ k + 1 \in 1 .. Len(q) + 1 /\ k \in Nat /\ DOMAIN q = 1 .. Len(q)
  OBVIOUS
<1>1. /\ p \in Seq(N) /\ DOMAIN p = 1 .. Len(q) + 1
      /\ \A j \in 1 .. Len(q) + 1 : /\ j < k + 1 => p[j] = q[j]
                                    /\ j = k + 1 => p[j] = n
                                    /\ j > k + 1 => p[j] = q[j - 1]
  <2>1. PICK h \in 1 .. Len(q) + 1 : h = k + 1
    BY <1>l
  <2>2. p = InsertAt(q, h, n)
    BY <1>p, <2>1
  <2>3. /\ InsertAt(q, h, n) \in Seq(N) /\ DOMAIN InsertAt(q, h, n) = 1 .. Len(q) + 1
        /\ \A j \in 1 .. Len(q) + 1 : /\ j < h => InsertAt(q, h, n)[j] = q[j]
                                      /\ j = h => InsertAt(q, h, n)[j] = n
                                      /\ j > h => InsertAt(q, h, n)[j] = q[j - 1]
    BY InsertPlaces
  <2>4. QED
    BY <2>1, <2>2, <2>3
<1>2. ASSUME NEW j \in 1 .. Len(q) + 1 PROVE p[j] \in ToSet(q) \cup {n}
  <2>1. CASE j < k + 1
    BY <1>l, <1>1, <2>1 DEF ToSet
  <2>2. CASE j = k + 1
    BY <1>1, <2>2
  <2>3. CASE j > k + 1
    <3>1. j - 1 \in DOMAIN q /\ p[j] = q[j - 1]
      BY <1>l, <1>1, <2>3
    <3>2. QED
      BY <3>1 DEF ToSet
  <2>4. QED
    BY <1>l, <2>1, <2>2, <2>3
<1>3. ASSUME NEW i \in 1 .. Len(q) PROVE q[i] \in ToSet(p)
  <2>1. CASE i < k + 1
    BY <1>l, <1>1, <2>1 DEF ToSet
  <2>2. CASE i >= k + 1
    <3>1. i + 1 \in DOMAIN p /\ p[i + 1] = q[i]
      BY <1>l, <1>1, <2>2
    <3>2. QED
      BY <3>1 DEF ToSet
  <2>3. QED
    BY <1>l, <2>1, <2>2
<1>4. n \in ToSet(p)
  BY <1>l, <1>1 DEF ToSet
<1>5. \A m \in ToSet(p) : m \in ToSet(q) \cup {n}
  BY <1>1, <1>2 DEF ToSet
<1>6. \A m \in ToSet(q) : m \in ToSet(p)
  BY <1>l, <1>3 DEF ToSet
<1>7. QED
  BY <1>4, <1>5, <1>6, <1>p

\* A new node goes behind the first k: they are the ones not larger than it.
LEMMA ListInserts ==
    ASSUME NEW N, NULL \notin N, IsFiniteSet(N), NEW t, NEW q, Lists(t, N, q),
           NEW n \in N \ ToSet(q), NEW k \in 0 .. Len(q), NEW larger,
           \A i \in 1 .. Len(q) : q[i] \in larger <=> i > k
    PROVE  Lists(InsertSorted(t, n, larger), N, InsertAt(q, k + 1, n))
<1>p. PICK p : p = InsertAt(q, k + 1, n)
  OBVIOUS
<1>X. PICK X : X = ToSet(q)
  OBVIOUS
<1>1. PICK v : Placed(v, q) /\ Good(t, N, N \ X, X, v)
  BY <1>X DEF Lists
<1>q. q \in Seq(N)
  BY DEF Lists
<1>2. /\ Len(q) \in Nat /\ DOMAIN q = 1 .. Len(q) /\ X \subseteq N
      /\ \A i \in 1 .. Len(q) : q[i] \in X /\ v[q[i]] = i
      /\ \A m \in X : v[m] \in 1 .. Len(q) /\ q[v[m]] = m
  BY <1>1, <1>q, <1>X, Places
<1>w. PICK w : w = [m \in N |-> IF m = n THEN k + 1
                                ELSE IF v[m] > k THEN v[m] + 1 ELSE v[m]]
  OBVIOUS
<1>3. w[n] = k + 1 /\ \A m \in X : w[m] = IF v[m] > k THEN v[m] + 1 ELSE v[m]
  BY <1>2, <1>w, <1>X
<1>4. \A m \in X : w[m] \in Nat /\ (v[m] > k <=> w[m] > k + 1) /\ w[m] # k + 1
  BY <1>2, <1>3
<1>5. \A m, o \in X : v[m] < v[o] => w[m] < w[o]
  <2>1. SUFFICES ASSUME NEW m \in X, NEW o \in X, v[m] < v[o] PROVE w[m] < w[o]
    OBVIOUS
  <2>2. v[m] \in Nat /\ v[o] \in Nat /\ k \in Nat
    BY <1>2
  <2>3. QED
    BY <1>3, <2>1, <2>2
<1>6. Good(t, N, N \ X, X, w)
  BY <1>1, <1>4, <1>5, Revalues
<1>7. \A m \in X : w[m] # w[n] /\ (m \in larger <=> w[n] < w[m])
  <2>1. ASSUME NEW m \in X PROVE w[m] # w[n] /\ (m \in larger <=> w[n] < w[m])
    <3>1. m = q[v[m]] /\ v[m] \in 1 .. Len(q)
      BY <1>2
    <3>2. m \in larger <=> v[m] > k
      BY <3>1
    <3>3. QED
      BY <1>3, <1>4, <3>1, <3>2
  <2>2. QED
    BY <2>1
<1>8. n \in N \ X /\ w[n] \in Nat
  BY <1>3, <1>X
<1>u. PICK u : u = InsertSorted(t, n, larger)
  OBVIOUS
<1>9. Good(u, N, (N \ X) \ {n}, X \cup {n}, w)
  BY <1>6, <1>7, <1>8, <1>u, SortedInserts
<1>10. /\ p \in Seq(N) /\ DOMAIN p = 1 .. Len(q) + 1
       /\ \A j \in 1 .. Len(q) + 1 : /\ j < k + 1 => p[j] = q[j]
                                     /\ j = k + 1 => p[j] = n
                                     /\ j > k + 1 => p[j] = q[j - 1]
  <2>1. PICK h \in 1 .. Len(q) + 1 : h = k + 1
    BY <1>2
  <2>2. p = InsertAt(q, h, n) /\ n \in N
    BY <1>p, <2>1
  <2>3. /\ InsertAt(q, h, n) \in Seq(N) /\ DOMAIN InsertAt(q, h, n) = 1 .. Len(q) + 1
        /\ \A j \in 1 .. Len(q) + 1 : /\ j < h => InsertAt(q, h, n)[j] = q[j]
                                      /\ j = h => InsertAt(q, h, n)[j] = n
                                      /\ j > h => InsertAt(q, h, n)[j] = q[j - 1]
    BY <1>q, InsertPlaces
  <2>4. QED
    BY <2>1, <2>2, <2>3
<1>11. ToSet(p) = X \cup {n}
  BY <1>p, <1>q, <1>X, InsertMembers
<1>12. ASSUME NEW j \in DOMAIN p PROVE w[p[j]] = j
  <2>1. j \in Nat /\ k \in Nat /\ j \in 1 .. Len(q) + 1
    BY <1>2, <1>10
  <2>2. CASE j < k + 1
    <3>1. j \in 1 .. Len(q) /\ p[j] = q[j] /\ ~(j > k)
      BY <1>2, <1>10, <2>1, <2>2
    <3>2. QED
      BY <1>2, <1>3, <3>1
  <2>3. CASE j = k + 1
    BY <1>3, <1>10, <2>1, <2>3
  <2>4. CASE j > k + 1
    <3>1. j - 1 \in 1 .. Len(q) /\ p[j] = q[j - 1] /\ j - 1 > k
      BY <1>2, <1>10, <2>1, <2>4
    <3>2. p[j] \in X /\ v[p[j]] = j - 1
      BY <1>2, <3>1
    <3>3. QED
      BY <1>3, <2>1, <3>1, <3>2
  <2>5. QED
    BY <2>1, <2>2, <2>3, <2>4
<1>13. Placed(w, p)
  BY <1>12 DEF Placed
<1>14. (N \ X) \ {n} = N \ ToSet(p)
  BY <1>11
<1>15. Lists(u, N, p)
  BY <1>9, <1>10, <1>11, <1>13, <1>14 DEF Lists
<1>16. QED
  BY <1>15, <1>u, <1>p

\* An erased node leaves the list.
LEMMA ListErases ==
    ASSUME NEW N, NULL \notin N, IsFiniteSet(N), NEW t, NEW q, Lists(t, N, q),
           NEW i \in 1 .. Len(q)
    PROVE  Lists(Forget(RbErase(t, q[i]), q[i]), N, RemoveAt(q, i))
<1>p. PICK p : p = RemoveAt(q, i)
  OBVIOUS
<1>z. PICK z : z = q[i]
  OBVIOUS
<1>X. PICK X : X = ToSet(q)
  OBVIOUS
<1>1. PICK v : Placed(v, q) /\ Good(t, N, N \ X, X, v)
  BY <1>X DEF Lists
<1>q. q \in Seq(N)
  BY DEF Lists
<1>2. /\ Len(q) \in Nat /\ DOMAIN q = 1 .. Len(q) /\ X \subseteq N
      /\ \A j \in 1 .. Len(q) : q[j] \in X /\ v[q[j]] = j
      /\ \A m \in X : v[m] \in 1 .. Len(q) /\ q[v[m]] = m
  BY <1>1, <1>q, <1>X, Places
<1>3. z \in X /\ v[z] = i /\ z \in N /\ i \in Nat /\ i \in DOMAIN q
  BY <1>2, <1>z
<1>u. PICK u : u = RbErase(t, z)
  OBVIOUS
<1>f. PICK f : f = Forget(u, z)
  OBVIOUS
<1>Y. PICK Y : Y = X \ {z}
  OBVIOUS
<1>4. Good(u, N, N \ X, Y, v)
  BY <1>1, <1>3, <1>u, <1>Y, RbErases
<1>5. Good(f, N, (N \ X) \cup {z}, Y, v)
  BY <1>3, <1>4, <1>f, <1>Y, Forgets
<1>w. PICK w : w = [m \in N |-> IF v[m] > i THEN v[m] - 1 ELSE v[m]]
  OBVIOUS
<1>6. \A m \in Y : /\ w[m] = IF v[m] > i THEN v[m] - 1 ELSE v[m]
                   /\ v[m] \in 1 .. Len(q) /\ v[m] # i /\ m \in X
  BY <1>2, <1>3, <1>w, <1>Y, <1>z
<1>7. \A m \in Y : w[m] \in Nat
  BY <1>2, <1>3, <1>6
<1>8. \A m, o \in Y : v[m] < v[o] => w[m] < w[o]
  BY <1>2, <1>3, <1>6
<1>9. Good(f, N, (N \ X) \cup {z}, Y, w)
  BY <1>5, <1>7, <1>8, Revalues
<1>10. /\ p \in Seq(N) /\ DOMAIN p = 1 .. Len(q) - 1
       /\ \A j \in 1 .. Len(q) - 1 : p[j] = q[IF j < i THEN j ELSE j + 1]
  BY <1>p, <1>q, <1>3, RemovePlaces
<1>11. ASSUME NEW j \in DOMAIN p PROVE p[j] \in Y /\ w[p[j]] = j
  <2>1. j \in Nat /\ j \in 1 .. Len(q) - 1
    BY <1>2, <1>10
  <2>2. PICK h \in 1 .. Len(q) : h = (IF j < i THEN j ELSE j + 1) /\ h # i
    BY <1>2, <1>3, <2>1
  <2>3. p[j] = q[h] /\ q[h] \in X /\ v[q[h]] = h
    BY <1>2, <1>10, <2>1, <2>2
  <2>4. q[h] \in Y
    BY <1>3, <1>Y, <2>2, <2>3
  <2>5. QED
    BY <1>3, <1>6, <2>1, <2>2, <2>3, <2>4
<1>12. Placed(w, p)
  BY <1>11 DEF Placed
<1>13. ASSUME NEW m \in Y PROVE m \in ToSet(p)
  <2>1. v[m] \in 1 .. Len(q) /\ v[m] # i /\ q[v[m]] = m
    BY <1>2, <1>6
  <2>2. PICK j : j = IF v[m] < i THEN v[m] ELSE v[m] - 1
    OBVIOUS
  <2>3. j \in 1 .. Len(q) - 1 /\ v[m] = IF j < i THEN j ELSE j + 1
    BY <1>2, <1>3, <2>1, <2>2
  <2>4. p[j] = m /\ j \in DOMAIN p
    BY <1>10, <2>1, <2>3
  <2>5. QED
    BY <2>4 DEF ToSet
<1>14. ToSet(p) = Y
  BY <1>11, <1>13 DEF ToSet
<1>15. (N \ X) \cup {z} = N \ ToSet(p)
  BY <1>3, <1>14, <1>Y
<1>16. Lists(f, N, p)
  BY <1>9, <1>10, <1>12, <1>14, <1>15 DEF Lists
<1>17. QED
  BY <1>16, <1>f, <1>u, <1>z, <1>p

\* A replacement takes the place of the node that leaves.
LEMMA ListReplaces ==
    ASSUME NEW N, NULL \notin N, NEW t, NEW q, Lists(t, N, q),
           NEW i \in 1 .. Len(q), NEW n \in N \ ToSet(q)
    PROVE  Lists(Forget(RbReplace(t, q[i], n), q[i]), N, [q EXCEPT ![i] = n])
<1>p. PICK p : p = [q EXCEPT ![i] = n]
  OBVIOUS
<1>z. PICK z : z = q[i]
  OBVIOUS
<1>X. PICK X : X = ToSet(q)
  OBVIOUS
<1>1. PICK v : Placed(v, q) /\ Good(t, N, N \ X, X, v)
  BY <1>X DEF Lists
<1>q. q \in Seq(N)
  BY DEF Lists
<1>2. /\ Len(q) \in Nat /\ DOMAIN q = 1 .. Len(q) /\ X \subseteq N
      /\ \A j \in 1 .. Len(q) : q[j] \in X /\ v[q[j]] = j
      /\ \A m \in X : v[m] \in 1 .. Len(q) /\ q[v[m]] = m
  BY <1>1, <1>q, <1>X, Places
<1>3. z \in X /\ v[z] = i /\ z \in N /\ i \in DOMAIN q /\ n \in N \ X
  BY <1>2, <1>z, <1>X
<1>w. PICK w : w = [m \in N |-> IF m = n THEN i ELSE v[m]]
  OBVIOUS
<1>4. w[n] = i /\ \A m \in X : w[m] = v[m] /\ w[m] \in Nat
  BY <1>2, <1>3, <1>w
<1>5. Good(t, N, N \ X, X, w)
  <2>1. \A m, o \in X : v[m] < v[o] => w[m] < w[o]
    BY <1>4
  <2>2. QED
    BY <1>1, <1>4, <2>1, Revalues
<1>f. PICK f : f = Forget(RbReplace(t, z, n), z)
  OBVIOUS
<1>Y. PICK Y : Y = (X \ {z}) \cup {n}
  OBVIOUS
<1>6. Good(f, N, ((N \ X) \ {n}) \cup {z}, Y, w)
  BY <1>3, <1>4, <1>5, <1>f, <1>Y, Replaces
<1>7. /\ p \in Seq(N) /\ DOMAIN p = 1 .. Len(q)
      /\ \A j \in 1 .. Len(q) : p[j] = IF j = i THEN n ELSE q[j]
  BY <1>2, <1>3, <1>p, <1>q
<1>8. ASSUME NEW j \in DOMAIN p PROVE p[j] \in Y /\ w[p[j]] = j
  <2>1. CASE j = i
    BY <1>4, <1>7, <1>Y, <2>1
  <2>2. CASE j # i
    <3>1. p[j] = q[j] /\ q[j] \in X /\ v[q[j]] = j
      BY <1>2, <1>7, <2>2
    <3>2. q[j] # z
      BY <1>3, <2>2, <3>1
    <3>3. QED
      BY <1>4, <1>Y, <3>1, <3>2
  <2>3. QED
    BY <2>1, <2>2
<1>9. Placed(w, p)
  BY <1>8 DEF Placed
<1>10. ASSUME NEW m \in Y PROVE m \in ToSet(p)
  <2>1. CASE m = n
    <3>1. p[i] = n /\ i \in DOMAIN p
      BY <1>7
    <3>2. QED
      BY <2>1, <3>1 DEF ToSet
  <2>2. CASE m # n
    <3>1. m \in X /\ m # z
      BY <1>Y, <2>2
    <3>2. v[m] \in 1 .. Len(q) /\ q[v[m]] = m /\ v[m] # i
      BY <1>2, <1>z, <3>1
    <3>3. p[v[m]] = m /\ v[m] \in DOMAIN p
      BY <1>7, <3>2
    <3>4. QED
      BY <3>3 DEF ToSet
  <2>3. QED
    BY <2>1, <2>2
<1>11. ToSet(p) = Y
  BY <1>8, <1>10 DEF ToSet
<1>12. ((N \ X) \ {n}) \cup {z} = N \ ToSet(p)
  BY <1>3, <1>11, <1>Y
<1>13. Lists(f, N, p)
  BY <1>6, <1>7, <1>9, <1>11, <1>12 DEF Lists
<1>14. QED
  BY <1>13, <1>f, <1>z, <1>p

-----------------------------------------------------------------------------
\* Where a set that has with a node all nodes behind it begins in the list.
LEMMA SplitPoint ==
    ASSUME NEW N, NEW q \in Seq(N), NEW A,
           \A i, j \in 1 .. Len(q) : i < j /\ q[i] \in A => q[j] \in A
    PROVE  \E k \in 0 .. Len(q) : \A i \in 1 .. Len(q) : q[i] \in A <=> i > k
<1>1. Len(q) \in Nat
  OBVIOUS
<1> DEFINE K == {i \in 1 .. Len(q) : q[i] \in A}
<1>2. CASE K = {}
  <2>1. \A i \in 1 .. Len(q) : q[i] \in A <=> i > Len(q)
    BY <1>1, <1>2
  <2>2. QED
    BY <1>1, <2>1
<1>3. CASE K # {}
  <2>1. K \in SUBSET Nat
    BY <1>1
  <2>2. PICK h \in K : \A i \in K : h <= i
    <3> HIDE DEF K
    <3>1. QED
      BY <1>3, <2>1, Least
  <2>3. h \in 1 .. Len(q) /\ q[h] \in A
    OBVIOUS
  <2>4. ASSUME NEW i \in 1 .. Len(q) PROVE q[i] \in A <=> i > h - 1
    <3>1. CASE i < h
      BY <1>1, <2>2, <2>3, <3>1
    <3>2. CASE i = h
      BY <1>1, <2>3, <3>2
    <3>3. CASE i > h
      BY <1>1, <2>3, <3>3
    <3>4. QED
      BY <1>1, <2>3, <3>1, <3>2, <3>3
  <2>5. h - 1 \in 0 .. Len(q)
    BY <1>1, <2>3
  <2>6. QED
    BY <2>4, <2>5
<1>4. QED
  BY <1>2, <1>3

\* The list after an insertion, place by place.
Shifted(p, q, k, n) == /\ DOMAIN p = 1 .. Len(q) + 1 /\ Len(p) = Len(q) + 1
                       /\ \A j \in 1 .. Len(q) + 1 : p[j] = IF j <= k THEN q[j]
                                                            ELSE IF j = k + 1 THEN n ELSE q[j - 1]

LEMMA InsertShifts ==
    ASSUME NEW N, NEW q \in Seq(N), NEW n \in N, NEW k \in 0 .. Len(q)
    PROVE  Shifted(InsertAt(q, k + 1, n), q, k, n)
<1>1. Len(q) \in Nat /\ k \in Nat
  OBVIOUS
<1>2. PICK h \in 1 .. Len(q) + 1 : h = k + 1
  BY <1>1
<1>3. /\ InsertAt(q, h, n) \in Seq(N) /\ DOMAIN InsertAt(q, h, n) = 1 .. Len(q) + 1
      /\ \A j \in 1 .. Len(q) + 1 : /\ j < h => InsertAt(q, h, n)[j] = q[j]
                                    /\ j = h => InsertAt(q, h, n)[j] = n
                                    /\ j > h => InsertAt(q, h, n)[j] = q[j - 1]
  BY InsertPlaces
<1>p. PICK p : p = InsertAt(q, h, n)
  OBVIOUS
<1>4. /\ p \in Seq(N) /\ DOMAIN p = 1 .. Len(q) + 1
      /\ \A j \in 1 .. Len(q) + 1 : /\ j < h => p[j] = q[j]
                                    /\ j = h => p[j] = n
                                    /\ j > h => p[j] = q[j - 1]
  BY <1>3, <1>p
<1>5. Len(p) = Len(q) + 1
  BY <1>1, <1>4
<1>6. ASSUME NEW j \in 1 .. Len(q) + 1
      PROVE  p[j] = IF j <= k THEN q[j] ELSE IF j = k + 1 THEN n ELSE q[j - 1]
  BY <1>1, <1>2, <1>4
<1>7. Shifted(p, q, k, n)
  BY <1>4, <1>5, <1>6 DEF Shifted
<1>8. QED
  BY <1>2, <1>7, <1>p

-----------------------------------------------------------------------------
(* The client of rbtree.h                                                    *)

\* q: the nodes of the tree from left to right, by their keys
KeyList(t, q) == /\ Lists(t, RbNode, q)
                 /\ \A i, j \in 1 .. Len(q) : i < j => RbKey[q[i]] < RbKey[q[j]]
ClientInv == \E q : KeyList(rb, q)

LEMMA ClientInserts ==
    ASSUME NEW q, KeyList(rb, q), NEW n \in RbNode, RbInsert(n)
    PROVE  ClientInv'
<1>1. Lists(rb, RbNode, q) /\ q \in Seq(RbNode) /\ NULL \notin RbNode /\ IsFiniteSet(RbNode)
  BY RbNodeAssumption DEF KeyList, Lists
<1>2. \A m \in ToSet(q) : rb.par[m] # m
  BY <1>1, ListWalks DEF Walks
<1>3. /\ Len(q) \in Nat /\ DOMAIN q = 1 .. Len(q)
      /\ \A i \in 1 .. Len(q) : q[i] \in RbNode /\ q[i] \in ToSet(q)
      /\ \A m \in RbNode : RbKey[m] \in Nat
  <2>1. Len(q) \in Nat /\ DOMAIN q = 1 .. Len(q) /\ \A i \in 1 .. Len(q) : q[i] \in RbNode
    BY <1>1
  <2>2. QED
    BY <2>1, RbNodeAssumption DEF ToSet
<1>a. PICK A : A = {m \in RbNode : RbKey[n] < RbKey[m]}
  OBVIOUS
<1>4. ToSet(q) \subseteq RbNode
  BY <1>3 DEF ToSet
<1>5. n \in RbNode \ ToSet(q) /\ \A i \in 1 .. Len(q) : RbKey[q[i]] # RbKey[n]
  BY <1>2, <1>3, <1>4 DEF RbInsert, InTree
<1>6. \A i, j \in 1 .. Len(q) : i < j => RbKey[q[i]] < RbKey[q[j]]
  BY DEF KeyList
<1>7. \A i, j \in 1 .. Len(q) : i < j /\ q[i] \in A => q[j] \in A
  BY <1>3, <1>6, <1>a
<1>8. PICK k \in 0 .. Len(q) : \A i \in 1 .. Len(q) : q[i] \in A <=> i > k
  BY <1>1, <1>7, SplitPoint
<1>p. PICK p : p = InsertAt(q, k + 1, n)
  OBVIOUS
<1>9. rb' = InsertSorted(rb, n, A)
  BY <1>a DEF RbInsert
<1>10. Lists(rb', RbNode, p)
  BY <1>1, <1>5, <1>8, <1>9, <1>p, ListInserts
<1>11. Shifted(p, q, k, n)
  BY <1>1, <1>p, InsertShifts
<1>12. ASSUME NEW i \in 1 .. Len(p), NEW j \in 1 .. Len(p), i < j
       PROVE  RbKey[p[i]] < RbKey[p[j]]
  <2>1. /\ i \in 1 .. Len(q) + 1 /\ j \in 1 .. Len(q) + 1 /\ k \in Nat /\ i \in Nat /\ j \in Nat
        /\ p[i] = IF i <= k THEN q[i] ELSE IF i = k + 1 THEN n ELSE q[i - 1]
        /\ p[j] = IF j <= k THEN q[j] ELSE IF j = k + 1 THEN n ELSE q[j - 1]
    BY <1>3, <1>11 DEF Shifted
  <2>2. \A h \in 1 .. Len(q) : IF h > k THEN RbKey[n] < RbKey[q[h]] ELSE RbKey[q[h]] < RbKey[n]
    BY <1>3, <1>5, <1>8, <1>a
  <2>3. CASE j <= k
    <3>1. i \in 1 .. Len(q) /\ j \in 1 .. Len(q) /\ p[i] = q[i] /\ p[j] = q[j]
      BY <1>3, <1>12, <2>1, <2>3
    <3>2. QED
      BY <1>6, <1>12, <3>1
  <2>4. CASE j = k + 1
    <3>1. i \in 1 .. Len(q) /\ i <= k /\ p[i] = q[i] /\ p[j] = n
      BY <1>3, <1>12, <2>1, <2>4
    <3>2. QED
      BY <2>1, <2>2, <3>1
  <2>5. CASE j > k + 1
    <3>1. j - 1 \in 1 .. Len(q) /\ j - 1 > k /\ p[j] = q[j - 1]
      BY <1>3, <2>1, <2>5
    <3>2. CASE i = k + 1
      BY <2>1, <2>2, <3>1, <3>2
    <3>3. CASE i <= k
      <4>1. i \in 1 .. Len(q) /\ i < j - 1 /\ p[i] = q[i]
        BY <1>3, <2>1, <2>5, <3>3
      <4>2. QED
        BY <1>6, <3>1, <4>1
    <3>4. CASE i > k + 1
      <4>1. i - 1 \in 1 .. Len(q) /\ i - 1 < j - 1 /\ p[i] = q[i - 1]
        BY <1>3, <1>12, <2>1, <3>4
      <4>2. QED
        BY <1>6, <3>1, <4>1
    <3>5. QED
      BY <2>1, <3>2, <3>3, <3>4
  <2>6. QED
    BY <2>1, <2>3, <2>4, <2>5
<1>13. KeyList(rb', p)
  BY <1>10, <1>12 DEF KeyList
<1>14. QED
  BY <1>13 DEF ClientInv

LEMMA ClientRemoves ==
    ASSUME NEW q, KeyList(rb, q), NEW n \in RbNode, RbRemove(n)
    PROVE  ClientInv'
<1>1. Lists(rb, RbNode, q) /\ q \in Seq(RbNode) /\ NULL \notin RbNode /\ IsFiniteSet(RbNode)
  BY RbNodeAssumption DEF KeyList, Lists
<1>2. \A m \in RbNode \ ToSet(q) : rb.par[m] = m
  BY <1>1, ListWalks DEF Walks
<1>3. Len(q) \in Nat /\ DOMAIN q = 1 .. Len(q)
  BY <1>1
<1>4. PICK i \in 1 .. Len(q) : q[i] = n
  <2>1. n \in ToSet(q)
    BY <1>2 DEF RbRemove, InTree
  <2>2. QED
    BY <1>3, <2>1 DEF ToSet
<1>p. PICK p : p = RemoveAt(q, i)
  OBVIOUS
<1>5. rb' = Forget(RbErase(rb, q[i]), q[i])
  BY <1>4 DEF RbRemove
<1>6. Lists(rb', RbNode, p)
  BY <1>1, <1>5, <1>p, ListErases
<1>7. /\ p \in Seq(RbNode) /\ DOMAIN p = 1 .. Len(q) - 1
      /\ \A j \in 1 .. Len(q) - 1 : p[j] = q[IF j < i THEN j ELSE j + 1]
  BY <1>1, <1>3, <1>p, RemovePlaces
<1>8. Len(p) = Len(q) - 1
  <2>1. Len(p) \in Nat /\ DOMAIN p = 1 .. Len(p)
    BY <1>7
  <2>2. Len(q) - 1 \in Nat
    BY <1>3, <1>4
  <2>3. QED
    BY <1>7, <2>1, <2>2
<1>9. \A j, k \in 1 .. Len(q) : j < k => RbKey[q[j]] < RbKey[q[k]]
  BY DEF KeyList
<1>10. ASSUME NEW j \in 1 .. Len(p), NEW k \in 1 .. Len(p), j < k
       PROVE  RbKey[p[j]] < RbKey[p[k]]
  <2>1. PICK a \in 1 .. Len(q) : a = (IF j < i THEN j ELSE j + 1) /\ p[j] = q[a]
    BY <1>3, <1>7, <1>8
  <2>2. PICK b \in 1 .. Len(q) : b = (IF k < i THEN k ELSE k + 1) /\ p[k] = q[b]
    BY <1>3, <1>7, <1>8
  <2>3. a < b
    BY <1>3, <1>4, <1>10, <2>1, <2>2
  <2>4. QED
    BY <1>9, <2>1, <2>2, <2>3
<1>11. KeyList(rb', p)
  BY <1>6, <1>10 DEF KeyList
<1>12. QED
  BY <1>11 DEF ClientInv

LEMMA ClientSwaps ==
    ASSUME NEW q, KeyList(rb, q), NEW v \in RbNode, NEW n \in RbNode, RbSwap(v, n)
    PROVE  ClientInv'
<1>1. Lists(rb, RbNode, q) /\ q \in Seq(RbNode) /\ NULL \notin RbNode /\ IsFiniteSet(RbNode)
  BY RbNodeAssumption DEF KeyList, Lists
<1>2. /\ \A m \in RbNode \ ToSet(q) : rb.par[m] = m
      /\ \A m \in ToSet(q) : rb.par[m] # m
  BY <1>1, ListWalks DEF Walks
<1>3. Len(q) \in Nat /\ DOMAIN q = 1 .. Len(q)
  BY <1>1
<1>4. PICK i \in 1 .. Len(q) : q[i] = v
  <2>1. v \in ToSet(q)
    BY <1>2 DEF RbSwap, InTree
  <2>2. QED
    BY <1>3, <2>1 DEF ToSet
<1>5. n \in RbNode \ ToSet(q) /\ RbKey[v] = RbKey[n]
  BY <1>2 DEF RbSwap, InTree
<1>p. PICK p : p = [q EXCEPT ![i] = n]
  OBVIOUS
<1>6. rb' = Forget(RbReplace(rb, q[i], n), q[i])
  BY <1>4 DEF RbSwap
<1>7. Lists(rb', RbNode, p)
  BY <1>1, <1>5, <1>6, <1>p, ListReplaces
<1>8. Len(p) = Len(q) /\ \A j \in 1 .. Len(q) : RbKey[p[j]] = RbKey[q[j]]
  BY <1>1, <1>3, <1>4, <1>5, <1>p
<1>9. KeyList(rb', p)
  BY <1>7, <1>8 DEF KeyList
<1>10. QED
  BY <1>9 DEF ClientInv

LEMMA ClientTreeFollows ==
    ASSUME ClientInv
    PROVE  ClientTree
<1>1. PICK q : KeyList(rb, q)
  BY DEF ClientInv
<1>2. Lists(rb, RbNode, q) /\ q \in Seq(RbNode) /\ NULL \notin RbNode /\ IsFiniteSet(RbNode)
  BY <1>1, RbNodeAssumption DEF KeyList, Lists
<1>3. RedBlack(rb)
  BY <1>2, GoodIsRedBlack DEF Lists
<1>4. InOrder(rb) = q
  BY <1>2, InOrderIs
<1>5. Walks(rb, RbNode, q)
  BY <1>2, ListWalks
<1>6. Len(q) \in Nat /\ DOMAIN q = 1 .. Len(q) /\ ToSet(q) \subseteq RbNode
  BY <1>2 DEF ToSet
<1>7. \A i \in 1 .. Len(q) - 1 : RbKey[q[i]] < RbKey[q[i + 1]] /\ RbPrev(rb, q[i + 1]) = q[i]
  <2>1. ASSUME NEW i \in 1 .. Len(q) - 1
        PROVE  RbKey[q[i]] < RbKey[q[i + 1]] /\ RbPrev(rb, q[i + 1]) = q[i]
    <3>1. PICK j \in 1 .. Len(q) : j = i + 1 /\ j # 1 /\ j - 1 = i /\ i \in 1 .. Len(q) /\ i < j
      BY <1>6
    <3>2. RbPrev(rb, q[j]) = q[j - 1]
      BY <1>5, <3>1 DEF Walks
    <3>3. RbKey[q[i]] < RbKey[q[j]]
      BY <1>1, <3>1 DEF KeyList
    <3>4. QED
      BY <3>1, <3>2, <3>3
  <2>2. QED
    BY <2>1
<1>8. ToSet(q) = {n \in RbNode : InTree(n)}
  <2>1. /\ \A n \in RbNode \ ToSet(q) : rb.par[n] = n
        /\ \A n \in ToSet(q) : rb.par[n] # n
    BY <1>5 DEF Walks
  <2>2. QED
    BY <1>6, <2>1 DEF InTree
<1>9. q # <<>> => q[Len(q)] = RbLast(rb) /\ RbPrev(rb, q[1]) = NULL
  <2>1. SUFFICES ASSUME q # <<>> PROVE q[Len(q)] = RbLast(rb) /\ RbPrev(rb, q[1]) = NULL
    OBVIOUS
  <2>2. Len(q) # 0 /\ 1 \in 1 .. Len(q)
    BY <1>2, <1>6, <2>1
  <2>3. QED
    BY <1>5, <2>2 DEF Walks
<1>10. Sorted(rb)
  BY <1>4, <1>7, <1>8, <1>9 DEF Sorted
<1>11. QED
  BY <1>3, <1>10 DEF ClientTree

\* Whatever the client inserts, erases and replaces, and however the tree
\* rebalances: it stays a red-black tree whose walks visit exactly its nodes in
\* order of their keys, forwards with rb_next and backwards with rb_prev.
THEOREM ClientTreeHolds == RbInit /\ [][RbClientNext]_rbVars => []ClientTree
<1>1. RbInit => ClientInv
  <2>1. SUFFICES ASSUME RbInit PROVE ClientInv
    OBVIOUS
  <2>2. Lists(rb, RbNode, <<>>)
    <3>1. NULL \notin RbNode
      BY RbNodeAssumption
    <3>2. Lists(EmptyTree(RbNode), RbNode, <<>>)
      BY <3>1, EmptyLists
    <3>3. QED
      BY <2>1, <3>2 DEF RbInit
  <2>3. KeyList(rb, <<>>)
    BY <2>2 DEF KeyList
  <2>4. QED
    BY <2>3 DEF ClientInv
<1>2. ClientInv /\ [RbClientNext]_rbVars => ClientInv'
  <2>1. SUFFICES ASSUME ClientInv, [RbClientNext]_rbVars PROVE ClientInv'
    OBVIOUS
  <2>2. PICK q : KeyList(rb, q)
    BY <2>1 DEF ClientInv
  <2>3. CASE UNCHANGED rbVars
    BY <2>1, <2>3 DEF ClientInv, rbVars
  <2>4. CASE RbClientNext
    <3>1. PICK n \in RbNode : RbInsert(n) \/ RbRemove(n) \/ \E v \in RbNode : RbSwap(v, n)
      BY <2>4 DEF RbClientNext
    <3>2. CASE RbInsert(n)
      BY <2>2, <3>2, ClientInserts
    <3>3. CASE RbRemove(n)
      BY <2>2, <3>3, ClientRemoves
    <3>4. CASE \E v \in RbNode : RbSwap(v, n)
      BY <2>2, <3>4, ClientSwaps
    <3>5. QED
      BY <3>1, <3>2, <3>3, <3>4
  <2>5. QED
    BY <2>1, <2>3, <2>4
<1>3. ClientInv => ClientTree
  BY ClientTreeFollows
<1>4. QED
  BY <1>1, <1>2, <1>3, PTL

-----------------------------------------------------------------------------
(* The values of an augmented tree                                           *)

LEMMA SizeSplits ==
    ASSUME NEW N, NULL \notin N, IsFiniteSet(N), NEW t, NEW sub, Tree(t, N, sub),
           NEW X, X = sub[t.root], NEW m \in X,
           NEW l, l = t.kid["L"][m], NEW r, r = t.kid["R"][m]
    PROVE  /\ Cardinality(sub[m]) = 1 + Cardinality(sub[l]) + Cardinality(sub[r])
           /\ Cardinality(sub[l]) \in Nat /\ Cardinality(sub[r]) \in Nat /\ Cardinality(sub[m]) \in Nat
<1>1. "L" \in Side /\ "R" \in Side /\ Other("L") = "R"
  BY DEF Side, Other
<1>2. /\ sub[m] = {m} \cup sub[l] \cup sub[r] /\ m \notin sub[l] /\ m \notin sub[r]
      /\ sub[l] \cap sub[r] = {}
  <2>1. Splits(t, sub, m, "L")
    BY <1>1 DEF Tree
  <2>2. QED
    BY <1>1, <2>1 DEF Splits
<1>3. m \in N /\ l \in N \cup {NULL} /\ r \in N \cup {NULL}
  <2>1. m \in N /\ t \in TreeOn(N)
    BY OneParent
  <2>2. QED
    BY <1>1, <2>1, KidType
<1>4. IsFiniteSet(sub[l]) /\ IsFiniteSet(sub[r])
  <2>1. sub[l] \subseteq N /\ sub[r] \subseteq N
    BY <1>3 DEF Tree
  <2>2. QED
    BY <2>1, FS_Subset
<1>A. PICK A : A = sub[l] \cup sub[r]
  OBVIOUS
<1>5. IsFiniteSet(A) /\ Cardinality(A) = Cardinality(sub[l]) + Cardinality(sub[r]) - Cardinality({})
  BY <1>2, <1>4, <1>A, FS_Union
<1>6. Cardinality({}) = 0
  BY FS_EmptySet
<1>7. IsFiniteSet(A \cup {m}) /\ Cardinality(A \cup {m}) = Cardinality(A) + 1
  BY <1>2, <1>5, <1>A, FS_AddElement
<1>8. sub[m] = A \cup {m}
  BY <1>2, <1>A
<1>9. /\ Cardinality(sub[l]) \in Nat /\ Cardinality(sub[r]) \in Nat
      /\ Cardinality(sub[m]) \in Nat
  BY <1>4, <1>7, <1>8, FS_CardinalityType
<1>10. QED
  BY <1>5, <1>6, <1>7, <1>8, <1>9

\* z is right at k
SizedAt(sub, z, k) == z[k] = Cardinality(sub[k])

LEMMA FuncIs ==
    ASSUME NEW N, NULL \notin N, IsFiniteSet(N), NEW t, NEW sub, Tree(t, N, sub),
           NEW X, X = sub[t.root], NEW m \in X, NEW z \in [N -> Nat],
           \A e \in Side : t.kid[e][m] # NULL => SizedAt(sub, z, t.kid[e][m]),
           NEW w, w = Func(t, z, m)
    PROVE  w \in [N -> Nat] /\ SizedAt(sub, w, m) /\ \A k \in N : k # m => w[k] = z[k]
<1>l. PICK l : l = t.kid["L"][m]
  OBVIOUS
<1>r. PICK r : r = t.kid["R"][m]
  OBVIOUS
<1>1. m \in N /\ m # NULL /\ sub[NULL] = {} /\ "L" \in Side /\ "R" \in Side
  <2>1. m \in N /\ m # NULL
    BY OneParent
  <2>2. QED
    BY <2>1 DEF Tree, Side
<1>2. /\ Cardinality(sub[m]) = 1 + Cardinality(sub[l]) + Cardinality(sub[r])
      /\ Cardinality(sub[l]) \in Nat /\ Cardinality(sub[r]) \in Nat /\ Cardinality(sub[m]) \in Nat
  BY <1>l, <1>r, SizeSplits
<1>3. SizeOf(z, l) = Cardinality(sub[l])
  BY <1>1, <1>l, FS_EmptySet DEF SizedAt, SizeOf
<1>4. SizeOf(z, r) = Cardinality(sub[r])
  BY <1>1, <1>r, FS_EmptySet DEF SizedAt, SizeOf
<1>5. w = [z EXCEPT ![m] = 1 + SizeOf(z, l) + SizeOf(z, r)]
  BY <1>1, <1>l, <1>r DEF Func
<1>6. w = [z EXCEPT ![m] = Cardinality(sub[m])]
  BY <1>2, <1>3, <1>4, <1>5
<1>7. QED
  BY <1>1, <1>2, <1>6 DEF SizedAt

\* The children of a node that has d in neither of their subtrees
LEMMA KidsUncovered ==
    ASSUME NEW N, NULL \notin N, NEW t, NEW sub, Tree(t, N, sub),
           NEW X, X = sub[t.root], NEW m \in X, NEW d, \A e \in Side : d \notin sub[t.kid[e][m]],
           NEW e \in Side, t.kid[e][m] # NULL
    PROVE  t.kid[e][m] \in X /\ ~Covers(t, X, sub, d, t.kid[e][m])
<1>k. PICK k : k = t.kid[e][m]
  OBVIOUS
<1>1. k \in X /\ t.par[k] = m /\ k # NULL
  BY <1>k DEF Tree, Agrees
<1>2. \A p \in X, s \in Side : k = t.kid[s][p] => p = m
  <2>1. \A p \in X, s \in Side : t.kid[s][p] # NULL => t.par[t.kid[s][p]] = p
    BY DEF Tree, Agrees
  <2>2. QED
    BY <1>1, <2>1
<1>3. d \notin sub[k]
  BY <1>k
<1>4. ASSUME NEW p \in X, NEW s \in Side, k = t.kid[s][p] PROVE d \notin sub[t.kid[Other(s)][p]]
  <2>1. p = m /\ Other(s) \in Side
    BY <1>2, <1>4, TwoSides
  <2>2. QED
    BY <2>1
<1>5. ~Covers(t, X, sub, d, k)
  BY <1>3, <1>4 DEF Covers
<1>6. QED
  BY <1>1, <1>5, <1>k

\* z is right everywhere but where d covers
Sized(t, N, sub, X, z, d) ==
    /\ d \in X \cup {NULL} /\ z \in [N -> Nat]
    /\ \A m \in X : SizedAt(sub, z, m) \/ Covers(t, X, sub, d, m)

\* p covers what a child of it covers, but for the child and its sibling
LEMMA CoversHigher ==
    ASSUME NEW N, NULL \notin N, IsFiniteSet(N), NEW t, NEW sub, Tree(t, N, sub),
           NEW X, X = sub[t.root], NEW a \in X, NEW p, p = t.par[a],
           NEW m \in X, Covers(t, X, sub, a, m), m # a, m # Sibling(t, a)
    PROVE  Covers(t, X, sub, p, m)
<1>1. \A n \in X : a \in sub[n] /\ a # n => p \in sub[n]
  BY ParentBelow
<1>2. \A n \in X, s \in Side : t.kid[s][n] # NULL => t.kid[s][n] \in X /\ t.par[t.kid[s][n]] = n
  BY DEF Tree, Agrees
<1>3. sub[NULL] = {} /\ NULL \notin X
  <2>1. X \subseteq N
    BY OneParent
  <2>2. QED
    BY <2>1 DEF Tree
<1>4. CASE a \in sub[m]
  BY <1>1, <1>4 DEF Covers
<1>5. CASE a \notin sub[m]
  <2>1. PICK q \in X, s \in Side : m = t.kid[s][q] /\ a \in sub[t.kid[Other(s)][q]]
    BY <1>5 DEF Covers
  <2>2. PICK e \in Side : e = Other(s) /\ s # e
    BY TwoSides
  <2>o. PICK o : o = t.kid[e][q]
    OBVIOUS
  <2>3. o \in X /\ a \in sub[o]
    BY <1>2, <1>3, <2>1, <2>2, <2>o
  <2>4. CASE o # a
    <3>1. p \in sub[t.kid[Other(s)][q]]
      BY <1>1, <2>2, <2>3, <2>4, <2>o
    <3>2. QED
      BY <2>1, <3>1 DEF Covers
  <2>5. CASE o = a
    <3>1. p = q /\ q # NULL /\ m # NULL
      BY <1>2, <1>3, <2>3, <2>5, <2>o
    <3>2. (s = "L" /\ e = "R") \/ (s = "R" /\ e = "L")
      BY <2>2 DEF Side
    <3>3. Sibling(t, a) = m
      BY <2>1, <2>5, <2>o, <3>1, <3>2 DEF Sibling
    <3>4. QED
      BY <3>3
  <2>6. QED
    BY <2>4, <2>5
<1>6. QED
  BY <1>4, <1>5

LEMMA AugmentTurns ==
    ASSUME NEW N, NULL \notin N, IsFiniteSet(N), NEW t, NEW sub, Tree(t, N, sub),
           NEW X, X = sub[t.root], NEW a \in X, NEW z, Sized(t, N, sub, X, z, a),
           NEW w, w = Func(t, Func(t, z, a), Sibling(t, a)), NEW p, p = t.par[a]
    PROVE  Sized(t, N, sub, X, w, p) /\ \A m \in N \ X : w[m] = z[m]
<1>b. PICK b : b = Sibling(t, a)
  OBVIOUS
<1>y. PICK y : y = Func(t, z, a)
  OBVIOUS
<1>1. /\ X \subseteq N /\ NULL \notin X /\ sub[NULL] = {}
      /\ \A n \in X, s \in Side : t.kid[s][n] # NULL => t.kid[s][n] \in X /\ t.par[t.kid[s][n]] = n
  <2>1. X \subseteq N
    BY OneParent
  <2>2. QED
    BY <2>1 DEF Tree, Agrees
<1>2. z \in [N -> Nat] /\ \A m \in X : SizedAt(sub, z, m) \/ Covers(t, X, sub, a, m)
  BY DEF Sized
<1>3. ASSUME NEW m \in X, \A e \in Side : a \notin sub[t.kid[e][m]]
      PROVE  \A e \in Side : t.kid[e][m] # NULL => SizedAt(sub, z, t.kid[e][m])
  <2>1. ASSUME NEW e \in Side, t.kid[e][m] # NULL PROVE SizedAt(sub, z, t.kid[e][m])
    <3>1. t.kid[e][m] \in X /\ ~Covers(t, X, sub, a, t.kid[e][m])
      BY <1>3, <2>1, KidsUncovered
    <3>2. QED
      BY <1>2, <3>1
  <2>2. QED
    BY <2>1
<1>4. \A e \in Side : a \notin sub[t.kid[e][a]] /\ t.kid[e][a] # a
  <2>1. ASSUME NEW e \in Side PROVE a \notin sub[t.kid[e][a]] /\ t.kid[e][a] # a
    <3>1. Splits(t, sub, a, e)
      BY DEF Tree
    <3>2. QED
      BY <3>1 DEF Splits
  <2>2. QED
    BY <2>1
<1>5. y \in [N -> Nat] /\ SizedAt(sub, y, a) /\ \A k \in N : k # a => y[k] = z[k]
  BY <1>2, <1>3, <1>4, <1>y, FuncIs
<1>6. p \in X \cup {NULL}
  <2>1. a = t.root => p = NULL
    BY OneParent
  <2>2. a # t.root => p \in X
    BY DEF Tree, Agrees
  <2>3. QED
    BY <2>1, <2>2
<1>7. CASE b = NULL
  <2>1. w = y
    BY <1>7, <1>b, <1>y DEF Func
  <2>2. ASSUME NEW m \in X PROVE SizedAt(sub, w, m) \/ Covers(t, X, sub, p, m)
    <3>1. CASE m = a
      BY <1>5, <2>1, <3>1
    <3>2. CASE m # a /\ Covers(t, X, sub, a, m)
      BY <1>1, <1>7, <1>b, <3>2, CoversHigher
    <3>3. CASE m # a /\ SizedAt(sub, z, m)
      BY <1>1, <1>5, <2>1, <3>3 DEF SizedAt
    <3>4. QED
      BY <1>2, <3>1, <3>2, <3>3
  <2>3. QED
    BY <1>5, <1>6, <2>1, <2>2 DEF Sized
<1>8. CASE b # NULL
  <2>1. b \in X /\ \A e \in Side : a \notin sub[t.kid[e][b]]
    <3>1. p \in X
      BY <1>6, <1>8, <1>b, SMTT(30) DEF Sibling
    <3>2. PICK s \in Side : b = t.kid[s][p]
      BY <1>8, <1>b, <3>1, <1>1 DEF Sibling, Side
    <3>3. b \in X
      BY <1>1, <1>8, <3>1, <3>2
    <3>4. CASE b = a
      BY <1>4, <3>3, <3>4
    <3>5. CASE b # a
      <4>1. \E f \in Side : a = t.kid[f][p]
        <5>1. a # t.root
          BY <1>1, <3>1, OneParent
        <5>2. QED
          BY <5>1 DEF Tree, Agrees
      <4>2. a = t.kid[Other(s)][p] /\ Other(s) \in Side
        <5>1. PICK f \in Side : a = t.kid[f][p]
          BY <4>1
        <5>2. f # s
          BY <3>2, <3>5, <5>1
        <5>3. f = Other(s)
          BY <5>2, TwoSides
        <5>4. QED
          BY <5>1, <5>3
      <4>3. sub[b] \cap sub[a] = {}
        <5>1. Splits(t, sub, p, s)
          BY <3>1 DEF Tree
        <5>2. QED
          BY <3>2, <4>2, <5>1 DEF Splits
      <4>4. a \in sub[a]
        <5>1. Splits(t, sub, a, s)
          BY DEF Tree
        <5>2. QED
          BY <5>1 DEF Splits
      <4>5. ASSUME NEW e \in Side PROVE sub[t.kid[e][b]] \subseteq sub[b]
        <5>1. Splits(t, sub, b, e)
          BY <3>3 DEF Tree
        <5>2. QED
          BY <5>1 DEF Splits
      <4>6. QED
        BY <3>3, <4>3, <4>4, <4>5
    <3>6. QED
      BY <3>4, <3>5
  <2>2. \A e \in Side : t.kid[e][b] # NULL => SizedAt(sub, z, t.kid[e][b])
    BY <1>3, <2>1
  <2>3. ASSUME NEW e \in Side, t.kid[e][b] # NULL PROVE SizedAt(sub, y, t.kid[e][b])
    <3>1. t.kid[e][b] \in X
      BY <1>1, <2>1, <2>3
    <3>2. CASE t.kid[e][b] = a
      BY <1>5, <3>2
    <3>3. CASE t.kid[e][b] # a
      BY <1>1, <1>5, <2>2, <2>3, <3>1, <3>3 DEF SizedAt
    <3>4. QED
      BY <3>2, <3>3
  <2>4. w \in [N -> Nat] /\ SizedAt(sub, w, b) /\ \A k \in N : k # b => w[k] = y[k]
    <3>1. w = Func(t, y, b)
      BY <1>b, <1>y
    <3>2. QED
      BY <1>5, <2>1, <2>3, <3>1, FuncIs
  <2>5. ASSUME NEW m \in X PROVE SizedAt(sub, w, m) \/ Covers(t, X, sub, p, m)
    <3>1. CASE m = b
      BY <2>4, <3>1
    <3>2. CASE m = a /\ m # b
      BY <1>1, <1>5, <2>4, <3>2 DEF SizedAt
    <3>3. CASE m # a /\ m # b /\ Covers(t, X, sub, a, m)
      BY <1>b, <3>3, CoversHigher
    <3>4. CASE m # a /\ m # b /\ SizedAt(sub, z, m)
      BY <1>1, <1>5, <2>4, <3>4 DEF SizedAt
    <3>5. QED
      BY <1>2, <3>1, <3>2, <3>3, <3>4
  <2>6. \A m \in N \ X : w[m] = z[m]
    BY <1>5, <2>1, <2>4
  <2>7. QED
    BY <1>6, <2>4, <2>5, <2>6 DEF Sized
<1>9. QED
  BY <1>7, <1>8

\* x is a moment of the loop of rb_augment_path that has i turns behind it
AugmentAt(x, t, N, sub, X, sz, i) ==
    \E a, z : /\ x = [node |-> a, size |-> z] /\ Sized(t, N, sub, X, z, a)
              /\ \A m \in N \ X : z[m] = sz[m]
              /\ a # NULL => Cardinality(sub[a]) > i

LEMMA AugmentAtNext ==
    ASSUME NEW N, NULL \notin N, IsFiniteSet(N), NEW t, NEW sub, Tree(t, N, sub),
           NEW X, X = sub[t.root], NEW sz, NEW i \in Nat, NEW x, AugmentAt(x, t, N, sub, X, sz, i),
           NEW j, j = i + 1
    PROVE  AugmentAt(AugmentTurn(t, x), t, N, sub, X, sz, j)
<1>1. PICK a, z : /\ x = [node |-> a, size |-> z] /\ Sized(t, N, sub, X, z, a)
                  /\ \A m \in N \ X : z[m] = sz[m]
                  /\ a # NULL => Cardinality(sub[a]) > i
  BY DEF AugmentAt
<1>2. x.node = a /\ x.size = z
  BY <1>1
<1>3. CASE a = NULL
  <2>1. AugmentTurn(t, x) = x
    BY <1>2, <1>3 DEF AugmentTurn
  <2>2. AugmentAt(x, t, N, sub, X, sz, j)
    BY <1>1, <1>3 DEF AugmentAt
  <2>3. QED
    BY <2>1, <2>2
<1>4. CASE a # NULL
  <2>p. PICK p : p = t.par[a]
    OBVIOUS
  <2>w. PICK w : w = Func(t, Func(t, z, a), Sibling(t, a))
    OBVIOUS
  <2>1. AugmentTurn(t, x) = [node |-> p, size |-> w]
    BY <1>2, <1>4, <2>p, <2>w DEF AugmentTurn
  <2>2. a \in X
    BY <1>1, <1>4 DEF Sized
  <2>3. Sized(t, N, sub, X, w, p) /\ \A m \in N \ X : w[m] = z[m]
    BY <1>1, <2>2, <2>p, <2>w, AugmentTurns
  <2>4. \A m \in N \ X : w[m] = sz[m]
    BY <1>1, <2>3
  <2>5. ASSUME p # NULL PROVE Cardinality(sub[p]) > j
    <3>1. p \in X /\ p \in sub[t.root]
      BY <2>3, <2>5 DEF Sized
    <3>2. \E s \in Side : t.kid[s][p] = a
      <4>1. a # t.root
        BY <2>2, <2>5, <2>p, OneParent
      <4>2. QED
        BY <2>2, <2>p, <4>1 DEF Tree, Agrees
    <3>3. PICK s \in Side : a = t.kid[s][p]
      BY <3>2
    <3>4. Cardinality(sub[a]) < Cardinality(sub[p])
      BY <1>4, <3>1, <3>3, KidSmaller
    <3>5. Cardinality(sub[a]) \in Nat /\ Cardinality(sub[p]) \in Nat
      <4>1. \A m \in X : Cardinality(sub[m]) \in Nat
        BY SizeSplits
      <4>2. QED
        BY <2>2, <3>1, <4>1
    <3>6. Cardinality(sub[a]) > i
      BY <1>1, <1>4
    <3>7. QED
      BY <3>4, <3>5, <3>6
  <2>6. QED
    BY <2>1, <2>3, <2>4, <2>5 DEF AugmentAt
<1>5. QED
  BY <1>3, <1>4

\* rb_augment_path makes right what is below d or beside the way up from d.
LEMMA AugmentsRight ==
    ASSUME NEW N, NULL \notin N, IsFiniteSet(N), NEW t, NEW sub, Tree(t, N, sub),
           NEW X, X = sub[t.root], NEW sz, NEW d, Sized(t, N, sub, X, sz, d)
    PROVE  /\ AugmentPath(t, sz, d) \in [N -> Nat]
           /\ \A m \in X : SizedAt(sub, AugmentPath(t, sz, d), m)
           /\ \A m \in N \ X : AugmentPath(t, sz, d)[m] = sz[m]
<1>x. PICK x : x = [node |-> d, size |-> sz]
  OBVIOUS
<1> DEFINE loop[i \in Nat] == IF i = 0 THEN x ELSE AugmentTurn(t, loop[i - 1])
           end == loop[Cardinality(DOMAIN t.par)]
<1>1. AugmentPath(t, sz, d) = end.size
  BY <1>x DEF AugmentPath
<1> DEFINE Q == {y \in [node : N \cup {NULL}, size : [N -> Nat]] :
                     \E i \in Nat : AugmentAt(y, t, N, sub, X, sz, i)}
           F == [y \in Q |-> AugmentTurn(t, y)]
<1>2. ASSUME NEW y, NEW i \in Nat, AugmentAt(y, t, N, sub, X, sz, i) PROVE y \in Q
  <2>1. PICK a, z : y = [node |-> a, size |-> z] /\ Sized(t, N, sub, X, z, a)
    BY <1>2 DEF AugmentAt
  <2>2. X \subseteq N
    BY KidType DEF Tree
  <2>3. a \in N \cup {NULL} /\ z \in [N -> Nat]
    BY <2>1, <2>2 DEF Sized
  <2>4. QED
    BY <1>2, <2>1, <2>3
<1>3. AugmentAt(x, t, N, sub, X, sz, 0)
  <2>1. d # NULL => Cardinality(sub[d]) > 0
    <3>1. \A m \in X : /\ Cardinality(sub[m]) = 1 + Cardinality(sub[t.kid["L"][m]]) + Cardinality(sub[t.kid["R"][m]])
                       /\ Cardinality(sub[t.kid["L"][m]]) \in Nat /\ Cardinality(sub[t.kid["R"][m]]) \in Nat
      BY SizeSplits
    <3>2. d # NULL => d \in X
      BY DEF Sized
    <3>3. QED
      BY <3>1, <3>2
  <2>2. QED
    BY <1>x, <2>1 DEF AugmentAt
<1>4. x \in Q
  BY <1>2, <1>3
<1>5. F \in [Q -> Q]
  <2>1. ASSUME NEW y \in Q PROVE AugmentTurn(t, y) \in Q
    <3>1. PICK i \in Nat : AugmentAt(y, t, N, sub, X, sz, i)
      OBVIOUS
    <3>2. PICK j \in Nat : j = i + 1
      OBVIOUS
    <3>3. AugmentAt(AugmentTurn(t, y), t, N, sub, X, sz, j)
      BY <3>1, <3>2, AugmentAtNext
    <3>4. QED
      BY <1>2, <3>3
  <2>2. QED
    BY <2>1
<1>f. \A y \in Q : F[y] = AugmentTurn(t, y)
  OBVIOUS
<1> HIDE DEF Q, F
<1>6. \E f : f = [i \in Nat |-> IF i = 0 THEN x ELSE AugmentTurn(t, f[i - 1])]
  <2>0. PICK f : Iterates(f, Q, F, x)
    BY <1>4, <1>5, Iteration
  <2>1. f \in [Nat -> Q] /\ f[0] = x /\ \A i \in Nat : f[i + 1] = F[f[i]]
    BY <2>0 DEF Iterates
  <2>2. ASSUME NEW i \in Nat PROVE f[i] = IF i = 0 THEN x ELSE AugmentTurn(t, f[i - 1])
    <3>1. CASE i = 0
      BY <2>1, <3>1
    <3>2. CASE i # 0
      <4>1. i - 1 \in Nat /\ (i - 1) + 1 = i
        BY <3>2
      <4>2. f[i] = F[f[i - 1]] /\ f[i - 1] \in Q
        BY <2>1, <4>1
      <4>3. QED
        BY <1>f, <3>2, <4>2
    <3>3. QED
      BY <3>1, <3>2
  <2>3. f = [i \in Nat |-> IF i = 0 THEN x ELSE AugmentTurn(t, f[i - 1])]
    BY <2>1, <2>2
  <2>4. QED
    BY <2>3
<1>7. loop = [i \in Nat |-> IF i = 0 THEN x ELSE AugmentTurn(t, loop[i - 1])]
  BY <1>6
<1> HIDE DEF loop
<1>8. ASSUME NEW k \in Nat PROVE AugmentAt(loop[k], t, N, sub, X, sz, k)
  <2> DEFINE Bad == {i \in Nat : ~ AugmentAt(loop[i], t, N, sub, X, sz, i)}
  <2>1. SUFFICES ASSUME Bad # {} PROVE FALSE
    OBVIOUS
  <2>2. PICK i \in Bad : \A j \in Bad : i <= j
    BY <2>1, Least
  <2>3. i # 0
    BY <1>3, <1>7, <2>2
  <2>4. PICK h \in Nat : h = i - 1 /\ i = h + 1 /\ i \in Nat /\ h < i
    BY <2>2, <2>3
  <2>5. AugmentAt(loop[h], t, N, sub, X, sz, h)
    <3>1. h \notin Bad
      <4> HIDE DEF Bad
      <4>1. QED
        BY <2>2, <2>4
    <3>2. QED
      BY <2>4, <3>1
  <2>6. AugmentAt(AugmentTurn(t, loop[h]), t, N, sub, X, sz, i)
    BY <2>4, <2>5, AugmentAtNext
  <2>7. loop[i] = AugmentTurn(t, loop[h])
    BY <1>7, <2>3, <2>4
  <2>8. QED
    BY <2>2, <2>6, <2>7
<1>9. PICK k \in Nat : k = Cardinality(DOMAIN t.par) /\ k = Cardinality(N)
  <2>1. DOMAIN t.par = N
    BY KidType DEF Tree
  <2>2. QED
    BY <2>1, FS_CardinalityType
<1>10. PICK a, z : /\ loop[k] = [node |-> a, size |-> z] /\ Sized(t, N, sub, X, z, a)
                   /\ \A m \in N \ X : z[m] = sz[m]
                   /\ a # NULL => Cardinality(sub[a]) > k
  BY <1>8 DEF AugmentAt
<1>11. a = NULL
  <2> SUFFICES ASSUME a # NULL PROVE FALSE
    OBVIOUS
  <2>1. a \in X /\ X \subseteq N /\ sub[a] \subseteq N
    BY <1>10, KidType DEF Tree, Sized
  <2>2. Cardinality(sub[a]) <= Cardinality(N) /\ Cardinality(sub[a]) \in Nat
    BY <2>1, FS_Subset, FS_CardinalityType
  <2>3. QED
    BY <1>9, <1>10, <2>2
<1>12. ASSUME NEW m \in X PROVE SizedAt(sub, z, m)
  <2>1. \A n \in X : NULL \notin sub[n] /\ \A s \in Side : NULL \notin sub[t.kid[s][n]]
    <3>1. t \in TreeOn(N) /\ X \subseteq N /\ \A n \in N \cup {NULL} : sub[n] \subseteq N
      BY KidType DEF Tree
    <3>2. \A n \in X, s \in Side : t.kid[s][n] \in N \cup {NULL}
      BY <3>1, KidType
    <3>3. QED
      BY <3>1, <3>2
  <2>2. ~Covers(t, X, sub, a, m)
    <3>1. \A s \in Side : Other(s) \in Side
      BY TwoSides
    <3>2. QED
      BY <1>11, <2>1, <3>1 DEF Covers
  <2>3. QED
    BY <1>10, <2>2 DEF Sized
<1>13. AugmentPath(t, sz, d) = z /\ z \in [N -> Nat]
  <2>1. end.size = z
    BY <1>9, <1>10
  <2>2. QED
    BY <1>1, <1>10, <2>1 DEF Sized
<1>14. QED
  BY <1>10, <1>12, <1>13

\* sub: the nodes below each node of the client's tree t, sz: its sizes
Augments(t, sz, X, sub) ==
    /\ GoodAs(t, RbNode, RbNode \ X, X, RbKey, sub) /\ sz \in [RbNode -> Nat]
    /\ \A m \in X : SizedAt(sub, sz, m)
    /\ \A m \in RbNode \ X : sz[m] = 0
AugInv == \E X, sub : Augments(rb, size, X, sub)

LEMMA InTreeIs ==
    ASSUME NEW N, NULL \notin N, NEW t, NEW X, NEW v, NEW sub, GoodAs(t, N, N \ X, X, v, sub)
    PROVE  X \subseteq N /\ \A m \in N : t.par[m] # m <=> m \in X
<1>1. Tree(t, N, sub) /\ Rest(t, N \ X) /\ X = sub[t.root]
  BY DEF GoodAs, Whole
<1>2. X \subseteq N
  BY <1>1, KidType DEF Tree
<1>3. \A m \in N \ X : t.par[m] = m
  BY <1>1 DEF Rest
<1>4. ASSUME NEW m \in X PROVE t.par[m] # m
  <2>1. m \in N /\ m # NULL
    BY <1>2
  <2>2. CASE m = t.root
    BY <1>1, <2>1, <2>2, OneParent
  <2>3. CASE m # t.root
    <3>1. t.par[m] \in X /\ \E s \in Side : t.kid[s][t.par[m]] = m
      BY <1>1, <2>3 DEF Tree, Agrees
    <3>2. SUFFICES ASSUME t.par[m] = m PROVE FALSE
      OBVIOUS
    <3>3. PICK s \in Side : m = t.kid[s][m]
      BY <3>1, <3>2
    <3>4. m \in sub[t.root]
      BY <1>1
    <3>5. QED
      BY <1>1, <2>1, <3>3, <3>4, Family
  <2>4. QED
    BY <2>2, <2>3
<1>5. QED
  BY <1>2, <1>3, <1>4

\* What a new node and the rotations above it changed is below the node that
\* rb_augment_insert starts from, or beside its way up.
LEMMA InsertCovers ==
    ASSUME NEW N, NULL \notin N, IsFiniteSet(N), NEW u, NEW new, Tree(u, N, new),
           NEW X, X = new[u.root], NEW n \in X, NEW p, NEW sub,
           Stirs(u, X, Grown(N, sub, n, p), new, n), NEW d, d = AugmentInsert(u, n)
    PROVE  d \in X /\ \A m \in X : (m # n /\ new[m] = sub[m]) \/ Covers(u, X, new, d, m)
<1>l. PICK l : l = u.kid["L"][n]
  OBVIOUS
<1>r. PICK r : r = u.kid["R"][n]
  OBVIOUS
<1>1. "L" \in Side /\ "R" \in Side /\ Other("L") = "R" /\ Other("R") = "L" /\ \A e \in Side : e = "L" \/ e = "R"
  BY DEF Side, Other
<1>2. X \subseteq N /\ NULL \notin X
  <2>1. X \subseteq N
    BY OneParent
  <2>2. QED
    BY <2>1
<1>3. \A k \in X : k \in new[k]
  BY <1>1 DEF Tree, Splits
<1>4. \A k \in X : n \in new[k] => new[n] \subseteq new[k]
  BY Nested
<1>5. \A k \in X, e \in Side : u.kid[e][k] # NULL => u.kid[e][k] \in X
  BY DEF Tree, Agrees
<1>6. d \in X /\ d \in new[n]
  <2>1. new[n] = {n} \cup new[l] \cup new[r]
    <3>1. Splits(u, new, n, "L")
      BY <1>1 DEF Tree
    <3>2. QED
      BY <1>1, <1>l, <1>r, <3>1 DEF Splits
  <2>2. (l # NULL => l \in X) /\ (r # NULL => r \in X)
    BY <1>1, <1>5, <1>l, <1>r
  <2>3. (d = l /\ l # NULL) \/ (d = r /\ r # NULL) \/ d = n
    BY <1>l, <1>r DEF AugmentInsert
  <2>4. QED
    BY <1>3, <2>1, <2>2, <2>3
<1>7. \A k \in X : n \in new[k] => d \in new[k]
  BY <1>4, <1>6
<1>8. PICK top \in X : /\ n \in new[top]
                       /\ \A k \in X : \/ new[k] = Grown(N, sub, n, p)[k] \/ k = top
                                       \/ \E e \in Side : k = u.kid[e][top]
  BY DEF Stirs
<1>9. ASSUME NEW m \in X, new[m] = Grown(N, sub, n, p)[m]
      PROVE  (m # n /\ new[m] = sub[m]) \/ Covers(u, X, new, d, m)
  <2>1. Grown(N, sub, n, p)[m] = IF m = n THEN {n} ELSE IF p \in sub[m] THEN sub[m] \cup {n} ELSE sub[m]
    BY <1>2 DEF Grown
  <2>2. n \in new[m] \/ (m # n /\ new[m] = sub[m])
    BY <1>9, <2>1
  <2>3. QED
    BY <1>7, <2>2 DEF Covers
<1>10. Covers(u, X, new, d, top)
  BY <1>7, <1>8 DEF Covers
<1>11. ASSUME NEW m \in X, NEW e \in Side, m = u.kid[e][top] PROVE Covers(u, X, new, d, m)
  <2>f. PICK f \in Side : f = Other(e) /\ ((e = "L" /\ f = "R") \/ (e = "R" /\ f = "L"))
    BY <1>1
  <2>o. PICK o : o = u.kid[f][top]
    OBVIOUS
  <2>1. d \in new[o] => Covers(u, X, new, d, m)
    BY <1>11, <2>f, <2>o DEF Covers
  <2>2. CASE top = n
    <3>1. CASE e = "L"
      <4>1. m = l /\ d = l
        BY <1>2, <1>11, <1>l, <2>2, <3>1 DEF AugmentInsert
      <4>2. QED
        BY <1>3, <4>1 DEF Covers
    <3>2. CASE e = "R"
      <4>1. m = r /\ o = l /\ r # NULL
        BY <1>2, <1>11, <1>l, <1>r, <2>2, <2>f, <2>o, <3>2
      <4>2. d = IF l # NULL THEN l ELSE r
        BY <1>l, <1>r, <4>1 DEF AugmentInsert
      <4>3. l # NULL => l \in X
        BY <1>1, <1>5, <1>l
      <4>4. CASE l # NULL
        BY <1>3, <2>1, <4>1, <4>2, <4>3, <4>4
      <4>5. CASE l = NULL
        BY <1>3, <4>1, <4>2, <4>5 DEF Covers
      <4>6. QED
        BY <4>4, <4>5
    <3>3. QED
      BY <1>1, <3>1, <3>2
  <2>3. CASE top # n
    <3>1. new[top] = {top} \cup new[m] \cup new[o]
      <4>1. Splits(u, new, top, e)
        BY DEF Tree
      <4>2. QED
        BY <1>11, <2>f, <2>o, <4>1 DEF Splits
    <3>2. CASE n \in new[m]
      BY <1>7, <3>2 DEF Covers
    <3>3. CASE n \in new[o]
      <4>1. o # NULL
        BY <3>3 DEF Tree
      <4>2. o \in X
        BY <1>5, <2>o, <4>1
      <4>3. QED
        BY <1>7, <2>1, <3>3, <4>2
    <3>4. QED
      BY <1>8, <2>3, <3>1, <3>2, <3>3
  <2>4. QED
    BY <2>2, <2>3
<1>12. QED
  BY <1>6, <1>8, <1>9, <1>10, <1>11

LEMMA AugmentInits == ASSUME RbInit PROVE AugInv
<1>1. NULL \notin RbNode /\ rb = EmptyTree(RbNode) /\ size = [n \in RbNode |-> 0]
  BY RbNodeAssumption DEF RbInit
<1>2. Good(rb, RbNode, RbNode, {}, RbKey)
  BY <1>1, EmptyGood
<1>3. PICK sub : GoodAs(rb, RbNode, RbNode, {}, RbKey, sub)
  BY <1>2 DEF Good, GoodAs
<1>4. RbNode = RbNode \ {}
  OBVIOUS
<1>5. Augments(rb, size, {}, sub)
  BY <1>1, <1>3, <1>4 DEF Augments
<1>6. QED
  BY <1>5 DEF AugInv

LEMMA AugmentInserts ==
    ASSUME NEW X, NEW sub, Augments(rb, size, X, sub), NEW n \in RbNode, RbInsert(n)
    PROVE  AugInv'
<1>N. PICK N : N = RbNode
  OBVIOUS
<1>S. PICK S : S = N \ X
  OBVIOUS
<1>1. NULL \notin N /\ IsFiniteSet(N) /\ n \in N /\ \A m \in N : RbKey[m] \in Nat
  BY <1>N, RbNodeAssumption
<1>2. /\ GoodAs(rb, N, S, X, RbKey, sub) /\ size \in [N -> Nat]
      /\ \A m \in X : SizedAt(sub, size, m)
      /\ \A m \in N \ X : size[m] = 0
  BY <1>N, <1>S DEF Augments
<1>3. X \subseteq N /\ \A m \in N : rb.par[m] # m <=> m \in X
  BY <1>1, <1>2, <1>S, InTreeIs
<1>A. PICK A : A = {m \in RbNode : RbKey[n] < RbKey[m]}
  OBVIOUS
<1>u. PICK u : u = InsertSorted(rb, n, A)
  OBVIOUS
<1>4. /\ \A m \in N : m \in X => RbKey[m] # RbKey[n]
      /\ rb' = u /\ size' = AugmentPath(u, size, AugmentInsert(u, n))
  <2>1. \A m \in RbNode : InTree(m) => RbKey[m] # RbKey[n]
    BY DEF RbInsert
  <2>2. rb' = InsertSorted(rb, n, {m \in RbNode : RbKey[n] < RbKey[m]})
    BY DEF RbInsert
  <2>3. size' = AugmentPath(rb', size, AugmentInsert(rb', n))
    BY DEF RbInsert
  <2>4. rb' = u
    BY <2>2, <1>A, <1>u
  <2>5. QED
    BY <1>3, <1>N, <2>1, <2>3, <2>4 DEF InTree
<1>5. n \in S /\ RbKey[n] \in Nat /\ \A m \in X : RbKey[m] # RbKey[n] /\ (m \in A <=> RbKey[n] < RbKey[m])
  BY <1>1, <1>3, <1>4, <1>A, <1>N, <1>S
<1>Y. PICK Y : Y = X \cup {n}
  OBVIOUS
<1>T. PICK T : T = S \ {n} /\ T = N \ Y
  BY <1>S, <1>Y
<1>6. Inserted(InsertSorted(rb, n, A), N, T, Y, RbKey, sub, n)
  BY <1>1, <1>2, <1>5, <1>T, <1>Y, InsertStirs
<1>7. PICK p, new : GoodAs(u, N, T, Y, RbKey, new) /\ Stirs(u, Y, Grown(N, sub, n, p), new, n)
  BY <1>6, <1>u DEF Inserted
<1>d. PICK d : d = AugmentInsert(u, n)
  OBVIOUS
<1>8. d \in Y /\ \A m \in Y : (m # n /\ new[m] = sub[m]) \/ Covers(u, Y, new, d, m)
  <2>1. Tree(u, N, new) /\ Y = new[u.root] /\ n \in Y
    BY <1>7, <1>Y DEF GoodAs, Whole
  <2>2. QED
    BY <1>1, <1>7, <1>d, <2>1, InsertCovers
<1>9. Sized(u, N, new, Y, size, d)
  <2>1. ASSUME NEW m \in Y PROVE SizedAt(new, size, m) \/ Covers(u, Y, new, d, m)
    <3>1. CASE m # n /\ new[m] = sub[m]
      <4>1. SizedAt(sub, size, m)
        BY <1>2, <1>Y, <3>1
      <4>2. QED
        BY <3>1, <4>1 DEF SizedAt
    <3>2. QED
      BY <1>8, <3>1
  <2>2. QED
    BY <1>2, <1>8, <2>1 DEF Sized
<1>w. PICK w : w = AugmentPath(u, size, d)
  OBVIOUS
<1>10. /\ w \in [N -> Nat] /\ \A m \in Y : SizedAt(new, w, m)
       /\ \A m \in N \ Y : w[m] = size[m]
  <2>1. Tree(u, N, new) /\ Y = new[u.root]
    BY <1>7 DEF GoodAs, Whole
  <2>2. QED
    BY <1>1, <1>9, <1>w, <2>1, AugmentsRight
<1>11. \A m \in N \ Y : w[m] = 0
  BY <1>2, <1>10, <1>Y
<1>12. Augments(u, w, Y, new)
  BY <1>7, <1>10, <1>11, <1>N, <1>T DEF Augments
<1>13. rb' = u /\ size' = w
  BY <1>4, <1>d, <1>w
<1>14. \E Z, s : Augments(rb', size', Z, s)
  BY <1>12, <1>13
<1>15. QED
  BY <1>14 DEF AugInv

LEMMA AugmentRemoves ==
    ASSUME NEW X, NEW sub, Augments(rb, size, X, sub), NEW n \in RbNode, RbRemove(n)
    PROVE  AugInv'
<1>N. PICK N : N = RbNode
  OBVIOUS
<1>S. PICK S : S = N \ X
  OBVIOUS
<1>1. NULL \notin N /\ IsFiniteSet(N) /\ n \in N
  BY <1>N, RbNodeAssumption
<1>2. /\ GoodAs(rb, N, S, X, RbKey, sub) /\ size \in [N -> Nat]
      /\ \A m \in X : SizedAt(sub, size, m)
      /\ \A m \in N \ X : size[m] = 0
  BY <1>N, <1>S DEF Augments
<1>3. X \subseteq N /\ \A m \in N : rb.par[m] # m <=> m \in X
  BY <1>1, <1>2, <1>S, InTreeIs
<1>u. PICK u : u = RbErase(rb, n)
  OBVIOUS
<1>d. PICK d : d = Deepest(rb, n)
  OBVIOUS
<1>w. PICK w : w = AugmentPath(u, size, d)
  OBVIOUS
<1>4. rb' = Forget(u, n) /\ size' = [w EXCEPT ![n] = 0] /\ InTree(n)
  BY <1>d, <1>u, <1>w DEF RbRemove
<1>5. n \in X
  BY <1>1, <1>3, <1>4 DEF InTree
<1>Z. PICK Z : Z = X \ {n}
  OBVIOUS
<1>6. Erased(RbErase(rb, n), N, S, Z, RbKey, sub, d) /\ d \in Z \cup {NULL}
  BY <1>1, <1>2, <1>5, <1>Z, <1>d, ErasesAbove
<1>7. PICK new : GoodAs(u, N, S, Z, RbKey, new) /\ Tracks(u, Z, sub, new, d)
  BY <1>6, <1>u DEF Erased
<1>8. Sized(u, N, new, Z, size, d)
  <2>1. ASSUME NEW m \in Z PROVE SizedAt(new, size, m) \/ Covers(u, Z, new, d, m)
    <3>1. CASE new[m] = sub[m]
      <4>1. SizedAt(sub, size, m)
        BY <1>2, <1>Z
      <4>2. QED
        BY <3>1, <4>1 DEF SizedAt
    <3>2. QED
      BY <1>7, <3>1 DEF Tracks
  <2>2. QED
    BY <1>2, <1>6, <2>1 DEF Sized
<1>9. /\ w \in [N -> Nat] /\ \A m \in Z : SizedAt(new, w, m)
      /\ \A m \in N \ Z : w[m] = size[m]
  <2>1. Tree(u, N, new) /\ Z = new[u.root]
    BY <1>7 DEF GoodAs, Whole
  <2>2. QED
    BY <1>1, <1>8, <1>w, <2>1, AugmentsRight
<1>T. PICK T : T = S \cup {n} /\ T = N \ Z
  BY <1>1, <1>S, <1>Z
<1>10. GoodAs(Forget(u, n), N, T, Z, RbKey, new)
  <2>1. n \in N \ Z
    BY <1>1, <1>Z
  <2>2. QED
    BY <1>1, <1>7, <1>T, <2>1, ForgetsAs
<1>y. PICK y : y = [w EXCEPT ![n] = 0]
  OBVIOUS
<1>11. y \in [N -> Nat] /\ \A m \in N : y[m] = IF m = n THEN 0 ELSE w[m]
  BY <1>1, <1>9, <1>y
<1>12. ASSUME NEW m \in Z PROVE SizedAt(new, y, m)
  <2>1. m \in N /\ m # n
    BY <1>3, <1>Z
  <2>2. QED
    BY <1>9, <1>11, <2>1 DEF SizedAt
<1>13. \A m \in N \ Z : y[m] = 0
  BY <1>2, <1>9, <1>11, <1>Z
<1>14. Augments(Forget(u, n), y, Z, new)
  BY <1>10, <1>11, <1>12, <1>13, <1>N, <1>T DEF Augments
<1>15. \E W, s : Augments(rb', size', W, s)
  BY <1>4, <1>14, <1>y
<1>16. QED
  BY <1>15 DEF AugInv

LEMMA SwapSize ==
    ASSUME NEW A, IsFiniteSet(A), NEW z, NEW y, y \notin A
    PROVE  Cardinality(Swap(A, z, y)) = Cardinality(A)
<1>1. CASE z \notin A
  BY <1>1 DEF Swap
<1>2. CASE z \in A
  <2>B. PICK B : B = A \ {z}
    OBVIOUS
  <2>1. IsFiniteSet(B) /\ z \notin B /\ y \notin B /\ A = B \cup {z} /\ Swap(A, z, y) = B \cup {y}
    BY <1>2, <2>B, FS_Subset DEF Swap
  <2>2. Cardinality(B \cup {z}) = Cardinality(B) + 1
    BY <2>1, FS_AddElement
  <2>3. Cardinality(B \cup {y}) = Cardinality(B) + 1
    BY <2>1, FS_AddElement
  <2>4. QED
    BY <2>1, <2>2, <2>3
<1>3. QED
  BY <1>1, <1>2

LEMMA AugmentSwaps ==
    ASSUME NEW X, NEW sub, Augments(rb, size, X, sub), NEW v \in RbNode, NEW n \in RbNode, RbSwap(v, n)
    PROVE  AugInv'
<1>N. PICK N : N = RbNode
  OBVIOUS
<1>S. PICK S : S = N \ X
  OBVIOUS
<1>1. NULL \notin N /\ IsFiniteSet(N) /\ n \in N /\ v \in N
  BY <1>N, RbNodeAssumption
<1>2. /\ GoodAs(rb, N, S, X, RbKey, sub) /\ size \in [N -> Nat]
      /\ \A m \in X : SizedAt(sub, size, m)
      /\ \A m \in N \ X : size[m] = 0
  BY <1>N, <1>S DEF Augments
<1>3. X \subseteq N /\ \A m \in N : rb.par[m] # m <=> m \in X
  BY <1>1, <1>2, <1>S, InTreeIs
<1>y. PICK y : y = [size EXCEPT ![n] = size[v], ![v] = 0]
  OBVIOUS
<1>4. /\ rb' = Forget(RbReplace(rb, v, n), v) /\ size' = y
      /\ v \in X /\ n \in S /\ n \notin X /\ RbKey[n] = RbKey[v] /\ n # v
  BY <1>1, <1>3, <1>S, <1>y DEF RbSwap, InTree
<1>n. PICK new : new = RenamedSub(N, sub, v, n)
  OBVIOUS
<1>Y. PICK Y : Y = (X \ {v}) \cup {n}
  OBVIOUS
<1>T. PICK T : T = (S \ {n}) \cup {v} /\ T = N \ Y
  BY <1>1, <1>4, <1>S, <1>Y
<1>5. GoodAs(Forget(RbReplace(rb, v, n), v), N, T, Y, RbKey, new)
  BY <1>1, <1>2, <1>4, <1>T, <1>Y, <1>n, ReplacesAs
<1>6. y \in [N -> Nat] /\ \A m \in N : y[m] = IF m = v THEN 0 ELSE IF m = n THEN size[v] ELSE size[m]
  BY <1>1, <1>2, <1>4, <1>y
<1>7. \A m \in X : IsFiniteSet(sub[m]) /\ n \notin sub[m]
  <2>1. Tree(rb, N, sub) /\ X = sub[rb.root]
    BY <1>2 DEF GoodAs, Whole
  <2>2. \A m \in X : sub[m] \subseteq X
    BY <2>1 DEF Tree
  <2>3. QED
    BY <1>1, <1>3, <1>4, <2>2, FS_Subset
<1>8. \A m \in X : Cardinality(Swap(sub[m], v, n)) = Cardinality(sub[m])
  BY <1>7, SwapSize
<1>9. \A m \in N : new[m] = Swap(sub[IF m = n THEN v ELSE m], v, n)
  BY <1>n DEF RenamedSub
<1>10. ASSUME NEW m \in Y PROVE SizedAt(new, y, m)
  <2>1. PICK k \in X : k = IF m = n THEN v ELSE m
    BY <1>4, <1>Y
  <2>2. new[m] = Swap(sub[k], v, n)
    BY <1>1, <1>3, <1>9, <1>Y, <2>1
  <2>3. y[m] = size[k]
    BY <1>1, <1>3, <1>4, <1>6, <1>Y, <2>1
  <2>4. size[k] = Cardinality(sub[k])
    BY <1>2 DEF SizedAt
  <2>5. QED
    BY <1>8, <2>2, <2>3, <2>4 DEF SizedAt
<1>11. \A m \in N \ Y : y[m] = 0
  BY <1>2, <1>6, <1>Y
<1>12. Augments(Forget(RbReplace(rb, v, n), v), y, Y, new)
  BY <1>5, <1>6, <1>10, <1>11, <1>N, <1>T DEF Augments
<1>13. \E W, s : Augments(rb', size', W, s)
  BY <1>4, <1>12
<1>14. QED
  BY <1>13 DEF AugInv

LEMMA AugmentedFollows ==
    ASSUME AugInv
    PROVE  Augmented
<1>1. PICK X, sub : Augments(rb, size, X, sub)
  BY DEF AugInv
<1>2. /\ GoodAs(rb, RbNode, RbNode \ X, X, RbKey, sub)
      /\ \A m \in X : SizedAt(sub, size, m)
      /\ \A m \in RbNode \ X : size[m] = 0
  BY <1>1 DEF Augments
<1>3. NULL \notin RbNode /\ IsFiniteSet(RbNode)
  BY RbNodeAssumption
<1>4. X \subseteq RbNode /\ \A m \in RbNode : rb.par[m] # m <=> m \in X
  BY <1>2, <1>3, InTreeIs
<1>5. \A m \in X \cup {NULL} : Members(rb, m) = sub[m]
  <2>1. Whole(rb, RbNode, RbNode \ X, sub, RbKey) /\ sub[rb.root] = X
    BY <1>2 DEF GoodAs
  <2>2. QED
    BY <1>3, <2>1, MembersAre
<1>6. QED
  BY <1>2, <1>4, <1>5 DEF Augmented, InTree, SizedAt

\* Whatever the client inserts, erases and replaces, and wherever the tree
\* rotates: the one path of rb_augment_insert and rb_augment_erase_end, with
\* the siblings beside it, meets every node whose subtree changed, and children
\* before their parents, so every node holds the size of its subtree
\* (rbtree.c:284-352).
THEOREM AugmentedHolds == RbInit /\ [][RbClientNext]_rbVars => []Augmented
<1>1. RbInit => AugInv
  BY AugmentInits
<1>2. AugInv /\ [RbClientNext]_rbVars => AugInv'
  <2>1. SUFFICES ASSUME AugInv, [RbClientNext]_rbVars PROVE AugInv'
    OBVIOUS
  <2>2. PICK X, sub : Augments(rb, size, X, sub)
    BY <2>1 DEF AugInv
  <2>3. CASE UNCHANGED rbVars
    BY <2>1, <2>3 DEF AugInv, rbVars
  <2>4. CASE RbClientNext
    <3>1. PICK n \in RbNode : RbInsert(n) \/ RbRemove(n) \/ \E v \in RbNode : RbSwap(v, n)
      BY <2>4 DEF RbClientNext
    <3>2. CASE RbInsert(n)
      BY <2>2, <3>2, AugmentInserts
    <3>3. CASE RbRemove(n)
      BY <2>2, <3>3, AugmentRemoves
    <3>4. CASE \E v \in RbNode : RbSwap(v, n)
      BY <2>2, <3>4, AugmentSwaps
    <3>5. QED
      BY <3>1, <3>2, <3>3, <3>4
  <2>5. QED
    BY <2>1, <2>3, <2>4
<1>3. AugInv => Augmented
  BY AugmentedFollows
<1>4. QED
  BY <1>1, <1>2, <1>3, PTL

-----------------------------------------------------------------------------
(* The timer queue                                                           *)

\* timerqueue_each_node on a tree t, with a callback that never stops
Visited(t) ==
    LET from[n \in Timer] == IF n \in {} \/ RbNext(t, n) = NULL THEN <<n>>
                             ELSE <<n>> \o from[RbNext(t, n)]
    IN IF t.root = NULL THEN <<>> ELSE from[RbFirst(t)]

LEMMA VisitedIs ==
    ASSUME NEW t, NEW q, Lists(t, Timer, q)
    PROVE  Visited(t) = q
<1>1. PICK v : Placed(v, q)
  BY DEF Lists
<1>q. q \in Seq(Timer) /\ NULL \notin Timer /\ IsFiniteSet(Timer)
  BY TimerAssumption DEF Lists
<1>X. PICK X : X = ToSet(q)
  OBVIOUS
<1>2. /\ Len(q) \in Nat /\ \A j \in 1 .. Len(q) : q[j] \in X /\ v[q[j]] = j
      /\ \A m \in X : v[m] \in 1 .. Len(q) /\ q[v[m]] = m
      /\ X \subseteq Timer /\ NULL \notin X
  BY <1>1, <1>q, <1>X, Places
<1>3. Walks(t, Timer, q)
  BY <1>q, ListWalks
<1>4. /\ \A i \in 1 .. Len(q) : RbNext(t, q[i]) = IF i = Len(q) THEN NULL ELSE q[i + 1]
      /\ RbFirst(t) = IF Len(q) = 0 THEN NULL ELSE q[1]
      /\ t.root = NULL <=> Len(q) = 0
      /\ \A n \in Timer \ X : RbNext(t, n) = NULL
  BY <1>3, <1>X DEF Walks
<1>5. \A i \in 1 .. Len(q) : SubSeq(q, i, Len(q)) = IF i = Len(q) THEN <<q[i]>>
                                                    ELSE <<q[i]>> \o SubSeq(q, i + 1, Len(q))
  BY <1>q, SuffixIs
<1> DEFINE from[n \in Timer] == IF n \in {} \/ RbNext(t, n) = NULL THEN <<n>>
                                ELSE <<n>> \o from[RbNext(t, n)]
<1>6. Visited(t) = IF t.root = NULL THEN <<>> ELSE from[RbFirst(t)]
  BY DEF Visited
<1>7. \E f : f = [n \in Timer |-> IF n \in {} \/ RbNext(t, n) = NULL THEN <<n>>
                                  ELSE <<n>> \o f[RbNext(t, n)]]
  <2> DEFINE f == [n \in Timer |-> IF n \in X THEN SubSeq(q, v[n], Len(q)) ELSE <<n>>]
  <2>1. /\ \A n \in X : f[n] = SubSeq(q, v[n], Len(q))
        /\ \A n \in Timer \ X : f[n] = <<n>>
    BY <1>2
  <2>2. f = [n \in Timer |-> f[n]]
    OBVIOUS
  <2> HIDE DEF f
  <2>3. ASSUME NEW n \in Timer
        PROVE  f[n] = IF RbNext(t, n) = NULL THEN <<n>> ELSE <<n>> \o f[RbNext(t, n)]
    <3>1. CASE n \in X
      <4>i. PICK i \in 1 .. Len(q) : i = v[n] /\ q[i] = n
        BY <1>2, <3>1
      <4>1. CASE i = Len(q)
        BY <1>4, <1>5, <2>1, <3>1, <4>1, <4>i
      <4>2. CASE i # Len(q)
        <5>1. i + 1 \in 1 .. Len(q)
          BY <1>2, <4>2, <4>i
        <5>2. /\ RbNext(t, n) = q[i + 1] /\ q[i + 1] \in X /\ v[q[i + 1]] = i + 1
              /\ q[i + 1] # NULL
          BY <1>2, <1>4, <4>2, <4>i, <5>1
        <5>3. f[RbNext(t, n)] = SubSeq(q, i + 1, Len(q)) /\ f[n] = SubSeq(q, i, Len(q))
          BY <2>1, <3>1, <4>i, <5>2
        <5>4. SubSeq(q, i, Len(q)) = <<n>> \o SubSeq(q, i + 1, Len(q))
          BY <1>5, <4>2, <4>i
        <5>5. QED
          BY <5>2, <5>3, <5>4
      <4>3. QED
        BY <4>1, <4>2
    <3>2. CASE n \notin X
      BY <1>4, <2>1, <3>2
    <3>3. QED
      BY <3>1, <3>2
  <2>4. \A n \in Timer : f[n] = IF n \in {} \/ RbNext(t, n) = NULL THEN <<n>>
                                ELSE <<n>> \o f[RbNext(t, n)]
    BY <2>3
  <2>5. f = [n \in Timer |-> IF n \in {} \/ RbNext(t, n) = NULL THEN <<n>>
                             ELSE <<n>> \o f[RbNext(t, n)]]
    BY <2>2, <2>4, Zenon
  <2>6. QED
    BY <2>5, Zenon
<1>8. from = [n \in Timer |-> IF n \in {} \/ RbNext(t, n) = NULL THEN <<n>>
                              ELSE <<n>> \o from[RbNext(t, n)]]
  BY <1>7, Zenon
<1> HIDE DEF from
<1>9. \A n \in Timer : from[n] = IF RbNext(t, n) = NULL THEN <<n>> ELSE <<n>> \o from[RbNext(t, n)]
  <2>1. \A n \in Timer : from[n] = IF n \in {} \/ RbNext(t, n) = NULL THEN <<n>>
                                   ELSE <<n>> \o from[RbNext(t, n)]
    BY <1>8, Zenon
  <2>2. QED
    BY <2>1
<1>10. ASSUME NEW i \in 1 .. Len(q)
       PROVE  from[q[i]] = IF i = Len(q) THEN <<q[i]>> ELSE <<q[i]>> \o from[q[i + 1]]
  <2>1. q[i] \in Timer /\ from[q[i]] = IF RbNext(t, q[i]) = NULL THEN <<q[i]>>
                                       ELSE <<q[i]>> \o from[RbNext(t, q[i])]
    BY <1>2, <1>9
  <2>2. CASE i = Len(q)
    BY <1>4, <2>1, <2>2
  <2>3. CASE i # Len(q)
    <3>1. i + 1 \in 1 .. Len(q)
      BY <1>2, <2>3
    <3>2. RbNext(t, q[i]) = q[i + 1] /\ q[i + 1] # NULL
      BY <1>2, <1>4, <2>3, <3>1
    <3>3. QED
      BY <2>1, <2>3, <3>2
  <2>4. QED
    BY <2>2, <2>3
<1>11. \A i \in 1 .. Len(q) : from[q[i]] = SubSeq(q, i, Len(q))
  BY <1>10, <1>q, WalkCollects
<1>12. CASE Len(q) = 0
  <2>1. q = <<>>
    BY <1>12, <1>q, SMTT(30)
  <2>2. QED
    BY <1>4, <1>6, <1>12, <2>1
<1>13. CASE Len(q) # 0
  <2>1. 1 \in 1 .. Len(q)
    BY <1>2, <1>13
  <2>2. from[q[1]] = SubSeq(q, 1, Len(q))
    BY <1>11, <2>1
  <2>3. SubSeq(q, 1, Len(q)) = q
    BY <1>q, SubSeqFull
  <2>4. QED
    BY <1>4, <1>6, <1>13, <2>2, <2>3
<1>14. QED
  BY <1>12, <1>13

\* q: the timers of the tree from left to right, by their time; f is the first
TimerList(t, f, q) == /\ Lists(t, Timer, q)
                      /\ \A i, j \in 1 .. Len(q) : i < j => Expires[q[i]] <= Expires[q[j]]
                      /\ f = IF Len(q) = 0 THEN NULL ELSE q[1]
TimerInv == \E q : TimerList(tq, next, q)

LEMMA TimerListFacts ==
    ASSUME NEW t, NEW f, NEW q, TimerList(t, f, q)
    PROVE  /\ Lists(t, Timer, q) /\ q \in Seq(Timer) /\ NULL \notin Timer /\ IsFiniteSet(Timer)
           /\ Len(q) \in Nat /\ DOMAIN q = 1 .. Len(q) /\ ToSet(q) \subseteq Timer
           /\ \A i \in 1 .. Len(q) : /\ q[i] \in Timer /\ q[i] \in ToSet(q)
                                     /\ q[i] # NULL /\ Expires[q[i]] \in Nat
           /\ \A i, j \in 1 .. Len(q) : q[i] = q[j] => i = j
           /\ \A m \in ToSet(q) : t.par[m] # m /\ \E i \in 1 .. Len(q) : q[i] = m
           /\ \A m \in Timer \ ToSet(q) : t.par[m] = m
           /\ \A i \in 1 .. Len(q) : RbNext(t, q[i]) = IF i = Len(q) THEN NULL ELSE q[i + 1]
<1>1. Lists(t, Timer, q) /\ q \in Seq(Timer) /\ NULL \notin Timer /\ IsFiniteSet(Timer)
  BY TimerAssumption DEF TimerList, Lists
<1>2. /\ \A m \in Timer \ ToSet(q) : t.par[m] = m
      /\ \A m \in ToSet(q) : t.par[m] # m
      /\ \A i \in 1 .. Len(q) : RbNext(t, q[i]) = IF i = Len(q) THEN NULL ELSE q[i + 1]
  BY <1>1, ListWalks DEF Walks
<1>3. PICK v : Placed(v, q)
  BY <1>1 DEF Lists
<1>4. /\ Len(q) \in Nat /\ DOMAIN q = 1 .. Len(q) /\ ToSet(q) \subseteq Timer
      /\ \A i \in 1 .. Len(q) : q[i] \in ToSet(q) /\ v[q[i]] = i
      /\ \A m \in ToSet(q) : v[m] \in 1 .. Len(q) /\ q[v[m]] = m
  BY <1>1, <1>3, Places
<1>5. \A i \in 1 .. Len(q) : q[i] \in Timer /\ q[i] # NULL /\ Expires[q[i]] \in Nat
  BY <1>1, <1>4, TimerAssumption
<1>6. \A i, j \in 1 .. Len(q) : q[i] = q[j] => i = j
  BY <1>4
<1>7. QED
  BY <1>1, <1>2, <1>4, <1>5, <1>6

\* a step of the queue, seen in the list
Refines == \E q, p : /\ TimerList(tq, next, q) /\ TimerList(tq', next', p)
                     /\ \/ \E n \in Timer \ ToSet(q), k \in 0 .. Len(q) :
                              /\ \A i \in DOMAIN q : Expires[n] < Expires[q[i]] <=> i > k
                              /\ p = InsertAt(q, k + 1, n)
                        \/ \E i \in DOMAIN q : p = RemoveAt(q, i)

LEMMA TimerAdds ==
    ASSUME NEW q, TimerList(tq, next, q), NEW n \in Timer, TimerAdd(n)
    PROVE  Refines
<1>1. /\ Lists(tq, Timer, q) /\ q \in Seq(Timer) /\ NULL \notin Timer /\ IsFiniteSet(Timer)
      /\ Len(q) \in Nat /\ DOMAIN q = 1 .. Len(q)
      /\ \A i \in 1 .. Len(q) : q[i] \in Timer /\ q[i] # NULL /\ Expires[q[i]] \in Nat
      /\ \A m \in ToSet(q) : tq.par[m] # m
  BY TimerListFacts, SMTT(30)
<1>2. n \in Timer \ ToSet(q) /\ Expires[n] \in Nat
  BY <1>1, TimerAssumption DEF TimerAdd, Queued
<1>a. PICK A : A = {m \in Timer : Expires[n] < Expires[m]}
  OBVIOUS
<1>3. \A i, j \in 1 .. Len(q) : i < j => Expires[q[i]] <= Expires[q[j]]
  BY DEF TimerList
<1>4. \A i, j \in 1 .. Len(q) : i < j /\ q[i] \in A => q[j] \in A
  BY <1>1, <1>2, <1>3, <1>a
<1>5. PICK k \in 0 .. Len(q) : \A i \in 1 .. Len(q) : q[i] \in A <=> i > k
  BY <1>1, <1>4, SplitPoint
<1>p. PICK p : p = InsertAt(q, k + 1, n)
  OBVIOUS
<1>6. tq' = InsertSorted(tq, n, A)
  BY <1>a DEF TimerAdd
<1>7. Lists(tq', Timer, p)
  BY <1>1, <1>2, <1>5, <1>6, <1>p, ListInserts
<1>8. Shifted(p, q, k, n)
  BY <1>1, <1>p, InsertShifts
<1>9. \A i \in 1 .. Len(q) : Expires[n] < Expires[q[i]] <=> i > k
  BY <1>1, <1>5, <1>a
<1>10. ASSUME NEW i \in 1 .. Len(p), NEW j \in 1 .. Len(p), i < j
       PROVE  Expires[p[i]] <= Expires[p[j]]
  <2>1. /\ i \in 1 .. Len(q) + 1 /\ j \in 1 .. Len(q) + 1 /\ k \in Nat /\ i \in Nat /\ j \in Nat
        /\ p[i] = IF i <= k THEN q[i] ELSE IF i = k + 1 THEN n ELSE q[i - 1]
        /\ p[j] = IF j <= k THEN q[j] ELSE IF j = k + 1 THEN n ELSE q[j - 1]
    BY <1>1, <1>8 DEF Shifted
  <2>2. \A h \in 1 .. Len(q) : IF h > k THEN Expires[n] <= Expires[q[h]]
                               ELSE Expires[q[h]] <= Expires[n]
    BY <1>1, <1>2, <1>9, SMTT(30)
  <2>3. CASE j <= k
    <3>1. i \in 1 .. Len(q) /\ j \in 1 .. Len(q) /\ p[i] = q[i] /\ p[j] = q[j]
      BY <1>1, <1>10, <2>1, <2>3
    <3>2. QED
      BY <1>3, <1>10, <3>1
  <2>4. CASE j = k + 1
    <3>1. i \in 1 .. Len(q) /\ i <= k /\ p[i] = q[i] /\ p[j] = n
      BY <1>1, <1>10, <2>1, <2>4
    <3>2. QED
      BY <2>1, <2>2, <3>1
  <2>5. CASE j > k + 1
    <3>1. j - 1 \in 1 .. Len(q) /\ j - 1 > k /\ p[j] = q[j - 1]
      BY <1>1, <2>1, <2>5
    <3>2. CASE i = k + 1
      BY <2>1, <2>2, <3>1, <3>2
    <3>3. CASE i <= k
      <4>1. i \in 1 .. Len(q) /\ i < j - 1 /\ p[i] = q[i]
        BY <1>1, <2>1, <2>5, <3>3
      <4>2. QED
        BY <1>3, <3>1, <4>1
    <3>4. CASE i > k + 1
      <4>1. i - 1 \in 1 .. Len(q) /\ i - 1 < j - 1 /\ p[i] = q[i - 1]
        BY <1>1, <1>10, <2>1, <3>4
      <4>2. QED
        BY <1>3, <3>1, <4>1
    <3>5. QED
      BY <2>1, <3>2, <3>3, <3>4
  <2>6. QED
    BY <2>1, <2>3, <2>4, <2>5
<1>11. next' = IF Len(p) = 0 THEN NULL ELSE p[1]
  <2>1. /\ Len(p) # 0 /\ p[1] = IF 1 <= k THEN q[1] ELSE n
    BY <1>1, <1>8 DEF Shifted
  <2>2. /\ next' = IF next = NULL \/ Expires[n] < Expires[next] THEN n ELSE next
        /\ next = IF Len(q) = 0 THEN NULL ELSE q[1]
    BY DEF TimerAdd, TimerList
  <2>3. CASE Len(q) = 0
    <3>1. ~(1 <= k)
      BY <2>3
    <3>2. QED
      BY <2>1, <2>2, <2>3, <3>1
  <2>4. CASE Len(q) # 0
    <3>1. 1 \in 1 .. Len(q) /\ k \in Nat
      BY <1>1, <2>4
    <3>2. next # NULL /\ next = q[1] /\ (Expires[n] < Expires[next] <=> 1 > k)
      BY <1>1, <1>9, <2>2, <2>4, <3>1
    <3>3. QED
      BY <2>1, <2>2, <3>1, <3>2
  <2>5. QED
    BY <2>3, <2>4
<1>12. TimerList(tq', next', p)
  BY <1>7, <1>10, <1>11 DEF TimerList
<1>13. QED
  BY <1>1, <1>2, <1>9, <1>12, <1>p DEF Refines

LEMMA TimerDels ==
    ASSUME NEW q, TimerList(tq, next, q), NEW n \in Timer, TimerDel(n)
    PROVE  Refines
<1>1. /\ Lists(tq, Timer, q) /\ q \in Seq(Timer) /\ NULL \notin Timer /\ IsFiniteSet(Timer)
      /\ Len(q) \in Nat /\ DOMAIN q = 1 .. Len(q)
      /\ \A i \in 1 .. Len(q) : q[i] # NULL
      /\ \A i, j \in 1 .. Len(q) : q[i] = q[j] => i = j
      /\ \A m \in ToSet(q) : \E i \in 1 .. Len(q) : q[i] = m
      /\ \A m \in Timer \ ToSet(q) : tq.par[m] = m
      /\ \A i \in 1 .. Len(q) : RbNext(tq, q[i]) = IF i = Len(q) THEN NULL ELSE q[i + 1]
  BY TimerListFacts, SMTT(60)
<1>l. Len(q) \in Nat /\ DOMAIN q = 1 .. Len(q) /\ q \in Seq(Timer)
  BY <1>1, SMTT(30)
<1>2. PICK i \in 1 .. Len(q) : q[i] = n
  BY <1>1 DEF TimerDel, Queued
<1>p. PICK p : p = RemoveAt(q, i)
  OBVIOUS
<1>3. tq' = Forget(RbErase(tq, q[i]), q[i])
  BY <1>2, SMTT(30) DEF TimerDel
<1>4. Lists(tq', Timer, p)
  BY <1>1, <1>3, <1>p, ListErases
<1>5. /\ p \in Seq(Timer) /\ DOMAIN p = 1 .. Len(q) - 1
      /\ \A j \in 1 .. Len(q) - 1 : p[j] = q[IF j < i THEN j ELSE j + 1]
  BY <1>l, <1>p, RemovePlaces
<1>6. Len(p) = Len(q) - 1
  <2>1. Len(p) \in Nat /\ DOMAIN p = 1 .. Len(p)
    BY <1>5
  <2>2. Len(q) - 1 \in Nat
    BY <1>l, <1>2
  <2>3. QED
    BY <1>5, <2>1, <2>2
<1>7. \A j, k \in 1 .. Len(q) : j < k => Expires[q[j]] <= Expires[q[k]]
  BY DEF TimerList
<1>8. ASSUME NEW j \in 1 .. Len(p), NEW k \in 1 .. Len(p), j < k
      PROVE  Expires[p[j]] <= Expires[p[k]]
  <2>1. PICK a \in 1 .. Len(q) : a = (IF j < i THEN j ELSE j + 1) /\ p[j] = q[a]
    BY <1>l, <1>5, <1>6
  <2>2. PICK b \in 1 .. Len(q) : b = (IF k < i THEN k ELSE k + 1) /\ p[k] = q[b]
    BY <1>l, <1>5, <1>6
  <2>3. a < b
    BY <1>l, <1>2, <1>8, <2>1, <2>2
  <2>4. QED
    BY <1>7, <2>1, <2>2, <2>3
<1>9. next' = IF Len(p) = 0 THEN NULL ELSE p[1]
  <2>1. next' = (IF next = n THEN RbNext(tq, n) ELSE next) /\ next = q[1] /\ 1 \in 1 .. Len(q)
    BY <1>l, <1>2 DEF TimerDel, TimerList
  <2>2. CASE i = 1
    <3>1. next' = IF 1 = Len(q) THEN NULL ELSE q[2]
      <4>1. RbNext(tq, q[1]) = IF 1 = Len(q) THEN NULL ELSE q[2]
        <5>1. RbNext(tq, q[i]) = IF i = Len(q) THEN NULL ELSE q[i + 1]
          BY <1>1
        <5>2. QED
          BY <2>2, <5>1
      <4>2. QED
        BY <1>2, <2>1, <2>2, <4>1
    <3>2. Len(q) # 1 => p[1] = q[2]
      BY <1>l, <1>5, <2>1, <2>2
    <3>3. Len(p) = 0 <=> Len(q) = 1
      BY <1>l, <1>6
    <3>4. QED
      BY <3>1, <3>2, <3>3
  <2>3. CASE i # 1
    <3>1. next' = q[1]
      BY <1>1, <1>2, <2>1, <2>3
    <3>2. Len(p) # 0 /\ p[1] = q[1]
      BY <1>l, <1>2, <1>5, <1>6, <2>3
    <3>3. QED
      BY <3>1, <3>2, SMTT(30)
  <2>4. QED
    BY <2>2, <2>3
<1>10. TimerList(tq', next', p)
  BY <1>4, <1>8, <1>9 DEF TimerList
<1>11. QED
  BY <1>l, <1>10, <1>p DEF Refines

LEMMA RefinesOrder ==
    ASSUME Refines
    PROVE  Order!Next /\ TimerInv'
<1>1. PICK q, p : /\ TimerList(tq, next, q) /\ TimerList(tq', next', p)
                  /\ \/ \E n \in Timer \ ToSet(q), k \in 0 .. Len(q) :
                           /\ \A i \in DOMAIN q : Expires[n] < Expires[q[i]] <=> i > k
                           /\ p = InsertAt(q, k + 1, n)
                     \/ \E i \in DOMAIN q : p = RemoveAt(q, i)
  BY DEF Refines
<1>2. EachNode({}) = q
  <2>1. Visited(tq) = q
    BY <1>1, VisitedIs DEF TimerList
  <2>2. EachNode({}) = Visited(tq)
    BY DEF EachNode, Visited
  <2>3. QED
    BY <2>1, <2>2
<1>3. EachNode({})' = p
  <2>1. Visited(tq') = p
    BY <1>1, VisitedIs DEF TimerList
  <2>2. EachNode({})' = Visited(tq')
    BY DEF EachNode, Visited
  <2>3. QED
    BY <2>1, <2>2
<1>4. next' = IF p = <<>> THEN NULL ELSE Head(p)
  <2>1. p \in Seq(Timer)
    BY <1>1, TimerListFacts
  <2>2. next' = IF Len(p) = 0 THEN NULL ELSE p[1]
    BY <1>1 DEF TimerList
  <2>3. QED
    BY <2>1, <2>2
<1>5. Order!Becomes(p)
  BY <1>3, <1>4 DEF Order!Becomes
<1>8. TimerInv'
  BY <1>1 DEF TimerInv
<1>6. CASE \E n \in Timer \ ToSet(q), k \in 0 .. Len(q) :
               /\ \A i \in DOMAIN q : Expires[n] < Expires[q[i]] <=> i > k
               /\ p = InsertAt(q, k + 1, n)
  <2>1. PICK n \in Timer \ ToSet(q), k \in 0 .. Len(q) :
            /\ \A i \in DOMAIN q : Expires[n] < Expires[q[i]] <=> i > k
            /\ p = InsertAt(q, k + 1, n)
    BY <1>6
  <2>2. Order!Add
    BY <1>2, <1>5, <2>1 DEF Order!Add, Order!ToSet, Order!InsertAt, ToSet, InsertAt
  <2>3. QED
    BY <1>8, <2>2 DEF Order!Next
<1>7. CASE \E i \in DOMAIN q : p = RemoveAt(q, i)
  <2>1. Order!Del
    BY <1>2, <1>5, <1>7 DEF Order!Del, Order!RemoveAt, RemoveAt
  <2>2. QED
    BY <1>8, <2>1 DEF Order!Next
<1>9. QED
  BY <1>1, <1>6, <1>7

\* timerqueue_add and timerqueue_del implement the queue in order of expiry:
\* each is one step of it, the walk of timerqueue_each_node visits the queue,
\* and the cached timer is its first, for every set of timers and every time.
THEOREM QueueKeepsOrder == TqInit /\ [][TqNext]_tqVars => KeepsOrder
<1>1. TqInit => TimerInv /\ Order!Init
  <2>1. SUFFICES ASSUME TqInit PROVE TimerInv /\ Order!Init
    OBVIOUS
  <2>2. Lists(tq, Timer, <<>>)
    <3>1. NULL \notin Timer
      BY TimerAssumption
    <3>2. Lists(EmptyTree(Timer), Timer, <<>>)
      BY <3>1, EmptyLists
    <3>3. QED
      BY <2>1, <3>2 DEF TqInit
  <2>3. next = NULL
    BY <2>1 DEF TqInit
  <2>4. TimerList(tq, next, <<>>)
    BY <2>2, <2>3 DEF TimerList
  <2>5. EachNode({}) = <<>>
    <3>1. Visited(tq) = <<>>
      BY <2>2, VisitedIs
    <3>2. EachNode({}) = Visited(tq)
      BY DEF EachNode, Visited
    <3>3. QED
      BY <3>1, <3>2
  <2>6. Order!Init
    BY <2>3, <2>5 DEF Order!Init
  <2>7. QED
    BY <2>4, <2>6 DEF TimerInv
<1>2. TimerInv /\ [TqNext]_tqVars => TimerInv' /\ [Order!Next]_tqVars
  <2>1. SUFFICES ASSUME TimerInv, [TqNext]_tqVars PROVE TimerInv' /\ [Order!Next]_tqVars
    OBVIOUS
  <2>2. CASE UNCHANGED tqVars
    BY <2>1, <2>2 DEF TimerInv, tqVars
  <2>3. CASE TqNext
    <3>1. PICK q : TimerList(tq, next, q)
      BY <2>1 DEF TimerInv
    <3>2. PICK n \in Timer : TimerAdd(n) \/ TimerDel(n)
      BY <2>3 DEF TqNext
    <3>3. Refines
      BY <3>1, <3>2, TimerAdds, TimerDels
    <3>4. QED
      BY <3>3, RefinesOrder
  <2>4. QED
    BY <2>1, <2>2, <2>3
<1>3. QED
  BY <1>1, <1>2, PTL DEF KeepsOrder

-----------------------------------------------------------------------------
(* The loop of container_flush                                               *)

\* what is left of the tree after i turns, and the node the next turn erases
FlushAt(y, v, i) ==
    \E u, Y, m : /\ y = [tree |-> u, node |-> m] /\ Good(u, Block, Block \ Y, Y, v)
                 /\ m \in Y \cup {NULL} /\ (m = NULL => Y = {})
                 /\ (Y = {} \/ Cardinality(Y) + i <= Cardinality(Block))

LEMMA GoodType ==
    ASSUME NEW N, NULL \notin N, NEW t, NEW S, NEW X, NEW v, Good(t, N, S, X, v)
    PROVE  /\ t \in TreeOn(N) /\ X \in SUBSET N /\ S \in SUBSET (N \ X) /\ Rest(t, S)
           /\ t.root \in X \cup {NULL} /\ (t.root = NULL => X = {}) /\ \A m \in X : v[m] \in Nat
<1>1. PICK sub : Whole(t, N, S, sub, v) /\ sub[t.root] = X
  BY DEF Good
<1>2. /\ t \in TreeOn(N) /\ sub[NULL] = {} /\ sub \in [N \cup {NULL} -> SUBSET N]
      /\ (t.root # NULL => t.root \in sub[t.root])
      /\ Ordered(t, sub, v) /\ S \subseteq N /\ S \cap X = {} /\ Rest(t, S)
  BY <1>1 DEF Whole, Tree
<1>3. t.root \in N \cup {NULL}
  BY <1>2, KidType
<1>4. X \in SUBSET N
  BY <1>1, <1>2, <1>3
<1>5. \A m \in X : v[m] \in Nat
  BY <1>1, <1>2 DEF Ordered
<1>6. QED
  BY <1>1, <1>2, <1>4, <1>5

LEMMA FlushAtNext ==
    ASSUME NEW y, NEW v, NEW i \in Nat, FlushAt(y, v, i)
    PROVE  FlushAt(FlushTurn(y), v, i + 1)
<1>1. PICK u, Y, m : /\ y = [tree |-> u, node |-> m] /\ Good(u, Block, Block \ Y, Y, v)
                     /\ m \in Y \cup {NULL} /\ (m = NULL => Y = {})
                     /\ (Y = {} \/ Cardinality(Y) + i <= Cardinality(Block))
  BY DEF FlushAt
<1>2. y.tree = u /\ y.node = m
  BY <1>1
<1>3. CASE m = NULL
  <2>1. FlushTurn(y) = y /\ Y = {}
    BY <1>1, <1>2, <1>3 DEF FlushTurn
  <2>2. QED
    BY <1>1, <2>1 DEF FlushAt
<1>4. CASE m # NULL
  <2>0. m \in Y /\ NULL \notin Block /\ IsFiniteSet(Block)
    BY <1>1, <1>4, BlockAssumption
  <2>a. PICK a : a = RbErase(u, m)
    OBVIOUS
  <2>b. PICK b : b = Forget(a, m)
    OBVIOUS
  <2>Z. PICK Z : Z = Y \ {m}
    OBVIOUS
  <2>1. Good(a, Block, Block \ Y, Z, v)
    BY <1>1, <2>0, <2>a, <2>Z, RbErases
  <2>2. Y \in SUBSET Block
    BY <1>1, <2>0, GoodType
  <2>3. Good(b, Block, (Block \ Y) \cup {m}, Z, v)
    <3>1. m \in Block \ Z
      BY <2>0, <2>2, <2>Z
    <3>2. QED
      BY <2>0, <2>1, <2>b, <3>1, Forgets
  <2>4. (Block \ Y) \cup {m} = Block \ Z
    BY <2>0, <2>2, <2>Z
  <2>5. Good(b, Block, Block \ Z, Z, v)
    BY <2>3, <2>4
  <2>6. b.root \in Z \cup {NULL} /\ (b.root = NULL => Z = {})
    BY <2>0, <2>5, GoodType
  <2>7. FlushTurn(y) = [tree |-> b, node |-> b.root]
    BY <1>2, <1>4, <2>a, <2>b DEF FlushTurn
  <2>8. Cardinality(Z) + (i + 1) <= Cardinality(Block)
    <3>1. IsFiniteSet(Y) /\ Cardinality(Y) + i <= Cardinality(Block)
      BY <1>1, <2>0, <2>2, FS_Subset
    <3>2. Cardinality(Z) = Cardinality(Y) - 1 /\ Cardinality(Y) \in Nat /\ Cardinality(Block) \in Nat
      BY <2>0, <2>Z, <3>1, FS_RemoveElement, FS_CardinalityType
    <3>3. PICK c, d, e \in Int : c = Cardinality(Y) /\ d = Cardinality(Block) /\ e = Cardinality(Z)
      BY <3>2
    <3>4. e + (i + 1) <= d
      BY <3>1, <3>2, <3>3
    <3>5. QED
      BY <3>3, <3>4
  <2>9. QED
    BY <2>5, <2>6, <2>7, <2>8 DEF FlushAt
<1>5. QED
  BY <1>3, <1>4

\* container_flush of a node that is in the tree leaves no node in the tree.
LEMMA FlushesAll ==
    ASSUME NEW t, NEW X, NEW v, Good(t, Block, Block \ X, X, v), NEW n \in X \cup {NULL},
           n = NULL => X = {}
    PROVE  Good(FlushFrom(t, n), Block, Block, {}, v)
<1>x. PICK x : x = [tree |-> t, node |-> n]
  OBVIOUS
<1>0. NULL \notin Block /\ IsFiniteSet(Block)
  BY BlockAssumption
<1> DEFINE loop[i \in Nat] == IF i = 0 THEN x ELSE FlushTurn(loop[i - 1])
<1>1. FlushFrom(t, n) = loop[Cardinality(Block)].tree
  BY <1>x DEF FlushFrom
<1> DEFINE Q == {y \in [tree : TreeOn(Block), node : Block \cup {NULL}] : \E i \in Nat : FlushAt(y, v, i)}
           F == [y \in Q |-> FlushTurn(y)]
<1>2. ASSUME NEW y, NEW i \in Nat, FlushAt(y, v, i) PROVE y \in Q
  <2>1. PICK u, Y, m : /\ y = [tree |-> u, node |-> m] /\ Good(u, Block, Block \ Y, Y, v)
                       /\ m \in Y \cup {NULL}
    BY <1>2 DEF FlushAt
  <2>2. u \in TreeOn(Block) /\ Y \in SUBSET Block
    BY <1>0, <2>1, GoodType
  <2>3. QED
    BY <1>2, <2>1, <2>2
<1>3. FlushAt(x, v, 0)
  <2>1. X \in SUBSET Block
    BY <1>0, GoodType
  <2>2. Cardinality(X) <= Cardinality(Block) /\ Cardinality(X) \in Nat
    BY <1>0, <2>1, FS_Subset, FS_CardinalityType
  <2>3. Cardinality(X) + 0 <= Cardinality(Block)
    BY <2>2
  <2>4. QED
    BY <1>x, <2>3 DEF FlushAt
<1>4. x \in Q
  BY <1>2, <1>3
<1>5. F \in [Q -> Q]
  <2>1. ASSUME NEW y \in Q PROVE FlushTurn(y) \in Q
    <3>1. PICK i \in Nat : FlushAt(y, v, i)
      OBVIOUS
    <3>2. FlushAt(FlushTurn(y), v, i + 1) /\ i + 1 \in Nat
      BY <3>1, FlushAtNext
    <3>3. QED
      BY <1>2, <3>2
  <2>2. QED
    BY <2>1
<1>f. \A y \in Q : F[y] = FlushTurn(y)
  OBVIOUS
<1> HIDE DEF Q, F
<1>6. \E f : f = [i \in Nat |-> IF i = 0 THEN x ELSE FlushTurn(f[i - 1])]
  <2>0. PICK f : Iterates(f, Q, F, x)
    BY <1>4, <1>5, Iteration
  <2>1. f \in [Nat -> Q] /\ f[0] = x /\ \A i \in Nat : f[i + 1] = F[f[i]]
    BY <2>0 DEF Iterates
  <2>2. ASSUME NEW i \in Nat PROVE f[i] = IF i = 0 THEN x ELSE FlushTurn(f[i - 1])
    <3>1. CASE i = 0
      BY <2>1, <3>1
    <3>2. CASE i # 0
      <4>1. i - 1 \in Nat /\ (i - 1) + 1 = i
        BY <3>2
      <4>2. f[i] = F[f[i - 1]] /\ f[i - 1] \in Q
        BY <2>1, <4>1
      <4>3. QED
        BY <1>f, <3>2, <4>2
    <3>3. QED
      BY <3>1, <3>2
  <2>3. f = [i \in Nat |-> IF i = 0 THEN x ELSE FlushTurn(f[i - 1])]
    BY <2>1, <2>2
  <2>4. QED
    BY <2>3
<1>7. loop = [i \in Nat |-> IF i = 0 THEN x ELSE FlushTurn(loop[i - 1])]
  BY <1>6
<1> HIDE DEF loop
<1>8. ASSUME NEW k \in Nat PROVE FlushAt(loop[k], v, k)
  <2> DEFINE Bad == {i \in Nat : ~ FlushAt(loop[i], v, i)}
  <2>1. SUFFICES ASSUME Bad # {} PROVE FALSE
    OBVIOUS
  <2>2. PICK i \in Bad : \A j \in Bad : i <= j
    BY <2>1, Least
  <2>3. i # 0
    BY <1>3, <1>7, <2>2
  <2>4. i - 1 \in Nat /\ i \in Nat /\ i - 1 < i
    BY <2>2, <2>3
  <2>5. FlushAt(loop[i - 1], v, i - 1)
    <3>1. i - 1 \notin Bad
      <4> HIDE DEF Bad
      <4>1. QED
        BY <2>2, <2>4
    <3>2. QED
      BY <2>4, <3>1
  <2>6. FlushAt(FlushTurn(loop[i - 1]), v, (i - 1) + 1) /\ (i - 1) + 1 = i
    BY <2>4, <2>5, FlushAtNext
  <2>7. loop[i] = FlushTurn(loop[i - 1])
    BY <1>7, <2>3, <2>4
  <2>8. QED
    BY <2>2, <2>6, <2>7
<1>9. PICK k \in Nat : k = Cardinality(Block)
  BY <1>0, FS_CardinalityType
<1>10. PICK u, Y, m : /\ loop[k] = [tree |-> u, node |-> m] /\ Good(u, Block, Block \ Y, Y, v)
                      /\ (Y = {} \/ Cardinality(Y) + k <= Cardinality(Block))
  BY <1>8 DEF FlushAt
<1>11. Y = {}
  <2>1. SUFFICES ASSUME Cardinality(Y) + k <= k PROVE Y = {}
    BY <1>9, <1>10
  <2>2. Y \in SUBSET Block
    BY <1>0, <1>10, GoodType
  <2>3. IsFiniteSet(Y) /\ Cardinality(Y) \in Nat
    BY <1>0, <2>2, FS_Subset, FS_CardinalityType
  <2>4. Cardinality(Y) = 0
    BY <2>1, <2>3
  <2>5. QED
    BY <2>3, <2>4, FS_EmptySet
<1>12. FlushFrom(t, n) = u
  BY <1>1, <1>9, <1>10
<1>13. Block \ {} = Block
  OBVIOUS
<1>14. QED
  BY <1>10, <1>11, <1>12, <1>13

-----------------------------------------------------------------------------
(* The walks of container_search and of the functions that hold the lock     *)

\* the container's tree, over the nodes X
TreeIs(sub, X) == Whole(cTree, Block, Block \ X, sub, cKey) /\ sub[cTree.root] = X

\* What has key k below n is below the child where the walk goes on.
LEMMA BelowWhere ==
    ASSUME NEW sub, NEW X, TreeIs(sub, X), NEW n \in X, NEW k \in Nat, cKey[n] # k,
           NEW c, c = Below(n, k)
    PROVE  /\ c \in X \cup {NULL} /\ sub[c] \subseteq sub[n]
           /\ \A m \in sub[n] : cKey[m] = k => m \in sub[c]
<1>1. Tree(cTree, Block, sub) /\ Ordered(cTree, sub, cKey) /\ X = sub[cTree.root]
  BY DEF TreeIs, Whole
<1>s. PICK s \in Side : s = IF k < cKey[n] THEN "L" ELSE "R"
  BY DEF Side
<1>2. c = cTree.kid[s][n]
  BY <1>s DEF Below
<1>b. PICK b : b = cTree.kid[Other(s)][n]
  OBVIOUS
<1>3. c \in X \cup {NULL}
  <2>1. Agrees(cTree, X, n)
    BY <1>1 DEF Tree
  <2>2. QED
    BY <1>2, <2>1 DEF Agrees
<1>4. sub[n] = {n} \cup sub[c] \cup sub[b]
  <2>1. Splits(cTree, sub, n, s)
    BY <1>1 DEF Tree
  <2>2. QED
    BY <1>2, <1>b, <2>1 DEF Splits
<1>5. ASSUME NEW m \in sub[b] PROVE cKey[m] # k
  <2>1. Beside(Other(s), cKey[m], cKey[n])
    <3>1. Other(s) \in Side
      BY TwoSides
    <3>2. QED
      BY <1>1, <1>b, <3>1 DEF Ordered
  <2>2. m \in X
    <3>1. sub[n] \subseteq X
      BY <1>1 DEF Tree
    <3>2. QED
      BY <1>4, <3>1
  <2>3. PICK i, j \in Nat : i = cKey[m] /\ j = cKey[n]
    BY <1>1, <2>2 DEF Ordered
  <2>4. CASE s = "L"
    <3>1. k < j /\ j < i
      <4>1. k < cKey[n]
        BY <1>s, <2>4
      <4>2. Other(s) # "L"
        BY <2>4 DEF Other
      <4>3. QED
        BY <2>1, <2>3, <4>1, <4>2 DEF Beside
    <3>2. QED
      BY <2>3, <3>1
  <2>5. CASE s = "R"
    <3>1. ~(k < j) /\ i < j
      <4>1. ~(k < cKey[n])
        BY <1>s, <2>5
      <4>2. Other(s) = "L"
        BY <2>5 DEF Other
      <4>3. QED
        BY <2>1, <2>3, <4>1, <4>2 DEF Beside
    <3>2. QED
      BY <2>3, <3>1
  <2>6. QED
    BY <2>4, <2>5 DEF Side
<1>6. QED
  BY <1>3, <1>4, <1>5

\* b is what container_search2 finds below n
Found(b, sub, n, k) == /\ b \in sub[n] \cup {NULL}
                       /\ b # NULL => cKey[b] = k
                       /\ b = NULL => \A m \in sub[n] : cKey[m] # k

LEMMA Finds ==
    ASSUME NEW sub, NEW X, TreeIs(sub, X), NEW n \in X \cup {NULL}, NEW k \in Nat
    PROVE  Found(Find(n, k), sub, n, k)
<1>1. /\ Tree(cTree, Block, sub) /\ Ordered(cTree, sub, cKey) /\ X = sub[cTree.root]
      /\ NULL \notin Block /\ IsFiniteSet(Block)
  BY BlockAssumption DEF TreeIs, Whole
<1>2. cTree \in TreeOn(Block) /\ sub[NULL] = {} /\ X \subseteq Block
  <2>1. cTree \in TreeOn(Block) /\ sub \in [Block \cup {NULL} -> SUBSET Block] /\ sub[NULL] = {}
    BY <1>1 DEF Tree
  <2>2. QED
    BY <1>1, <2>1, KidType
<1> DEFINE D == Block \cup {NULL}
           find[m \in D] == IF m = NULL \/ cKey[m] = k THEN m ELSE find[Below(m, k)]
<1>3. Find(n, k) = find[n]
  BY DEF Find
<1>4. \A m \in Block : Below(m, k) \in D
  <2>1. ASSUME NEW m \in Block PROVE Below(m, k) \in D
    <3>1. PICK s \in Side : s = IF k < cKey[m] THEN "L" ELSE "R"
      BY DEF Side
    <3>2. Below(m, k) = cTree.kid[s][m]
      BY <3>1 DEF Below
    <3>3. QED
      BY <1>2, <3>2, KidType
  <2>2. QED
    BY <2>1
<1>5. \E f : f = [m \in D |-> IF m = NULL \/ cKey[m] = k THEN m ELSE f[Below(m, k)]]
  <2> DEFINE B == {m \in D : m = NULL \/ cKey[m] = k}
             G == [m \in D |-> Below(m, k)]
             H == [m \in D |-> m]
  <2>1. \A m \in D \ B : G[m] \in D
    BY <1>4
  <2>2. \A m \in D : /\ (m \in B <=> m = NULL \/ cKey[m] = k) /\ G[m] = Below(m, k)
                     /\ H[m] = m
    OBVIOUS
  <2> HIDE DEF B, G, H, D
  <2>3. PICK f : Arrives(f, D, B, H, G)
    BY <2>1, TailRecursion
  <2>4. /\ f = [m \in D |-> f[m]]
        /\ \A m \in D : f[m] = IF m = NULL \/ cKey[m] = k THEN m ELSE f[Below(m, k)]
    BY <2>2, <2>3 DEF Arrives
  <2>5. f = [m \in D |-> IF m = NULL \/ cKey[m] = k THEN m ELSE f[Below(m, k)]]
    BY <2>4
  <2>6. QED
    BY <2>5
<1>6. find = [m \in D |-> IF m = NULL \/ cKey[m] = k THEN m ELSE find[Below(m, k)]]
  <2> HIDE DEF D
  <2>1. QED
    BY <1>5, Zenon
<1> HIDE DEF find
<1>7. \A m \in D : find[m] = IF m = NULL \/ cKey[m] = k THEN m ELSE find[Below(m, k)]
  BY <1>6
<1>8. Found(find[NULL], sub, NULL, k)
  <2>1. find[NULL] = NULL
    BY <1>7
  <2>2. QED
    BY <1>2, <2>1 DEF Found
<1> DEFINE Q == {m \in X : Found(find[m], sub, m, k)}
<1>9. ASSUME NEW m \in X, \A d \in Side : cTree.kid[d][m] \in Q \cup {NULL} PROVE m \in Q
  <2>f. PICK b : b = find[m]
    OBVIOUS
  <2>0. m \in D /\ m # NULL /\ m \in Block
    BY <1>1, <1>2
  <2>1. CASE cKey[m] = k
    <3>1. b = m
      BY <1>7, <2>0, <2>1, <2>f
    <3>2. m \in sub[m]
      <4>1. "L" \in Side
        BY DEF Side
      <4>2. Splits(cTree, sub, m, "L")
        BY <1>1, <4>1 DEF Tree
      <4>3. QED
        BY <4>2 DEF Splits
    <3>3. Found(b, sub, m, k)
      BY <2>0, <2>1, <3>1, <3>2 DEF Found
    <3>4. QED
      BY <2>f, <3>3
  <2>2. CASE cKey[m] # k
    <3>c. PICK c : c = Below(m, k)
      OBVIOUS
    <3>1. b = find[c]
      BY <1>7, <2>0, <2>2, <2>f, <3>c
    <3>2. c \in Q \cup {NULL}
      <4>1. PICK s \in Side : s = IF k < cKey[m] THEN "L" ELSE "R"
        BY DEF Side
      <4>2. c = cTree.kid[s][m]
        BY <3>c, <4>1 DEF Below
      <4>3. QED
        BY <1>9, <4>2
    <3>3. Found(b, sub, c, k)
      BY <1>8, <3>1, <3>2
    <3>4. sub[c] \subseteq sub[m] /\ \A x \in sub[m] : cKey[x] = k => x \in sub[c]
      BY <2>2, <3>c, BelowWhere
    <3>5. Found(b, sub, m, k)
      BY <3>3, <3>4 DEF Found
    <3>6. QED
      BY <2>f, <3>5
  <2>3. QED
    BY <2>1, <2>2
<1> HIDE DEF Q
<1>10. \A m \in X : (\A d \in Side : cTree.kid[d][m] \in Q \cup {NULL}) => m \in Q
  BY <1>9
<1>11. X \subseteq Q
  BY <1>1, <1>10, TreeInduction
<1>12. Found(find[n], sub, n, k)
  BY <1>8, <1>11 DEF Q
<1>13. QED
  BY <1>3, <1>12

-----------------------------------------------------------------------------
(* The container's tree after each of its steps                              *)

Shape(t, v, X) == Good(t, Block, Block \ X, X, v)

LEMMA ShapeLinked ==
    ASSUME NEW t, NEW v, NEW X, Shape(t, v, X)
    PROVE  /\ Linked(t) = X /\ Shape(t, v, Linked(t))
           /\ t \in TreeOn(Block) /\ X \in SUBSET Block /\ t.root \in X \cup {NULL}
           /\ (t.root = NULL => X = {}) /\ \A m \in X : v[m] \in Nat
<1>1. Good(t, Block, Block \ X, X, v) /\ NULL \notin Block /\ IsFiniteSet(Block)
  BY BlockAssumption DEF Shape
<1>2. Linked(t) = X
  BY <1>1, LinkedAre
<1>3. QED
  BY <1>1, <1>2, GoodType

LEMMA ShapeKeys ==
    ASSUME NEW t, NEW v, NEW X, Shape(t, v, X), NEW v2, \A m \in X : v2[m] = v[m]
    PROVE  Shape(t, v2, X)
<1>1. Good(t, Block, Block \ X, X, v) /\ NULL \notin Block
  BY BlockAssumption DEF Shape
<1>2. t \in TreeOn(Block) /\ Rest(t, Block \ X) /\ Block \ X \in SUBSET (Block \ X)
  BY <1>1, GoodType
<1>3. Alike(t, t, X)
  BY DEF Alike
<1>4. Good(t, Block, Block \ X, X, v2)
  BY <1>1, <1>2, <1>3, GoodElsewhere
<1>5. QED
  BY <1>4 DEF Shape

LEMMA ShapeErases ==
    ASSUME NEW t, NEW v, NEW X, Shape(t, v, X), NEW n \in X
    PROVE  Shape(Forget(RbErase(t, n), n), v, X \ {n})
<1>1. Good(t, Block, Block \ X, X, v) /\ NULL \notin Block /\ IsFiniteSet(Block)
  BY BlockAssumption DEF Shape
<1>Z. PICK Z : Z = X \ {n}
  OBVIOUS
<1>a. PICK a : a = RbErase(t, n)
  OBVIOUS
<1>2. Good(a, Block, Block \ X, Z, v)
  BY <1>1, <1>Z, <1>a, RbErases
<1>3. X \in SUBSET Block
  BY <1>1, GoodType
<1>4. n \in Block \ Z /\ (Block \ X) \cup {n} = Block \ Z
  BY <1>3, <1>Z
<1>5. Good(Forget(a, n), Block, (Block \ X) \cup {n}, Z, v)
  BY <1>1, <1>2, <1>4, Forgets
<1>6. QED
  BY <1>4, <1>5, <1>a, <1>Z DEF Shape

LEMMA ShapeFlushes ==
    ASSUME NEW t, NEW v, NEW X, Shape(t, v, X), NEW n \in X \cup {NULL}, n = NULL => X = {}, NEW v2
    PROVE  Shape(FlushFrom(t, n), v2, {})
<1>1. Good(t, Block, Block \ X, X, v)
  BY DEF Shape
<1>2. Good(FlushFrom(t, n), Block, Block, {}, v)
  BY <1>1, FlushesAll
<1>3. Block = Block \ {}
  OBVIOUS
<1>4. Shape(FlushFrom(t, n), v, {})
  BY <1>2, <1>3 DEF Shape
<1>5. QED
  BY <1>4, ShapeKeys

\* A flush that found no root does nothing.
LEMMA FlushesNothing == \A t : FlushFrom(t, NULL) = t
<1> SUFFICES ASSUME NEW t PROVE FlushFrom(t, NULL) = t
  OBVIOUS
<1>x. PICK x : x = [tree |-> t, node |-> NULL]
  OBVIOUS
<1> DEFINE loop[i \in Nat] == IF i = 0 THEN x ELSE FlushTurn(loop[i - 1])
<1>1. FlushFrom(t, NULL) = loop[Cardinality(Block)].tree
  BY <1>x DEF FlushFrom
<1>2. FlushTurn(x) = x
  BY <1>x DEF FlushTurn
<1>3. \E f : f = [i \in Nat |-> IF i = 0 THEN x ELSE FlushTurn(f[i - 1])]
  <2> DEFINE f == [i \in Nat |-> x]
  <2>1. \A i \in Nat : f[i] = x
    OBVIOUS
  <2>2. f = [i \in Nat |-> f[i]]
    OBVIOUS
  <2> HIDE DEF f
  <2>3. \A i \in Nat : f[i] = IF i = 0 THEN x ELSE FlushTurn(f[i - 1])
    <3>1. ASSUME NEW i \in Nat PROVE f[i] = IF i = 0 THEN x ELSE FlushTurn(f[i - 1])
      <4>1. i # 0 => i - 1 \in Nat
        OBVIOUS
      <4>2. QED
        BY <1>2, <2>1, <4>1
    <3>2. QED
      BY <3>1
  <2>4. f = [i \in Nat |-> IF i = 0 THEN x ELSE FlushTurn(f[i - 1])]
    BY <2>2, <2>3
  <2>5. QED
    BY <2>4
<1>4. loop = [i \in Nat |-> IF i = 0 THEN x ELSE FlushTurn(loop[i - 1])]
  BY <1>3
<1> HIDE DEF loop
<1>5. ASSUME NEW k \in Nat PROVE loop[k] = x
  <2> DEFINE Bad == {i \in Nat : loop[i] # x}
  <2>1. SUFFICES ASSUME Bad # {} PROVE FALSE
    OBVIOUS
  <2>2. PICK i \in Bad : \A j \in Bad : i <= j
    BY <2>1, Least
  <2>3. i # 0
    BY <1>4, <2>2
  <2>4. i - 1 \in Nat /\ i \in Nat /\ i - 1 < i
    BY <2>2, <2>3
  <2>5. loop[i - 1] = x
    <3>1. i - 1 \notin Bad
      <4> HIDE DEF Bad
      <4>1. QED
        BY <2>2, <2>4
    <3>2. QED
      BY <2>4, <3>1
  <2>6. loop[i] = FlushTurn(loop[i - 1])
    BY <1>4, <2>3, <2>4
  <2>7. QED
    BY <1>2, <2>2, <2>5, <2>6
<1>6. Cardinality(Block) \in Nat
  BY BlockAssumption, FS_CardinalityType
<1>7. QED
  BY <1>1, <1>5, <1>6, <1>x

\* at the place pl a node of value k keeps the order of the tree
Sits(t, v, pl, k) ==
    /\ pl \in (Block \cup {NULL}) \X Side
    /\ pl[1] = NULL => t.root = NULL
    /\ pl[1] # NULL => /\ pl[1] \in Linked(t) /\ t.kid[pl[2]][pl[1]] = NULL
                       /\ Beside(pl[2], k, v[pl[1]])
                       /\ \A m \in Linked(t), d \in Side :
                              pl[1] \in Members(t, t.kid[d][m]) => Beside(d, k, v[m])

\* Where container_insert stops keeps the order.
LEMMA PlaceSits ==
    ASSUME NEW sub, NEW X, TreeIs(sub, X), Linked(cTree) = X, NEW k \in Nat,
           \A m \in X : cKey[m] \in Nat /\ cKey[m] # k /\ cKey[m] # NULL
    PROVE  Sits(cTree, cKey, PlaceOf(k), k)
<1>1. /\ Tree(cTree, Block, sub) /\ X = sub[cTree.root] /\ NULL \notin Block /\ IsFiniteSet(Block)
      /\ Whole(cTree, Block, Block \ X, sub, cKey)
  BY BlockAssumption DEF TreeIs, Whole
<1>2. X \subseteq Block /\ cTree \in TreeOn(Block)
  <2>1. cTree \in TreeOn(Block) /\ sub \in [Block \cup {NULL} -> SUBSET Block]
    BY <1>1 DEF Tree
  <2>2. QED
    BY <1>1, <2>1, KidType
<1>3. CASE cTree.root = NULL
  <2>1. PlaceOf(k) = <<NULL, "L">>
    BY <1>3 DEF PlaceOf
  <2>2. QED
    BY <1>3, <2>1 DEF Sits, Side
<1>4. CASE cTree.root # NULL
  <2>r. PICK r : r = cTree.root
    OBVIOUS
  <2>p. PICK pl : pl = DescendFrom(cTree, r, Larger(k))
    OBVIOUS
  <2>1. r \in X /\ X = sub[r]
    BY <1>1, <1>4, <2>r DEF Tree
  <2>2. Spot(pl, cTree, sub, cKey, r, k)
    <3>1. \A m \in sub[cTree.root] : /\ cKey[m] \in Nat /\ cKey[m] # k
                                     /\ (m \in Larger(k) <=> k < cKey[m])
      BY <1>1, <1>2 DEF Larger
    <3>2. r \in sub[cTree.root]
      BY <1>1, <2>1
    <3>3. QED
      BY <1>1, <2>p, <3>1, <3>2, Descends
  <2>3. PICK p \in X, s \in Side :
            /\ pl = <<p, s>> /\ cTree.kid[s][p] = NULL /\ Beside(s, k, cKey[p])
            /\ \A m \in X, d \in Side : p \in sub[cTree.kid[d][m]] => Beside(d, k, cKey[m])
    BY <2>1, <2>2 DEF Spot
  <2>4. pl[1] = p /\ pl[2] = s /\ p # NULL /\ pl \in (Block \cup {NULL}) \X Side
    BY <1>1, <1>2, <2>3
  <2>5. ASSUME NEW m \in X, NEW d \in Side, p \in Members(cTree, cTree.kid[d][m])
        PROVE  Beside(d, k, cKey[m])
    <3>1. Agrees(cTree, X, m)
      BY <1>1 DEF Tree
    <3>2. cTree.kid[d][m] \in X \cup {NULL}
      BY <3>1 DEF Agrees
    <3>3. Members(cTree, cTree.kid[d][m]) = sub[cTree.kid[d][m]]
      <4>1. sub[cTree.root] = X
        BY <1>1
      <4>2. QED
        BY <1>1, <3>2, <4>1, MembersAre
    <3>4. QED
      BY <2>3, <2>5, <3>3
  <2>6. PlaceOf(k) = pl
    BY <1>4, <2>p, <2>r DEF PlaceOf
  <2>7. Sits(cTree, cKey, pl, k)
    BY <2>3, <2>4, <2>5 DEF Sits
  <2>8. QED
    BY <2>6, <2>7
<1>5. QED
  BY <1>3, <1>4

LEMMA ShapeLinks ==
    ASSUME NEW t, NEW v, NEW X, Shape(t, v, X), NEW n \in Block \ X, v[n] \in Nat,
           NEW pl, Sits(t, v, pl, v[n])
    PROVE  Shape(LinkNode(t, n, pl[1], pl[2]), v, X \cup {n})
<1>p. PICK p, s : p = pl[1] /\ s = pl[2]
  OBVIOUS
<1>k. PICK k : k = v[n]
  OBVIOUS
<1>1. PICK sub, bh : /\ Whole(t, Block, Block \ X, sub, v) /\ sub[t.root] = X
                     /\ Level(t, Block, X, bh) /\ RbShape(t, sub, bh)
  BY DEF Shape, Good
<1>2. NULL \notin Block /\ IsFiniteSet(Block) /\ Linked(t) = X /\ s \in Side
  BY <1>p, BlockAssumption, ShapeLinked DEF Sits
<1>3. \A m \in X \cup {NULL} : Members(t, m) = sub[m]
  BY <1>1, <1>2, MembersAre
<1>4. /\ p = NULL => t.root = NULL
      /\ p # NULL => /\ p \in X /\ t.kid[s][p] = NULL /\ Beside(s, k, v[p])
                     /\ \A m \in X, d \in Side : p \in Members(t, t.kid[d][m]) => Beside(d, k, v[m])
  BY <1>2, <1>p, <1>k DEF Sits
<1>5. \A m \in X, d \in Side : t.kid[d][m] \in X \cup {NULL}
  <2>1. \A m \in X : Agrees(t, X, m)
    BY <1>1 DEF Whole, Tree
  <2>2. QED
    BY <2>1 DEF Agrees
<1>6. Fits(t, sub, v, n, p, s)
  <2>1. ASSUME p # NULL, NEW m \in X, NEW d \in Side, p \in sub[t.kid[d][m]]
        PROVE  Beside(d, k, v[m])
    BY <1>3, <1>4, <1>5, <2>1
  <2>2. QED
    BY <1>1, <1>4, <1>k, <2>1 DEF Fits
<1>7. Good(LinkNode(t, n, p, s), Block, (Block \ X) \ {n}, X \cup {n}, v)
  <2>1. Level(t, Block, sub[t.root], bh) /\ n \in Block \ X
    BY <1>1
  <2>2. Good(LinkNode(t, n, p, s), Block, (Block \ X) \ {n}, sub[t.root] \cup {n}, v)
    BY <1>1, <1>2, <1>6, <2>1, LinkNodeGrows
  <2>3. QED
    BY <1>1, <2>2
<1>8. (Block \ X) \ {n} = Block \ (X \cup {n})
  OBVIOUS
<1>9. QED
  BY <1>7, <1>8, <1>p DEF Shape

-----------------------------------------------------------------------------
(* The inductive invariant of the container                                  *)

ContainerSpec == cInit /\ [][cNext]_cVars

CPcs == {"idle", "nomem", "root", "lock", "link", "erase", "flush", "unlock", "free", "walk", "done"}
COps == {"none", "add", "del", "search", "flush"}
CRets == {"none", "pending", "ok", "fail", "nomem"}
HoldsLock == {"link", "erase", "flush", "unlock"}

CTypes ==
    /\ cKey \in [Block -> Key \cup {NULL}] /\ cLive \in BOOLEAN
    /\ cLock \in Thread \cup {NULL} /\ cFault \in Thread \cup {NULL}
    /\ cPc \in [Thread -> CPcs] /\ cOp \in [Thread -> COps] /\ cRet \in [Thread -> CRets]
    /\ cArg \in [Thread -> Key \cup {NULL}] /\ cPtr \in [Thread -> Block \cup {NULL}]
    /\ cAt \in [Thread -> (Block \cup {NULL}) \X Side] /\ cClean \in [Thread -> BOOLEAN]

\* where t is in which call, with which outcome
Stands(t, pcs, o, r) == cPc[t] \in pcs /\ cOp[t] = o /\ cRet[t] = r
Keyed(t) == cArg[t] \in Key
Handed(t) == cPtr[t] \in Block
LocalOf(t) ==
    \/ Stands(t, {"idle"}, "none", "none") /\ cArg[t] = NULL /\ cPtr[t] = NULL
    \/ Stands(t, {"nomem"}, "add", "pending") /\ Keyed(t)
    \/ Stands(t, {"lock", "link"}, "add", "pending") /\ Keyed(t) /\ Handed(t)
    \/ Stands(t, {"unlock", "free"}, "add", "fail") /\ Keyed(t) /\ Handed(t)
    \/ Stands(t, {"unlock"}, "add", "ok") /\ Keyed(t) /\ cPtr[t] = NULL
    \/ Stands(t, {"lock"}, "del", "pending") /\ Keyed(t)
    \/ Stands(t, {"erase"}, "del", "pending") /\ Keyed(t) /\ Handed(t)
    \/ Stands(t, {"unlock", "free"}, "del", "ok") /\ Keyed(t) /\ Handed(t)
    \/ Stands(t, {"unlock"}, "del", "fail") /\ Keyed(t) /\ cPtr[t] = NULL
    \/ Stands(t, {"root"}, "flush", "pending") /\ cArg[t] = NULL
    \/ Stands(t, {"lock", "flush"}, "flush", "pending") /\ cArg[t] = NULL /\ Handed(t)
    \/ Stands(t, {"lock", "flush"}, "flush", "ok") /\ cArg[t] = NULL /\ cPtr[t] = NULL
    \/ Stands(t, {"unlock"}, "flush", "ok") /\ cArg[t] = NULL /\ cPtr[t] = NULL
    \/ Stands(t, {"walk"}, "search", "pending") /\ Keyed(t)
    \/ /\ cPc[t] = "done" /\ cOp[t] # "none" /\ cRet[t] \in {"ok", "fail", "nomem"}
       /\ IF cOp[t] = "flush" THEN cArg[t] = NULL ELSE Keyed(t)

HasKey(v, S, k) == \E b \in S : v[b] = k

\* what t knows of the heap while others leave it alone
HeapOf(t) ==
    /\ cOp[t] = "add" /\ cPc[t] \in {"lock", "link"} => cKey[cPtr[t]] = cArg[t]
    /\ cPc[t] = "link" => ~HasKey(cKey, Linked(cTree), cArg[t]) /\ Sits(cTree, cKey, cAt[t], cArg[t])
    /\ cPc[t] = "erase" => cPtr[t] \in Linked(cTree) /\ cKey[cPtr[t]] = cArg[t]
\* what t knows without the lock, as long as nobody disturbs it
SeenOf(t) == cClean[t] =>
    /\ cOp[t] = "flush" /\ cPc[t] \in {"lock", "flush"} => cPtr[t] \in Linked(cTree) \cup {NULL}
    /\ cOp[t] = "search" /\ cPc[t] = "walk" =>
           /\ cPtr[t] \in Linked(cTree) \cup {NULL}
           /\ HasKey(cKey, Linked(cTree), cArg[t]) <=> HasKey(cKey, Members(cTree, cPtr[t]), cArg[t])
    /\ cOp[t] = "search" /\ cPc[t] = "done" =>
           (cRet[t] = "ok" <=> HasKey(cKey, Linked(cTree), cArg[t]))

CLocked == \A t \in Thread : cLock = t <=> cPc[t] \in HoldsLock
CShape == Shape(cTree, cKey, Linked(cTree))
CDistinct == \A a, b \in Linked(cTree) : cKey[a] = cKey[b] => a = b
CFaulty == cFault # NULL => ~cClean[cFault]
CThreads == \A t \in Thread : LocalOf(t) /\ HeapOf(t) /\ SeenOf(t)

CInv == CTypes /\ CLocked /\ CShape /\ CDistinct /\ ContainerOwned /\ CFaulty /\ CThreads

\* u does not move, and what it may rely on stays as it is
Quiet(u) ==
    /\ cPc'[u] = cPc[u] /\ cOp'[u] = cOp[u] /\ cRet'[u] = cRet[u]
    /\ cArg'[u] = cArg[u] /\ cPtr'[u] = cPtr[u] /\ cAt'[u] = cAt[u]
    /\ cClean'[u] => cClean[u]
    /\ cOp[u] = "add" /\ cPc[u] \in {"lock", "link"} => cKey'[cPtr[u]] = cKey[cPtr[u]]
    /\ cPc[u] \in {"link", "erase"} => cTree' = cTree /\ \A b \in Linked(cTree) : cKey'[b] = cKey[b]
    /\ cOp[u] \in {"search", "flush"} /\ cClean'[u] => cTree' = cTree /\ cKey' = cKey

LEMMA SitsSame ==
    ASSUME NEW t, NEW v, NEW w, NEW pl, NEW k, Sits(t, v, pl, k), \A m \in Linked(t) : w[m] = v[m]
    PROVE  Sits(t, w, pl, k)
  BY DEF Sits

LEMMA QuietKeeps ==
    ASSUME NEW u \in Thread, LocalOf(u), HeapOf(u), SeenOf(u), Quiet(u)
    PROVE  LocalOf(u)' /\ HeapOf(u)' /\ SeenOf(u)'
<1>1. /\ cPc'[u] = cPc[u] /\ cOp'[u] = cOp[u] /\ cRet'[u] = cRet[u]
      /\ cArg'[u] = cArg[u] /\ cPtr'[u] = cPtr[u] /\ cAt'[u] = cAt[u]
  BY DEF Quiet
<1>2. LocalOf(u)'
  BY <1>1 DEF LocalOf, Stands, Keyed, Handed
<1>3. HeapOf(u)'
  <2>1. cOp[u] = "add" /\ cPc[u] \in {"lock", "link"} => cKey'[cPtr[u]] = cArg[u]
    BY DEF Quiet, HeapOf
  <2>2. ASSUME cPc[u] = "link"
        PROVE  ~HasKey(cKey', Linked(cTree'), cArg[u]) /\ Sits(cTree', cKey', cAt[u], cArg[u])
    <3>1. cTree' = cTree /\ \A b \in Linked(cTree) : cKey'[b] = cKey[b]
      BY <2>2 DEF Quiet
    <3>2. ~HasKey(cKey, Linked(cTree), cArg[u]) /\ Sits(cTree, cKey, cAt[u], cArg[u])
      BY <2>2 DEF HeapOf
    <3>3. ~HasKey(cKey', Linked(cTree), cArg[u])
      BY <3>1, <3>2 DEF HasKey
    <3>4. Sits(cTree, cKey', cAt[u], cArg[u])
      BY <3>1, <3>2, SitsSame
    <3>5. QED
      BY <3>1, <3>3, <3>4
  <2>3. ASSUME cPc[u] = "erase" PROVE cPtr[u] \in Linked(cTree') /\ cKey'[cPtr[u]] = cArg[u]
    <3>1. cTree' = cTree /\ \A b \in Linked(cTree) : cKey'[b] = cKey[b]
      BY <2>3 DEF Quiet
    <3>2. cPtr[u] \in Linked(cTree) /\ cKey[cPtr[u]] = cArg[u]
      BY <2>3 DEF HeapOf
    <3>3. QED
      BY <3>1, <3>2
  <2>4. QED
    BY <1>1, <2>1, <2>2, <2>3 DEF HeapOf
<1>4. SeenOf(u)'
  <2>1. SUFFICES ASSUME cClean'[u], cOp[u] \in {"search", "flush"} PROVE SeenOf(u)'
    BY <1>1 DEF SeenOf
  <2>2. cTree' = cTree /\ cKey' = cKey /\ cClean[u]
    BY <2>1 DEF Quiet
  <2>3. QED
    BY <1>1, <2>2 DEF SeenOf
<1>5. QED
  BY <1>2, <1>3, <1>4

\* t holds the lock after a step exactly when it should, and nobody else has
\* got or lost it
LockRight(t) == /\ cLock' = t <=> cPc'[t] \in HoldsLock
                /\ \A u \in Thread \ {t} : cLock' = u <=> cLock = u

LEMMA StepKeeps ==
    ASSUME CInv, NEW t \in Thread, CTypes', CShape', CDistinct', ContainerOwned', CFaulty',
           LockRight(t), LocalOf(t)', HeapOf(t)', SeenOf(t)', \A u \in Thread \ {t} : Quiet(u)
    PROVE  CInv'
<1>1. ASSUME NEW u \in Thread PROVE LocalOf(u)' /\ HeapOf(u)' /\ SeenOf(u)'
  <2>1. CASE u = t
    BY <2>1
  <2>2. CASE u # t
    <3>1. LocalOf(u) /\ HeapOf(u) /\ SeenOf(u) /\ Quiet(u)
      BY <2>2 DEF CInv, CThreads
    <3>2. QED
      BY <3>1, QuietKeeps
  <2>3. QED
    BY <2>1, <2>2
<1>2. ASSUME NEW u \in Thread PROVE cLock' = u <=> cPc'[u] \in HoldsLock
  <2>1. CASE u = t
    BY <2>1 DEF LockRight
  <2>2. CASE u # t
    <3>1. cPc'[u] = cPc[u] /\ (cLock' = u <=> cLock = u)
      BY <2>2 DEF LockRight, Quiet
    <3>2. QED
      BY <3>1 DEF CInv, CLocked
  <2>3. QED
    BY <2>1, <2>2
<1>3. CThreads' /\ CLocked'
  BY <1>1, <1>2 DEF CThreads, CLocked
<1>4. QED
  BY <1>3 DEF CInv

\* what Goes changes
Moved(t, l, b, r) ==
    /\ cPc' \in [Thread -> CPcs] /\ cRet' \in [Thread -> CRets] /\ cPtr' \in [Thread -> Block \cup {NULL}]
    /\ cPc'[t] = l /\ cPtr'[t] = b /\ cRet'[t] = r
    /\ \A u \in Thread \ {t} : cPc'[u] = cPc[u] /\ cPtr'[u] = cPtr[u] /\ cRet'[u] = cRet[u]

LEMMA GoesMoves ==
    ASSUME CTypes, NEW t \in Thread, NEW l \in CPcs, NEW b \in Block \cup {NULL}, NEW r \in CRets,
           Goes(t, l, b, r)
    PROVE  Moved(t, l, b, r)
<1>1. cPc' = [cPc EXCEPT ![t] = l] /\ cPtr' = [cPtr EXCEPT ![t] = b] /\ cRet' = [cRet EXCEPT ![t] = r]
  BY DEF Goes
<1>2. cPc \in [Thread -> CPcs] /\ cRet \in [Thread -> CRets] /\ cPtr \in [Thread -> Block \cup {NULL}]
  BY DEF CTypes
<1>3. QED
  BY <1>1, <1>2 DEF Moved

-----------------------------------------------------------------------------
(* Who owns the blocks                                                       *)

\* the blocks that are allocated are those of L and those in the hands H
OwnedBy(v, L, H) ==
    /\ \A b \in Block : v[b] # NULL <=> b \in L \/ \E t \in Thread : b \in H[t]
    /\ \A t \in Thread : /\ H[t] \cap L = {}
                         /\ \A u \in Thread \ {t} : H[t] \cap H[u] = {}

Hands == [t \in Thread |-> InHand(t)]

LEMMA OwnedHere ==
    ASSUME Linked(cTree) \in SUBSET Block, Hands \in [Thread -> SUBSET Block]
    PROVE  ContainerOwned <=> OwnedBy(cKey, Linked(cTree), Hands)
<1>1. \A t \in Thread : Hands[t] = InHand(t)
  BY DEF Hands
<1> HIDE DEF Hands
<1>2. UNION {InHand(t) : t \in Thread} = {b \in Block : \E t \in Thread : b \in Hands[t]}
  BY <1>1
<1>3. QED
  BY <1>1, <1>2 DEF ContainerOwned, OwnedBy

LEMMA OwnedNext ==
    ASSUME Linked(cTree') \in SUBSET Block, Hands' \in [Thread -> SUBSET Block],
           OwnedBy(cKey', Linked(cTree'), Hands')
    PROVE  ContainerOwned'
<1>1. \A t \in Thread : Hands'[t] = InHand(t)'
  BY DEF Hands
<1> HIDE DEF Hands
<1>2. UNION {InHand(t)' : t \in Thread} = {b \in Block : \E t \in Thread : b \in Hands'[t]}
  BY <1>1
<1>3. /\ {b \in Block : cKey'[b] # NULL} = Linked(cTree') \cup UNION {InHand(t)' : t \in Thread}
      /\ \A t \in Thread : /\ InHand(t)' \cap Linked(cTree') = {}
                           /\ \A u \in Thread \ {t} : InHand(t)' \cap InHand(u)' = {}
  BY <1>1, <1>2 DEF OwnedBy
<1>4. QED
  BY <1>3 DEF ContainerOwned

\* what a step of t may do to the blocks L of the tree and h in t's hands
OwnsRight(v, L, h, w, M, g) ==
    /\ M \cap g = {}
    /\ \A b \in Block : b \in M \cup g => w[b] # NULL /\ (b \in L \cup h \/ v[b] = NULL)
    /\ \A b \in Block : w[b] # NULL => b \in M \cup g \/ (v[b] # NULL /\ b \notin L \cup h)
    /\ \A b \in Block : v[b] # NULL /\ b \notin L \cup h => w[b] # NULL

LEMMA OwnedMoves ==
    ASSUME NEW v, NEW L \in SUBSET Block, NEW H \in [Thread -> SUBSET Block], OwnedBy(v, L, H),
           NEW w, NEW M \in SUBSET Block, NEW G \in [Thread -> SUBSET Block], NEW t \in Thread,
           \A u \in Thread \ {t} : G[u] = H[u], OwnsRight(v, L, H[t], w, M, G[t])
    PROVE  OwnedBy(w, M, G)
<1>1. \A u \in Thread \ {t} : \A b \in H[u] : b \in Block /\ v[b] # NULL /\ b \notin L /\ b \notin H[t]
  BY DEF OwnedBy
<1>2. ASSUME NEW b \in Block PROVE w[b] # NULL <=> b \in M \/ \E u \in Thread : b \in G[u]
  <2>1. ASSUME w[b] # NULL PROVE b \in M \/ \E u \in Thread : b \in G[u]
    <3>1. b \in M \cup G[t] \/ (v[b] # NULL /\ b \notin L \cup H[t])
      BY <2>1 DEF OwnsRight
    <3>2. ASSUME v[b] # NULL, b \notin L \cup H[t] PROVE \E u \in Thread : b \in G[u]
      <4>1. PICK u \in Thread : b \in H[u]
        BY <3>2 DEF OwnedBy
      <4>2. QED
        BY <3>2, <4>1
    <3>3. QED
      BY <3>1, <3>2
  <2>2. ASSUME b \in M PROVE w[b] # NULL
    BY <2>2 DEF OwnsRight
  <2>3. ASSUME NEW u \in Thread, b \in G[u] PROVE w[b] # NULL
    <3>1. CASE u = t
      BY <2>3, <3>1 DEF OwnsRight
    <3>2. CASE u # t
      BY <1>1, <2>3, <3>2 DEF OwnsRight
    <3>3. QED
      BY <3>1, <3>2
  <2>4. QED
    BY <2>1, <2>2, <2>3
<1>3. ASSUME NEW u \in Thread \ {t}, NEW b \in G[u] PROVE b \notin M /\ b \notin G[t]
  BY <1>1, <1>3 DEF OwnsRight
<1>4. G[t] \cap M = {}
  BY DEF OwnsRight
<1>5. ASSUME NEW u \in Thread PROVE G[u] \cap M = {}
  BY <1>3, <1>4
<1>6. ASSUME NEW u \in Thread, NEW x \in Thread \ {u} PROVE G[u] \cap G[x] = {}
  <2>1. CASE u # t /\ x # t
    BY <2>1 DEF OwnedBy
  <2>2. CASE u = t \/ x = t
    BY <1>3, <2>2
  <2>3. QED
    BY <2>1, <2>2
<1>7. QED
  BY <1>2, <1>5, <1>6 DEF OwnedBy

LEMMA HandsType == ASSUME CTypes PROVE Hands \in [Thread -> SUBSET Block]
<1>1. ASSUME NEW t \in Thread PROVE InHand(t) \in SUBSET Block
  BY DEF InHand, CTypes
<1>2. QED
  BY <1>1 DEF Hands

LEMMA OwnedStep ==
    ASSUME CTypes, CTypes', Linked(cTree) \in SUBSET Block, Linked(cTree') \in SUBSET Block,
           ContainerOwned, NEW t \in Thread, \A u \in Thread \ {t} : Quiet(u),
           OwnsRight(cKey, Linked(cTree), InHand(t), cKey', Linked(cTree'), InHand(t)')
    PROVE  ContainerOwned'
<1>1. Hands \in [Thread -> SUBSET Block]
  BY HandsType
<1>2. Hands' \in [Thread -> SUBSET Block]
  <2>1. ASSUME NEW u \in Thread PROVE InHand(u)' \in SUBSET Block
    BY DEF InHand, CTypes
  <2>2. QED
    BY <2>1 DEF Hands
<1>3. OwnedBy(cKey, Linked(cTree), Hands)
  BY <1>1, OwnedHere
<1>4. ASSUME NEW u \in Thread \ {t} PROVE InHand(u)' = InHand(u)
  <2>1. cPc'[u] = cPc[u] /\ cOp'[u] = cOp[u] /\ cPtr'[u] = cPtr[u]
    BY DEF Quiet
  <2>2. QED
    BY <2>1 DEF InHand
<1>5. (\A u \in Thread : Hands[u] = InHand(u)) /\ (\A u \in Thread : Hands'[u] = InHand(u)')
  BY DEF Hands
<1>6. /\ \A u \in Thread \ {t} : Hands'[u] = Hands[u]
      /\ OwnsRight(cKey, Linked(cTree), Hands[t], cKey', Linked(cTree'), Hands'[t])
  BY <1>4, <1>5
<1> HIDE DEF Hands
<1>7. OwnedBy(cKey', Linked(cTree'), Hands')
  BY <1>1, <1>2, <1>3, <1>6, OwnedMoves
<1>8. QED
  BY <1>2, <1>7, OwnedNext

-----------------------------------------------------------------------------
(* Every step keeps the invariant                                            *)

LEMMA EmptyShape == ASSUME NEW v PROVE Shape(EmptyTree(Block), v, {})
<1>1. Good(EmptyTree(Block), Block, Block, {}, v) /\ Block \ {} = Block
  <2>1. NULL \notin Block
    BY BlockAssumption
  <2>2. QED
    BY <2>1, EmptyGood
<1>2. QED
  BY <1>1 DEF Shape

LEMMA CInitInv == ASSUME cInit PROVE CInv
<1>1. Shape(cTree, cKey, {})
  BY EmptyShape DEF cInit
<1>2. Linked(cTree) = {} /\ CShape
  BY <1>1, ShapeLinked DEF CShape
<1>3. CTypes
  BY DEF cInit, CTypes, CPcs, COps, CRets, Side
<1>4. CLocked
  BY BlockAssumption DEF cInit, CLocked, HoldsLock
<1>5. ContainerOwned
  <2>1. \A t \in Thread : InHand(t) = {}
    BY DEF cInit, InHand
  <2>2. {b \in Block : cKey[b] # NULL} = {}
    BY DEF cInit
  <2>3. QED
    BY <1>2, <2>1, <2>2 DEF ContainerOwned
<1>6. CThreads
  BY DEF cInit, CThreads, LocalOf, HeapOf, SeenOf, Stands
<1>7. CDistinct /\ CFaulty
  BY <1>2 DEF CDistinct, CFaulty, cInit
<1>8. QED
  BY <1>2, <1>3, <1>4, <1>5, <1>6, <1>7 DEF CInv

\* a step of t that leaves the heap and what others know alone
Still(t) ==
    /\ cTree' = cTree /\ cKey' = cKey
    /\ \A u \in Thread \ {t} :
           /\ cPc'[u] = cPc[u] /\ cOp'[u] = cOp[u] /\ cRet'[u] = cRet[u]
           /\ cArg'[u] = cArg[u] /\ cPtr'[u] = cPtr[u] /\ cAt'[u] = cAt[u]
           /\ cClean'[u] = cClean[u]

LEMMA StillKeeps ==
    ASSUME CInv, NEW t \in Thread, Still(t), CTypes', CFaulty', LockRight(t),
           LocalOf(t)', HeapOf(t)', SeenOf(t)', InHand(t)' = InHand(t)
    PROVE  CInv'
<1>1. \A u \in Thread \ {t} : Quiet(u)
  BY DEF Still, Quiet
<1>2. cTree' = cTree /\ cKey' = cKey
  BY DEF Still
<1>3. CShape' /\ CDistinct'
  BY <1>2 DEF CInv, CShape, CDistinct
<1>4. Shape(cTree, cKey, Linked(cTree)) /\ CTypes /\ ContainerOwned
  BY DEF CInv, CShape
<1>5. Linked(cTree) \in SUBSET Block
  BY <1>4, ShapeLinked
<1>6. OwnsRight(cKey, Linked(cTree), InHand(t), cKey', Linked(cTree'), InHand(t)')
  <2>1. Linked(cTree) \cap InHand(t) = {}
    BY <1>4 DEF ContainerOwned
  <2>2. \A b \in Block : b \in Linked(cTree) \cup InHand(t) => cKey[b] # NULL
    BY <1>4 DEF ContainerOwned
  <2>3. QED
    BY <1>2, <2>1, <2>2 DEF OwnsRight
<1>7. ContainerOwned'
  BY <1>1, <1>2, <1>4, <1>5, <1>6, OwnedStep
<1>8. QED
  BY <1>1, <1>3, <1>7, StepKeeps

\* where t is tells what its call and its outcome are
LEMMA Stages ==
    ASSUME NEW t \in Thread, LocalOf(t)
    PROVE  /\ cPc[t] = "idle" => cOp[t] = "none" /\ cRet[t] = "none" /\ cArg[t] = NULL /\ cPtr[t] = NULL
           /\ cPc[t] = "nomem" => cOp[t] = "add" /\ cRet[t] = "pending" /\ Keyed(t)
           /\ cPc[t] = "root" => cOp[t] = "flush" /\ cRet[t] = "pending" /\ cArg[t] = NULL
           /\ cPc[t] = "lock" => cOp[t] \in {"add", "del", "flush"}
           /\ cPc[t] = "link" => cOp[t] = "add" /\ cRet[t] = "pending" /\ Keyed(t) /\ Handed(t)
           /\ cPc[t] = "erase" => cOp[t] = "del" /\ cRet[t] = "pending" /\ Keyed(t) /\ Handed(t)
           /\ cPc[t] = "flush" => /\ cOp[t] = "flush" /\ cArg[t] = NULL
                                  /\ IF cRet[t] = "ok" THEN cPtr[t] = NULL ELSE Handed(t) /\ cRet[t] = "pending"
           /\ cPc[t] = "unlock" => cOp[t] \in {"add", "del", "flush"} /\ cRet[t] \in {"ok", "fail"}
           /\ cPc[t] = "free" => cOp[t] \in {"add", "del"} /\ Handed(t) /\ cRet[t] \in {"ok", "fail"}
           /\ cPc[t] = "walk" => cOp[t] = "search" /\ cRet[t] = "pending" /\ Keyed(t)
           /\ cPc[t] = "done" => cOp[t] # "none" /\ cRet[t] \in {"ok", "fail", "nomem"}
  BY DEF LocalOf, Stands

LEMMA CParts ==
    ASSUME CInv, NEW t \in Thread
    PROVE  /\ CTypes /\ LocalOf(t) /\ HeapOf(t) /\ SeenOf(t) /\ ContainerOwned /\ CFaulty
           /\ (cLock = t <=> cPc[t] \in HoldsLock) /\ t # NULL
           /\ Shape(cTree, cKey, Linked(cTree)) /\ CDistinct
           /\ Linked(cTree) \in SUBSET Block /\ cTree.root \in Linked(cTree) \cup {NULL}
           /\ \A b \in Linked(cTree) : cKey[b] \in Key /\ cKey[b] \in Nat /\ cKey[b] # NULL
<1>1. /\ CTypes /\ LocalOf(t) /\ HeapOf(t) /\ SeenOf(t) /\ ContainerOwned /\ CFaulty
      /\ (cLock = t <=> cPc[t] \in HoldsLock) /\ t # NULL
      /\ Shape(cTree, cKey, Linked(cTree)) /\ CDistinct
  BY BlockAssumption DEF CInv, CThreads, CLocked, CShape
<1>2. Linked(cTree) \in SUBSET Block /\ cTree.root \in Linked(cTree) \cup {NULL}
  BY <1>1, ShapeLinked
<1>3. \A b \in Linked(cTree) : cKey[b] # NULL
  BY <1>1, <1>2 DEF ContainerOwned
<1>4. \A b \in Linked(cTree) : cKey[b] \in Key /\ cKey[b] \in Nat /\ cKey[b] # NULL
  BY <1>1, <1>2, <1>3, BlockAssumption DEF CTypes
<1>5. QED
  BY <1>1, <1>2, <1>4

\* what Call changes
Called(t, o, k) ==
    /\ cOp' \in [Thread -> COps] /\ cArg' \in [Thread -> Key \cup {NULL}]
    /\ cOp'[t] = o /\ cArg'[t] = k /\ cPc[t] = "idle" /\ cLive' = cLive /\ cLock' = cLock
    /\ cFault' = cFault /\ cAt' = cAt
    /\ \A u \in Thread \ {t} : cOp'[u] = cOp[u] /\ cArg'[u] = cArg[u]

LEMMA CallsAs ==
    ASSUME CTypes, NEW t \in Thread, NEW o \in COps, NEW k \in Key \cup {NULL}, Call(t, o, k)
    PROVE  Called(t, o, k)
<1>1. /\ cOp' = [cOp EXCEPT ![t] = o] /\ cArg' = [cArg EXCEPT ![t] = k]
      /\ cPc[t] = "idle" /\ cLive' = cLive /\ cLock' = cLock /\ cFault' = cFault /\ cAt' = cAt
  BY DEF Call
<1>2. cOp \in [Thread -> COps] /\ cArg \in [Thread -> Key \cup {NULL}]
  BY DEF CTypes
<1>3. QED
  BY <1>1, <1>2 DEF Called

\* a call that changes nothing but where t is
FirstStep(o, k, l, b) ==
    \/ o = "add" /\ k \in Key /\ l = "nomem" /\ b = NULL
    \/ o = "del" /\ k \in Key /\ l = "lock" /\ b = NULL
    \/ o = "flush" /\ k = NULL /\ l = "root" /\ b = NULL
    \/ o = "search" /\ k \in Key /\ l = "walk" /\ b = cTree.root

LEMMA CallKeeps ==
    ASSUME CInv, cFault = NULL, NEW t \in Thread, NEW o, NEW k, NEW l, NEW b, FirstStep(o, k, l, b),
           Call(t, o, k), Goes(t, l, b, "pending"), UNCHANGED <<cHeap, cClean>>
    PROVE  CInv'
<1>1. /\ CTypes /\ LocalOf(t) /\ (cLock = t <=> cPc[t] \in HoldsLock) /\ t # NULL
      /\ Linked(cTree) \in SUBSET Block /\ cTree.root \in Linked(cTree) \cup {NULL}
  BY CParts
<1>2. o \in COps /\ k \in Key \cup {NULL} /\ l \in CPcs /\ b \in Block \cup {NULL} /\ "pending" \in CRets
  BY <1>1 DEF FirstStep, COps, CPcs, CRets
<1>3. Called(t, o, k)
  BY <1>1, <1>2, CallsAs
<1>4. Moved(t, l, b, "pending")
  BY <1>1, <1>2, GoesMoves
<1>5. /\ cPc[t] = "idle" /\ cOp[t] = "none" /\ cPc'[t] = l /\ cOp'[t] = o /\ cArg'[t] = k
      /\ cPtr'[t] = b /\ cRet'[t] = "pending"
      /\ cTree' = cTree /\ cKey' = cKey /\ cClean' = cClean /\ cLock' = cLock /\ cFault' = NULL
  BY <1>1, <1>3, <1>4, Stages DEF Called, Moved, cHeap
<1>6. CTypes'
  BY <1>1, <1>3, <1>4, <1>5 DEF CTypes, Called, Moved
<1>7. Still(t)
  BY <1>3, <1>4, <1>5 DEF Still, Called, Moved
<1>8. LockRight(t)
  BY <1>1, <1>2, <1>5 DEF LockRight, HoldsLock, FirstStep
<1>9. LocalOf(t)'
  BY <1>5 DEF FirstStep, LocalOf, Stands, Keyed, Handed
<1>10. HeapOf(t)'
  BY <1>5 DEF FirstStep, HeapOf
<1>11. SeenOf(t)'
  <2>1. l = "walk" => b = cTree.root
    BY DEF FirstStep
  <2>2. b = cTree.root => HasKey(cKey, Linked(cTree), k) <=> HasKey(cKey, Members(cTree, b), k)
    BY DEF Linked
  <2>3. l = "walk" => b \in Linked(cTree) \cup {NULL}
    BY <1>1, <2>1
  <2>4. l # "done" /\ ~(o = "flush" /\ l \in {"lock", "flush"})
    BY DEF FirstStep
  <2>5. QED
    BY <1>5, <2>1, <2>2, <2>3, <2>4 DEF SeenOf
<1>12. InHand(t)' = InHand(t)
  BY <1>5 DEF InHand, FirstStep
<1>13. CFaulty'
  BY <1>5 DEF CFaulty
<1>14. QED
  BY <1>6, <1>7, <1>8, <1>9, <1>10, <1>11, <1>12, <1>13, StillKeeps

\* NoMem, ReadRoot, Unlock, Walk: t goes on in its call and only the lock, the
\* place and the fault may change
LEMMA MoveKeeps ==
    ASSUME CInv, NEW t \in Thread, NEW l, NEW b \in Block \cup {NULL}, NEW r \in CRets,
           Goes(t, l, b, r), l \in CPcs, UNCHANGED <<cHeap, cLive, cOp, cArg, cClean>>,
           cFault' = NULL,
           cAt' \in [Thread -> (Block \cup {NULL}) \X Side], \A u \in Thread \ {t} : cAt'[u] = cAt[u],
           cLock' \in Thread \cup {NULL}, LockRight(t),
           LocalOf(t)', HeapOf(t)', SeenOf(t)', InHand(t)' = InHand(t)
    PROVE  CInv'
<1>1. CTypes
  BY CParts
<1>2. Moved(t, l, b, r)
  BY <1>1, GoesMoves
<1>3. CTypes'
  BY <1>1, <1>2 DEF CTypes, Moved, cHeap
<1>4. Still(t)
  BY <1>2 DEF Still, Moved, cHeap
<1>5. CFaulty'
  BY DEF CFaulty
<1>6. QED
  BY <1>3, <1>4, <1>5, StillKeeps

LEMMA NoMemKeeps ==
    ASSUME CInv, cFault = NULL, NEW t \in Thread, NoMem(t)
    PROVE  CInv'
<1>1. /\ CTypes /\ LocalOf(t) /\ (cLock = t <=> cPc[t] \in HoldsLock) /\ t # NULL
  BY CParts
<1>2. /\ cPc[t] = "nomem" /\ Goes(t, "done", NULL, "nomem")
      /\ UNCHANGED <<cHeap, cLive, cLock, cFault, cOp, cArg, cAt, cClean>>
  BY DEF NoMem
<1>3. cOp[t] = "add" /\ Keyed(t) /\ "done" \in CPcs /\ "nomem" \in CRets
  BY <1>1, <1>2, Stages DEF CPcs, CRets
<1>4. cPc'[t] = "done" /\ cRet'[t] = "nomem" /\ cPtr'[t] = NULL
  BY <1>1, <1>2, <1>3, GoesMoves DEF Moved
<1>5. LocalOf(t)'
  BY <1>2, <1>3, <1>4 DEF LocalOf, Stands, Keyed
<1>6. HeapOf(t)' /\ SeenOf(t)' /\ InHand(t)' = InHand(t)
  BY <1>2, <1>3, <1>4 DEF HeapOf, SeenOf, InHand
<1>7. LockRight(t)
  BY <1>1, <1>2, <1>4 DEF LockRight, HoldsLock
<1>8. cAt' \in [Thread -> (Block \cup {NULL}) \X Side] /\ cLock' \in Thread \cup {NULL}
  BY <1>1, <1>2 DEF CTypes
<1>9. UNCHANGED <<cHeap, cLive, cOp, cArg, cClean>> /\ cFault' = NULL /\ cAt' = cAt
  BY <1>2
<1>10. QED
  BY <1>2, <1>3, <1>5, <1>6, <1>7, <1>8, <1>9, MoveKeeps

LEMMA ReadRootKeeps ==
    ASSUME CInv, cFault = NULL, NEW t \in Thread, ReadRoot(t)
    PROVE  CInv'
<1>1. /\ CTypes /\ LocalOf(t) /\ (cLock = t <=> cPc[t] \in HoldsLock) /\ t # NULL
      /\ Linked(cTree) \in SUBSET Block /\ cTree.root \in Linked(cTree) \cup {NULL}
  BY CParts
<1>n. PICK n : n = cTree.root
  OBVIOUS
<1>r. PICK r \in CRets : r = IF n = NULL THEN "ok" ELSE "pending"
  BY DEF CRets
<1>2. /\ cPc[t] = "root" /\ Goes(t, "lock", n, r)
      /\ UNCHANGED <<cHeap, cLive, cLock, cFault, cOp, cArg, cAt, cClean>>
  BY <1>n, <1>r DEF ReadRoot
<1>3. cOp[t] = "flush" /\ cArg[t] = NULL /\ "lock" \in CPcs /\ n \in Block \cup {NULL}
  BY <1>1, <1>2, <1>n, Stages DEF CPcs
<1>4. cPc'[t] = "lock" /\ cRet'[t] = r /\ cPtr'[t] = n
  BY <1>1, <1>2, <1>3, GoesMoves DEF Moved
<1>5. LocalOf(t)'
  BY <1>2, <1>3, <1>4, <1>r DEF LocalOf, Stands, Handed
<1>6. HeapOf(t)' /\ InHand(t)' = InHand(t)
  BY <1>2, <1>3, <1>4 DEF HeapOf, InHand
<1>s. SeenOf(t)'
  BY <1>1, <1>2, <1>3, <1>4, <1>n DEF SeenOf, cHeap
<1>7. LockRight(t)
  BY <1>1, <1>2, <1>4 DEF LockRight, HoldsLock
<1>8. cAt' \in [Thread -> (Block \cup {NULL}) \X Side] /\ cLock' \in Thread \cup {NULL}
  BY <1>1, <1>2 DEF CTypes
<1>9. UNCHANGED <<cHeap, cLive, cOp, cArg, cClean>> /\ cFault' = NULL /\ cAt' = cAt
  BY <1>2
<1>10. QED
  BY <1>2, <1>3, <1>5, <1>6, <1>s, <1>7, <1>8, <1>9, MoveKeeps

LEMMA UnlockKeeps1 ==
    ASSUME CInv, cFault = NULL, NEW t \in Thread, Unlock(t)
    PROVE  CInv'
<1>1. /\ CTypes /\ LocalOf(t) /\ (cLock = t <=> cPc[t] \in HoldsLock) /\ t # NULL
  BY CParts
<1>b. PICK b \in Block \cup {NULL} : b = cPtr[t]
  BY <1>1 DEF CTypes
<1>r. PICK r \in CRets : r = cRet[t]
  BY <1>1 DEF CTypes
<1>l. PICK l \in CPcs : l = IF b = NULL THEN "done" ELSE "free"
  BY DEF CPcs
<1>2. /\ cPc[t] = "unlock" /\ Goes(t, l, b, r) /\ cLock' = NULL
      /\ cAt' = [cAt EXCEPT ![t] = <<NULL, "L">>]
      /\ UNCHANGED <<cHeap, cLive, cFault, cOp, cArg, cClean>>
  BY <1>b, <1>r, <1>l DEF Unlock
<1>4. cPc'[t] = l /\ cRet'[t] = r /\ cPtr'[t] = b
  BY <1>1, <1>2, GoesMoves DEF Moved
<1>5. LocalOf(t)'
  BY <1>1, <1>2, <1>4, <1>b, <1>r, <1>l, BlockAssumption DEF LocalOf, Stands, Keyed, Handed
<1>o. cOp[t] \in {"add", "del", "flush"}
  BY <1>1, <1>2, Stages
<1>6. HeapOf(t)' /\ SeenOf(t)'
  BY <1>2, <1>4, <1>l, <1>o DEF HeapOf, SeenOf
<1>i. InHand(t)' = InHand(t)
  BY <1>2, <1>4, <1>b, <1>l DEF InHand
<1>7. LockRight(t)
  <2>1. cLock = t
    BY <1>1, <1>2 DEF HoldsLock
  <2>2. \A u \in Thread : u # NULL
    BY BlockAssumption
  <2>3. QED
    BY <1>2, <1>4, <1>l, <2>1, <2>2 DEF LockRight, HoldsLock
<1>8. cAt' \in [Thread -> (Block \cup {NULL}) \X Side] /\ \A u \in Thread \ {t} : cAt'[u] = cAt[u]
  BY <1>1, <1>2 DEF CTypes, Side
<1>9. UNCHANGED <<cHeap, cLive, cOp, cArg, cClean>> /\ cFault' = NULL /\ cLock' \in Thread \cup {NULL}
  BY <1>2
<1>10. QED
  BY <1>2, <1>5, <1>6, <1>i, <1>7, <1>8, <1>9, MoveKeeps

\* the nodes below each node of the container's tree
LEMMA TreeHere ==
    ASSUME CInv
    PROVE  \E sub : /\ TreeIs(sub, Linked(cTree)) /\ sub[NULL] = {}
                    /\ \A m \in Linked(cTree) \cup {NULL} : Members(cTree, m) = sub[m]
<1>X. PICK X : X = Linked(cTree)
  OBVIOUS
<1>1. Shape(cTree, cKey, X) /\ NULL \notin Block /\ IsFiniteSet(Block)
  BY <1>X, BlockAssumption DEF CInv, CShape
<1>2. PICK sub : Whole(cTree, Block, Block \ X, sub, cKey) /\ sub[cTree.root] = X
  BY <1>1 DEF Shape, Good
<1>3. \A m \in X \cup {NULL} : Members(cTree, m) = sub[m]
  BY <1>1, <1>2, MembersAre
<1>4. TreeIs(sub, X) /\ sub[NULL] = {}
  BY <1>2 DEF TreeIs, Whole, Tree
<1>5. QED
  BY <1>3, <1>4, <1>X

LEMMA WalkKeeps ==
    ASSUME CInv, cFault = NULL, NEW t \in Thread, Walk(t)
    PROVE  CInv'
<1>X. PICK X : X = Linked(cTree)
  OBVIOUS
<1>n. PICK n : n = cPtr[t]
  OBVIOUS
<1>k. PICK k : k = cArg[t]
  OBVIOUS
<1>1. /\ CTypes /\ LocalOf(t) /\ HeapOf(t) /\ SeenOf(t) /\ (cLock = t <=> cPc[t] \in HoldsLock)
      /\ t # NULL /\ X \in SUBSET Block /\ cPc[t] = "walk"
  BY <1>X, CParts DEF Walk
<1>2. cOp[t] = "search" /\ cRet[t] = "pending" /\ Keyed(t) /\ k \in Key /\ n \in Block \cup {NULL}
  BY <1>1, <1>n, <1>k, Stages DEF Keyed, CTypes
<1>s. PICK sub : /\ TreeIs(sub, X) /\ sub[NULL] = {}
                 /\ \A m \in X \cup {NULL} : Members(cTree, m) = sub[m]
  BY <1>X, TreeHere
<1>c. cClean[t] => n \in X \cup {NULL} /\ (HasKey(cKey, X, k) <=> HasKey(cKey, sub[n], k))
  <2>1. cClean[t] => n \in X \cup {NULL} /\ (HasKey(cKey, X, k) <=> HasKey(cKey, Members(cTree, n), k))
    BY <1>1, <1>2, <1>X, <1>n, <1>k DEF SeenOf
  <2>2. QED
    BY <2>1, <1>s
<1>3. /\ cTree' = cTree /\ cKey' = cKey /\ cLive' = cLive /\ cLock' = cLock /\ cOp' = cOp /\ cArg' = cArg
      /\ cAt' = cAt /\ cClean' = cClean /\ UNCHANGED <<cHeap, cLive, cOp, cArg, cClean>>
  BY DEF Walk, cHeap
<1>4. cAt' \in [Thread -> (Block \cup {NULL}) \X Side] /\ cLock' \in Thread \cup {NULL}
  BY <1>1, <1>3 DEF CTypes
<1>5. ASSUME NEW l \in {"walk", "done"}, NEW b \in Block \cup {NULL}, NEW r \in {"pending", "ok", "fail"},
             Goes(t, l, b, r), cFault' = NULL, l = "walk" <=> r = "pending",
             cClean[t] /\ l = "walk" => b \in X \cup {NULL} /\ (HasKey(cKey, X, k) <=> HasKey(cKey, sub[b], k)),
             cClean[t] /\ l = "done" => (r = "ok" <=> HasKey(cKey, X, k))
      PROVE  CInv'
  <2>1. l \in CPcs /\ r \in CRets
    BY <1>5 DEF CPcs, CRets
  <2>2. cPc'[t] = l /\ cRet'[t] = r /\ cPtr'[t] = b
    BY <1>1, <1>5, <2>1, GoesMoves DEF Moved
  <2>3. LocalOf(t)'
    BY <1>2, <1>3, <1>5, <2>2 DEF LocalOf, Stands, Keyed
  <2>4. HeapOf(t)' /\ InHand(t)' = InHand(t)
    BY <1>1, <1>2, <1>3, <1>5, <2>2 DEF HeapOf, InHand
  <2>5. SeenOf(t)'
    <3>1. SUFFICES ASSUME cClean[t] PROVE SeenOf(t)'
      BY <1>3 DEF SeenOf
    <3>2. l = "walk" => b \in X \cup {NULL} /\ (HasKey(cKey, X, k) <=> HasKey(cKey, Members(cTree, b), k))
      BY <1>5, <1>s, <3>1
    <3>3. QED
      BY <1>2, <1>3, <1>5, <1>X, <1>k, <2>2, <3>1, <3>2 DEF SeenOf
  <2>6. LockRight(t)
    BY <1>1, <1>3, <1>5, <2>2 DEF LockRight, HoldsLock
  <2>7. QED
    BY <1>3, <1>4, <1>5, <2>1, <2>3, <2>4, <2>5, <2>6, MoveKeeps
<1>6. CASE n = NULL
  <2>1. Goes(t, "done", NULL, "fail") /\ cFault' = NULL
    BY <1>6, <1>n DEF Walk
  <2>2. cClean[t] => ("fail" = "ok" <=> HasKey(cKey, X, k))
    BY <1>6, <1>c, <1>s DEF HasKey
  <2>3. QED
    BY <1>5, <2>1, <2>2
<1>7. CASE n # NULL /\ n \notin X
  <2>1. cFault' = t /\ cPc' = cPc /\ cPtr' = cPtr /\ cRet' = cRet
    BY <1>7, <1>n, <1>X DEF Walk
  <2>2. ~cClean[t]
    BY <1>7, <1>c
  <2>3. CTypes' /\ CFaulty' /\ Still(t) /\ LockRight(t)
    BY <1>1, <1>3, <2>1, <2>2 DEF CTypes, CFaulty, Still, LockRight
  <2>4. LocalOf(t)'
    BY <1>1, <1>3, <2>1 DEF LocalOf, Stands, Keyed, Handed
  <2>5. HeapOf(t)' /\ InHand(t)' = InHand(t) /\ SeenOf(t)'
    BY <1>1, <1>2, <1>3, <2>1, <2>2 DEF HeapOf, InHand, SeenOf
  <2>6. QED
    BY <2>3, <2>4, <2>5, StillKeeps
<1>8. CASE n # NULL /\ n \in X /\ cKey[n] = k
  <2>1. Goes(t, "done", n, "ok") /\ cFault' = NULL
    BY <1>8, <1>n, <1>X, <1>k DEF Walk
  <2>2. HasKey(cKey, X, k)
    BY <1>8 DEF HasKey
  <2>3. QED
    BY <1>2, <1>5, <2>1, <2>2
<1>9. CASE n # NULL /\ n \in X /\ cKey[n] # k
  <2>b. PICK b : b = Below(n, k)
    OBVIOUS
  <2>1. Goes(t, "walk", b, "pending") /\ cFault' = NULL
    BY <1>9, <1>n, <1>X, <1>k, <2>b DEF Walk
  <2>2. b \in X \cup {NULL} /\ sub[b] \subseteq sub[n] /\ \A m \in sub[n] : cKey[m] = k => m \in sub[b]
    <3>1. k \in Nat
      BY <1>2, BlockAssumption
    <3>2. QED
      BY <1>9, <1>s, <2>b, <3>1, BelowWhere
  <2>3. cClean[t] => (HasKey(cKey, X, k) <=> HasKey(cKey, sub[b], k))
    BY <1>c, <2>2 DEF HasKey
  <2>4. b \in Block \cup {NULL}
    BY <1>1, <2>2
  <2>5. QED
    BY <1>5, <2>1, <2>2, <2>3, <2>4
<1>10. QED
  BY <1>6, <1>7, <1>8, <1>9

LEMMA ReturnKeeps ==
    ASSUME CInv, cFault = NULL, NEW t \in Thread, Return(t)
    PROVE  CInv'
<1>1. /\ CTypes /\ LocalOf(t) /\ (cLock = t <=> cPc[t] \in HoldsLock) /\ t # NULL
  BY CParts
<1>2. /\ cPc[t] = "done" /\ Goes(t, "idle", NULL, "none")
      /\ cOp' = [cOp EXCEPT ![t] = "none"] /\ cArg' = [cArg EXCEPT ![t] = NULL]
      /\ cClean' = [cClean EXCEPT ![t] = TRUE]
      /\ cTree' = cTree /\ cKey' = cKey /\ cLive' = cLive /\ cLock' = cLock /\ cFault' = NULL /\ cAt' = cAt
  BY DEF Return, cHeap
<1>3. Moved(t, "idle", NULL, "none")
  <2>1. "idle" \in CPcs /\ "none" \in CRets
    BY DEF CPcs, CRets
  <2>2. QED
    BY <1>1, <1>2, <2>1, GoesMoves
<1>4. /\ cOp' \in [Thread -> COps] /\ cArg' \in [Thread -> Key \cup {NULL}]
      /\ cClean' \in [Thread -> BOOLEAN] /\ cOp'[t] = "none" /\ cArg'[t] = NULL
      /\ \A u \in Thread \ {t} : cOp'[u] = cOp[u] /\ cArg'[u] = cArg[u] /\ cClean'[u] = cClean[u]
  BY <1>1, <1>2 DEF CTypes, COps
<1>5. CTypes' /\ Still(t)
  BY <1>1, <1>2, <1>3, <1>4 DEF CTypes, Still, Moved
<1>6. LockRight(t) /\ CFaulty'
  BY <1>1, <1>2, <1>3 DEF LockRight, HoldsLock, CFaulty, Moved
<1>7. LocalOf(t)'
  BY <1>3, <1>4 DEF LocalOf, Stands, Moved
<1>8. HeapOf(t)' /\ SeenOf(t)' /\ InHand(t)' = InHand(t)
  BY <1>2, <1>3, <1>4 DEF HeapOf, SeenOf, InHand, Moved
<1>9. QED
  BY <1>5, <1>6, <1>7, <1>8, StillKeeps

\* the lock is taken and the key looked up: a refused call is refused rightly
LookedUp(t) == \/ cRet'[t] = cRet[t]
               \/ cRet'[t] = "fail" /\ cOp[t] = "add" /\ HasKey(cKey, Linked(cTree), cArg[t])
               \/ cRet'[t] = "fail" /\ cOp[t] = "del" /\ ~HasKey(cKey, Linked(cTree), cArg[t])

LEMMA LockFindKeeps ==
    ASSUME CInv, cFault = NULL, NEW t \in Thread, LockFind(t)
    PROVE  CInv' /\ LookedUp(t)
<1>X. PICK X : X = Linked(cTree)
  OBVIOUS
<1>k. PICK k : k = cArg[t]
  OBVIOUS
<1>b. PICK b : b = IF cOp[t] = "flush" THEN NULL ELSE Find(cTree.root, k)
  OBVIOUS
<1>a. PICK a : a = IF cOp[t] = "add" /\ b = NULL THEN PlaceOf(k) ELSE cAt[t]
  OBVIOUS
<1>1. /\ CTypes /\ LocalOf(t) /\ HeapOf(t) /\ SeenOf(t) /\ (cLock = t <=> cPc[t] \in HoldsLock)
      /\ t # NULL /\ X \in SUBSET Block /\ cPc[t] = "lock" /\ cTree.root \in X \cup {NULL}
      /\ \A m \in X : cKey[m] \in Nat /\ cKey[m] # NULL
  BY <1>X, CParts DEF LockFind
<1>2. cOp[t] \in {"add", "del", "flush"}
  BY <1>1, Stages
<1>3. /\ cLock = NULL /\ cLock' = t /\ cAt' = [cAt EXCEPT ![t] = a]
      /\ UNCHANGED <<cHeap, cLive, cFault, cOp, cArg, cClean>>
  BY <1>b, <1>k, <1>a DEF LockFind, Lock
<1>4. (CASE cOp[t] = "add" /\ b = NULL -> Goes(t, "link", cPtr[t], "pending")
        [] cOp[t] = "add" /\ b # NULL -> Goes(t, "unlock", cPtr[t], "fail")
        [] cOp[t] = "del" /\ b = NULL -> Goes(t, "unlock", NULL, "fail")
        [] cOp[t] = "del" /\ b # NULL -> Goes(t, "erase", b, "pending")
        [] cOp[t] = "flush" -> Goes(t, "flush", cPtr[t], cRet[t]))
  BY <1>b, <1>k DEF LockFind
<1>5. /\ cOp[t] = "add" => cRet[t] = "pending" /\ k \in Key /\ cPtr[t] \in Block
      /\ cOp[t] = "del" => cRet[t] = "pending" /\ k \in Key
      /\ cOp[t] = "flush" => /\ cArg[t] = NULL /\ cRet[t] \in {"ok", "pending"}
                             /\ IF cRet[t] = "ok" THEN cPtr[t] = NULL ELSE cPtr[t] \in Block
  BY <1>1, <1>k DEF LocalOf, Stands, Keyed, Handed
<1>s. PICK sub : /\ TreeIs(sub, X) /\ sub[NULL] = {}
                 /\ \A m \in X \cup {NULL} : Members(cTree, m) = sub[m]
  BY <1>X, TreeHere
<1>6. ASSUME cOp[t] # "flush"
      PROVE  /\ k \in Nat /\ b \in X \cup {NULL}
             /\ (b # NULL => cKey[b] = k) /\ (b = NULL => \A m \in X : cKey[m] # k)
  <2>1. k \in Nat
    BY <1>2, <1>5, <1>6, BlockAssumption
  <2>2. Found(b, sub, cTree.root, k)
    BY <1>1, <1>6, <1>b, <1>s, <2>1, Finds
  <2>3. sub[cTree.root] = X
    BY <1>s DEF TreeIs
  <2>4. QED
    BY <2>1, <2>2, <2>3 DEF Found
<1>7. cOp[t] = "add" /\ b = NULL => Sits(cTree, cKey, a, k)
  <2>1. SUFFICES ASSUME cOp[t] = "add", b = NULL PROVE Sits(cTree, cKey, PlaceOf(k), k)
    BY <1>a
  <2>2. k \in Nat /\ \A m \in X : cKey[m] \in Nat /\ cKey[m] # k /\ cKey[m] # NULL
    BY <1>1, <1>6, <2>1
  <2>3. QED
    BY <1>X, <1>s, <2>2, PlaceSits
<1>8. a \in (Block \cup {NULL}) \X Side
  <2>1. CASE cOp[t] = "add" /\ b = NULL
    BY <1>7, <2>1 DEF Sits
  <2>2. CASE ~(cOp[t] = "add" /\ b = NULL)
    BY <1>1, <1>a, <2>2 DEF CTypes
  <2>3. QED
    BY <2>1, <2>2
<1>9. /\ cAt' \in [Thread -> (Block \cup {NULL}) \X Side] /\ cAt'[t] = a
      /\ \A u \in Thread \ {t} : cAt'[u] = cAt[u]
  BY <1>1, <1>3, <1>8 DEF CTypes
<1>10. /\ cTree' = cTree /\ cKey' = cKey /\ cOp' = cOp /\ cArg' = cArg /\ cClean' = cClean
       /\ UNCHANGED <<cHeap, cLive, cOp, cArg, cClean>> /\ cFault' = NULL /\ cLock' \in Thread \cup {NULL}
  BY <1>3 DEF cHeap
<1>11. ASSUME NEW l \in {"link", "unlock", "erase", "flush"}, NEW p \in Block \cup {NULL}, NEW r \in CRets,
              Goes(t, l, p, r),
              \/ cOp[t] = "add" /\ b = NULL /\ l = "link" /\ p = cPtr[t] /\ r = "pending"
              \/ cOp[t] = "add" /\ b # NULL /\ l = "unlock" /\ p = cPtr[t] /\ r = "fail"
              \/ cOp[t] = "del" /\ b = NULL /\ l = "unlock" /\ p = NULL /\ r = "fail"
              \/ cOp[t] = "del" /\ b # NULL /\ l = "erase" /\ p = b /\ r = "pending"
              \/ cOp[t] = "flush" /\ l = "flush" /\ p = cPtr[t] /\ r = cRet[t]
       PROVE  CInv' /\ LookedUp(t)
  <2>1. l \in CPcs
    BY DEF CPcs
  <2>2. cPc'[t] = l /\ cRet'[t] = r /\ cPtr'[t] = p
    BY <1>1, <1>11, <2>1, GoesMoves DEF Moved
  <2>3. cOp'[t] = cOp[t] /\ cArg'[t] = k
    BY <1>10, <1>k
  <2>4. LocalOf(t)'
    <3>1. CASE cOp[t] = "flush"
      BY <1>5, <1>11, <1>k, <2>2, <2>3, <3>1 DEF LocalOf, Stands, Handed
    <3>2. CASE cOp[t] = "add"
      BY <1>5, <1>11, <2>2, <2>3, <3>2 DEF LocalOf, Stands, Keyed, Handed
    <3>3. CASE cOp[t] = "del"
      <4>1. b # NULL => b \in Block
        BY <1>1, <1>6, <3>3
      <4>2. QED
        BY <1>5, <1>11, <2>2, <2>3, <3>3, <4>1 DEF LocalOf, Stands, Keyed, Handed
    <3>4. QED
      BY <1>2, <3>1, <3>2, <3>3
  <2>5. HeapOf(t)'
    <3>1. l = "link" => ~HasKey(cKey, X, k) /\ Sits(cTree, cKey, a, k) /\ cKey[p] = k
      <4>1. l = "link" => cKey[cPtr[t]] = k
        BY <1>1, <1>11, <1>k DEF HeapOf
      <4>2. QED
        BY <1>6, <1>7, <1>11, <4>1 DEF HasKey
    <3>2. l = "erase" => p \in X /\ cKey[p] = k
      BY <1>6, <1>11
    <3>3. QED
      BY <1>9, <1>10, <1>11, <1>X, <2>2, <2>3, <3>1, <3>2 DEF HeapOf
  <2>6. SeenOf(t)'
    BY <1>1, <1>10, <1>11, <2>2, <2>3 DEF SeenOf
  <2>7. InHand(t)' = InHand(t)
    BY <1>1, <1>11, <2>2, <2>3 DEF InHand
  <2>8. LockRight(t)
    <3>1. \A u \in Thread : u # NULL
      BY BlockAssumption
    <3>2. QED
      BY <1>3, <1>11, <2>2, <3>1 DEF LockRight, HoldsLock
  <2>9. CInv'
    BY <1>9, <1>10, <1>11, <2>1, <2>4, <2>5, <2>6, <2>7, <2>8, MoveKeeps
  <2>10. cOp[t] # "flush" => IF b = NULL THEN ~HasKey(cKey, X, k) ELSE HasKey(cKey, X, k)
    BY <1>6 DEF HasKey
  <2>11. LookedUp(t)
    BY <1>5, <1>11, <1>k, <1>X, <2>2, <2>10 DEF LookedUp
  <2>12. QED
    BY <2>9, <2>11
<1>12. cPtr[t] \in Block \cup {NULL} /\ cRet[t] \in CRets /\ "pending" \in CRets /\ "fail" \in CRets
  BY <1>1 DEF CTypes, CRets
<1>13. CASE cOp[t] = "add" /\ b = NULL
  <2>1. Goes(t, "link", cPtr[t], "pending")
    BY <1>4, <1>13
  <2>2. QED
    BY <1>11, <1>12, <1>13, <2>1
<1>14. CASE cOp[t] = "add" /\ b # NULL
  <2>1. Goes(t, "unlock", cPtr[t], "fail")
    BY <1>4, <1>14
  <2>2. QED
    BY <1>11, <1>12, <1>14, <2>1
<1>15. CASE cOp[t] = "del" /\ b = NULL
  <2>1. Goes(t, "unlock", NULL, "fail")
    BY <1>4, <1>15
  <2>2. QED
    BY <1>11, <1>12, <1>15, <2>1
<1>16. CASE cOp[t] = "del" /\ b # NULL
  <2>1. Goes(t, "erase", b, "pending")
    BY <1>4, <1>16
  <2>2. b \in Block \cup {NULL}
    BY <1>1, <1>6, <1>16
  <2>3. QED
    BY <1>11, <1>12, <1>16, <2>1, <2>2
<1>17. CASE cOp[t] = "flush"
  <2>1. Goes(t, "flush", cPtr[t], cRet[t])
    BY <1>4, <1>17
  <2>2. QED
    BY <1>11, <1>12, <1>17, <2>1
<1>18. QED
  BY <1>2, <1>13, <1>14, <1>15, <1>16, <1>17

\* LinkBlock, EraseBlock, FlushLocked, Free: the heap changes
LEMMA HeapMoveKeeps ==
    ASSUME CInv, cFault = NULL, NEW t \in Thread, NEW l \in CPcs, NEW b \in Block \cup {NULL}, NEW r \in CRets,
           Goes(t, l, b, r), UNCHANGED <<cLive, cLock, cFault, cOp, cArg, cAt>>, Disturbs(t),
           cKey' \in [Block -> Key \cup {NULL}], CShape', CDistinct',
           \A u \in Thread \ {t} : /\ cPc[u] \in {"link", "erase"} =>
                                          cTree' = cTree /\ \A m \in Linked(cTree) : cKey'[m] = cKey[m]
                                   /\ cOp[u] = "add" /\ cPc[u] \in {"lock", "link"} =>
                                          cKey'[cPtr[u]] = cKey[cPtr[u]],
           OwnsRight(cKey, Linked(cTree), InHand(t), cKey', Linked(cTree'), InHand(t)'),
           l \in HoldsLock <=> cPc[t] \in HoldsLock,
           LocalOf(t)', HeapOf(t)', cOp[t] # "search", l # "lock" /\ l # "flush"
    PROVE  CInv'
<1>1. CTypes /\ (cLock = t <=> cPc[t] \in HoldsLock) /\ ContainerOwned /\ Linked(cTree) \in SUBSET Block
  BY CParts
<1>2. Moved(t, l, b, r)
  BY <1>1, GoesMoves
<1>3. /\ cClean' \in [Thread -> BOOLEAN]
      /\ \A u \in Thread \ {t} : cClean'[u] => cClean[u] /\ cOp[u] \notin {"search", "flush"}
  BY <1>1 DEF Disturbs, CTypes
<1>4. CTypes'
  BY <1>1, <1>2, <1>3 DEF CTypes, Moved
<1>5. \A u \in Thread \ {t} : Quiet(u)
  <2>1. ASSUME NEW u \in Thread \ {t} PROVE Quiet(u)
    <3>1. /\ cPc'[u] = cPc[u] /\ cOp'[u] = cOp[u] /\ cRet'[u] = cRet[u]
          /\ cArg'[u] = cArg[u] /\ cPtr'[u] = cPtr[u] /\ cAt'[u] = cAt[u]
      BY <1>2 DEF Moved
    <3>2. cClean'[u] => cClean[u] /\ cOp[u] \notin {"search", "flush"}
      BY <1>3
    <3>3. QED
      BY <3>1, <3>2 DEF Quiet
  <2>2. QED
    BY <2>1
<1>6. cFault' = NULL /\ cLock' = cLock /\ cOp' = cOp /\ cPc'[t] = l
  BY <1>2 DEF Moved
<1>7. CFaulty' /\ LockRight(t)
  BY <1>1, <1>6 DEF CFaulty, LockRight
<1>8. SeenOf(t)'
  BY <1>6 DEF SeenOf
<1>9. Linked(cTree') \in SUBSET Block
  BY ShapeLinked DEF CShape
<1>10. ContainerOwned'
  BY <1>1, <1>4, <1>5, <1>9, OwnedStep
<1>11. QED
  BY <1>4, <1>5, <1>7, <1>8, <1>10, StepKeeps

\* The thread that holds the lock is the only one that links or erases.
LEMMA LockExcludes ==
    ASSUME CInv, NEW t \in Thread, cPc[t] \in HoldsLock
    PROVE  \A u \in Thread \ {t} : cPc[u] \notin HoldsLock
  BY DEF CInv, CLocked

LEMMA LinkBlockKeeps ==
    ASSUME CInv, cFault = NULL, NEW t \in Thread, LinkBlock(t)
    PROVE  CInv' /\ Linked(cTree') = Linked(cTree) \cup {cPtr[t]}
<1>X. PICK X : X = Linked(cTree)
  OBVIOUS
<1>n. PICK n : n = cPtr[t]
  OBVIOUS
<1>k. PICK k : k = cArg[t]
  OBVIOUS
<1>1. /\ CTypes /\ LocalOf(t) /\ HeapOf(t) /\ (cLock = t <=> cPc[t] \in HoldsLock) /\ ContainerOwned
      /\ t # NULL /\ X \in SUBSET Block /\ cPc[t] = "link" /\ Shape(cTree, cKey, X) /\ CDistinct
      /\ \A m \in X : cKey[m] # NULL
  BY <1>X, CParts DEF LinkBlock
<1>2. cOp[t] = "add" /\ cRet[t] = "pending" /\ k \in Key /\ n \in Block
  BY <1>1, <1>k, <1>n, Stages DEF Keyed, Handed
<1>3. cKey[n] = k /\ ~HasKey(cKey, X, k) /\ Sits(cTree, cKey, cAt[t], k)
  BY <1>1, <1>2, <1>X, <1>k, <1>n DEF HeapOf
<1>4. /\ Goes(t, "unlock", NULL, "ok") /\ cTree' = LinkNode(cTree, n, cAt[t][1], cAt[t][2])
      /\ Disturbs(t) /\ cKey' = cKey /\ UNCHANGED <<cLive, cLock, cFault, cOp, cArg, cAt>>
  BY <1>n DEF LinkBlock
<1>5. n # NULL /\ k # NULL /\ k \in Nat /\ n \notin X
  BY <1>2, <1>3, BlockAssumption DEF HasKey
<1>6. Shape(cTree', cKey', X \cup {n})
  BY <1>1, <1>2, <1>3, <1>4, <1>5, ShapeLinks
<1>7. Linked(cTree') = X \cup {n} /\ CShape'
  BY <1>6, ShapeLinked DEF CShape
<1>8. CDistinct'
  <2>1. \A a, b \in X : cKey[a] = cKey[b] => a = b
    BY <1>1, <1>X DEF CDistinct
  <2>2. \A a \in X : cKey[a] # cKey[n]
    BY <1>3 DEF HasKey
  <2>3. QED
    BY <1>4, <1>7, <2>1, <2>2 DEF CDistinct
<1>9. "unlock" \in CPcs /\ "ok" \in CRets /\ "unlock" \in HoldsLock /\ "link" \in HoldsLock
  BY DEF CPcs, CRets, HoldsLock
<1>10. cPc'[t] = "unlock" /\ cRet'[t] = "ok" /\ cPtr'[t] = NULL /\ cOp'[t] = "add" /\ cArg'[t] = k
  BY <1>1, <1>2, <1>4, <1>9, <1>k, GoesMoves DEF Moved
<1>11. LocalOf(t)' /\ HeapOf(t)'
  BY <1>2, <1>10 DEF LocalOf, HeapOf, Stands, Keyed
<1>12. InHand(t) = {n} /\ InHand(t)' = {}
  BY <1>1, <1>2, <1>5, <1>10, <1>n DEF InHand
<1>13. OwnsRight(cKey, Linked(cTree), InHand(t), cKey', Linked(cTree'), InHand(t)')
  <2>1. OwnsRight(cKey, X, {n}, cKey, X \cup {n}, {})
    BY <1>1, <1>3, <1>5 DEF OwnsRight
  <2>2. QED
    BY <1>4, <1>7, <1>12, <1>X, <2>1
<1>14. \A u \in Thread \ {t} : cPc[u] \notin {"link", "erase"}
  BY <1>1, <1>9, LockExcludes DEF HoldsLock
<1>15. cKey' \in [Block -> Key \cup {NULL}]
  BY <1>1, <1>4 DEF CTypes
<1>16. \A u \in Thread \ {t} : /\ cPc[u] \in {"link", "erase"} =>
                                       cTree' = cTree /\ \A m \in Linked(cTree) : cKey'[m] = cKey[m]
                               /\ cOp[u] = "add" /\ cPc[u] \in {"lock", "link"} =>
                                       cKey'[cPtr[u]] = cKey[cPtr[u]]
  BY <1>4, <1>14
<1>17. CInv'
  BY <1>1, <1>2, <1>4, <1>7, <1>8, <1>9, <1>11, <1>13, <1>15, <1>16, HeapMoveKeeps
<1>18. QED
  BY <1>7, <1>17, <1>X, <1>n

LEMMA EraseBlockKeeps ==
    ASSUME CInv, cFault = NULL, NEW t \in Thread, EraseBlock(t)
    PROVE  CInv' /\ Linked(cTree') = Linked(cTree) \ {cPtr[t]}
<1>X. PICK X : X = Linked(cTree)
  OBVIOUS
<1>n. PICK n : n = cPtr[t]
  OBVIOUS
<1>k. PICK k : k = cArg[t]
  OBVIOUS
<1>1. /\ CTypes /\ LocalOf(t) /\ HeapOf(t) /\ (cLock = t <=> cPc[t] \in HoldsLock) /\ ContainerOwned
      /\ t # NULL /\ X \in SUBSET Block /\ cPc[t] = "erase" /\ Shape(cTree, cKey, X) /\ CDistinct
      /\ \A m \in X : cKey[m] # NULL
  BY <1>X, CParts DEF EraseBlock
<1>2. cOp[t] = "del" /\ cRet[t] = "pending" /\ k \in Key /\ n \in Block /\ n \in X /\ n # NULL
  BY <1>1, <1>k, <1>n, <1>X, Stages, BlockAssumption DEF Keyed, Handed, HeapOf
<1>4. /\ Goes(t, "unlock", n, "ok") /\ cTree' = Forget(RbErase(cTree, n), n)
      /\ Disturbs(t) /\ cKey' = cKey /\ UNCHANGED <<cLive, cLock, cFault, cOp, cArg, cAt>>
  BY <1>n DEF EraseBlock
<1>6. Shape(cTree', cKey', X \ {n})
  BY <1>1, <1>2, <1>4, ShapeErases
<1>7. Linked(cTree') = X \ {n} /\ CShape'
  BY <1>6, ShapeLinked DEF CShape
<1>8. CDistinct'
  BY <1>1, <1>4, <1>7, <1>X DEF CDistinct
<1>9. "unlock" \in CPcs /\ "ok" \in CRets /\ "unlock" \in HoldsLock /\ "erase" \in HoldsLock
  BY DEF CPcs, CRets, HoldsLock
<1>10. cPc'[t] = "unlock" /\ cRet'[t] = "ok" /\ cPtr'[t] = n /\ cOp'[t] = "del" /\ cArg'[t] = k
  BY <1>1, <1>2, <1>4, <1>9, <1>k, GoesMoves DEF Moved
<1>11. LocalOf(t)' /\ HeapOf(t)'
  BY <1>2, <1>10 DEF LocalOf, HeapOf, Stands, Keyed, Handed
<1>12. InHand(t) = {} /\ InHand(t)' = {n}
  BY <1>1, <1>2, <1>10, <1>n DEF InHand
<1>13. OwnsRight(cKey, Linked(cTree), InHand(t), cKey', Linked(cTree'), InHand(t)')
  <2>1. OwnsRight(cKey, X, {}, cKey, X \ {n}, {n})
    BY <1>1, <1>2 DEF OwnsRight
  <2>2. QED
    BY <1>4, <1>7, <1>12, <1>X, <2>1
<1>14. \A u \in Thread \ {t} : cPc[u] \notin {"link", "erase"}
  BY <1>1, <1>9, LockExcludes DEF HoldsLock
<1>15. cKey' \in [Block -> Key \cup {NULL}]
  BY <1>1, <1>4 DEF CTypes
<1>16. \A u \in Thread \ {t} : /\ cPc[u] \in {"link", "erase"} =>
                                       cTree' = cTree /\ \A m \in Linked(cTree) : cKey'[m] = cKey[m]
                               /\ cOp[u] = "add" /\ cPc[u] \in {"lock", "link"} =>
                                       cKey'[cPtr[u]] = cKey[cPtr[u]]
  BY <1>4, <1>14
<1>17. CInv'
  BY <1>1, <1>2, <1>4, <1>7, <1>8, <1>9, <1>11, <1>13, <1>15, <1>16, HeapMoveKeeps
<1>18. QED
  BY <1>7, <1>17, <1>X, <1>n

LEMMA FreeKeeps ==
    ASSUME CInv, cFault = NULL, NEW t \in Thread, Free(t)
    PROVE  CInv' /\ cTree' = cTree /\ \A m \in Linked(cTree) : cKey'[m] = cKey[m]
<1>X. PICK X : X = Linked(cTree)
  OBVIOUS
<1>n. PICK n : n = cPtr[t]
  OBVIOUS
<1>r. PICK r : r = cRet[t]
  OBVIOUS
<1>1. /\ CTypes /\ LocalOf(t) /\ HeapOf(t) /\ (cLock = t <=> cPc[t] \in HoldsLock) /\ ContainerOwned
      /\ t # NULL /\ X \in SUBSET Block /\ cPc[t] = "free" /\ Shape(cTree, cKey, X) /\ CDistinct
      /\ \A m \in X : cKey[m] # NULL
  BY <1>X, CParts DEF Free
<1>2. cOp[t] \in {"add", "del"} /\ r \in {"ok", "fail"} /\ n \in Block /\ n # NULL
  BY <1>1, <1>r, <1>n, Stages, BlockAssumption DEF Handed
<1>3. Keyed(t)
  BY <1>1, <1>2 DEF LocalOf, Stands
<1>4. /\ Goes(t, "done", NULL, r) /\ cTree' = cTree /\ cKey' = [cKey EXCEPT ![n] = NULL]
      /\ Disturbs(t) /\ UNCHANGED <<cLive, cLock, cFault, cOp, cArg, cAt>>
  BY <1>n, <1>r DEF Free
<1>5. InHand(t) = {n}
  BY <1>1, <1>2, <1>n DEF InHand
<1>6. n \notin X /\ cKey[n] # NULL
  <2>1. InHand(t) \cap X = {} /\ n \in {b \in Block : cKey[b] # NULL}
    BY <1>1, <1>5, <1>X DEF ContainerOwned
  <2>2. QED
    BY <1>5, <2>1
<1>7. /\ cKey' \in [Block -> Key \cup {NULL}] /\ cKey'[n] = NULL
      /\ \A m \in Block : m # n => cKey'[m] = cKey[m]
  BY <1>1, <1>2, <1>4 DEF CTypes
<1>8. \A m \in X : cKey'[m] = cKey[m]
  BY <1>1, <1>6, <1>7
<1>9. Shape(cTree, cKey', X)
  BY <1>1, <1>8, ShapeKeys
<1>10. CShape' /\ CDistinct'
  BY <1>1, <1>4, <1>8, <1>9, <1>X DEF CShape, CDistinct
<1>11. "done" \in CPcs /\ r \in CRets /\ "done" \notin HoldsLock /\ "free" \notin HoldsLock
  BY <1>2 DEF CPcs, CRets, HoldsLock
<1>12. cPc'[t] = "done" /\ cRet'[t] = r /\ cPtr'[t] = NULL /\ cOp'[t] = cOp[t] /\ cArg'[t] = cArg[t]
  BY <1>1, <1>4, <1>11, GoesMoves DEF Moved
<1>13. LocalOf(t)' /\ HeapOf(t)' /\ InHand(t)' = {}
  BY <1>2, <1>3, <1>12 DEF LocalOf, HeapOf, Stands, Keyed, InHand
<1>14. OwnsRight(cKey, Linked(cTree), InHand(t), cKey', Linked(cTree'), InHand(t)')
  <2>1. OwnsRight(cKey, X, {n}, cKey', X, {})
    BY <1>1, <1>2, <1>6, <1>7 DEF OwnsRight
  <2>2. QED
    BY <1>4, <1>5, <1>13, <1>X, <2>1
<1>15. ASSUME NEW u \in Thread \ {t}, cOp[u] = "add", cPc[u] \in {"lock", "link"}
       PROVE  cKey'[cPtr[u]] = cKey[cPtr[u]]
  <2>1. LocalOf(u)
    BY CParts
  <2>2. cPtr[u] \in Block
    BY <1>15, <2>1 DEF LocalOf, Stands, Handed
  <2>3. InHand(u) = {cPtr[u]}
    BY <1>15, <2>2, BlockAssumption DEF InHand
  <2>4. cPtr[u] # n
    BY <1>1, <1>5, <2>3 DEF ContainerOwned
  <2>5. QED
    BY <1>7, <2>2, <2>4
<1>16. \A u \in Thread \ {t} : /\ cPc[u] \in {"link", "erase"} =>
                                       cTree' = cTree /\ \A m \in Linked(cTree) : cKey'[m] = cKey[m]
                               /\ cOp[u] = "add" /\ cPc[u] \in {"lock", "link"} =>
                                       cKey'[cPtr[u]] = cKey[cPtr[u]]
  BY <1>4, <1>8, <1>15, <1>X
<1>17. CInv'
  BY <1>1, <1>2, <1>4, <1>7, <1>10, <1>11, <1>13, <1>14, <1>16, HeapMoveKeeps
<1>18. QED
  BY <1>4, <1>8, <1>17, <1>X

\* a flush from the node n of the tree, or from no node
KeysAfter(n) == [b \in Block |-> IF b \in Flushed(n) THEN NULL ELSE cKey[b]]
FlushEffect(x, v, n) ==
    /\ n = NULL => x = cTree /\ v = cKey
    /\ n # NULL => /\ Linked(x) = {}
                   /\ \A b \in Block : v[b] = IF b \in Linked(cTree) THEN NULL ELSE cKey[b]
    /\ Shape(x, v, Linked(x)) /\ v \in [Block -> Key \cup {NULL}]
    /\ \A a, b \in Linked(x) : v[a] = v[b] => a = b

LEMMA FlushHeap ==
    ASSUME CInv, NEW n \in Linked(cTree) \cup {NULL}
    PROVE  FlushEffect(FlushFrom(cTree, n), KeysAfter(n), n)
<1>x. PICK x : x = FlushFrom(cTree, n)
  OBVIOUS
<1>v. PICK v : v = KeysAfter(n)
  OBVIOUS
<1> SUFFICES FlushEffect(x, v, n)
  BY <1>x, <1>v
<1>X. PICK X : X = Linked(cTree)
  OBVIOUS
<1>1. /\ CTypes /\ CDistinct /\ Shape(cTree, cKey, X) /\ X \in SUBSET Block /\ NULL \notin Block
  BY <1>X, BlockAssumption, ShapeLinked DEF CInv, CShape
<1>2. v \in [Block -> Key \cup {NULL}]
  BY <1>1, <1>v DEF CTypes, KeysAfter
<1>3. CASE n = NULL
  <2>1. x = cTree
    BY <1>3, <1>x, FlushesNothing
  <2>2. Flushed(n) = {}
    BY <1>3 DEF Flushed
  <2>3. v = cKey
    BY <1>1, <1>v, <2>2 DEF CTypes, KeysAfter
  <2>4. QED
    BY <1>1, <1>2, <1>3, <1>X, <2>1, <2>3 DEF CDistinct, FlushEffect
<1>4. CASE n # NULL
  <2>1. n \in X \cup {NULL} /\ (n = NULL => X = {})
    BY <1>4, <1>X
  <2>2. Shape(x, v, {})
    BY <1>1, <1>x, <2>1, ShapeFlushes
  <2>3. Linked(x) = {}
    BY <2>2, ShapeLinked
  <2>4. Flushed(n) = X
    BY <1>1, <1>4, <1>X DEF Flushed
  <2>5. \A b \in Block : v[b] = IF b \in X THEN NULL ELSE cKey[b]
    BY <1>v, <2>4 DEF KeysAfter
  <2>6. QED
    BY <1>2, <1>4, <1>X, <2>2, <2>3, <2>5 DEF FlushEffect
<1>5. QED
  BY <1>3, <1>4

LEMMA FlushLockedKeeps ==
    ASSUME CInv, cFault = NULL, NEW t \in Thread, FlushLocked(t)
    PROVE  /\ CInv'
           /\ \/ cTree' = cTree /\ cKey' = cKey /\ cPtr[t] = NULL /\ cRet'[t] = "ok"
              \/ Linked(cTree') = {} /\ cPtr[t] # NULL /\ cRet'[t] = "ok"
              \/ cTree' = cTree /\ cKey' = cKey /\ cRet' = cRet
<1>X. PICK X : X = Linked(cTree)
  OBVIOUS
<1>n. PICK n : n = cPtr[t]
  OBVIOUS
<1>1. /\ CTypes /\ LocalOf(t) /\ HeapOf(t) /\ SeenOf(t) /\ (cLock = t <=> cPc[t] \in HoldsLock) /\ ContainerOwned
      /\ t # NULL /\ X \in SUBSET Block /\ cPc[t] = "flush" /\ \A m \in X : cKey[m] # NULL
  BY <1>X, CParts DEF FlushLocked
<1>2. /\ cOp[t] = "flush" /\ cArg[t] = NULL /\ n \in Block \cup {NULL}
      /\ IF cRet[t] = "ok" THEN cPtr[t] = NULL ELSE Handed(t) /\ cRet[t] = "pending"
  BY <1>1, <1>n, Stages DEF CTypes
<1>3. UNCHANGED <<cLive, cLock, cOp, cArg, cAt>>
  BY DEF FlushLocked
<1>4. CASE n = NULL \/ n \in X
  <2>1. /\ cTree' = FlushFrom(cTree, n) /\ Goes(t, "unlock", NULL, "ok") /\ Disturbs(t) /\ cFault' = NULL
        /\ cKey' = [b \in Block |-> IF b \in Flushed(n) THEN NULL ELSE cKey[b]]
        /\ UNCHANGED <<cLive, cLock, cFault, cOp, cArg, cAt>>
    BY <1>3, <1>4, <1>n, <1>X DEF FlushLocked
  <2>2. /\ n = NULL => cTree' = cTree /\ cKey' = cKey
        /\ n # NULL => /\ Linked(cTree') = {}
                       /\ \A b \in Block : cKey'[b] = IF b \in X THEN NULL ELSE cKey[b]
        /\ CShape' /\ cKey' \in [Block -> Key \cup {NULL}] /\ CDistinct'
    <3>x. PICK x : x = FlushFrom(cTree, n)
      OBVIOUS
    <3>v. PICK v : v = KeysAfter(n)
      OBVIOUS
    <3>1. n \in Linked(cTree) \cup {NULL}
      BY <1>4, <1>X
    <3>2. /\ n = NULL => x = cTree /\ v = cKey
          /\ n # NULL => /\ Linked(x) = {}
                         /\ \A b \in Block : v[b] = IF b \in Linked(cTree) THEN NULL ELSE cKey[b]
          /\ Shape(x, v, Linked(x)) /\ v \in [Block -> Key \cup {NULL}]
          /\ \A a, b \in Linked(x) : v[a] = v[b] => a = b
      <4>1. FlushEffect(FlushFrom(cTree, n), KeysAfter(n), n)
        BY <3>1, FlushHeap
      <4>2. FlushEffect(x, v, n)
        BY <3>x, <3>v, <4>1
      <4>3. QED
        BY <4>2 DEF FlushEffect
    <3>3. cTree' = x /\ cKey' = v
      BY <2>1, <3>x, <3>v DEF KeysAfter
    <3>4. QED
      BY <1>X, <3>2, <3>3 DEF CShape, CDistinct
  <2>3. "unlock" \in CPcs /\ "ok" \in CRets /\ "unlock" \in HoldsLock /\ "flush" \in HoldsLock
    BY DEF CPcs, CRets, HoldsLock
  <2>4. cPc'[t] = "unlock" /\ cRet'[t] = "ok" /\ cPtr'[t] = NULL /\ cOp'[t] = "flush" /\ cArg'[t] = NULL
    BY <1>1, <1>2, <2>1, <2>3, GoesMoves DEF Moved
  <2>5. LocalOf(t)' /\ HeapOf(t)'
    BY <2>4 DEF LocalOf, HeapOf, Stands
  <2>6. InHand(t) = {} /\ InHand(t)' = {}
    BY <1>1, <1>2, <2>4 DEF InHand
  <2>7. OwnsRight(cKey, Linked(cTree), InHand(t), cKey', Linked(cTree'), InHand(t)')
    <3>1. CASE n = NULL
      <4>1. OwnsRight(cKey, X, {}, cKey, X, {})
        BY <1>1 DEF OwnsRight
      <4>2. QED
        BY <1>X, <2>2, <2>6, <3>1, <4>1
    <3>2. CASE n # NULL
      <4>1. OwnsRight(cKey, X, {}, cKey', {}, {})
        BY <1>1, <2>2, <3>2 DEF OwnsRight
      <4>2. QED
        BY <1>X, <2>2, <2>6, <3>2, <4>1
    <3>3. QED
      BY <3>1, <3>2
  <2>8. \A u \in Thread \ {t} : cPc[u] \notin {"link", "erase"}
    BY <1>1, <2>3, LockExcludes DEF HoldsLock
  <2>9. ASSUME NEW u \in Thread \ {t}, cOp[u] = "add", cPc[u] \in {"lock", "link"}
        PROVE  cKey'[cPtr[u]] = cKey[cPtr[u]]
    <3>1. LocalOf(u)
      BY CParts
    <3>2. cPtr[u] \in Block
      BY <2>9, <3>1 DEF LocalOf, Stands, Handed
    <3>3. InHand(u) = {cPtr[u]}
      BY <2>9, <3>2, BlockAssumption DEF InHand
    <3>4. cPtr[u] \notin X
      BY <1>1, <1>X, <3>3 DEF ContainerOwned
    <3>5. QED
      BY <2>2, <3>2, <3>4
  <2>10. \A u \in Thread \ {t} : /\ cPc[u] \in {"link", "erase"} =>
                                         cTree' = cTree /\ \A m \in Linked(cTree) : cKey'[m] = cKey[m]
                                 /\ cOp[u] = "add" /\ cPc[u] \in {"lock", "link"} =>
                                         cKey'[cPtr[u]] = cKey[cPtr[u]]
    BY <2>8, <2>9
  <2>11. CInv'
    BY <1>1, <1>2, <2>1, <2>2, <2>3, <2>5, <2>7, <2>10, HeapMoveKeeps
  <2>12. QED
    BY <1>n, <2>2, <2>4, <2>11
<1>5. CASE ~(n = NULL \/ n \in X)
  <2>1. cFault' = t /\ cTree' = cTree /\ cKey' = cKey /\ cPc' = cPc /\ cPtr' = cPtr /\ cRet' = cRet /\ cClean' = cClean
    BY <1>5, <1>n, <1>X DEF FlushLocked, cHeap
  <2>2. ~cClean[t]
    BY <1>1, <1>2, <1>5, <1>n, <1>X DEF SeenOf
  <2>3. CTypes' /\ CFaulty' /\ Still(t) /\ LockRight(t)
    BY <1>1, <1>3, <2>1, <2>2 DEF CTypes, CFaulty, Still, LockRight
  <2>4. LocalOf(t)'
    BY <1>1, <1>3, <2>1 DEF LocalOf, Stands, Keyed, Handed
  <2>5. HeapOf(t)' /\ InHand(t)' = InHand(t) /\ SeenOf(t)'
    BY <1>1, <1>2, <1>3, <2>1, <2>2 DEF HeapOf, InHand, SeenOf
  <2>6. CInv'
    BY <2>3, <2>4, <2>5, StillKeeps
  <2>7. QED
    BY <2>1, <2>6
<1>6. QED
  BY <1>4, <1>5

\* container_insert allocates a block
NewBlock(t, k, b) == /\ Call(t, "add", k) /\ cKey[b] = NULL /\ cKey' = [cKey EXCEPT ![b] = k]
                     /\ Goes(t, "lock", b, "pending") /\ Disturbs(t) /\ cTree' = cTree

LEMMA NewBlockKeeps ==
    ASSUME CInv, cFault = NULL, NEW t \in Thread, NEW k \in Key, NEW b \in Block, NewBlock(t, k, b)
    PROVE  CInv' /\ \A m \in Linked(cTree) : cKey'[m] = cKey[m]
<1>X. PICK X : X = Linked(cTree)
  OBVIOUS
<1>1. /\ CTypes /\ LocalOf(t) /\ (cLock = t <=> cPc[t] \in HoldsLock) /\ ContainerOwned /\ CDistinct
      /\ t # NULL /\ X \in SUBSET Block /\ Shape(cTree, cKey, X) /\ \A m \in X : cKey[m] # NULL
  BY <1>X, CParts
<1>2. /\ Call(t, "add", k) /\ cKey[b] = NULL /\ cKey' = [cKey EXCEPT ![b] = k]
      /\ Goes(t, "lock", b, "pending") /\ Disturbs(t) /\ cTree' = cTree
  BY DEF NewBlock
<1>3. "add" \in COps /\ "lock" \in CPcs /\ "pending" \in CRets /\ k # NULL /\ b # NULL
  BY BlockAssumption DEF COps, CPcs, CRets
<1>4. Called(t, "add", k)
  BY <1>1, <1>2, <1>3, CallsAs
<1>5. Moved(t, "lock", b, "pending")
  BY <1>1, <1>2, <1>3, GoesMoves
<1>6. /\ cPc[t] = "idle" /\ cOp[t] = "none" /\ cPc'[t] = "lock" /\ cOp'[t] = "add" /\ cArg'[t] = k
      /\ cPtr'[t] = b /\ cRet'[t] = "pending" /\ cLock' = cLock /\ cFault' = NULL
  BY <1>1, <1>4, <1>5, Stages DEF Called, Moved
<1>7. /\ cKey' \in [Block -> Key \cup {NULL}] /\ cKey'[b] = k
      /\ \A m \in Block : m # b => cKey'[m] = cKey[m]
  BY <1>1, <1>2 DEF CTypes
<1>8. /\ cClean' \in [Thread -> BOOLEAN]
      /\ \A u \in Thread \ {t} : cClean'[u] => cClean[u] /\ cOp[u] \notin {"search", "flush"}
  BY <1>1, <1>2 DEF Disturbs, CTypes
<1>9. CTypes'
  BY <1>1, <1>4, <1>5, <1>7, <1>8 DEF CTypes, Called, Moved
<1>10. b \notin X /\ \A u \in Thread : b \notin InHand(u)
  BY <1>1, <1>2, <1>X DEF ContainerOwned
<1>11. \A m \in X : cKey'[m] = cKey[m]
  BY <1>1, <1>7, <1>10
<1>12. Shape(cTree, cKey', X)
  BY <1>1, <1>11, ShapeKeys
<1>13. CShape' /\ CDistinct'
  BY <1>1, <1>2, <1>11, <1>12, <1>X DEF CShape, CDistinct
<1>14. ASSUME NEW u \in Thread \ {t} PROVE Quiet(u)
  <2>1. /\ cPc'[u] = cPc[u] /\ cOp'[u] = cOp[u] /\ cRet'[u] = cRet[u]
        /\ cArg'[u] = cArg[u] /\ cPtr'[u] = cPtr[u] /\ cAt'[u] = cAt[u]
    BY <1>4, <1>5 DEF Called, Moved
  <2>2. ASSUME cOp[u] = "add", cPc[u] \in {"lock", "link"} PROVE cKey'[cPtr[u]] = cKey[cPtr[u]]
    <3>1. LocalOf(u)
      BY CParts
    <3>2. cPtr[u] \in Block
      BY <2>2, <3>1 DEF LocalOf, Stands, Handed
    <3>3. InHand(u) = {cPtr[u]}
      BY <2>2, <3>2, BlockAssumption DEF InHand
    <3>4. QED
      BY <1>7, <1>10, <3>2, <3>3
  <2>3. QED
    BY <1>2, <1>8, <1>11, <1>X, <2>1, <2>2 DEF Quiet
<1>15. LockRight(t) /\ CFaulty'
  BY <1>1, <1>6 DEF LockRight, HoldsLock, CFaulty
<1>16. LocalOf(t)' /\ HeapOf(t)' /\ SeenOf(t)'
  BY <1>6, <1>7 DEF LocalOf, HeapOf, SeenOf, Stands, Keyed, Handed
<1>17. InHand(t) = {} /\ InHand(t)' = {b}
  BY <1>3, <1>6 DEF InHand
<1>18. OwnsRight(cKey, Linked(cTree), InHand(t), cKey', Linked(cTree'), InHand(t)')
  <2>1. OwnsRight(cKey, X, {}, cKey', X, {b})
    BY <1>1, <1>2, <1>3, <1>7, <1>10 DEF OwnsRight
  <2>2. QED
    BY <1>2, <1>17, <1>X, <2>1
<1>19. ContainerOwned'
  <2>1. Linked(cTree') \in SUBSET Block /\ Linked(cTree) \in SUBSET Block
    BY <1>1, <1>2, <1>X
  <2>2. QED
    BY <1>1, <1>9, <1>14, <1>18, <2>1, OwnedStep
<1>20. CInv'
  BY <1>9, <1>13, <1>14, <1>15, <1>16, <1>19, StepKeeps
<1>21. QED
  BY <1>11, <1>20, <1>X

\* rbtree_contarner_init and container_deinit
LEMMA DeinitKeeps ==
    ASSUME CInv, cFault = NULL, ContainerDeinit
    PROVE  CInv' /\ Linked(cTree') = {}
<1>X. PICK X : X = Linked(cTree)
  OBVIOUS
<1>n. PICK n : n = cTree.root
  OBVIOUS
<1>1. /\ CTypes /\ ContainerOwned /\ X \in SUBSET Block /\ Shape(cTree, cKey, X)
      /\ n \in X \cup {NULL} /\ (n = NULL => X = {})
      /\ \A t \in Thread : LocalOf(t) /\ cPc[t] = "idle"
  BY <1>X, <1>n, ShapeLinked DEF CInv, CShape, CThreads, ContainerDeinit
<1>2. /\ cTree' = FlushFrom(cTree, n) /\ cLive' = FALSE
      /\ cKey' = [b \in Block |-> IF b \in Flushed(n) THEN NULL ELSE cKey[b]]
      /\ UNCHANGED <<cLock, cFault, cPc, cOp, cArg, cRet, cPtr, cAt, cClean>>
  BY <1>n DEF ContainerDeinit
<1>3. \A t \in Thread : InHand(t) = {} /\ InHand(t)' = {} /\ cOp[t] = "none"
  BY <1>1, <1>2, Stages DEF InHand
<1>4. /\ CShape' /\ cKey' \in [Block -> Key \cup {NULL}] /\ CDistinct' /\ Linked(cTree') = {}
      /\ \A b \in Block : cKey'[b] = NULL
  <2>x. PICK x : x = FlushFrom(cTree, n)
    OBVIOUS
  <2>v. PICK v : v = KeysAfter(n)
    OBVIOUS
  <2>1. n \in Linked(cTree) \cup {NULL}
    BY <1>1, <1>X
  <2>2. /\ n = NULL => x = cTree /\ v = cKey
        /\ n # NULL => /\ Linked(x) = {}
                       /\ \A b \in Block : v[b] = IF b \in Linked(cTree) THEN NULL ELSE cKey[b]
        /\ Shape(x, v, Linked(x)) /\ v \in [Block -> Key \cup {NULL}]
        /\ \A a, b \in Linked(x) : v[a] = v[b] => a = b
    <3>1. FlushEffect(FlushFrom(cTree, n), KeysAfter(n), n)
      BY <2>1, FlushHeap
    <3>2. FlushEffect(x, v, n)
      BY <2>x, <2>v, <3>1
    <3>3. QED
      BY <3>2 DEF FlushEffect
  <2>3. cTree' = x /\ cKey' = v
    BY <1>2, <2>x, <2>v DEF KeysAfter
  <2>4. Linked(x) = {}
    BY <1>1, <1>X, <2>2
  <2>5. \A b \in Block : cKey[b] # NULL <=> b \in X
    BY <1>1, <1>3, <1>X DEF ContainerOwned
  <2>6. \A b \in Block : v[b] = NULL
    BY <1>1, <1>X, <2>2, <2>5
  <2>7. QED
    BY <2>2, <2>3, <2>4, <2>6 DEF CShape, CDistinct
<1>5. CTypes' /\ CLocked' /\ CFaulty'
  BY <1>1, <1>2, <1>4 DEF CInv, CTypes, CLocked, CFaulty
<1>6. ContainerOwned'
  BY <1>3, <1>4 DEF ContainerOwned
<1>7. CThreads'
  <2>1. ASSUME NEW t \in Thread PROVE LocalOf(t)' /\ HeapOf(t)' /\ SeenOf(t)'
    <3>1. LocalOf(t)'
      BY <1>1, <1>2 DEF LocalOf, Stands, Keyed, Handed
    <3>2. HeapOf(t)' /\ SeenOf(t)'
      BY <1>1, <1>2, <1>3 DEF HeapOf, SeenOf
    <3>3. QED
      BY <3>1, <3>2
  <2>2. QED
    BY <2>1 DEF CThreads
<1>8. QED
  BY <1>4, <1>5, <1>6, <1>7 DEF CInv

LEMMA InitKeeps == ASSUME CInv, ContainerInit PROVE CInv'
  BY DEF CInv, ContainerInit, cHeap, CTypes, CLocked, CShape, CDistinct, ContainerOwned, CFaulty,
         CThreads, LocalOf, HeapOf, SeenOf, Stands, Keyed, Handed, InHand

\* every step of the container
LEMMA CNextKeeps == CInv /\ [cNext]_cVars => CInv'
<1> SUFFICES ASSUME CInv, [cNext]_cVars PROVE CInv'
  OBVIOUS
<1>1. CASE UNCHANGED cVars
  BY <1>1 DEF cVars, cHeap, CInv, CTypes, CLocked, CShape, CDistinct, ContainerOwned, CFaulty,
              CThreads, LocalOf, HeapOf, SeenOf, Stands, Keyed, Handed, InHand
<1>2. CASE cFault = NULL /\ ContainerInit
  BY <1>2, InitKeeps
<1>3. CASE cFault = NULL /\ ContainerDeinit
  BY <1>3, DeinitKeeps
<1>4. ASSUME cFault = NULL, NEW t \in Thread, NEW k \in Key, InsertCall(t, k) PROVE CInv'
  <2>1. CASE \E b \in Block : NewBlock(t, k, b)
    BY <1>4, <2>1, NewBlockKeeps
  <2>2. CASE Call(t, "add", k) /\ Goes(t, "nomem", NULL, "pending") /\ UNCHANGED <<cHeap, cClean>>
    <3>1. FirstStep("add", k, "nomem", NULL)
      BY DEF FirstStep
    <3>2. QED
      BY <1>4, <2>2, <3>1, CallKeeps
  <2>3. QED
    BY <1>4, <2>1, <2>2 DEF InsertCall, NewBlock, cHeap
<1>5. ASSUME cFault = NULL, NEW t \in Thread, NEW k \in Key, DeleteCall(t, k) PROVE CInv'
  <2>1. FirstStep("del", k, "lock", NULL)
    BY DEF FirstStep
  <2>2. Call(t, "del", k) /\ Goes(t, "lock", NULL, "pending") /\ UNCHANGED <<cHeap, cClean>>
    BY <1>5 DEF DeleteCall
  <2>3. QED
    BY <1>5, <2>1, <2>2, CallKeeps
<1>6. ASSUME cFault = NULL, NEW t \in Thread, NEW k \in Key, SearchCall(t, k) PROVE CInv'
  <2>1. FirstStep("search", k, "walk", cTree.root)
    BY DEF FirstStep
  <2>2. Call(t, "search", k) /\ Goes(t, "walk", cTree.root, "pending") /\ UNCHANGED <<cHeap, cClean>>
    BY <1>6 DEF SearchCall
  <2>3. QED
    BY <1>6, <2>1, <2>2, CallKeeps
<1>7. ASSUME cFault = NULL, NEW t \in Thread, FlushCall(t) PROVE CInv'
  <2>1. FirstStep("flush", NULL, "root", NULL)
    BY DEF FirstStep
  <2>2. Call(t, "flush", NULL) /\ Goes(t, "root", NULL, "pending") /\ UNCHANGED <<cHeap, cClean>>
    BY <1>7 DEF FlushCall
  <2>3. QED
    BY <1>7, <2>1, <2>2, CallKeeps
<1>8. ASSUME cFault = NULL, NEW t \in Thread, ThreadNext(t) PROVE CInv'
  BY <1>4, <1>5, <1>6, <1>7, <1>8, NoMemKeeps, ReadRootKeeps, LockFindKeeps, LinkBlockKeeps, EraseBlockKeeps,
     FlushLockedKeeps, UnlockKeeps1, FreeKeeps, WalkKeeps, ReturnKeeps DEF ThreadNext
<1>9. QED
  BY <1>1, <1>2, <1>3, <1>8 DEF cNext

\* The invariant of the tree container holds of every reachable state: types,
\* the lock and its owner, the red-black tree and its keys, the owner of every
\* block, and where each call stands (rbtree_com.c:57-256).
THEOREM ContainerInvariant == ContainerSpec => []CInv
  BY CInitInv, CNextKeeps, PTL DEF ContainerSpec

\* Every block that malloc returned is in the tree or in the hands of exactly
\* one caller, for every number of threads, keys and blocks (rbtree_com.c).
THEOREM BlocksOwned == ContainerSpec => []ContainerOwned
<1>1. CInv => ContainerOwned
  BY DEF CInv
<1>2. QED
  BY <1>1, ContainerInvariant, PTL

\* A container_search or container_flush that no other thread disturbed uses no
\* memory that left the tree, and such a search finds its key exactly when the
\* tree has it (container_search takes no lock, rbtree_com.c).
THEOREM UndisturbedReads == ContainerSpec => []UnlockedReads
<1>1. ASSUME CInv PROVE UnlockedReads
  <2>1. cFault # NULL => ~cClean[cFault]
    BY <1>1 DEF CInv, CFaulty
  <2>2. ASSUME NEW t \in Thread, cOp[t] = "search", cPc[t] = "done", cClean[t]
        PROVE  cRet[t] = "ok" <=> \E b \in Linked(cTree) : cKey[b] = cArg[t]
    BY <1>1, <2>2 DEF CInv, CThreads, SeenOf, HasKey
  <2>3. QED
    BY <2>1, <2>2 DEF UnlockedReads
<1>2. QED
  BY <1>1, ContainerInvariant, PTL


-----------------------------------------------------------------------------
(* The container implements KeyTable                                         *)

\* The keys in the tree, and the calls as KeyTable sees them: a search, which
\* takes no lock, is no call of it.
Stored == {cKey[b] : b \in Linked(cTree)}
sOp  == [t \in Thread |-> IF cOp[t] = "search" THEN "none" ELSE cOp[t]]
sArg == [t \in Thread |-> IF cOp[t] = "search" THEN NULL ELSE cArg[t]]
sRet == [t \in Thread |-> IF cOp[t] = "search" THEN "none" ELSE cRet[t]]

LEMMA StoredKeys == \A k : HasKey(cKey, Linked(cTree), k) <=> k \in Stored
  BY DEF HasKey, Stored

\* the keys that a tree's nodes have stay as long as the nodes and their keys do
LEMMA StoredSame ==
    ASSUME Linked(cTree') = Linked(cTree), \A m \in Linked(cTree) : cKey'[m] = cKey[m]
    PROVE  Stored' = Stored
<1>1. Stored' = {cKey'[m] : m \in Linked(cTree)}
  BY DEF Stored
<1>2. {cKey'[m] : m \in Linked(cTree)} = {cKey[m] : m \in Linked(cTree)}
  BY ZenonT(60)
<1>3. QED
  BY <1>1, <1>2 DEF Stored

\* rb_link_node makes a key present that was not
LEMMA StoresKey ==
    ASSUME CInv, cFault = NULL, NEW t \in Thread, LinkBlock(t)
    PROVE  cArg[t] \notin Stored /\ Stored' = Stored \cup {cArg[t]}
<1>1. HeapOf(t) /\ LocalOf(t) /\ cPc[t] = "link" /\ cKey' = cKey
  BY CParts DEF LinkBlock
<1>2. cKey[cPtr[t]] = cArg[t] /\ ~HasKey(cKey, Linked(cTree), cArg[t])
  BY <1>1, Stages DEF HeapOf
<1>3. Linked(cTree') = Linked(cTree) \cup {cPtr[t]}
  BY LinkBlockKeeps
<1>4. cArg[t] \notin Stored
  BY <1>2 DEF HasKey, Stored
<1>5. QED
  BY <1>1, <1>2, <1>3, <1>4 DEF Stored

\* rb_erase takes the looked up key away, and no other
LEMMA DropsKey ==
    ASSUME CInv, cFault = NULL, NEW t \in Thread, EraseBlock(t)
    PROVE  cArg[t] \in Stored /\ Stored' = Stored \ {cArg[t]}
<1>1. HeapOf(t) /\ cPc[t] = "erase" /\ cKey' = cKey /\ CDistinct
  BY CParts DEF EraseBlock
<1>2. cPtr[t] \in Linked(cTree) /\ cKey[cPtr[t]] = cArg[t]
  BY <1>1 DEF HeapOf
<1>3. Linked(cTree') = Linked(cTree) \ {cPtr[t]}
  BY EraseBlockKeeps
<1>4. \A m \in Linked(cTree) : cKey[m] = cArg[t] => m = cPtr[t]
  BY <1>1, <1>2 DEF CDistinct
<1>5. QED
  BY <1>1, <1>2, <1>3, <1>4 DEF Stored

\* A step of t changes the call of t alone.
Others(t) == \A u \in Thread \ {t} : cOp'[u] = cOp[u] /\ cArg'[u] = cArg[u] /\ cRet'[u] = cRet[u]

LEMMA OneCall ==
    ASSUME NEW t \in Thread, Others(t)
    PROVE  /\ sOp'  = [sOp  EXCEPT ![t] = sOp'[t]]
           /\ sArg' = [sArg EXCEPT ![t] = sArg'[t]]
           /\ sRet' = [sRet EXCEPT ![t] = sRet'[t]]
  BY DEF sOp, sArg, sRet, Others

\* The steps of KeyTable, over these.
Begins(t) == /\ sOp[t] = "none" /\ UNCHANGED Stored /\ sRet' = [sRet EXCEPT ![t] = "pending"]
             /\ \/ \E o \in {"add", "del"}, k \in Key : /\ sOp' = [sOp EXCEPT ![t] = o]
                                                        /\ sArg' = [sArg EXCEPT ![t] = k]
                \/ sOp' = [sOp EXCEPT ![t] = "flush"] /\ UNCHANGED sArg
Ends(t) == /\ sRet[t] \notin {"none", "pending"} /\ UNCHANGED Stored
           /\ sOp' = [sOp EXCEPT ![t] = "none"] /\ sArg' = [sArg EXCEPT ![t] = NULL]
           /\ sRet' = [sRet EXCEPT ![t] = "none"]
Decided(t, r) ==
    \/ cOp[t] = "add" /\ r = "fail" /\ cArg[t] \in Stored /\ UNCHANGED Stored
    \/ cOp[t] = "add" /\ r = "ok" /\ cArg[t] \notin Stored /\ Stored' = Stored \cup {cArg[t]}
    \/ cOp[t] = "add" /\ r = "nomem" /\ UNCHANGED Stored
    \/ cOp[t] = "del" /\ r = "ok" /\ cArg[t] \in Stored /\ Stored' = Stored \ {cArg[t]}
    \/ cOp[t] = "del" /\ r = "fail" /\ cArg[t] \notin Stored /\ UNCHANGED Stored
    \/ cOp[t] = "flush" /\ r = "ok" /\ Stored' = {}
SetStep == [Set!Next]_(Set!vars)

LEMMA SetStutters == ASSUME UNCHANGED <<Stored, sOp, sArg, sRet>> PROVE SetStep
<1>1. UNCHANGED Set!vars
  BY DEF Set!vars, Stored, sOp, sArg, sRet
<1>2. QED
  BY <1>1 DEF SetStep

LEMMA SetBegins == ASSUME NEW t \in Thread, Begins(t) PROVE SetStep
<1>1. Set!Next
  BY Zenon DEF Begins, Set!Next, Set!Invoke, Set!InvokeFlush, Stored, sOp, sArg, sRet
<1>2. QED
  BY <1>1 DEF SetStep

LEMMA SetEnds == ASSUME NEW t \in Thread, Ends(t) PROVE SetStep
<1>1. Set!Next
  BY Zenon DEF Ends, Set!Next, Set!Return, Stored, sOp, sArg, sRet
<1>2. QED
  BY <1>1 DEF SetStep

\* a pending call takes effect
LEMMA SetDecides ==
    ASSUME NEW t \in Thread, NEW r, cRet[t] = "pending", cRet'[t] = r, Others(t), Decided(t, r),
           UNCHANGED <<cOp, cArg>>
    PROVE  SetStep
<1>1. sRet[t] = "pending" /\ sRet'[t] = r /\ sOp[t] = cOp[t] /\ sArg[t] = cArg[t] /\ cOp[t] # "search"
  BY DEF Decided, sOp, sArg, sRet
<1>2. sRet' = [sRet EXCEPT ![t] = r] /\ UNCHANGED <<sOp, sArg>>
  <2>1. sRet' = [sRet EXCEPT ![t] = r]
    BY <1>1, OneCall
  <2>2. QED
    BY <2>1 DEF sOp, sArg
<1>3. \/ sOp[t] = "add" /\ r = "fail" /\ sArg[t] \in Stored /\ UNCHANGED Stored
      \/ sOp[t] = "add" /\ r = "ok" /\ sArg[t] \notin Stored /\ Stored' = Stored \cup {sArg[t]}
      \/ sOp[t] = "add" /\ r = "nomem" /\ UNCHANGED Stored
      \/ sOp[t] = "del" /\ r = "ok" /\ sArg[t] \in Stored /\ Stored' = Stored \ {sArg[t]}
      \/ sOp[t] = "del" /\ r = "fail" /\ sArg[t] \notin Stored /\ UNCHANGED Stored
      \/ sOp[t] = "flush" /\ r = "ok" /\ Stored' = {}
  BY <1>1 DEF Decided
<1>4. Set!Add(t) \/ Set!AddNoMem(t) \/ Set!Del(t) \/ Set!FlushNow(t)
  BY <1>1, <1>2, <1>3, Zenon
     DEF Set!Add, Set!AddNoMem, Set!Del, Set!FlushNow, Set!Effect, Stored, sOp, sArg, sRet
<1>5. Set!Next
  BY <1>4, Zenon DEF Set!Next
<1>6. QED
  BY <1>5 DEF SetStep

\* a step inside a call that does not decide it
LEMMA SetWaits ==
    ASSUME NEW t \in Thread, Others(t), UNCHANGED <<cOp, cArg>>, UNCHANGED Stored,
           cOp[t] = "search" \/ cRet'[t] = cRet[t]
    PROVE  SetStep
<1>1. \A u \in Thread : sRet'[u] = sRet[u]
  BY DEF sRet, Others
<1>2. UNCHANGED <<sOp, sArg, sRet>>
  BY <1>1 DEF sOp, sArg, sRet
<1>3. QED
  BY <1>2, SetStutters

\* a call of t: an addition, a deletion or a flush is one of KeyTable
LEMMA SetCalls ==
    ASSUME CInv, NEW t \in Thread, NEW o \in {"add", "del", "flush", "search"}, NEW k \in Key \cup {NULL},
           k = NULL <=> o = "flush", Call(t, o, k), cRet' = [cRet EXCEPT ![t] = "pending"], UNCHANGED Stored
    PROVE  SetStep
<1>1. /\ CTypes /\ LocalOf(t) /\ cPc[t] = "idle"
      /\ cOp' = [cOp EXCEPT ![t] = o] /\ cArg' = [cArg EXCEPT ![t] = k]
  BY CParts DEF Call
<1>2. cOp[t] = "none" /\ cArg[t] = NULL /\ cRet[t] = "none" /\ Others(t)
  BY <1>1, Stages DEF CTypes, Others
<1>3. cOp'[t] = o /\ cArg'[t] = k /\ cRet'[t] = "pending"
  BY <1>1 DEF CTypes
<1>4. CASE o = "search"
  <2>1. sOp'[t] = sOp[t] /\ sArg'[t] = sArg[t] /\ sRet'[t] = sRet[t]
    BY <1>2, <1>3, <1>4 DEF sOp, sArg, sRet
  <2>2. UNCHANGED <<sOp, sArg, sRet>>
    BY <1>2, <2>1 DEF sOp, sArg, sRet, Others
  <2>3. QED
    BY <2>2, SetStutters
<1>5. CASE o # "search"
  <2>1. /\ sOp[t] = "none" /\ sArg[t] = NULL
        /\ sOp'[t] = o /\ sArg'[t] = k /\ sRet'[t] = "pending"
    BY <1>2, <1>3, <1>5 DEF sOp, sArg, sRet
  <2>2. /\ sOp'  = [sOp  EXCEPT ![t] = o]
        /\ sArg' = [sArg EXCEPT ![t] = k]
        /\ sRet' = [sRet EXCEPT ![t] = "pending"]
    BY <1>2, <2>1, OneCall
  <2>3. CASE o = "flush"
    <3>1. sArg' = sArg
      BY <1>2, <2>1, <2>3 DEF sArg, Others
    <3>2. QED
      BY <2>1, <2>2, <2>3, <3>1, SetBegins DEF Begins
  <2>4. CASE o \in {"add", "del"}
    <3>1. k \in Key
      BY <2>4
    <3>2. \E p \in {"add", "del"}, q \in Key : sOp' = [sOp EXCEPT ![t] = p] /\ sArg' = [sArg EXCEPT ![t] = q]
      BY <2>2, <2>4, <3>1, Zenon
    <3>3. Begins(t)
      BY <2>1, <2>2, <3>2, Zenon DEF Begins
    <3>4. QED
      BY <3>3, SetBegins
  <2>5. QED
    BY <1>5, <2>3, <2>4
<1>6. QED
  BY <1>4, <1>5

\* Every step of the container is a step of KeyTable, or changes nothing that
\* KeyTable sees.
LEMMA SetRefinesStep ==
    ASSUME CInv, [cNext]_cVars
    PROVE  SetStep
<1>1. ASSUME cTree' = cTree, cKey' = cKey PROVE UNCHANGED Stored
  BY <1>1, StoredSame
<1>2. ASSUME NEW t \in Thread, NEW r, cRet' = [cRet EXCEPT ![t] = r], UNCHANGED <<cOp, cArg>>
      PROVE  Others(t) /\ cRet'[t] = r
  BY <1>2 DEF CInv, CTypes, Others
<1>3. CASE UNCHANGED cVars
  <2>1. UNCHANGED <<cTree, cKey, cOp, cArg, cRet>>
    BY <1>3 DEF cVars, cHeap
  <2>2. QED
    BY <1>1, <2>1, SetStutters DEF sOp, sArg, sRet
<1>4. CASE cFault = NULL /\ ContainerInit
  <2>1. UNCHANGED <<cTree, cKey, cOp, cArg, cRet>>
    BY <1>4 DEF ContainerInit, cHeap
  <2>2. QED
    BY <1>1, <2>1, SetStutters DEF sOp, sArg, sRet
<1>5. CASE cFault = NULL /\ ContainerDeinit
  <2>1. Stored' = {}
    BY <1>5, DeinitKeeps DEF Stored
  <2>2. UNCHANGED <<cOp, cArg, cRet>> /\ \A u \in Thread : cPc[u] = "idle"
    BY <1>5 DEF ContainerDeinit
  <2>3. \A u \in Thread : cOp[u] = "none"
    BY <2>2, Stages DEF CInv, CThreads
  <2>4. UNCHANGED <<sOp, sArg, sRet>> /\ \A u \in Thread : sOp[u] = "none"
    BY <2>2, <2>3 DEF sOp, sArg, sRet
  <2>5. Set!Next
    BY <2>1, <2>4, Zenon DEF Set!Next, Set!Flush, Stored, sOp, sArg, sRet
  <2>6. QED
    BY <2>5 DEF SetStep
<1>6. ASSUME cFault = NULL, NEW t \in Thread, NEW k \in Key, InsertCall(t, k) PROVE SetStep
  <2>1. Call(t, "add", k) /\ cRet' = [cRet EXCEPT ![t] = "pending"] /\ k # NULL
    BY <1>6, BlockAssumption DEF InsertCall, Goes
  <2>2. UNCHANGED Stored
    <3>1. CASE \E b \in Block : NewBlock(t, k, b)
      BY <1>6, <3>1, NewBlockKeeps, StoredSame DEF NewBlock
    <3>2. CASE UNCHANGED <<cKey, cClean>>
      BY <1>1, <1>6, <3>2 DEF InsertCall
    <3>3. QED
      BY <1>6, <3>1, <3>2 DEF InsertCall, NewBlock
  <2>3. QED
    BY <2>1, <2>2, SetCalls
<1>7. ASSUME cFault = NULL, NEW t \in Thread, NEW k \in Key, DeleteCall(t, k) \/ SearchCall(t, k) PROVE SetStep
  <2>1. PICK o \in {"del", "search"} : Call(t, o, k)
    BY <1>7 DEF DeleteCall, SearchCall
  <2>2. cRet' = [cRet EXCEPT ![t] = "pending"] /\ k # NULL /\ UNCHANGED cHeap
    BY <1>7, BlockAssumption DEF DeleteCall, SearchCall, Goes
  <2>3. QED
    BY <1>1, <2>1, <2>2, SetCalls DEF cHeap
<1>8. ASSUME cFault = NULL, NEW t \in Thread, FlushCall(t) PROVE SetStep
  <2>1. Call(t, "flush", NULL) /\ cRet' = [cRet EXCEPT ![t] = "pending"] /\ UNCHANGED cHeap
    BY <1>8 DEF FlushCall, Goes
  <2>2. QED
    BY <1>1, <2>1, SetCalls DEF cHeap
<1>9. ASSUME cFault = NULL, NEW t \in Thread, NoMem(t) PROVE SetStep
  <2>1. /\ cPc[t] = "nomem" /\ cRet' = [cRet EXCEPT ![t] = "nomem"]
        /\ UNCHANGED <<cTree, cKey, cOp, cArg>>
    BY <1>9 DEF NoMem, Goes, cHeap
  <2>2. cOp[t] = "add" /\ cRet[t] = "pending" /\ Others(t) /\ cRet'[t] = "nomem" /\ UNCHANGED Stored
    BY <1>1, <1>2, <2>1, CParts, Stages
  <2>3. QED
    BY <2>1, <2>2, SetDecides DEF Decided
<1>10. ASSUME cFault = NULL, NEW t \in Thread, ReadRoot(t) PROVE SetStep
  <2>1. /\ cPc[t] = "root" /\ cRet' = [cRet EXCEPT ![t] = IF cTree.root = NULL THEN "ok" ELSE "pending"]
        /\ UNCHANGED <<cTree, cKey, cOp, cArg>>
    BY <1>10 DEF ReadRoot, Goes, cHeap
  <2>2. cOp[t] = "flush" /\ cRet[t] = "pending" /\ UNCHANGED Stored
    BY <1>1, <2>1, CParts, Stages
  <2>3. CASE cTree.root = NULL
    <3>1. Others(t) /\ cRet'[t] = "ok"
      BY <1>2, <2>1, <2>3
    <3>2. Linked(cTree) = {}
      BY <2>3, ShapeLinked DEF CInv, CShape
    <3>3. Stored' = {}
      BY <2>2, <3>2 DEF Stored
    <3>4. QED
      BY <2>1, <2>2, <3>1, <3>3, SetDecides DEF Decided
  <2>4. CASE cTree.root # NULL
    <3>1. Others(t) /\ cRet'[t] = "pending"
      BY <1>2, <2>1, <2>4
    <3>2. QED
      BY <2>1, <2>2, <3>1, SetWaits
  <2>5. QED
    BY <2>3, <2>4
<1>11. ASSUME cFault = NULL, NEW t \in Thread, LockFind(t) PROVE SetStep
  <2>b. PICK b : b = IF cOp[t] = "flush" THEN NULL ELSE Find(cTree.root, cArg[t])
    OBVIOUS
  <2>o. cPc[t] = "lock" /\ cOp[t] \in {"add", "del", "flush"}
    BY <1>11, CParts, Stages DEF LockFind
  <2>1. /\ cPc[t] = "lock" /\ UNCHANGED <<cTree, cKey, cOp, cArg>>
        /\ \E r : cRet' = [cRet EXCEPT ![t] = r]
    <3>1. (CASE cOp[t] = "add" /\ b = NULL -> Goes(t, "link", cPtr[t], "pending")
            [] cOp[t] = "add" /\ b # NULL -> Goes(t, "unlock", cPtr[t], "fail")
            [] cOp[t] = "del" /\ b = NULL -> Goes(t, "unlock", NULL, "fail")
            [] cOp[t] = "del" /\ b # NULL -> Goes(t, "erase", b, "pending")
            [] cOp[t] = "flush" -> Goes(t, "flush", cPtr[t], cRet[t]))
      BY <1>11, <2>b DEF LockFind
    <3>2. \E r : cRet' = [cRet EXCEPT ![t] = r]
      BY <2>o, <3>1, Zenon DEF Goes
    <3>3. QED
      BY <1>11, <2>o, <3>2 DEF LockFind, cHeap
  <2>2. Others(t) /\ UNCHANGED Stored /\ LookedUp(t) /\ LocalOf(t)
    BY <1>1, <1>2, <1>11, <2>1, LockFindKeeps, CParts
  <2>3. cOp[t] \in {"add", "del"} => cRet[t] = "pending"
    BY <2>1, <2>2 DEF LocalOf, Stands
  <2>4. CASE cRet'[t] = cRet[t]
    BY <2>1, <2>2, <2>4, SetWaits
  <2>5. CASE /\ cRet'[t] = "fail"
             /\ \/ cOp[t] = "add" /\ HasKey(cKey, Linked(cTree), cArg[t])
                \/ cOp[t] = "del" /\ ~HasKey(cKey, Linked(cTree), cArg[t])
    <3>1. Decided(t, "fail")
      BY <2>2, <2>5, StoredKeys DEF Decided
    <3>2. QED
      BY <2>1, <2>2, <2>3, <2>5, <3>1, SetDecides
  <2>6. QED
    BY <2>2, <2>4, <2>5 DEF LookedUp
<1>12. ASSUME cFault = NULL, NEW t \in Thread, LinkBlock(t) PROVE SetStep
  <2>1. cPc[t] = "link" /\ cRet' = [cRet EXCEPT ![t] = "ok"] /\ UNCHANGED <<cOp, cArg>>
    BY <1>12 DEF LinkBlock, Goes
  <2>2. cOp[t] = "add" /\ cRet[t] = "pending" /\ Others(t) /\ cRet'[t] = "ok"
    BY <1>2, <2>1, CParts, Stages
  <2>3. Decided(t, "ok")
    BY <1>12, <2>2, StoresKey DEF Decided
  <2>4. QED
    BY <2>1, <2>2, <2>3, SetDecides
<1>13. ASSUME cFault = NULL, NEW t \in Thread, EraseBlock(t) PROVE SetStep
  <2>1. cPc[t] = "erase" /\ cRet' = [cRet EXCEPT ![t] = "ok"] /\ UNCHANGED <<cOp, cArg>>
    BY <1>13 DEF EraseBlock, Goes
  <2>2. cOp[t] = "del" /\ cRet[t] = "pending" /\ Others(t) /\ cRet'[t] = "ok"
    BY <1>2, <2>1, CParts, Stages
  <2>3. Decided(t, "ok")
    BY <1>13, <2>2, DropsKey DEF Decided
  <2>4. QED
    BY <2>1, <2>2, <2>3, SetDecides
<1>14. ASSUME cFault = NULL, NEW t \in Thread, FlushLocked(t) PROVE SetStep
  <2>1. /\ cPc[t] = "flush" /\ UNCHANGED <<cOp, cArg>>
        /\ cRet' = [cRet EXCEPT ![t] = "ok"] \/ cRet' = cRet
    BY <1>14 DEF FlushLocked, Goes
  <2>2. Others(t) /\ LocalOf(t)
    BY <1>2, <2>1, CParts DEF Others
  <2>3. cOp[t] = "flush" /\ IF cRet[t] = "ok" THEN cPtr[t] = NULL ELSE Handed(t) /\ cRet[t] = "pending"
    BY <2>1, <2>2, Stages
  <2>4. CASE cTree' = cTree /\ cKey' = cKey /\ cPtr[t] = NULL /\ cRet'[t] = "ok"
    <3>1. cRet[t] = "ok"
      BY <2>3, <2>4, BlockAssumption DEF Handed
    <3>2. QED
      BY <1>1, <2>1, <2>2, <2>4, <3>1, SetWaits
  <2>5. CASE Linked(cTree') = {} /\ cPtr[t] # NULL /\ cRet'[t] = "ok"
    <3>1. Stored' = {} /\ cRet[t] = "pending"
      BY <2>3, <2>5 DEF Stored
    <3>2. Decided(t, "ok")
      BY <2>3, <3>1 DEF Decided
    <3>3. QED
      BY <2>1, <2>2, <2>5, <3>1, <3>2, SetDecides
  <2>6. CASE cTree' = cTree /\ cKey' = cKey /\ cRet' = cRet
    BY <1>1, <2>1, <2>2, <2>6, SetWaits
  <2>7. QED
    BY <1>14, <2>4, <2>5, <2>6, FlushLockedKeeps
<1>15. ASSUME cFault = NULL, NEW t \in Thread, Unlock(t) PROVE SetStep
  <2>1. UNCHANGED <<cTree, cKey, cOp, cArg>> /\ cRet' = [cRet EXCEPT ![t] = cRet[t]]
    BY <1>15 DEF Unlock, Goes, cHeap
  <2>2. QED
    BY <1>1, <1>2, <2>1, SetWaits
<1>16. ASSUME cFault = NULL, NEW t \in Thread, Free(t) PROVE SetStep
  <2>1. UNCHANGED <<cOp, cArg>> /\ cRet' = [cRet EXCEPT ![t] = cRet[t]]
    BY <1>16 DEF Free, Goes
  <2>2. UNCHANGED Stored
    BY <1>16, FreeKeeps, StoredSame
  <2>3. QED
    BY <1>2, <2>1, <2>2, SetWaits
<1>17. ASSUME cFault = NULL, NEW t \in Thread, Walk(t) PROVE SetStep
  <2>1. /\ cPc[t] = "walk" /\ UNCHANGED <<cTree, cKey, cOp, cArg>>
        /\ (\E r : cRet' = [cRet EXCEPT ![t] = r]) \/ cRet' = cRet
    BY <1>17 DEF Walk, Goes, cHeap
  <2>2. cOp[t] = "search" /\ Others(t) /\ UNCHANGED Stored
    BY <1>1, <1>2, <2>1, CParts, Stages DEF Others
  <2>3. QED
    BY <2>1, <2>2, SetWaits
<1>18. ASSUME cFault = NULL, NEW t \in Thread, Return(t) PROVE SetStep
  <2>1. /\ cPc[t] = "done" /\ UNCHANGED <<cTree, cKey>>
        /\ cOp' = [cOp EXCEPT ![t] = "none"] /\ cArg' = [cArg EXCEPT ![t] = NULL]
        /\ cRet' = [cRet EXCEPT ![t] = "none"]
    BY <1>18 DEF Return, Goes, cHeap
  <2>2. Others(t) /\ UNCHANGED Stored /\ cRet[t] \notin {"none", "pending"}
    BY <1>1, <2>1, CParts, Stages DEF Others, CTypes
  <2>3. sOp'[t] = "none" /\ sArg'[t] = NULL /\ sRet'[t] = "none"
    <3>1. cOp'[t] = "none" /\ cArg'[t] = NULL /\ cRet'[t] = "none"
      BY <2>1, CParts DEF CTypes
    <3>2. QED
      BY <3>1 DEF sOp, sArg, sRet
  <2>4. CASE cOp[t] = "search"
    <3>1. sOp[t] = "none" /\ sArg[t] = NULL /\ sRet[t] = "none"
      BY <2>4 DEF sOp, sArg, sRet
    <3>2. UNCHANGED <<sOp, sArg, sRet>>
      BY <2>2, <2>3, <3>1 DEF sOp, sArg, sRet, Others
    <3>3. QED
      BY <2>2, <3>2, SetStutters
  <2>5. CASE cOp[t] # "search"
    <3>1. sRet[t] = cRet[t]
      BY <2>5 DEF sRet
    <3>2. QED
      BY <2>2, <2>3, <3>1, OneCall, SetEnds DEF Ends
  <2>6. QED
    BY <2>4, <2>5
<1>19. ASSUME cFault = NULL, NEW t \in Thread, ThreadNext(t) PROVE SetStep
  BY <1>6, <1>7, <1>8, <1>9, <1>10, <1>11, <1>12, <1>13, <1>14, <1>15, <1>16, <1>17, <1>18, <1>19 DEF ThreadNext
<1>20. QED
  BY <1>3, <1>4, <1>5, <1>19 DEF cNext

\* The container implements KeyTable: insertions, deletions and flushes take
\* effect one at a time, on a set of keys, and answer accordingly, for every
\* number of threads, keys and blocks (rbtree_com.c:57-220).
THEOREM ContainerImplementsSet == ContainerSpec => ContainerIsSet
<1>1. cInit => Set!Init
  <2> SUFFICES ASSUME cInit PROVE Set!Init
    OBVIOUS
  <2>1. Shape(cTree, cKey, {})
    BY EmptyShape DEF cInit
  <2>2. Stored = {}
    BY <2>1, ShapeLinked DEF Stored
  <2>3. QED
    BY <2>2 DEF cInit, Set!Init, Stored
<1>2. CInv /\ [cNext]_cVars => [Set!Next]_(Set!vars)
  BY SetRefinesStep DEF SetStep
<1>3. QED
  BY <1>1, <1>2, ContainerInvariant, PTL DEF ContainerSpec, ContainerIsSet

===============================================================================
