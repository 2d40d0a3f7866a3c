----------------------------- MODULE RbTreeProofs -----------------------------
(***************************************************************************)
(* What the operations of rbtree.c do to a tree, for every number of nodes *)
(* and every shape: linking and recolouring a node, rb_erase with its      *)
(* recolouring, the search for a place.  A tree is described by sub, the   *)
(* sets of nodes below each node, and by bh, the black nodes on the paths  *)
(* down; every lemma says which sub and bh hold after an operation.        *)
(***************************************************************************)
EXTENDS RbTree, ListLemmas, FiniteSetTheorems

-----------------------------------------------------------------------------
(* Links one by one                                                          *)

\* a tree over the nodes N, whatever its links are
TreeOn(N) == [root  : N \cup {NULL},
              kid   : [Side -> [N -> N \cup {NULL}]],
              par   : [N -> N \cup {NULL}],
              black : SUBSET N]

LEMMA KidType ==
    ASSUME NEW N, NEW t \in TreeOn(N)
    PROVE  /\ t.root \in N \cup {NULL} /\ t.black \subseteq N /\ DOMAIN t.par = N
           /\ \A n \in N : t.par[n] \in N \cup {NULL}
           /\ \A s \in Side, n \in N : t.kid[s][n] \in N \cup {NULL}
  BY DEF TreeOn

LEMMA TwoSides == /\ "L" \in Side /\ "R" \in Side
                  /\ \A s \in Side : Other(s) \in Side /\ Other(s) # s /\ Other(Other(s)) = s
                  /\ \A s, d \in Side : d = s \/ d = Other(s)
  BY DEF Side, Other

LEMMA SetsKid ==
    ASSUME NEW N, NEW t \in TreeOn(N), NEW s \in Side, NEW p \in N, NEW x \in N \cup {NULL}
    PROVE  LET u == SetKid(t, p, s, x)
           IN /\ u \in TreeOn(N) /\ u.root = t.root /\ u.par = t.par /\ u.black = t.black
              /\ \A d \in Side, m \in N :
                     u.kid[d][m] = IF d = s /\ m = p THEN x ELSE t.kid[d][m]
  BY DEF TreeOn, SetKid

\* what rb_set_parent changes
ParentSet(u, t, N, n, p) ==
    /\ u \in TreeOn(N) /\ u.root = t.root /\ u.kid = t.kid /\ u.black = t.black
    /\ \A m \in N : u.par[m] = IF m = n THEN p ELSE t.par[m]

LEMMA SetsParent ==
    ASSUME NEW N, NULL \notin N, NEW t \in TreeOn(N), NEW n \in N \cup {NULL},
           NEW p \in N \cup {NULL}
    PROVE  ParentSet(SetParent(t, n, p), t, N, n, p)
<1>1. CASE n = NULL
  BY <1>1 DEF SetParent, ParentSet
<1>2. CASE n # NULL
  <2>1. SetParent(t, n, p) = [t EXCEPT !.par[n] = p] /\ n \in N
    BY <1>2 DEF SetParent
  <2>2. QED
    BY <2>1 DEF TreeOn, ParentSet
<1>3. QED
  BY <1>1, <1>2

\* what an assignment to the root pointer changes
LEMMA SetsRoot ==
    ASSUME NEW N, NEW t \in TreeOn(N), NEW x \in N \cup {NULL}, NEW u, u = [t EXCEPT !.root = x]
    PROVE  u \in TreeOn(N) /\ u.root = x /\ u.kid = t.kid /\ u.par = t.par /\ u.black = t.black
  BY DEF TreeOn

\* which child pointer, or the root, a node hangs on
Hook(t, s, p, n) == IF t.kid[s][p] = n THEN s ELSE Other(s)

LEMMA Hangs ==
    ASSUME NEW N, NULL \notin N, NEW t \in TreeOn(N), NEW p \in N \cup {NULL}, NEW s \in Side,
           NEW n, NEW c \in N \cup {NULL}
    PROVE  LET u == Hang(t, p, s, n, c)
           IN /\ u \in TreeOn(N) /\ u.par = t.par /\ u.black = t.black
              /\ u.root = IF p = NULL THEN c ELSE t.root
              /\ \A d \in Side, m \in N :
                     u.kid[d][m] = IF m = p /\ d = Hook(t, s, p, n) THEN c ELSE t.kid[d][m]
<1>1. CASE p = NULL
  BY <1>1, SetsRoot DEF Hang
<1>2. CASE p # NULL
  <2>1. PICK h \in Side : h = Hook(t, s, p, n)
    BY TwoSides DEF Hook
  <2>2. Hang(t, p, s, n, c) = SetKid(t, p, h, c) /\ p \in N
    BY <1>2, <2>1 DEF Hang, Hook
  <2>3. /\ SetKid(t, p, h, c) \in TreeOn(N) /\ SetKid(t, p, h, c).root = t.root
        /\ SetKid(t, p, h, c).par = t.par /\ SetKid(t, p, h, c).black = t.black
        /\ \A d \in Side, m \in N :
               SetKid(t, p, h, c).kid[d][m] = IF d = h /\ m = p THEN c ELSE t.kid[d][m]
    BY <2>2 DEF SetKid, TreeOn
  <2>4. QED
    BY <1>2, <2>1, <2>2, <2>3
<1>3. QED
  BY <1>1, <1>2

\* __rb_rotate_left and __rb_rotate_right: n, its child r of the other side and
\* the child c of r between them change places under p; nothing else does
LEMMA RotateLinks ==
    ASSUME NEW N, NULL \notin N, NEW t \in TreeOn(N), NEW s \in Side, NEW n \in N, NEW r \in N,
           t.kid[Other(s)][n] = r, r # n, t.par[n] \notin {n, r},
           t.kid[s][r] \notin {n, r}
    PROVE  LET u == Rotate(t, n, s)
               p == t.par[n]
               c == t.kid[s][r]
           IN /\ u \in TreeOn(N) /\ u.black = t.black
              /\ u.root = IF p = NULL THEN r ELSE t.root
              /\ \A m \in N : u.par[m] = IF m = n THEN r ELSE IF m = r THEN p
                                         ELSE IF m = c THEN n ELSE t.par[m]
              /\ u.kid[Other(s)][n] = c /\ u.kid[s][n] = t.kid[s][n]
              /\ u.kid[s][r] = n /\ u.kid[Other(s)][r] = t.kid[Other(s)][r]
              /\ \A d \in Side, m \in N \ {n, r} :
                     u.kid[d][m] = IF m = p /\ d = Hook(t, s, p, n) THEN r ELSE t.kid[d][m]
<1>p. PICK p \in N \cup {NULL} : p = t.par[n]
  BY KidType
<1>c. PICK c \in N \cup {NULL} : c = t.kid[s][r]
  BY KidType
<1>0. n \in N \cup {NULL} /\ r \in N \cup {NULL} /\ Other(s) \in Side /\ Other(s) # s
  BY TwoSides
<1> DEFINE t0 == SetKid(t, n, Other(s), c)
<1>1. /\ t0 \in TreeOn(N) /\ t0.root = t.root /\ t0.par = t.par /\ t0.black = t.black
      /\ \A d \in Side, m \in N :
             t0.kid[d][m] = IF d = Other(s) /\ m = n THEN c ELSE t.kid[d][m]
  BY <1>0 DEF SetKid, TreeOn
<1> HIDE DEF t0
<1> DEFINE t1 == SetParent(t0, c, n)
<1>2. /\ t1 \in TreeOn(N) /\ t1.root = t0.root /\ t1.kid = t0.kid /\ t1.black = t0.black
      /\ \A m \in N : t1.par[m] = IF m = c THEN n ELSE t0.par[m]
  <2>1. CASE c = NULL
    BY <1>1, <2>1 DEF SetParent
  <2>2. CASE c # NULL
    <3>1. t1 = [t0 EXCEPT !.par[c] = n] /\ c \in N
      BY <2>2 DEF SetParent
    <3> HIDE DEF t1
    <3>2. t1 \in TreeOn(N) /\ t1.root = t0.root /\ t1.kid = t0.kid /\ t1.black = t0.black
      BY <1>1, <3>1 DEF TreeOn
    <3>3. \A m \in N : t1.par[m] = IF m = c THEN n ELSE t0.par[m]
      BY <1>1, <3>1 DEF TreeOn
    <3>4. QED
      BY <3>2, <3>3
  <2>3. QED
    BY <2>1, <2>2
<1> HIDE DEF t1
<1> DEFINE t2 == SetKid(t1, r, s, n)
<1>3. /\ t2 \in TreeOn(N) /\ t2.root = t1.root /\ t2.par = t1.par /\ t2.black = t1.black
      /\ \A d \in Side, m \in N :
             t2.kid[d][m] = IF d = s /\ m = r THEN n ELSE t1.kid[d][m]
  BY <1>0, <1>2 DEF SetKid, TreeOn
<1> HIDE DEF t2
<1> DEFINE t3 == SetParent(t2, r, p)
<1>4. /\ t3 \in TreeOn(N) /\ t3.root = t2.root /\ t3.kid = t2.kid /\ t3.black = t2.black
      /\ \A m \in N : t3.par[m] = IF m = r THEN p ELSE t2.par[m]
  BY <1>0, <1>3 DEF SetParent, TreeOn
<1> HIDE DEF t3
<1> DEFINE t4 == Hang(t3, p, s, n, r)
<1>5. /\ t4 \in TreeOn(N) /\ t4.par = t3.par /\ t4.black = t3.black
      /\ t4.root = IF p = NULL THEN r ELSE t3.root
      /\ \A d \in Side, m \in N :
             t4.kid[d][m] = IF m = p /\ d = Hook(t3, s, p, n) THEN r ELSE t3.kid[d][m]
  BY <1>0, <1>4, Hangs
<1> HIDE DEF t4
<1> DEFINE u == SetParent(t4, n, r)
<1>6. /\ u \in TreeOn(N) /\ u.root = t4.root /\ u.kid = t4.kid /\ u.black = t4.black
      /\ \A m \in N : u.par[m] = IF m = n THEN r ELSE t4.par[m]
  BY <1>0, <1>5 DEF SetParent, TreeOn
<1>7. u = Rotate(t, n, s)
  <2>1. Rotate(t, n, s) = SetParent(Hang(Lift(Handover(t, n, r, s), n, r, s, p), p, s, n, r), n, r)
    BY <1>p DEF Rotate
  <2>2. t1 = Handover(t, n, r, s)
    BY <1>c DEF Handover, t0, t1
  <2>3. t3 = Lift(t1, n, r, s, p)
    BY DEF Lift, t3, t2
  <2>4. QED
    BY <2>1, <2>2, <2>3 DEF t4
<1> HIDE DEF u
<1>8. p # NULL => Hook(t3, s, p, n) = Hook(t, s, p, n)
  BY <1>0, <1>1, <1>2, <1>3, <1>4, <1>p DEF Hook
<1>9. \A m \in N : u.par[m] = IF m = n THEN r ELSE IF m = r THEN p
                              ELSE IF m = c THEN n ELSE t.par[m]
  BY <1>1, <1>2, <1>3, <1>4, <1>5, <1>6
<1>10. \A d \in Side, m \in N :
           u.kid[d][m] = IF m = p /\ d = Hook(t, s, p, n) THEN r
                         ELSE IF d = s /\ m = r THEN n
                         ELSE IF d = Other(s) /\ m = n THEN c ELSE t.kid[d][m]
  BY <1>0, <1>1, <1>2, <1>3, <1>4, <1>5, <1>6, <1>8
<1>11. /\ u \in TreeOn(N) /\ u.black = t.black
       /\ u.root = IF p = NULL THEN r ELSE t.root
  BY <1>1, <1>2, <1>3, <1>4, <1>5, <1>6
<1>12. QED
  BY <1>0, <1>7, <1>9, <1>10, <1>11, <1>p, <1>c

-----------------------------------------------------------------------------
(* Trees: sub[n] is the set of nodes below n, and n itself                   *)

\* n's subtree is n and what is below its two children
Splits(t, sub, n, s) ==
    /\ sub[n] = {n} \cup sub[t.kid[s][n]] \cup sub[t.kid[Other(s)][n]]
    /\ n \notin sub[t.kid[s][n]] /\ n \notin sub[t.kid[Other(s)][n]]
    /\ sub[t.kid[s][n]] \cap sub[t.kid[Other(s)][n]] = {}

\* the links of n agree with those of its neighbours
Agrees(t, X, n) ==
    /\ \A s \in Side : t.kid[s][n] # NULL => t.kid[s][n] \in X /\ t.par[t.kid[s][n]] = n
    /\ n # t.root => t.par[n] \in X /\ \E s \in Side : t.kid[s][t.par[n]] = n

Tree(t, N, sub) ==
    /\ t \in TreeOn(N)
    /\ sub \in [N \cup {NULL} -> SUBSET N] /\ sub[NULL] = {}
    /\ t.root # NULL => t.root \in sub[t.root] /\ t.par[t.root] = NULL
    /\ \A n \in sub[t.root] : Agrees(t, sub[t.root], n) /\ sub[n] \subseteq sub[t.root]
    /\ \A n \in sub[t.root], s \in Side : Splits(t, sub, n, s)

\* a node and its child of side s
LEMMA Family ==
    ASSUME NEW N, NULL \notin N, NEW t, NEW sub, Tree(t, N, sub), NEW n \in sub[t.root],
           NEW s \in Side, NEW r, r = t.kid[s][n], r # NULL
    PROVE  /\ n \in N /\ r \in N /\ r \in sub[t.root] /\ r # n /\ t.par[r] = n
           /\ n \in sub[n] /\ r \in sub[r] /\ r \in sub[n] /\ n \notin sub[r]
           /\ r # t.kid[Other(s)][n] /\ r # t.root
           /\ t.par[n] \in N \cup {NULL} /\ t.par[n] \notin {n, r}
           /\ \A d \in Side : t.kid[d][r] \in N \cup {NULL} /\ t.kid[d][r] \notin {n, r}
<1> DEFINE X == sub[t.root]
<1>1. /\ t \in TreeOn(N) /\ sub \in [N \cup {NULL} -> SUBSET N] /\ sub[NULL] = {}
      /\ X \subseteq N /\ Other(s) \in Side
  BY KidType, TwoSides DEF Tree
<1>2. n \in N /\ r \in X /\ t.par[r] = n /\ r \in N
  BY <1>1 DEF Tree, Agrees
<1>3. \A m \in X : m \in sub[m] /\ \A d \in Side : m \notin sub[t.kid[d][m]]
  BY TwoSides DEF Tree, Splits
<1>4. sub[r] \subseteq sub[n] /\ n \notin sub[r] /\ sub[r] \cap sub[t.kid[Other(s)][n]] = {}
  BY DEF Tree, Splits
<1>5. \A m \in X, d \in Side : t.kid[d][m] # NULL =>
          /\ t.kid[d][m] \in X /\ t.par[t.kid[d][m]] = m
          /\ sub[t.kid[d][m]] \subseteq sub[m]
  BY DEF Tree, Agrees, Splits
<1>6. r # n /\ r \in sub[r] /\ n \in sub[n] /\ r \in sub[n]
  BY <1>2, <1>3, <1>4
<1>7. r # t.kid[Other(s)][n]
  BY <1>4, <1>6
<1>8. r # t.root
  BY <1>1, <1>2 DEF Tree
<1>9. t.par[n] \notin {n, r}
  <2>1. CASE n = t.root
    BY <1>1, <1>2, <2>1 DEF Tree
  <2>2. CASE n # t.root
    <3>1. PICK d \in Side : t.par[n] \in X /\ t.kid[d][t.par[n]] = n
      BY <2>2 DEF Tree, Agrees
    <3>2. n \notin sub[n] \/ t.par[n] # n
      BY <1>3, <3>1
    <3>3. t.par[n] = r => sub[n] \subseteq sub[r]
      BY <1>1, <1>2, <1>5, <3>1
    <3>4. QED
      BY <1>4, <1>6, <3>2, <3>3
  <2>3. QED
    BY <2>1, <2>2
<1>10. ASSUME NEW d \in Side PROVE t.kid[d][r] \in N \cup {NULL} /\ t.kid[d][r] \notin {n, r}
  <2>1. t.kid[d][r] # r /\ t.kid[d][r] # n
    BY <1>1, <1>2, <1>3, <1>4, <1>5, <1>6
  <2>2. QED
    BY <1>1, <1>2, <2>1, KidType
<1>11. t.par[n] \in N \cup {NULL}
  BY <1>1, <1>2, KidType
<1>12. QED
  BY <1>2, <1>4, <1>6, <1>7, <1>8, <1>9, <1>10, <1>11

\* u is t after a rotation of n and r in a tree of the nodes X
Rotated(t, u, X, s, n, r) ==
    /\ u.black = t.black
    /\ u.root = IF n = t.root THEN r ELSE t.root
    /\ \A m \in X : u.par[m] = IF m = n THEN r ELSE IF m = r THEN t.par[n]
                               ELSE IF m = t.kid[s][r] THEN n ELSE t.par[m]
    /\ u.kid[Other(s)][n] = t.kid[s][r] /\ u.kid[s][n] = t.kid[s][n]
    /\ u.kid[s][r] = n /\ u.kid[Other(s)][r] = t.kid[Other(s)][r]
    /\ \A d \in Side, m \in X \ {n, r} :
           u.kid[d][m] = IF t.kid[d][m] = n THEN r ELSE t.kid[d][m]

LEMMA RotateInTree ==
    ASSUME NEW N, NULL \notin N, NEW t, NEW sub, Tree(t, N, sub), NEW n \in sub[t.root],
           NEW s \in Side, NEW r, r = t.kid[Other(s)][n], r # NULL
    PROVE  Rotate(t, n, s) \in TreeOn(N) /\ Rotated(t, Rotate(t, n, s), sub[t.root], s, n, r)
<1> DEFINE u == Rotate(t, n, s)
           X == sub[t.root]
           p == t.par[n]
<1>1. t \in TreeOn(N) /\ X \subseteq N /\ Other(s) \in Side /\ Other(Other(s)) = s
  BY TwoSides, KidType DEF Tree
<1>2. /\ n \in N /\ r \in N /\ r \in X /\ r # n /\ t.par[r] = n /\ t.par[n] \notin {n, r}
      /\ t.kid[s][r] \notin {n, r}
  BY <1>1, Family
<1>3. /\ u \in TreeOn(N) /\ u.black = t.black
      /\ u.root = IF p = NULL THEN r ELSE t.root
      /\ \A m \in N : u.par[m] = IF m = n THEN r ELSE IF m = r THEN p
                                 ELSE IF m = t.kid[s][r] THEN n ELSE t.par[m]
      /\ u.kid[Other(s)][n] = t.kid[s][r] /\ u.kid[s][n] = t.kid[s][n]
      /\ u.kid[s][r] = n /\ u.kid[Other(s)][r] = t.kid[Other(s)][r]
      /\ \A d \in Side, m \in N \ {n, r} :
             u.kid[d][m] = IF m = p /\ d = Hook(t, s, p, n) THEN r ELSE t.kid[d][m]
  BY <1>1, <1>2, RotateLinks
<1> HIDE DEF u
<1>4. p = NULL <=> n = t.root
  BY <1>1, <1>2 DEF Tree, Agrees
<1>5. ASSUME NEW d \in Side, NEW m \in X
      PROVE  t.kid[d][m] = n <=> m = p /\ d = Hook(t, s, p, n)
  <2>1. t.kid[d][m] = n => m = p
    BY <1>1, <1>2 DEF Tree, Agrees
  <2>2. m = p => \E e \in Side : t.kid[e][p] = n
    BY <1>1, <1>2, <1>4 DEF Tree, Agrees
  <2>3. ASSUME NEW e \in Side, t.kid[e][m] = n PROVE t.kid[Other(e)][m] # n
    <3>1. n # NULL
      BY <1>2
    <3>2. QED
      BY <2>3, <3>1, Family
  <2>4. m = p /\ d = Hook(t, s, p, n) => t.kid[d][m] = n
    <3>1. CASE t.kid[s][p] = n
      BY <3>1 DEF Hook
    <3>2. CASE t.kid[s][p] # n
      BY <2>2, <3>2, TwoSides DEF Hook
    <3>3. QED
      BY <3>1, <3>2
  <2>5. t.kid[d][m] = n => d = Hook(t, s, p, n)
    <3>1. CASE d = s
      BY <2>1, <3>1 DEF Hook
    <3>2. CASE d = Other(s)
      BY <1>1, <2>1, <2>3, <3>2 DEF Hook
    <3>3. QED
      BY <3>1, <3>2, TwoSides
  <2>6. QED
    BY <2>1, <2>4, <2>5
<1>6. u.root = IF n = t.root THEN r ELSE t.root
  BY <1>3, <1>4
<1>7. \A d \in Side, m \in X \ {n, r} :
           u.kid[d][m] = IF t.kid[d][m] = n THEN r ELSE t.kid[d][m]
  BY <1>1, <1>3, <1>5
<1>8. \A m \in X : u.par[m] = IF m = n THEN r ELSE IF m = r THEN p
                                 ELSE IF m = t.kid[s][r] THEN n ELSE t.par[m]
  BY <1>1, <1>3, SMTT(30)
<1>9. Rotated(t, u, X, s, n, r)
  BY <1>3, <1>6, <1>7, <1>8 DEF Rotated
<1>10. QED
  BY <1>3, <1>9 DEF u

\* what a rotation of n and r does to the sets of nodes below them
Turned(sub, t, s, n, r) ==
    [sub EXCEPT ![n] = {n} \cup sub[t.kid[s][n]] \cup sub[t.kid[s][r]], ![r] = sub[n]]

LEMMA TurnedIs ==
    ASSUME NEW N, NEW t, NEW sub, Tree(t, N, sub), NEW s, NEW n \in N, NEW r \in N, n # r,
           NEW new, new = Turned(sub, t, s, n, r)
    PROVE  /\ new[n] = {n} \cup sub[t.kid[s][n]] \cup sub[t.kid[s][r]] /\ new[r] = sub[n]
           /\ \A k \in N \cup {NULL} : k # n /\ k # r => new[k] = sub[k]
<1>1. sub \in [N \cup {NULL} -> SUBSET N]
  BY DEF Tree
<1>2. QED
  BY <1>1, Zenon DEF Turned

\* what changes below which node when r rises above n, its parent in t
Raises(t, u, N, sub, new, s, n, r) ==
    /\ new[r] = sub[n] /\ {n} \cup sub[t.kid[s][n]] \subseteq new[n]
    /\ \A k \in N \cup {NULL} : k # n /\ k # r => new[k] = sub[k]
    /\ u.kid[s][r] = n /\ u.kid[s][n] = t.kid[s][n]
    /\ u.kid[Other(s)][r] = t.kid[Other(s)][r]

LEMMA RotationRaises ==
    ASSUME NEW N, NEW t, NEW sub, Tree(t, N, sub), NEW X, NEW s, NEW n \in N, NEW r \in N, n # r,
           NEW u, Rotated(t, u, X, s, n, r), NEW new, new = Turned(sub, t, s, n, r)
    PROVE  Raises(t, u, N, sub, new, s, n, r)
<1>1. /\ new[n] = {n} \cup sub[t.kid[s][n]] \cup sub[t.kid[s][r]] /\ new[r] = sub[n]
      /\ \A k \in N \cup {NULL} : k # n /\ k # r => new[k] = sub[k]
  BY TurnedIs
<1>2. /\ u.kid[s][r] = n /\ u.kid[s][n] = t.kid[s][n]
      /\ u.kid[Other(s)][r] = t.kid[Other(s)][r]
  BY DEF Rotated
<1>3. QED
  BY <1>1, <1>2 DEF Raises

\* the colours of the tree before do not matter
LEMMA RaisesPainted ==
    ASSUME NEW t, NEW v, v.kid = t.kid, NEW u, NEW N, NEW sub, NEW new, NEW s, NEW n, NEW r,
           Raises(v, u, N, sub, new, s, n, r)
    PROVE  Raises(t, u, N, sub, new, s, n, r)
  BY Zenon DEF Raises

\* It is enough to show one side: the other is its mirror image.
LEMMA SplitsMirror ==
    ASSUME NEW t, NEW sub, NEW n, NEW s \in Side, Splits(t, sub, n, s)
    PROVE  \A d \in Side : Splits(t, sub, n, d)
<1>1. Splits(t, sub, n, Other(s))
  BY TwoSides DEF Splits
<1>2. QED
  BY <1>1, TwoSides

\* A rotation keeps a tree a tree, of the same nodes.
LEMMA RotateKeepsTree ==
    ASSUME NEW N, NULL \notin N, NEW t, NEW sub, Tree(t, N, sub), NEW n \in sub[t.root],
           NEW s \in Side, NEW r, r = t.kid[Other(s)][n], r # NULL
    PROVE  LET u == Rotate(t, n, s)
               new == Turned(sub, t, s, n, r)
           IN Tree(u, N, new) /\ new[u.root] = sub[t.root]
<1> DEFINE X   == sub[t.root]
           a   == t.kid[s][n]
           c   == t.kid[s][r]
           b   == t.kid[Other(s)][r]
           new == Turned(sub, t, s, n, r)
<1>u. PICK u \in TreeOn(N) : u = Rotate(t, n, s) /\ Rotated(t, u, X, s, n, r)
  BY RotateInTree
<1>1. /\ t \in TreeOn(N) /\ sub \in [N \cup {NULL} -> SUBSET N] /\ sub[NULL] = {}
      /\ X \subseteq N /\ Other(s) \in Side /\ Other(Other(s)) = s
  BY KidType, TwoSides DEF Tree
<1>2. /\ n \in N /\ r \in N /\ r \in X /\ r # n /\ t.par[r] = n /\ t.par[n] \notin {n, r}
      /\ n \in sub[n] /\ r \in sub[r] /\ r # t.root /\ a # r
      /\ \A d \in Side : t.kid[d][r] \in N \cup {NULL} /\ t.kid[d][r] \notin {n, r}
  BY <1>1, Family
<1>3. /\ a \in X \cup {NULL} /\ a \notin {n, r} /\ (a # NULL => t.par[a] = n)
  BY <1>1, <1>2, SMTT(30) DEF Tree, Agrees
<1>4. /\ \A d \in Side : t.kid[d][r] \in X \cup {NULL}
      /\ \A d \in Side : t.kid[d][r] # NULL => t.par[t.kid[d][r]] = r
  BY <1>1, <1>2 DEF Tree, Agrees
<1>5. b # NULL => b # c
  BY <1>1, <1>2, Family
<1>6. /\ sub[n] = {n} \cup sub[a] \cup sub[r] /\ sub[a] \cap sub[r] = {}
      /\ n \notin sub[a] /\ n \notin sub[r]
      /\ sub[r] = {r} \cup sub[c] \cup sub[b] /\ sub[c] \cap sub[b] = {}
      /\ r \notin sub[c] /\ r \notin sub[b]
  BY <1>1, <1>2, ZenonT(30) DEF Tree, Splits
<1>7. /\ new \in [N \cup {NULL} -> SUBSET N] /\ new[NULL] = {}
      /\ new[n] = {n} \cup sub[a] \cup sub[c] /\ new[r] = sub[n]
      /\ \A m \in N \cup {NULL} : m \notin {n, r} => new[m] = sub[m]
  BY <1>1, <1>2, <1>3, <1>4, ZenonT(30) DEF Turned
<1> HIDE DEF new
<1>8. /\ u.root = IF n = t.root THEN r ELSE t.root
      /\ \A m \in X : u.par[m] = IF m = n THEN r ELSE IF m = r THEN t.par[n]
                                 ELSE IF m = c THEN n ELSE t.par[m]
      /\ u.kid[Other(s)][n] = c /\ u.kid[s][n] = a
      /\ u.kid[s][r] = n /\ u.kid[Other(s)][r] = b
      /\ \A d \in Side, m \in X \ {n, r} :
             u.kid[d][m] = IF t.kid[d][m] = n THEN r ELSE t.kid[d][m]
  BY <1>u DEF Rotated
<1>9. new[u.root] = X
  <2>1. t.root \in N \cup {NULL}
    BY <1>1, KidType
  <2>2. CASE n = t.root
    BY <1>7, <1>8, <2>2, ZenonT(30)
  <2>3. CASE n # t.root
    BY <1>2, <1>7, <1>8, <2>1, <2>3, ZenonT(30)
  <2>4. QED
    BY <2>2, <2>3
<1>10. \A m \in X : m # t.root => t.par[m] \in X /\ \E d \in Side : t.kid[d][t.par[m]] = m
  BY DEF Tree, Agrees
<1>11. \A m \in X, d \in Side : t.kid[d][m] # NULL => t.kid[d][m] \in X /\ t.par[t.kid[d][m]] = m
  BY DEF Tree, Agrees
<1>12. u.root # NULL => u.root \in new[u.root] /\ u.par[u.root] = NULL
  <2>1. t.root # NULL /\ t.root \in X /\ t.par[t.root] = NULL
    BY <1>1, <1>2, KidType DEF Tree
  <2>2. CASE n = t.root
    BY <1>2, <1>8, <1>9, <2>1, <2>2, ZenonT(30)
  <2>3. CASE n # t.root
    <3>1. t.root # c
      BY <1>1, <1>2, <1>4, <2>1
    <3>2. QED
      BY <1>2, <1>8, <1>9, <2>1, <2>3, <3>1
  <2>4. QED
    BY <2>2, <2>3
<1>13. ASSUME NEW m \in X PROVE Agrees(u, X, m)
  <2>1. CASE m = n
    <3>1. \A d \in Side : u.kid[d][n] # NULL => u.kid[d][n] \in X /\ u.par[u.kid[d][n]] = n
      <4>1. n \in X /\ n # r
        BY <1>2
      <4>2. a # NULL => a \in X /\ u.par[a] = n
        BY <1>3, <1>8
      <4>3. c # NULL => c \in X /\ u.par[c] = n
        BY <1>2, <1>4, <1>8, Zenon
      <4>4. QED
        BY <1>8, <4>2, <4>3, TwoSides
    <3>2. u.par[n] = r /\ u.kid[s][r] = n
      BY <1>8, SMTT(30)
    <3>3. QED
      BY <1>2, <2>1, <3>1, <3>2 DEF Agrees
  <2>2. CASE m = r
    <3>1. \A d \in Side : u.kid[d][r] # NULL => u.kid[d][r] \in X /\ u.par[u.kid[d][r]] = r
      <4>1. n \in X /\ u.par[n] = r
        BY <1>8
      <4>2. b # NULL => b \in X /\ u.par[b] = r
        BY <1>1, <1>2, <1>4, <1>5, <1>8, ZenonT(30)
      <4>3. QED
        BY <1>8, <4>1, <4>2, TwoSides
    <3>2. u.par[r] = t.par[n]
      BY <1>2, <1>8
    <3>3. r # u.root => t.par[n] \in X /\ \E d \in Side : u.kid[d][t.par[n]] = r
      <4>1. SUFFICES ASSUME r # u.root
                     PROVE  t.par[n] \in X /\ \E d \in Side : u.kid[d][t.par[n]] = r
        OBVIOUS
      <4>2. n # t.root
        BY <1>8, <4>1
      <4>3. PICK d \in Side : t.par[n] \in X \ {n, r} /\ t.kid[d][t.par[n]] = n
        BY <1>2, <1>10, <4>2, Zenon
      <4>4. u.kid[d][t.par[n]] = r
        BY <1>8, <4>3
      <4>5. QED
        BY <4>3, <4>4
    <3>4. QED
      BY <2>2, <3>1, <3>2, <3>3 DEF Agrees
  <2>3. CASE m \notin {n, r}
    <3>1. ASSUME NEW d \in Side, u.kid[d][m] # NULL
          PROVE  u.kid[d][m] \in X /\ u.par[u.kid[d][m]] = m
      <4>1. CASE t.kid[d][m] = n
        <5>1. u.kid[d][m] = r
          BY <1>8, <2>3, <4>1, SMTT(30)
        <5>2. n # NULL
          BY <1>2
        <5>3. t.par[n] = m
          BY <1>11, <4>1, <5>2
        <5>4. u.par[r] = t.par[n]
          BY <1>2, <1>8
        <5>5. QED
          BY <1>2, <5>1, <5>3, <5>4
      <4>2. CASE t.kid[d][m] # n
        <5>1. u.kid[d][m] = t.kid[d][m] /\ t.kid[d][m] \in X /\ t.par[t.kid[d][m]] = m
          BY <1>8, <1>11, <2>3, <3>1, <4>2, SMTT(30)
        <5>2. t.kid[d][m] # r /\ t.kid[d][m] # c
          BY <1>2, <1>4, <2>3, <3>1, <5>1
        <5>3. QED
          BY <1>8, <4>2, <5>1, <5>2
      <4>3. QED
        BY <4>1, <4>2, SMTT(30)
    <3>2. ASSUME m # u.root
          PROVE  u.par[m] \in X /\ \E d \in Side : u.kid[d][u.par[m]] = m
      <4>1. m # t.root
        BY <1>8, <2>3, <3>2
      <4>2. CASE m = c
        BY <1>1, <1>8, <2>3, <4>2, Zenon
      <4>3. CASE m # c
        <5>1. PICK d \in Side : t.par[m] \in X /\ t.kid[d][t.par[m]] = m
          BY <1>10, <4>1
        <5>2. u.par[m] = t.par[m]
          BY <1>8, <2>3, <4>3
        <5>3. CASE t.par[m] = n
          BY <1>8, <2>3, <5>1, <5>2, <5>3, TwoSides
        <5>4. CASE t.par[m] = r
          BY <1>8, <4>3, <5>1, <5>2, <5>4, TwoSides
        <5>5. CASE t.par[m] \notin {n, r}
          BY <1>8, <2>3, <5>1, <5>2, <5>5
        <5>6. QED
          BY <5>3, <5>4, <5>5
      <4>4. QED
        BY <4>2, <4>3
    <3>3. QED
      BY <3>1, <3>2 DEF Agrees
  <2>4. QED
    BY <2>1, <2>2, <2>3
<1>14. ASSUME NEW m \in X PROVE \A d \in Side : Splits(u, new, m, d)
  <2>1. CASE m = n
    <3>1. new[c] = sub[c] /\ new[a] = sub[a]
      BY <1>1, <1>2, <1>3, <1>4, <1>7, Zenon
    <3>2. Splits(u, new, n, s)
      <4>1. sub[a] \cap sub[c] = {} /\ n \notin sub[c]
        BY <1>6, Zenon
      <4>2. new[n] = {n} \cup new[a] \cup new[c] /\ n \notin new[a] /\ n \notin new[c]
            /\ new[a] \cap new[c] = {}
        BY <1>6, <1>7, <3>1, <4>1, Zenon
      <4>3. u.kid[s][n] = a /\ u.kid[Other(s)][n] = c
        BY <1>8
      <4>4. QED
        BY <4>2, <4>3 DEF Splits
    <3>3. QED
      BY <2>1, <3>2, SplitsMirror, SMTT(30)
  <2>2. CASE m = r
    <3>1. new[b] = sub[b]
      BY <1>1, <1>2, <1>4, <1>7
    <3>2. Splits(u, new, r, s)
      <4>1. new[r] = {r} \cup new[n] \cup new[b] /\ r \notin new[n] /\ r \notin new[b]
            /\ new[n] \cap new[b] = {}
        <5>1. r \notin sub[a] /\ sub[a] \cap sub[b] = {} /\ n \notin sub[b]
          BY <1>2, <1>6, Zenon
        <5>2. /\ new[r] = {n} \cup sub[a] \cup {r} \cup sub[c] \cup sub[b]
              /\ new[n] = {n} \cup sub[a] \cup sub[c] /\ new[b] = sub[b]
          BY <1>6, <1>7, <3>1, ZenonT(30)
        <5>3. new[r] = {r} \cup new[n] \cup new[b]
          BY <5>2, Zenon
        <5>4. r \notin new[n] /\ r \notin new[b]
          BY <1>2, <1>6, <5>1, <5>2, Zenon
        <5>6. new[n] \cap new[b] = {}
          <6>1. \A x : x \in new[n] => x = n \/ x \in sub[a] \/ x \in sub[c]
            BY <5>2
          <6>2. sub[c] \cap sub[b] = {}
            BY <1>6, Zenon
          <6>3. QED
            BY <5>1, <5>2, <6>1, <6>2, ZenonT(30)
        <5>5. QED
          BY <5>3, <5>4, <5>6
      <4>2. u.kid[s][r] = n /\ u.kid[Other(s)][r] = b
        BY <1>8
      <4>3. QED
        BY <4>1, <4>2 DEF Splits
    <3>3. QED
      BY <2>2, <3>2, SplitsMirror, SMTT(30)
  <2>3. CASE m \notin {n, r}
    <3>1. ASSUME NEW d \in Side PROVE new[u.kid[d][m]] = sub[t.kid[d][m]]
      <4>1. t.kid[d][m] # r /\ t.kid[d][m] \in N \cup {NULL}
        BY <1>1, <1>2, <1>11, <2>3, KidType
      <4>2. QED
        BY <1>7, <1>8, <2>3, <4>1
    <3>2. new[m] = sub[m]
      BY <1>1, <1>7, <2>3
    <3>3. Splits(t, sub, m, s)
      BY DEF Tree
    <3>4. Splits(u, new, m, s)
      BY <1>1, <3>1, <3>2, <3>3 DEF Splits
    <3>5. QED
      BY <3>4, SplitsMirror, SMTT(30)
  <2>4. QED
    BY <2>1, <2>2, <2>3
<1>15. \A m \in X : new[m] \subseteq X
  <2>1. \A m \in X : sub[m] \subseteq X
    BY DEF Tree
  <2>2. new[n] \subseteq sub[n]
    BY <1>6, <1>7, Zenon
  <2>3. QED
    BY <1>1, <1>7, <2>1, <2>2
<1>16. Tree(u, N, new)
  BY <1>7, <1>9, <1>12, <1>13, <1>14, <1>15 DEF Tree
<1>17. QED
  BY <1>u, <1>9, <1>16 DEF new

-----------------------------------------------------------------------------
(* Order: what is below n on the left has smaller values, on the right larger *)

Beside(s, x, y) == IF s = "L" THEN x < y ELSE y < x

Ordered(t, sub, v) ==
    /\ \A n \in sub[t.root] : v[n] \in Nat
    /\ \A n \in sub[t.root], s \in Side : \A m \in sub[t.kid[s][n]] : Beside(s, v[m], v[n])

LEMMA BesideOrder ==
    /\ \A s \in Side : \A x, y \in Nat : Beside(s, x, y) <=> Beside(Other(s), y, x)
    /\ \A s \in Side : \A x, y, z \in Nat : Beside(s, x, y) /\ Beside(s, y, z) => Beside(s, x, z)
  BY DEF Beside, Side, Other

\* A rotation does not change the order.
LEMMA RotateKeepsOrder ==
    ASSUME NEW N, NULL \notin N, NEW t, NEW sub, Tree(t, N, sub), NEW n \in sub[t.root],
           NEW s \in Side, NEW r, r = t.kid[Other(s)][n], r # NULL,
           NEW v, Ordered(t, sub, v)
    PROVE  Ordered(Rotate(t, n, s), Turned(sub, t, s, n, r), v)
<1> DEFINE X   == sub[t.root]
           a   == t.kid[s][n]
           c   == t.kid[s][r]
           b   == t.kid[Other(s)][r]
           new == Turned(sub, t, s, n, r)
<1>u. PICK u : u = Rotate(t, n, s) /\ Rotated(t, u, X, s, n, r)
  BY RotateInTree
<1>1. /\ t \in TreeOn(N) /\ sub \in [N \cup {NULL} -> SUBSET N] /\ sub[NULL] = {}
      /\ X \subseteq N /\ Other(s) \in Side /\ Other(Other(s)) = s
  BY KidType, TwoSides DEF Tree
<1>2. /\ n \in N /\ r \in N /\ r \in X /\ r # n /\ r \in sub[r]
      /\ \A d \in Side : t.kid[d][r] \notin {n, r}
      /\ a \notin {n, r} /\ t.par[r] = n
  <2>1. a # n
    BY <1>1, SMTT(30) DEF Tree, Splits
  <2>2. QED
    BY <1>1, <2>1, Family
<1>3. /\ sub[n] = {n} \cup sub[a] \cup sub[r] /\ sub[r] = {r} \cup sub[c] \cup sub[b]
      /\ sub[n] \subseteq X
  BY <1>1, <1>2 DEF Tree, Splits
<1>4. \A m \in X : v[m] \in Nat
  BY DEF Ordered
<1>5. \A m \in X, d \in Side : \A x \in sub[t.kid[d][m]] : Beside(d, v[x], v[m])
  BY DEF Ordered
<1>6. /\ u.root = IF n = t.root THEN r ELSE t.root
      /\ u.kid[Other(s)][n] = c /\ u.kid[s][n] = a
      /\ u.kid[s][r] = n /\ u.kid[Other(s)][r] = b
      /\ \A d \in Side, m \in X \ {n, r} :
             u.kid[d][m] = IF t.kid[d][m] = n THEN r ELSE t.kid[d][m]
  BY <1>u DEF Rotated
<1>7. new[u.root] = X
  BY <1>u, RotateKeepsTree
<1>8. /\ new[n] = {n} \cup sub[a] \cup sub[c] /\ new[r] = sub[n]
      /\ \A m \in N \cup {NULL} : m \notin {n, r} => new[m] = sub[m]
  BY <1>1, <1>2, Zenon DEF Turned
<1> HIDE DEF new
<1>9. ASSUME NEW m \in X, NEW d \in Side, NEW x \in new[u.kid[d][m]]
      PROVE  Beside(d, v[x], v[m])
  <2>1. a \in N \cup {NULL} /\ c \in N \cup {NULL} /\ b \in N \cup {NULL} /\ t.kid[d][m] \in N \cup {NULL}
    BY <1>1, <1>2, KidType
  <2>2. CASE m = n
    <3>1. CASE d = s
      <4>1. x \in sub[a]
        <5>1. new[a] = sub[a]
          BY <1>2, <1>8, <2>1
        <5>2. u.kid[d][m] = a
          BY <1>6, <2>2, <3>1
        <5>3. QED
          BY <1>9, <5>1, <5>2
      <4>2. QED
        BY <1>5, <2>2, <3>1, <4>1
    <3>2. CASE d = Other(s)
      <4>1. x \in sub[c]
        BY <1>2, <1>6, <1>8, <1>9, <2>1, <2>2, <3>2
      <4>2. x \in sub[t.kid[Other(s)][n]]
        BY <1>3, <4>1
      <4>3. QED
        BY <1>1, <1>5, <2>2, <3>2, <4>2, SMTT(30)
    <3>3. QED
      BY <3>1, <3>2, TwoSides
  <2>3. CASE m = r
    <3>1. CASE d = s
      <4>1. x \in {n} \cup sub[a] \cup sub[c]
        BY <1>6, <1>8, <1>9, <2>3, <3>1
      <4>2. Beside(s, v[n], v[r])
        BY <1>1, <1>2, <1>4, <1>5, BesideOrder
      <4>3. x \in sub[a] => Beside(s, v[x], v[n]) /\ v[x] \in Nat
        BY <1>3, <1>4, <1>5
      <4>4. x \in sub[c] => Beside(s, v[x], v[r])
        BY <1>2, <1>5, SMTT(30)
      <4>5. QED
        BY <1>2, <1>4, <2>3, <3>1, <4>1, <4>2, <4>3, <4>4, BesideOrder
    <3>2. CASE d = Other(s)
      <4>1. new[b] = sub[b]
        BY <1>1, <1>2, <1>8, <2>1
      <4>2. u.kid[d][m] = b
        BY <1>6, <2>3, <3>2
      <4>3. QED
        BY <1>1, <1>2, <1>5, <1>9, <2>3, <3>2, <4>1, <4>2
    <3>3. QED
      BY <3>1, <3>2, TwoSides
  <2>4. CASE m \notin {n, r}
    <3>1. t.kid[d][m] # r
      BY <1>1, <1>2, <2>4, SMTT(30) DEF Tree, Agrees
    <3>2. new[u.kid[d][m]] = sub[t.kid[d][m]]
      BY <1>6, <1>8, <2>1, <2>4, <3>1
    <3>3. QED
      BY <1>5, <1>9, <3>2
  <2>5. QED
    BY <2>2, <2>3, <2>4
<1>10. QED
  BY <1>u, <1>4, <1>7, <1>9 DEF Ordered, new

\* Colours do not matter for the shape.
LEMMA PaintKeepsTree ==
    ASSUME NEW N, NEW t, NEW sub, Tree(t, N, sub), NEW u \in TreeOn(N),
           u.root = t.root, u.kid = t.kid, u.par = t.par
    PROVE  Tree(u, N, sub) /\ \A v : Ordered(t, sub, v) => Ordered(u, sub, v)
<1>1. \A n \in sub[u.root] : Agrees(u, sub[u.root], n) /\ sub[n] \subseteq sub[u.root]
  BY DEF Tree, Agrees
<1>2. \A n \in sub[u.root], s \in Side : Splits(u, sub, n, s)
  BY DEF Tree, Splits
<1>3. Tree(u, N, sub)
  BY <1>1, <1>2 DEF Tree
<1>4. \A v : Ordered(t, sub, v) => Ordered(u, sub, v)
  BY DEF Ordered
<1>5. QED
  BY <1>3, <1>4

-----------------------------------------------------------------------------
(* A whole tree: ordered, and the nodes of S are in no tree                  *)

Rest(t, S) == \A m \in S : t.par[m] = m /\ \A s \in Side : t.kid[s][m] = NULL

Whole(t, N, S, sub, v) == /\ Tree(t, N, sub) /\ Ordered(t, sub, v)
                          /\ S \subseteq N /\ S \cap sub[t.root] = {} /\ Rest(t, S)

LEMMA RotateKeepsWhole ==
    ASSUME NEW N, NULL \notin N, NEW t, NEW sub, NEW S, NEW v, Whole(t, N, S, sub, v),
           NEW n \in sub[t.root], NEW s \in Side, NEW r, r = t.kid[Other(s)][n], r # NULL
    PROVE  Whole(Rotate(t, n, s), N, S, Turned(sub, t, s, n, r), v)
<1>1. /\ Tree(t, N, sub) /\ t \in TreeOn(N) /\ Ordered(t, sub, v) /\ S \subseteq N
      /\ S \cap sub[t.root] = {} /\ Rest(t, S) /\ Other(s) \in Side
  BY TwoSides DEF Whole, Tree
<1>2. /\ n \in N /\ r \in N /\ r # n /\ t.par[n] \notin {n, r} /\ r \in sub[t.root]
      /\ t.kid[s][r] \notin {n, r}
  BY <1>1, Family
<1>3. \A m \in sub[t.root] : /\ m # t.root => t.par[m] \in sub[t.root]
                             /\ t.kid[s][m] # NULL => t.kid[s][m] \in sub[t.root]
  BY <1>1 DEF Tree, Agrees
<1>4. t.par[n] \notin S
  BY <1>1, <1>3, KidType DEF Tree
<1>5. t.kid[s][r] \notin S
  BY <1>1, <1>2, <1>3
<1>6. PICK u \in TreeOn(N) :
          /\ u = Rotate(t, n, s)
          /\ \A m \in N : u.par[m] = IF m = n THEN r ELSE IF m = r THEN t.par[n]
                                     ELSE IF m = t.kid[s][r] THEN n ELSE t.par[m]
          /\ \A d \in Side, m \in N \ {n, r} :
                 u.kid[d][m] = IF m = t.par[n] /\ d = Hook(t, s, t.par[n], n) THEN r ELSE t.kid[d][m]
  BY <1>1, <1>2, RotateLinks
<1>7. Rest(u, S)
  <2> SUFFICES ASSUME NEW m \in S PROVE u.par[m] = m /\ \A d \in Side : u.kid[d][m] = NULL
    BY DEF Rest
  <2>1. m \in N \ {n, r} /\ m # t.par[n] /\ m # t.kid[s][r]
    BY <1>1, <1>2, <1>4, <1>5
  <2>2. t.par[m] = m /\ \A d \in Side : t.kid[d][m] = NULL
    BY <1>1 DEF Rest
  <2>3. u.par[m] = t.par[m] /\ \A d \in Side : u.kid[d][m] = t.kid[d][m]
    BY <1>6, <2>1
  <2>4. QED
    BY <2>2, <2>3
<1>8. /\ Tree(u, N, Turned(sub, t, s, n, r)) /\ Turned(sub, t, s, n, r)[u.root] = sub[t.root]
      /\ Ordered(u, Turned(sub, t, s, n, r), v)
  BY <1>1, <1>6, RotateKeepsTree, RotateKeepsOrder
<1>9. QED
  BY <1>1, <1>6, <1>7, <1>8 DEF Whole

LEMMA PaintKeepsWhole ==
    ASSUME NEW N, NEW t, NEW S, NEW sub, NEW v, Whole(t, N, S, sub, v), NEW u \in TreeOn(N),
           u.root = t.root, u.kid = t.kid, u.par = t.par
    PROVE  Whole(u, N, S, sub, v)
<1>1. Tree(u, N, sub) /\ Ordered(u, sub, v)
  BY PaintKeepsTree DEF Whole
<1>2. QED
  BY <1>1 DEF Whole, Rest

-----------------------------------------------------------------------------
(* Colours: bh[n] is the number of black nodes on every path down from n     *)

One(t, n) == IF n \in t.black THEN 1 ELSE 0

Level(t, N, X, bh) ==
    /\ bh \in [N \cup {NULL} -> Nat] /\ bh[NULL] = 0
    /\ \A n \in X, s \in Side : bh[n] = One(t, n) + bh[t.kid[s][n]]

\* the loop of rb_insert_color: n is the only red node that may have a red
\* parent or be the root
Inserting(t, N, sub, bh, n) ==
    /\ Tree(t, N, sub) /\ Level(t, N, sub[t.root], bh)
    /\ n \in sub[t.root] \ t.black
    /\ \A m \in sub[t.root] \ t.black, s \in Side : Red(t, t.kid[s][m]) => t.kid[s][m] = n
    /\ t.root \notin t.black => t.root = n

\* a node with a red parent has a black grandparent
LEMMA RedParent ==
    ASSUME NEW N, NULL \notin N, NEW t, NEW sub, NEW bh, NEW n,
           Inserting(t, N, sub, bh, n), Red(t, t.par[n]),
           NEW p, p = t.par[n], NEW g, g = t.par[p]
    PROVE  /\ p \in sub[t.root] \ t.black /\ g \in sub[t.root] \cap t.black
           /\ p # n /\ g # p /\ g # n
           /\ \E d \in Side : t.kid[d][p] = n
           /\ \E s \in Side : t.kid[s][g] = p
           /\ n \in sub[p] /\ p \in sub[g] /\ p # t.root
<1>1. n \in sub[t.root] /\ t.par[t.root] = NULL /\ n \notin t.black
  BY KidType DEF Inserting, Tree
<1>2. n # t.root
  BY <1>1 DEF Red
<1>3. PICK d \in Side : p \in sub[t.root] /\ t.kid[d][p] = n
  BY <1>1, <1>2 DEF Inserting, Tree, Agrees
<1>4. n # NULL /\ Tree(t, N, sub)
  BY <1>1, KidType DEF Inserting, Tree
<1>5. p # n /\ n \in sub[p]
  BY <1>3, <1>4, Family
<1>6. p # t.root /\ p \notin t.black
  BY <1>3, <1>5 DEF Inserting, Red
<1>7. PICK s \in Side : g \in sub[t.root] /\ t.kid[s][g] = p
  BY <1>3, <1>6 DEF Inserting, Tree, Agrees
<1>8. p # NULL
  BY <1>3, <1>4, KidType DEF Tree
<1>9. g # p /\ p \in sub[g] /\ t.kid[d][p] \notin {g, p}
  BY <1>3, <1>4, <1>7, <1>8, Family
<1>10. g \in t.black
  BY <1>5, <1>6, <1>7, <1>8 DEF Inserting, Red
<1>11. QED
  BY <1>3, <1>5, <1>6, <1>7, <1>9, <1>10

\* p is the parent, g the grandparent and o the uncle of n
Kin(t, s, n, p, g, o) == /\ p = t.par[n] /\ g = t.par[p]
                         /\ t.kid[s][g] = p /\ o = t.kid[Other(s)][g]

\* With a red uncle the colours move up, and the grandparent is the next node.
LEMMA InsertClimbs ==
    ASSUME NEW N, NULL \notin N, NEW t, NEW sub, NEW bh, NEW n,
           Inserting(t, N, sub, bh, n), NEW s \in Side, NEW p, NEW g, NEW o,
           Kin(t, s, n, p, g, o), Red(t, p), Red(t, o)
    PROVE  LET u == SetRed(SetBlack(t, {o, p}), {g})
           IN /\ u \in TreeOn(N) /\ u.root = t.root /\ u.kid = t.kid /\ u.par = t.par
              /\ \E bh2 : Inserting(u, N, sub, bh2, g)
<1>k1. p = t.par[n] /\ Red(t, t.par[n])
  BY DEF Kin
<1>k2. g = t.par[p]
  BY DEF Kin
<1>k3. t.kid[s][g] = p
  BY DEF Kin
<1>k4. o = t.kid[Other(s)][g]
  BY DEF Kin
<1> DEFINE X == sub[t.root]
           u == SetRed(SetBlack(t, {o, p}), {g})
           bh2 == [m \in N \cup {NULL} |-> IF m \in {o, p} THEN bh[m] + 1 ELSE bh[m]]
<1>1. /\ t \in TreeOn(N) /\ X \subseteq N /\ Tree(t, N, sub) /\ n \in X /\ n \in N
  BY KidType DEF Inserting, Tree
<1>2. /\ p \in X \ t.black /\ g \in X \cap t.black /\ p # n /\ g # p /\ g # n
      /\ \E d \in Side : t.kid[d][p] = n
      /\ p \in N /\ g \in N /\ p # t.root
  BY <1>k1, <1>k2, <1>1, RedParent
<1>3. /\ o \in X /\ o \in N /\ o \notin t.black /\ o # g /\ o # p /\ t.par[o] = g /\ o # t.root
      /\ Other(s) \in Side
  BY <1>k3, <1>k4, <1>1, <1>2, Family, TwoSides DEF Red
<1>4. /\ SetBlack(t, {o, p}) \in TreeOn(N) /\ SetBlack(t, {o, p}).root = t.root
      /\ SetBlack(t, {o, p}).kid = t.kid /\ SetBlack(t, {o, p}).par = t.par
      /\ SetBlack(t, {o, p}).black = t.black \cup {o, p}
  BY <1>1, <1>2, <1>3 DEF SetBlack, TreeOn
<1>5. /\ u \in TreeOn(N) /\ u.root = t.root /\ u.kid = t.kid /\ u.par = t.par
      /\ u.black = (t.black \cup {o, p}) \ {g}
  <2> DEFINE w == SetBlack(t, {o, p})
  <2> HIDE DEF w
  <2>1. w \in TreeOn(N)
    BY <1>4 DEF w
  <2>2. /\ SetRed(w, {g}) \in TreeOn(N) /\ SetRed(w, {g}).root = w.root
        /\ SetRed(w, {g}).kid = w.kid /\ SetRed(w, {g}).par = w.par
        /\ SetRed(w, {g}).black = w.black \ {g}
    BY <2>1 DEF SetRed, TreeOn
  <2>3. QED
    BY <1>4, <2>2 DEF w
<1> HIDE DEF u
<1>6. Tree(u, N, sub)
  BY <1>1, <1>5, PaintKeepsTree
<1>7. /\ bh \in [N \cup {NULL} -> Nat] /\ bh[NULL] = 0
      /\ \A m \in X, d \in Side : bh[m] = One(t, m) + bh[t.kid[d][m]]
  BY DEF Inserting, Level
<1>8. /\ bh2 \in [N \cup {NULL} -> Nat] /\ bh2[NULL] = 0
      /\ bh2[p] = bh[p] + 1 /\ bh2[o] = bh[o] + 1
      /\ \A m \in N \cup {NULL} : m \notin {o, p} => bh2[m] = bh[m]
  <2>1. p \in N /\ o \in N /\ o # p /\ NULL \notin {o, p}
    BY <1>2, <1>3
  <2>2. \A m \in N \cup {NULL} : bh[m] \in Nat /\ bh[m] + 1 \in Nat
    BY <1>7
  <2>3. bh2 \in [N \cup {NULL} -> Nat]
    BY <2>2
  <2>4. \A m \in N \cup {NULL} : bh2[m] = IF m \in {o, p} THEN bh[m] + 1 ELSE bh[m]
    OBVIOUS
  <2>5. QED
    BY <1>7, <2>1, <2>3, <2>4, Zenon
<1> HIDE DEF bh2
<1>9. /\ One(u, p) = 1 /\ One(u, o) = 1 /\ One(u, g) = 0
      /\ One(t, p) = 0 /\ One(t, o) = 0 /\ One(t, g) = 1
      /\ \A m \in X : m \notin {o, p, g} => One(u, m) = One(t, m)
  <2>1. u.black = (t.black \cup {o, p}) \ {g} /\ g \in t.black /\ p \notin t.black
        /\ o \notin t.black /\ o # g /\ p # g
    BY <1>2, <1>3, <1>5
  <2>2. QED
    BY <2>1 DEF One
<1>10. \A m \in X, d \in Side :
           /\ t.kid[d][m] \in N \cup {NULL}
           /\ t.kid[d][m] # NULL => t.par[t.kid[d][m]] = m
  BY <1>1, KidType DEF Tree, Agrees
<1>11. ASSUME NEW m \in X, NEW d \in Side PROVE bh2[m] = One(u, m) + bh2[t.kid[d][m]]
  <2>1. CASE m = g
    <3>1. t.kid[d][g] = p \/ t.kid[d][g] = o
      <4>1. d = s \/ d = Other(s)
        BY TwoSides
      <4>2. QED
        BY <1>k3, <1>k4, <4>1
    <3>2. bh[g] = 1 + bh[t.kid[d][g]]
      BY <1>2, <1>7, <1>9
    <3>3. bh2[t.kid[d][g]] = bh[t.kid[d][g]] + 1
      BY <1>8, <3>1
    <3>4. bh2[g] = bh[g]
      BY <1>2, <1>3, <1>8
    <3>5. bh[t.kid[d][g]] \in Nat /\ One(u, g) = 0
      BY <1>2, <1>3, <1>7, <1>9, <3>1
    <3>6. PICK k : k = t.kid[d][g]
      OBVIOUS
    <3>7. bh[g] = 1 + bh[k] /\ bh2[k] = bh[k] + 1 /\ bh2[g] = bh[g] /\ bh[k] \in Nat
      BY <3>2, <3>3, <3>4, <3>5, <3>6
    <3>8. bh2[g] = One(u, g) + bh2[k]
      BY <3>5, <3>7
    <3>9. QED
      BY <2>1, <3>6, <3>8
  <2>2. CASE m # g
    <3>1. t.kid[d][m] \notin {o, p}
      <4>1. t.par[p] = g /\ t.par[o] = g /\ p # NULL /\ o # NULL
        BY <1>k2, <1>1, <1>2, <1>3
      <4>2. QED
        BY <1>10, <2>2, <4>1
    <3>2. bh2[t.kid[d][m]] = bh[t.kid[d][m]] /\ bh[t.kid[d][m]] \in Nat
      BY <1>7, <1>8, <1>10, <3>1
    <3>3. bh[m] = One(t, m) + bh[t.kid[d][m]]
      BY <1>7
    <3>4. m \in {o, p} => bh2[m] = bh[m] + 1 /\ One(u, m) = 1 /\ One(t, m) = 0
      BY <1>8, <1>9
    <3>5. m \notin {o, p} => bh2[m] = bh[m] /\ One(u, m) = One(t, m) /\ One(t, m) \in Nat
      BY <1>1, <1>8, <1>9, <2>2 DEF One
    <3>6. QED
      BY <3>2, <3>3, <3>4, <3>5
  <2>3. QED
    BY <2>1, <2>2
<1>12. \A m \in X \ u.black, d \in Side : Red(u, t.kid[d][m]) => t.kid[d][m] = g
  <2>1. SUFFICES ASSUME NEW m \in X \ u.black, NEW d \in Side, Red(u, t.kid[d][m]), t.kid[d][m] # g
                 PROVE  FALSE
    OBVIOUS
  <2>2. CASE m = g
    BY <1>k3, <1>k4, <1>2, <1>3, <1>5, <2>1, <2>2, TwoSides DEF Red
  <2>3. CASE m # g
    <3>1. m \notin t.black /\ m \notin {o, p} /\ Red(t, t.kid[d][m])
      BY <1>5, <2>1, <2>3 DEF Red
    <3>2. t.kid[d][m] = n
      BY <3>1 DEF Inserting
    <3>3. QED
      BY <1>k1, <1>1, <1>10, <3>1, <3>2
  <2>4. QED
    BY <2>2, <2>3
<1>13. t.root \notin u.black => t.root = g
  <2>1. n # t.root
    <3>1. n \in X /\ p \in N /\ NULL \notin N
      BY <1>1, <1>2
    <3>2. QED
      BY <1>k1, <3>1 DEF Inserting, Tree
  <2>2. t.root \in t.black
    BY <2>1 DEF Inserting
  <2>3. QED
    BY <1>5, <2>2
<1>14. Level(u, N, X, bh2)
  <2>1. u.kid = t.kid
    BY <1>5
  <2>2. \A m \in X, d \in Side : bh2[m] = One(u, m) + bh2[u.kid[d][m]]
    BY <1>11, <2>1
  <2>3. QED
    BY <1>8, <2>2 DEF Level
<1>15. g \in X \ u.black
  BY <1>2, <1>5
<1>16. Inserting(u, N, sub, bh2, g)
  <2>1. u.kid = t.kid /\ u.root = t.root
    BY <1>5
  <2>2. QED
    BY <1>6, <1>12, <1>13, <1>14, <1>15, <2>1 DEF Inserting
<1>17. QED
  BY <1>5, <1>16 DEF u


-----------------------------------------------------------------------------
(* The pairs of a parent and a child after a rotation                        *)

Edge(t, u, s, n, r, m, d) ==
    \/ m = n /\ u.kid[d][m] \in {t.kid[s][n], t.kid[s][r]}
    \/ m = r /\ u.kid[d][m] \in {n, t.kid[Other(s)][r]}
    \/ m \notin {n, r} /\ t.kid[d][m] = n /\ u.kid[d][m] = r
    \/ m \notin {n, r} /\ t.kid[d][m] # n /\ u.kid[d][m] = t.kid[d][m]

LEMMA Edges ==
    ASSUME NEW t, NEW u, NEW X, NEW s \in Side, NEW n, NEW r, n # r, Rotated(t, u, X, s, n, r)
    PROVE  \A m \in X, d \in Side : Edge(t, u, s, n, r, m, d)
<1> SUFFICES ASSUME NEW m \in X, NEW d \in Side PROVE Edge(t, u, s, n, r, m, d)
  OBVIOUS
<1>1. d = s \/ d = Other(s)
  BY TwoSides
<1>2. CASE m = n
  BY <1>1, <1>2 DEF Rotated, Edge
<1>3. CASE m = r
  BY <1>1, <1>3 DEF Rotated, Edge
<1>4. CASE m \notin {n, r}
  BY <1>4 DEF Rotated, Edge
<1>5. QED
  BY <1>2, <1>3, <1>4

\* bh counts the black nodes of the turned tree when it does so for the pairs
\* that are new in it
Recounts(t, N, X, s, n, r, bh) ==
    /\ bh \in [N \cup {NULL} -> Nat] /\ bh[NULL] = 0
    /\ bh[n] = One(t, n) + bh[t.kid[s][n]] /\ bh[n] = One(t, n) + bh[t.kid[s][r]]
    /\ bh[r] = One(t, r) + bh[n] /\ bh[r] = One(t, r) + bh[t.kid[Other(s)][r]]
    /\ \A m \in X \ {n, r}, d \in Side :
           /\ t.kid[d][m] = n => bh[m] = One(t, m) + bh[r]
           /\ t.kid[d][m] # n => bh[m] = One(t, m) + bh[t.kid[d][m]]

LEMMA RotateLevels ==
    ASSUME NEW N, NEW t, NEW u, NEW X, NEW s \in Side, NEW n, NEW r, n # r,
           Rotated(t, u, X, s, n, r), NEW bh, Recounts(t, N, X, s, n, r, bh)
    PROVE  Level(u, N, X, bh)
<1>0. /\ bh \in [N \cup {NULL} -> Nat] /\ bh[NULL] = 0
      /\ bh[n] = One(t, n) + bh[t.kid[s][n]] /\ bh[n] = One(t, n) + bh[t.kid[s][r]]
      /\ bh[r] = One(t, r) + bh[n] /\ bh[r] = One(t, r) + bh[t.kid[Other(s)][r]]
      /\ \A m \in X \ {n, r}, d \in Side :
             /\ t.kid[d][m] = n => bh[m] = One(t, m) + bh[r]
             /\ t.kid[d][m] # n => bh[m] = One(t, m) + bh[t.kid[d][m]]
  BY DEF Recounts
<1>1. \A m : One(u, m) = One(t, m)
  BY DEF One, Rotated
<1>e. \A m \in X, d \in Side : Edge(t, u, s, n, r, m, d)
  BY Edges
<1>2. ASSUME NEW m \in X, NEW d \in Side PROVE bh[m] = One(u, m) + bh[u.kid[d][m]]
  <2>1. CASE m = n
    <3>1. u.kid[d][m] \in {t.kid[s][n], t.kid[s][r]}
      BY <1>e, <2>1 DEF Edge
    <3>2. QED
      BY <1>0, <1>1, <2>1, <3>1
  <2>2. CASE m = r
    <3>1. u.kid[d][m] \in {n, t.kid[Other(s)][r]}
      BY <1>e, <2>2 DEF Edge
    <3>2. QED
      BY <1>0, <1>1, <2>2, <3>1
  <2>3. CASE m \notin {n, r}
    <3>1. \/ t.kid[d][m] = n /\ u.kid[d][m] = r
          \/ t.kid[d][m] # n /\ u.kid[d][m] = t.kid[d][m]
      BY <1>e, <2>3 DEF Edge
    <3>2. QED
      BY <1>0, <1>1, <2>3, <3>1
  <2>4. QED
    BY <2>1, <2>2, <2>3
<1>3. QED
  BY <1>0, <1>2 DEF Level

\* A node between its parent and its grandparent: a rotation brings it above
\* its parent, which is the node to go on with.
LEMMA InsertStraight ==
    ASSUME NEW N, NULL \notin N, NEW t, NEW sub, NEW bh, NEW n,
           Inserting(t, N, sub, bh, n), NEW s \in Side, NEW p, NEW g, NEW o,
           Kin(t, s, n, p, g, o), Red(t, p), ~Red(t, o), t.kid[Other(s)][p] = n
    PROVE  LET u == Rotate(t, p, s)
               new == Turned(sub, t, s, p, n)
           IN /\ u \in TreeOn(N) /\ u.black = t.black
              /\ Inserting(u, N, new, bh, p) /\ new[u.root] = sub[t.root]
              /\ \A S, v : Whole(t, N, S, sub, v) => Whole(u, N, S, new, v)
              /\ u.par[p] = n /\ u.par[n] = g /\ u.kid[s][g] = n /\ u.kid[s][n] = p
              /\ u.kid[Other(s)][g] = o /\ n \notin u.black /\ g # n /\ n # p
              /\ Raises(t, u, N, sub, new, s, p, n)
<1>k1. p = t.par[n] /\ Red(t, t.par[n])
  BY DEF Kin
<1>k2. g = t.par[p]
  BY DEF Kin
<1>k3. t.kid[s][g] = p
  BY DEF Kin
<1>k4. o = t.kid[Other(s)][g]
  BY DEF Kin
<1> DEFINE X == sub[t.root]
           new == Turned(sub, t, s, p, n)
<1>1. /\ t \in TreeOn(N) /\ X \subseteq N /\ Tree(t, N, sub) /\ n \in X \ t.black /\ n \in N
      /\ Other(s) \in Side /\ Other(s) # s /\ Other(Other(s)) = s /\ n # NULL
  BY KidType, TwoSides DEF Inserting, Tree
<1>2. /\ p \in X \ t.black /\ g \in X \cap t.black /\ p # n /\ g # p /\ g # n
      /\ p \in N /\ g \in N /\ p # t.root
  BY <1>k1, <1>k2, <1>1, RedParent
<1>u. PICK u \in TreeOn(N) : u = Rotate(t, p, s) /\ Rotated(t, u, X, s, p, n)
  BY <1>1, <1>2, RotateInTree
<1>3. Tree(u, N, new) /\ new[u.root] = X
  <2>1. Tree(t, N, sub) /\ p \in sub[t.root] /\ n = t.kid[Other(s)][p] /\ n # NULL
    BY <1>1, <1>2
  <2>2. /\ Tree(Rotate(t, p, s), N, Turned(sub, t, s, p, n))
        /\ Turned(sub, t, s, p, n)[Rotate(t, p, s).root] = sub[t.root]
    BY <2>1, RotateKeepsTree
  <2>3. QED
    BY <1>u, <2>2
<1>4. /\ bh \in [N \cup {NULL} -> Nat] /\ bh[NULL] = 0
      /\ \A m \in X, d \in Side : bh[m] = One(t, m) + bh[t.kid[d][m]]
  BY DEF Inserting, Level
<1>5. One(t, p) = 0 /\ One(t, n) = 0
  BY <1>1, <1>2 DEF One
<1>6. \A m \in X, d \in Side : t.kid[d][m] \in N \cup {NULL}
  BY <1>1, KidType
<1>7. bh[p] = bh[n] /\ \A d \in Side : bh[p] = bh[t.kid[d][p]] /\ bh[n] = bh[t.kid[d][n]]
  <2>1. \A k \in N \cup {NULL} : bh[k] \in Nat
    BY <1>4
  <2>2. \A d \in Side : bh[p] = 0 + bh[t.kid[d][p]] /\ bh[n] = 0 + bh[t.kid[d][n]]
    BY <1>1, <1>2, <1>4, <1>5
  <2>3. \A d \in Side : bh[p] = bh[t.kid[d][p]] /\ bh[n] = bh[t.kid[d][n]]
    BY <1>1, <1>2, <1>6, <2>1, <2>2
  <2>4. QED
    BY <1>1, <2>3
<1>8. Level(u, N, X, bh)
  <2>1. bh[p] \in Nat /\ bh[p] = bh[t.kid[s][p]] /\ bh[p] = bh[t.kid[s][n]] /\ bh[n] = bh[p]
        /\ bh[n] = bh[t.kid[Other(s)][n]]
    BY <1>1, <1>2, <1>4, <1>7
  <2>2. /\ bh[p] = One(t, p) + bh[t.kid[s][p]] /\ bh[p] = One(t, p) + bh[t.kid[s][n]]
        /\ bh[n] = One(t, n) + bh[p] /\ bh[n] = One(t, n) + bh[t.kid[Other(s)][n]]
    BY <1>5, <2>1
  <2>3. \A m \in X, d \in Side : t.kid[d][m] = p => bh[m] = One(t, m) + bh[n]
    BY <1>4, <1>7
  <2>4. Recounts(t, N, X, s, p, n, bh)
    BY <1>4, <2>2, <2>3 DEF Recounts
  <2>5. QED
    BY <1>u, <1>2, <2>4, RotateLevels
<1>9. \A m \in X \ t.black, d \in Side : Red(t, t.kid[d][m]) => t.kid[d][m] = n
  BY DEF Inserting
<1>10. u.black = t.black /\ u.root = t.root
  BY <1>u, <1>2 DEF Rotated
<1>e. \A m \in X, d \in Side : Edge(t, u, s, p, n, m, d)
  BY <1>u, <1>2, Edges
<1>11. ASSUME NEW m \in X \ u.black, NEW d \in Side, Red(u, u.kid[d][m])
       PROVE  u.kid[d][m] = p
  <2>1. Red(t, u.kid[d][m])
    BY <1>10, <1>11 DEF Red
  <2>2. \A e \in Side : t.kid[e][n] # n
    BY <1>1, <1>4 DEF Tree, Splits
  <2>3. t.kid[s][p] # n
    BY <1>1, <1>2, Family
  <2>4. \A x \in X, e \in Side : t.kid[e][x] = n => x = p
    BY <1>k1, <1>1 DEF Tree, Agrees
  <2>5. CASE m = p
    <3>1. u.kid[d][m] \in {t.kid[s][p], t.kid[s][n]}
      BY <1>e, <1>2, <2>5 DEF Edge
    <3>2. QED
      BY <1>1, <1>2, <1>9, <2>1, <2>2, <2>3, <3>1
  <2>6. CASE m = n
    <3>1. u.kid[d][m] \in {p, t.kid[Other(s)][n]}
      BY <1>e, <1>2, <2>6 DEF Edge
    <3>2. QED
      BY <1>1, <1>9, <2>1, <2>2, <3>1
  <2>7. CASE m \notin {p, n}
    <3>1. m \in X \ t.black
      BY <1>10
    <3>2. CASE t.kid[d][m] = p
      <4>1. p # NULL /\ p \notin t.black /\ p # n
        BY <1>1, <1>2
      <4>2. Red(t, t.kid[d][m])
        BY <3>2, <4>1 DEF Red
      <4>3. QED
        BY <1>9, <3>1, <3>2, <4>1, <4>2
    <3>3. CASE t.kid[d][m] # p
      <4>1. u.kid[d][m] = t.kid[d][m]
        BY <1>e, <2>7, <3>3 DEF Edge
      <4>2. QED
        BY <1>9, <2>1, <2>4, <2>7, <3>1, <4>1
    <3>4. QED
      BY <3>2, <3>3
  <2>8. QED
    BY <2>5, <2>6, <2>7
<1>12. u.root \in u.black
  <2>1. t.root # n
    BY <1>k1, <1>1, <1>2 DEF Tree
  <2>2. QED
    BY <1>10, <2>1 DEF Inserting
<1>13. Inserting(u, N, new, bh, p)
  BY <1>2, <1>3, <1>8, <1>10, <1>11, <1>12, SMTT(30) DEF Inserting
<1>14. u.par[p] = n /\ u.par[n] = g /\ u.kid[s][n] = p
  BY <1>k1, <1>k2, <1>k3, <1>u, <1>1, <1>2 DEF Rotated
<1>15. u.kid[s][g] = n /\ u.kid[Other(s)][g] = o
  <2>1. o # p
    BY <1>1, <1>2, Family
  <2>2. QED
    BY <1>k3, <1>k4, <1>u, <1>1, <1>2, <2>1 DEF Rotated
<1>16. \A S, v : Whole(t, N, S, sub, v) => Whole(u, N, S, new, v)
  BY <1>u, <1>1, <1>2, RotateKeepsWhole
<1>17. Raises(t, u, N, sub, new, s, p, n)
  BY <1>u, <1>1, <1>2, RotationRaises
<1>18. QED
  BY <1>u, <1>1, <1>2, <1>3, <1>10, <1>13, <1>14, <1>15, <1>16, <1>17


LEMMA Repaints ==
    ASSUME NEW N, NEW t \in TreeOn(N), NEW S \in SUBSET N, NEW R \in SUBSET N
    PROVE  \E u \in TreeOn(N) :
               /\ u = SetRed(SetBlack(t, S), R)
               /\ u.root = t.root /\ u.kid = t.kid /\ u.par = t.par
               /\ u.black = (t.black \cup S) \ R
<1> DEFINE w == SetBlack(t, S)
<1>1. /\ w \in TreeOn(N) /\ w.root = t.root /\ w.kid = t.kid /\ w.par = t.par
      /\ w.black = t.black \cup S
  BY DEF SetBlack, TreeOn
<1> HIDE DEF w
<1>2. /\ SetRed(w, R) \in TreeOn(N) /\ SetRed(w, R).root = w.root
      /\ SetRed(w, R).kid = w.kid /\ SetRed(w, R).par = w.par
      /\ SetRed(w, R).black = w.black \ R
  BY <1>1 DEF SetRed, TreeOn
<1>3. QED
  BY <1>1, <1>2 DEF w

\* Node, parent and grandparent on one side: the parent gets black and takes
\* the place of the grandparent, which gets red. That ends the loop.
LEMMA InsertSettles ==
    ASSUME NEW N, NULL \notin N, NEW t, NEW sub, NEW bh, NEW n,
           Inserting(t, N, sub, bh, n), NEW s \in Side, NEW p, NEW g, NEW o,
           Kin(t, s, n, p, g, o), Red(t, p), ~Red(t, o), t.kid[s][p] = n
    PROVE  LET v == SetRed(SetBlack(t, {p}), {g})
               u == Rotate(v, g, Other(s))
           IN \E new, bh2 :
                 /\ Inserting(u, N, new, bh2, n) /\ new[u.root] = sub[t.root]
                 /\ u.par[n] = p /\ p \in u.black
                 /\ \A S, v1 : Whole(t, N, S, sub, v1) => Whole(u, N, S, new, v1)
                 /\ Raises(t, u, N, sub, new, Other(s), g, p) /\ u.kid[s][p] = n
<1>X. PICK X : X = sub[t.root]
  OBVIOUS
<1>c. PICK c : c = t.kid[Other(s)][p]
  OBVIOUS
<1> DEFINE bh2 == [m \in N \cup {NULL} |-> IF m = g THEN bh[p] ELSE IF m = p THEN bh[g] ELSE bh[m]]
<1>k. /\ p = t.par[n] /\ g = t.par[p] /\ t.kid[s][p] = n
      /\ t.kid[s][g] = p /\ o = t.kid[Other(s)][g]
  BY DEF Kin
<1>1. /\ t \in TreeOn(N) /\ X \subseteq N /\ Tree(t, N, sub) /\ n \in X \ t.black /\ n \in N
      /\ Other(s) \in Side /\ Other(s) # s /\ n # NULL
  BY <1>X, KidType, TwoSides DEF Inserting, Tree
<1>2. /\ p \in X \ t.black /\ g \in X \cap t.black /\ p # n /\ g # p /\ g # n
      /\ p \in N /\ g \in N /\ p # t.root /\ p # NULL
  <2>1. Red(t, t.par[n])
    BY <1>k, SMTT(30)
  <2>2. /\ p \in sub[t.root] \ t.black /\ g \in sub[t.root] \cap t.black
        /\ p # n /\ g # p /\ g # n /\ p # t.root
    BY <1>k, <2>1, RedParent
  <2>3. QED
    BY <1>1, <1>X, <2>2
<1>3. o # p /\ o # g /\ c # n /\ c # p /\ c # g
  <2>1. o # p /\ c # g /\ c # n
    BY <1>1, <1>2, <1>c, <1>k, <1>X, Family
  <2>2. \A d \in Side : t.kid[d][p] # p /\ t.kid[d][g] # g
    BY <1>1, <1>2, <1>X DEF Tree, Splits
  <2>3. QED
    BY <1>1, <1>c, <1>k, <2>1, <2>2, ZenonT(30)
<1>v. PICK v \in TreeOn(N) : /\ v = SetRed(SetBlack(t, {p}), {g})
                             /\ v.root = t.root /\ v.kid = t.kid /\ v.par = t.par
                             /\ v.black = (t.black \cup {p}) \ {g}
  BY <1>1, <1>2, Repaints
<1> DEFINE new == Turned(sub, v, Other(s), g, p)
<1>4. Tree(v, N, sub) /\ \A S, v1 : Whole(t, N, S, sub, v1) => Whole(v, N, S, sub, v1)
  <2>1. v.root = t.root /\ v.kid = t.kid /\ v.par = t.par /\ Tree(t, N, sub)
    BY <1>1, <1>v
  <2>2. QED
    BY <2>1, PaintKeepsTree, PaintKeepsWhole
<1>r. /\ v.root = t.root /\ v.par = t.par /\ \A d \in Side : \A m : v.kid[d][m] = t.kid[d][m]
      /\ X = sub[v.root] /\ p = v.kid[Other(Other(s))][g] /\ g \in sub[v.root]
      /\ v.kid[Other(s)][g] = o /\ v.kid[Other(s)][p] = c /\ v.kid[Other(Other(s))][p] = n
  BY <1>1, <1>2, <1>v, <1>k, <1>c, <1>X, TwoSides, Zenon
<1>u. PICK u \in TreeOn(N) : u = Rotate(v, g, Other(s)) /\ Rotated(v, u, X, Other(s), g, p)
  BY <1>1, <1>2, <1>4, <1>r, RotateInTree
<1>5. Tree(u, N, new) /\ new[u.root] = X
  BY <1>u, <1>r, <1>1, <1>2, <1>4, RotateKeepsTree
<1>6. \A S, v1 : Whole(t, N, S, sub, v1) => Whole(u, N, S, new, v1)
  <2>1. p = v.kid[Other(Other(s))][g] /\ g \in sub[v.root] /\ Other(s) \in Side /\ p # NULL
    BY <1>1, <1>2, <1>r
  <2>2. \A S, v1 : Whole(v, N, S, sub, v1) => Whole(u, N, S, new, v1)
    BY <1>u, <2>1, RotateKeepsWhole
  <2>3. QED
    BY <1>4, <2>2
<1>w. Raises(v, u, N, sub, new, Other(s), g, p)
  BY <1>u, <1>2, <1>4, RotationRaises
<1> HIDE DEF new
<1>7. /\ bh \in [N \cup {NULL} -> Nat] /\ bh[NULL] = 0
      /\ \A m \in X, d \in Side : bh[m] = One(t, m) + bh[t.kid[d][m]]
  BY <1>X, SMTT(30) DEF Inserting, Level
<1>8. /\ \A m \in X, d \in Side : t.kid[d][m] \in N \cup {NULL}
      /\ o \in N \cup {NULL} /\ c \in N \cup {NULL}
  BY <1>1, <1>2, <1>c, <1>k, KidType
<1>9. /\ bh[g] = 1 + bh[p] /\ bh[p] = bh[o] /\ bh[p] = bh[c] /\ bh[p] = bh[n]
      /\ bh[p] \in Nat
  <2>1. One(t, p) = 0 /\ One(t, g) = 1
    BY <1>2 DEF One
  <2>2. PICK bo \in Nat, bc \in Nat, bn \in Nat, bp \in Nat, bg \in Nat :
            bo = bh[o] /\ bc = bh[c] /\ bn = bh[n] /\ bp = bh[p] /\ bg = bh[g]
    BY <1>1, <1>2, <1>7, <1>8
  <2>3. bg = 1 + bp /\ bg = 1 + bo /\ bp = 0 + bc /\ bp = 0 + bn
    <3>1. /\ bh[g] = One(t, g) + bh[t.kid[s][g]]
          /\ bh[g] = One(t, g) + bh[t.kid[Other(s)][g]]
          /\ bh[p] = One(t, p) + bh[t.kid[s][p]]
          /\ bh[p] = One(t, p) + bh[t.kid[Other(s)][p]]
      BY <1>1, <1>2, <1>7
    <3>2. /\ bh[t.kid[s][g]] = bp /\ bh[t.kid[Other(s)][g]] = bo
          /\ bh[t.kid[s][p]] = bn /\ bh[t.kid[Other(s)][p]] = bc
      BY <1>k, <1>c, <2>2
    <3>3. QED
      BY <2>1, <2>2, <3>1, <3>2
  <2>4. QED
    BY <2>2, <2>3
<1>10. /\ bh2 \in [N \cup {NULL} -> Nat] /\ bh2[NULL] = 0
       /\ bh2[g] = bh[p] /\ bh2[p] = bh[g]
       /\ \A m \in N \cup {NULL} : m \notin {g, p} => bh2[m] = bh[m]
  BY <1>1, <1>2, <1>7, Zenon
<1> HIDE DEF bh2
<1>11. /\ One(v, p) = 1 /\ One(v, g) = 0 /\ \A m : m \notin {g, p} => One(v, m) = One(t, m)
  BY <1>2, <1>v DEF One
<1>12. Level(u, N, X, bh2)
  <2>1. bh2[o] = bh[o] /\ bh2[c] = bh[c] /\ bh2[n] = bh[n]
    BY <1>1, <1>2, <1>3, <1>8, <1>10
  <2>2. /\ bh2[g] = One(v, g) + bh2[o] /\ bh2[g] = One(v, g) + bh2[c]
        /\ bh2[p] = One(v, p) + bh2[g] /\ bh2[p] = One(v, p) + bh2[n]
    <3>1. PICK b \in Nat : b = bh[p]
      BY <1>9
    <3>2. /\ bh2[g] = b /\ bh2[o] = b /\ bh2[c] = b /\ bh2[n] = b /\ bh2[p] = 1 + b
          /\ One(v, g) = 0 /\ One(v, p) = 1
      BY <1>9, <1>10, <1>11, <2>1, <3>1
    <3>3. QED
      BY <3>2
  <2>3. ASSUME NEW m \in X \ {g, p}, NEW d \in Side, v.kid[d][m] = g
        PROVE  bh2[m] = One(v, m) + bh2[p]
    <3>1. bh2[m] = bh[m] /\ One(v, m) = One(t, m) /\ t.kid[d][m] = g
      BY <1>1, <1>10, <1>11, <1>r, <2>3
    <3>2. bh[m] = One(t, m) + bh[g]
      BY <1>7, <3>1
    <3>3. QED
      BY <1>10, <3>1, <3>2
  <2>4. ASSUME NEW m \in X \ {g, p}, NEW d \in Side, v.kid[d][m] # g
        PROVE  bh2[m] = One(v, m) + bh2[v.kid[d][m]]
    <3>1. t.kid[d][m] # p
      <4>1. t.kid[d][m] # NULL => t.par[t.kid[d][m]] = m
        BY <1>1, <1>X DEF Tree, Agrees
      <4>2. t.par[p] = g /\ p # NULL
        BY <1>2, <1>k
      <4>3. QED
        BY <2>4, <4>1, <4>2
    <3>k. PICK k \in N \cup {NULL} : k = t.kid[d][m]
      BY <1>8
    <3>2. bh2[k] = bh[k] /\ bh2[m] = bh[m] /\ One(v, m) = One(t, m)
      BY <1>1, <1>10, <1>11, <1>r, <2>4, <3>1, <3>k
    <3>3. bh[m] = One(t, m) + bh[k] /\ v.kid[d][m] = k
      BY <1>7, <1>r, <3>k, SMTT(30)
    <3>4. QED
      BY <3>2, <3>3
  <2>5. Recounts(v, N, X, Other(s), g, p, bh2)
    BY <1>10, <1>r, <2>2, <2>3, <2>4 DEF Recounts
  <2>6. QED
    BY <1>u, <1>1, <1>2, <2>5, RotateLevels
<1>13. \A m \in X \ t.black, d \in Side : Red(t, t.kid[d][m]) => t.kid[d][m] = n
  BY <1>X DEF Inserting
<1>e. \A m \in X, d \in Side : Edge(v, u, Other(s), g, p, m, d)
  BY <1>u, <1>1, <1>2, Edges
<1>14. u.black = (t.black \cup {p}) \ {g}
  BY <1>u, <1>v DEF Rotated
<1>15. ASSUME NEW m \in X \ u.black, NEW d \in Side, Red(u, u.kid[d][m])
       PROVE  u.kid[d][m] = n
  <2>1. u.kid[d][m] # p /\ (u.kid[d][m] # g => Red(t, u.kid[d][m])) /\ m # p
    BY <1>2, <1>14, <1>15 DEF Red
  <2>2. CASE m = g
    <3>1. u.kid[d][m] \in {o, c}
      BY <1>e, <1>r, <1>2, <2>2 DEF Edge
    <3>2. u.kid[d][m] = c
      BY <1>3, <2>1, <3>1
    <3>3. QED
      BY <1>1, <1>2, <1>3, <1>13, <1>c, <2>1, <3>2
  <2>3. CASE m # g
    <3>1. u.kid[d][m] = t.kid[d][m] /\ t.kid[d][m] # g
      BY <1>e, <1>r, <2>1, <2>3 DEF Edge
    <3>2. m \in X \ t.black
      BY <1>14, <2>1, <2>3
    <3>3. QED
      BY <1>13, <2>1, <3>1, <3>2
  <2>4. QED
    BY <2>2, <2>3
<1>16. u.root \in u.black
  <2>1. t.root # n
    BY <1>1, <1>2, <1>k DEF Tree
  <2>2. t.root \in t.black
    BY <2>1 DEF Inserting
  <2>3. u.root = IF g = t.root THEN p ELSE t.root
    BY <1>u, <1>r DEF Rotated
  <2>4. QED
    BY <1>2, <1>14, <2>2, <2>3, SMTT(30)
<1>17. n \in X \ u.black /\ p \in u.black
  BY <1>1, <1>2, <1>14
<1>18. Inserting(u, N, new, bh2, n)
  BY <1>5, <1>12, <1>15, <1>16, <1>17 DEF Inserting
<1>19. u.par[n] = p
  <2>1. t.par[n] = p /\ n # v.kid[Other(s)][p]
    BY <1>1, <1>3, <1>k, <1>r, Zenon
  <2>2. u.par[n] = v.par[n]
    BY <1>u, <1>1, <1>2, <1>r, <2>1 DEF Rotated
  <2>3. QED
    BY <1>r, <2>1, <2>2
<1>20. Raises(t, u, N, sub, new, Other(s), g, p) /\ u.kid[s][p] = n
  <2>1. u.kid[s][p] = n
    BY <1>u, <1>r, TwoSides, Zenon DEF Rotated
  <2>2. QED
    BY <1>v, <1>w, <2>1, RaisesPainted
<1>21. QED
  BY <1>u, <1>v, <1>X, <1>5, <1>6, <1>17, <1>18, <1>19, <1>20


(* Which subtrees change: those above d, and those of the two children of a  *)
(* node top above d                                                          *)

Stirs(u, X, sub, new, d) ==
    \E top \in X : /\ d \in new[top]
                   /\ \A k \in X : new[k] = sub[k] \/ k = top \/ \E e \in Side : k = u.kid[e][top]

\* m is the next node of the loop, still above d when nothing has changed yet
Follows(u, X, m, sub, new, d) ==
    \/ new = sub /\ d \in sub[m]
    \/ ~Red(u, u.par[m]) /\ Stirs(u, X, sub, new, d)

\* The subtree of a grandchild.
LEMMA RisesAbove ==
    ASSUME NEW N, NEW t, NEW sub, Tree(t, N, sub), NEW g \in sub[t.root], NEW p \in sub[t.root],
           NEW n, NEW s \in Side, NEW e \in Side, t.kid[s][g] = p, t.kid[e][p] = n
    PROVE  sub[n] \subseteq sub[g]
<1>1. Splits(t, sub, p, e) /\ Splits(t, sub, g, s)
  BY DEF Tree
<1>2. QED
  BY <1>1 DEF Splits

\* One rotation, and two.
LEMMA OneRises ==
    ASSUME NEW N, NEW t, NEW sub, Tree(t, N, sub), NEW s \in Side, NEW g \in sub[t.root],
           NEW p \in sub[t.root], NEW u, NEW new, Raises(t, u, N, sub, new, s, g, p),
           NEW d \in sub[g]
    PROVE  Stirs(u, sub[t.root], sub, new, d)
<1>1. sub[t.root] \subseteq N
  BY KidType DEF Tree
<1>2. d \in new[p] /\ u.kid[s][p] = g
  BY DEF Raises
<1>3. \A k \in sub[t.root] : k # g /\ k # p => new[k] = sub[k]
  BY <1>1 DEF Raises
<1>4. QED
  BY <1>2, <1>3 DEF Stirs

LEMMA TwoRise ==
    ASSUME NEW N, NEW t, NEW sub, Tree(t, N, sub), NEW s \in Side, NEW p \in sub[t.root],
           NEW n \in sub[t.root], NEW g \in sub[t.root], g # p, g # n,
           NEW w, NEW wsub, Raises(t, w, N, sub, wsub, s, p, n),
           NEW u, NEW new, Raises(w, u, N, wsub, new, Other(s), g, n), u.kid[s][n] = p,
           NEW d \in sub[g]
    PROVE  Stirs(u, sub[t.root], sub, new, d)
<1>1. sub[t.root] \subseteq N
  BY KidType DEF Tree
<1>2. wsub[g] = sub[g] /\ new[n] = wsub[g] /\ u.kid[Other(s)][n] = g /\ Other(s) \in Side
  BY <1>1, TwoSides DEF Raises
<1>3. \A k \in sub[t.root] : k # p /\ k # n => wsub[k] = sub[k]
  BY <1>1 DEF Raises
<1>4. \A k \in sub[t.root] : k # g /\ k # n => new[k] = wsub[k]
  BY <1>1 DEF Raises
<1>5. QED
  BY <1>2, <1>3, <1>4 DEF Stirs

\* One turn of the loop keeps what Inserting says; when the parent of the next
\* node is red too, that node is higher in the tree.
LEMMA InsertTurns ==
    ASSUME NEW N, NULL \notin N, NEW t, NEW sub, NEW bh, NEW n, Inserting(t, N, sub, bh, n),
           NEW x, x = [tree |-> t, node |-> n]
    PROVE  \E u, m, new, bh2 :
               /\ InsertTurn(x) = [tree |-> u, node |-> m]
               /\ Inserting(u, N, new, bh2, m) /\ new[u.root] = sub[t.root]
               /\ \A S, v : Whole(t, N, S, sub, v) => Whole(u, N, S, new, v)
               /\ Red(u, u.par[m]) => /\ sub[n] \subseteq new[m] /\ m \notin sub[n]
                                      /\ Red(t, t.par[n])
               /\ \A d \in sub[n] : Follows(u, sub[t.root], m, sub, new, d)
<1>p. PICK p : p = t.par[n]
  OBVIOUS
<1>g. PICK g : g = t.par[p]
  OBVIOUS
<1>s. PICK s : s = IF t.kid["L"][g] = p THEN "L" ELSE "R"
  OBVIOUS
<1>o. PICK o : o = t.kid[Other(s)][g]
  OBVIOUS
<1>1. s \in Side /\ Other(s) \in Side /\ Tree(t, N, sub) /\ n \in sub[t.root]
  <2>1. s \in Side
    BY <1>s DEF Side
  <2>2. Tree(t, N, sub) /\ n \in sub[t.root]
    BY DEF Inserting
  <2>3. QED
    BY <2>1, <2>2, TwoSides
<1> DEFINE inner == t.kid[Other(s)][p] = n
           upper == IF inner THEN n ELSE p
           lower == IF inner THEN p ELSE n
           t1    == IF inner THEN Rotate(t, p, s) ELSE t
           v2    == SetRed(SetBlack(t1, {upper}), {g})
<1>2. InsertTurn(x) = CASE ~Red(t, p) -> x
         [] Red(t, p) /\ Red(t, o) -> [tree |-> SetRed(SetBlack(t, {o, p}), {g}), node |-> g]
         [] OTHER -> [tree |-> Rotate(v2, g, Other(s)), node |-> lower]
  BY <1>p, <1>g, <1>s, <1>o DEF InsertTurn
<1>3. CASE ~Red(t, p)
  <2>1. InsertTurn(x) = [tree |-> t, node |-> n]
    BY <1>2, <1>3
  <2>2. \A d \in sub[n] : Follows(t, sub[t.root], n, sub, sub, d)
    BY DEF Follows
  <2>3. QED
    BY <1>3, <1>p, <2>1, <2>2
<1>4. ASSUME Red(t, p)
      PROVE  /\ p \in sub[t.root] \ t.black /\ g \in sub[t.root] \cap t.black
             /\ p # n /\ g # p /\ g # n /\ p # NULL /\ n # NULL
             /\ t.kid[s][g] = p /\ \E d \in Side : t.kid[d][p] = n
  <2>1. Red(t, t.par[n])
    BY <1>4, <1>p
  <2>2. /\ p \in sub[t.root] \ t.black /\ g \in sub[t.root] \cap t.black
        /\ p # n /\ g # p /\ g # n /\ \E d \in Side : t.kid[d][p] = n
        /\ \E e \in Side : t.kid[e][g] = p
    BY <1>p, <1>g, <2>1, RedParent
  <2>3. t.kid[s][g] = p
    BY <1>s, <2>2 DEF Side
  <2>4. p # NULL /\ n # NULL
    BY <1>1, <2>2, KidType DEF Tree
  <2>5. QED
    BY <2>2, <2>3, <2>4
<1>5. CASE Red(t, p) /\ Red(t, o)
  <2>1. PICK u : u = SetRed(SetBlack(t, {o, p}), {g})
    OBVIOUS
  <2>2. InsertTurn(x) = [tree |-> u, node |-> g]
    BY <1>2, <1>5, <2>1
  <2>3. /\ u \in TreeOn(N) /\ u.root = t.root /\ u.kid = t.kid /\ u.par = t.par
        /\ \E bh2 : Inserting(u, N, sub, bh2, g)
    <3>1. Kin(t, s, n, p, g, o)
      BY <1>4, <1>5, <1>p, <1>g, <1>o DEF Kin
    <3>2. QED
      BY <1>1, <1>5, <2>1, <3>1, InsertClimbs
  <2>4. \A S, v : Whole(t, N, S, sub, v) => Whole(u, N, S, sub, v)
    BY <2>3, PaintKeepsWhole
  <2>5. PICK d \in Side : t.kid[d][p] = n
    BY <1>4, <1>5
  <2>6. sub[n] \subseteq sub[p] /\ sub[p] \subseteq sub[g] /\ g \notin sub[p]
    <3>1. Splits(t, sub, p, d) /\ Splits(t, sub, g, s)
      BY <1>1, <1>4, <1>5 DEF Tree
    <3>2. QED
      BY <1>4, <1>5, <2>5, <3>1 DEF Splits
  <2>7. sub[n] \subseteq sub[g] /\ g \notin sub[n]
    BY <2>6
  <2>8. Red(t, t.par[n])
    BY <1>5, <1>p
  <2>9. \A k \in sub[n] : Follows(u, sub[t.root], g, sub, sub, k)
    BY <2>7 DEF Follows
  <2>10. QED
    BY <2>2, <2>3, <2>4, <2>7, <2>8, <2>9
<1>6. CASE Red(t, p) /\ ~Red(t, o) /\ inner
  <2>1. PICK w : w = Rotate(t, p, s)
    OBVIOUS
  <2>2. PICK wsub : wsub = Turned(sub, t, s, p, n)
    OBVIOUS
  <2>3. /\ Inserting(w, N, wsub, bh, p) /\ wsub[w.root] = sub[t.root]
        /\ \A S, v : Whole(t, N, S, sub, v) => Whole(w, N, S, wsub, v)
        /\ w.par[p] = n /\ w.par[n] = g /\ w.kid[s][g] = n /\ w.kid[s][n] = p
        /\ w.kid[Other(s)][g] = o /\ n \notin w.black /\ w.black = t.black
        /\ Raises(t, w, N, sub, wsub, s, p, n)
    <3>1. Kin(t, s, n, p, g, o)
      BY <1>4, <1>6, <1>p, <1>g, <1>o DEF Kin
    <3>2. QED
      BY <1>1, <1>6, <2>1, <2>2, <3>1, InsertStraight
  <2>4. PICK u : u = Rotate(SetRed(SetBlack(w, {n}), {g}), g, Other(s))
    OBVIOUS
  <2>5. InsertTurn(x) = [tree |-> u, node |-> p]
    BY <1>2, <1>6, <2>1, <2>4
  <2>6. Kin(w, s, p, n, g, o) /\ Red(w, n) /\ ~Red(w, o)
    BY <1>4, <1>6, <2>3 DEF Kin, Red
  <2>7. PICK new, bh2 : /\ Inserting(u, N, new, bh2, p) /\ new[u.root] = wsub[w.root]
                        /\ u.par[p] = n /\ n \in u.black
                        /\ \A S, v : Whole(w, N, S, wsub, v) => Whole(u, N, S, new, v)
                        /\ Raises(w, u, N, wsub, new, Other(s), g, n) /\ u.kid[s][n] = p
    BY <1>1, <2>3, <2>4, <2>6, InsertSettles
  <2>8. ~Red(u, u.par[p])
    BY <2>7 DEF Red
  <2>9. ASSUME NEW d \in sub[n] PROVE Follows(u, sub[t.root], p, sub, new, d)
    <3>1. d \in sub[g]
      <4>1. p \in sub[t.root] /\ g \in sub[t.root] /\ t.kid[s][g] = p
        BY <1>4, <1>6
      <4>e. PICK e \in Side : t.kid[e][p] = n
        BY <1>4, <1>6
      <4>2. Tree(t, N, sub) /\ s \in Side
        BY <1>1
      <4>3. sub[n] \subseteq sub[g]
        BY <4>1, <4>2, <4>e, RisesAbove
      <4>4. QED
        BY <4>3
    <3>2. Stirs(u, sub[t.root], sub, new, d)
      BY <1>1, <1>4, <1>6, <2>3, <2>7, <3>1, TwoRise
    <3>3. QED
      BY <2>8, <3>2 DEF Follows
  <2>10. QED
    BY <2>3, <2>5, <2>7, <2>8, <2>9
<1>7. CASE Red(t, p) /\ ~Red(t, o) /\ ~inner
  <2>1. t.kid[s][p] = n
    BY <1>1, <1>4, <1>7, TwoSides
  <2>2. PICK u : u = Rotate(SetRed(SetBlack(t, {p}), {g}), g, Other(s))
    OBVIOUS
  <2>3. InsertTurn(x) = [tree |-> u, node |-> n]
    BY <1>2, <1>7, <2>2
  <2>4. Kin(t, s, n, p, g, o)
    BY <1>4, <1>7, <1>p, <1>g, <1>o, <2>1 DEF Kin
  <2>5. PICK new, bh2 : /\ Inserting(u, N, new, bh2, n) /\ new[u.root] = sub[t.root]
                        /\ u.par[n] = p /\ p \in u.black
                        /\ \A S, v : Whole(t, N, S, sub, v) => Whole(u, N, S, new, v)
                        /\ Raises(t, u, N, sub, new, Other(s), g, p)
    BY <1>1, <1>7, <2>1, <2>2, <2>4, InsertSettles
  <2>6. ~Red(u, u.par[n])
    BY <2>5 DEF Red
  <2>7. ASSUME NEW d \in sub[n] PROVE Follows(u, sub[t.root], n, sub, new, d)
    <3>1. d \in sub[g]
      <4>1. p \in sub[t.root] /\ g \in sub[t.root] /\ t.kid[s][g] = p
        BY <1>4, <1>7
      <4>e. PICK e \in Side : t.kid[e][p] = n
        BY <1>4, <1>7
      <4>2. Tree(t, N, sub) /\ s \in Side
        BY <1>1
      <4>3. sub[n] \subseteq sub[g]
        BY <4>1, <4>2, <4>e, RisesAbove
      <4>4. QED
        BY <4>3
    <3>2. Stirs(u, sub[t.root], sub, new, d)
      BY <1>1, <1>4, <1>7, <2>5, <3>1, OneRises
    <3>3. QED
      BY <2>6, <3>2 DEF Follows
  <2>8. QED
    BY <2>3, <2>5, <2>6, <2>7
<1>8. QED
  BY <1>3, <1>5, <1>6, <1>7

-----------------------------------------------------------------------------
(* Loops: what a function does when it is applied again and again            *)

Iterates(f, Q, F, x) == f \in [Nat -> Q] /\ f[0] = x /\ \A i \in Nat : f[i + 1] = F[f[i]]

LEMMA Iteration ==
    ASSUME NEW Q, NEW F \in [Q -> Q], NEW x \in Q
    PROVE  \E f : Iterates(f, Q, F, x)
<1> DEFINE Start(f, n) == f \in [0 .. n -> Q] /\ f[0] = x /\ \A i \in 0 .. n - 1 : f[i + 1] = F[f[i]]
<1> HIDE DEF Start
<1>1. ASSUME NEW n \in Nat PROVE \E f : Start(f, n)
  <2> DEFINE Bad == {i \in Nat : ~ \E f : Start(f, i)}
  <2>1. SUFFICES ASSUME Bad # {} PROVE FALSE
    OBVIOUS
  <2>2. PICK i \in Bad : \A j \in Bad : i <= j
    BY <2>1, Least
  <2>3. i # 0
    <3>1. Start([j \in 0 .. 0 |-> x], 0)
      BY DEF Start
    <3>2. QED
      BY <2>2, <3>1
  <2>4. i - 1 \in Nat /\ i - 1 \notin Bad /\ i \in Nat
    BY <2>2, <2>3
  <2>5. PICK f : Start(f, i - 1)
    BY <2>4
  <2> DEFINE h == [j \in 0 .. i |-> IF j = i THEN F[f[i - 1]] ELSE f[j]]
  <2>6. h \in [0 .. i -> Q] /\ h[0] = x
    BY <2>3, <2>4, <2>5 DEF Start
  <2>7. \A j \in 0 .. i - 1 : h[j + 1] = F[h[j]]
    BY <2>4, <2>5 DEF Start
  <2> HIDE DEF h
  <2>8. Start(h, i)
    BY <2>6, <2>7 DEF Start
  <2>9. QED
    BY <2>2, <2>8
<1>2. ASSUME NEW n \in Nat, NEW m \in Nat, NEW f, NEW h, Start(f, n), Start(h, m)
      PROVE  \A i \in Nat : i <= n /\ i <= m => f[i] = h[i]
  <2> DEFINE Bad == {i \in Nat : i <= n /\ i <= m /\ f[i] # h[i]}
  <2>1. SUFFICES ASSUME Bad # {} PROVE FALSE
    OBVIOUS
  <2>2. PICK i \in Bad : \A j \in Bad : i <= j
    BY <2>1, Least
  <2>3. i # 0
    BY <1>2, <2>2 DEF Start
  <2>4. i - 1 \in Nat /\ i - 1 \notin Bad /\ i \in Nat
    BY <2>2, <2>3
  <2>5. f[i - 1] = h[i - 1]
    BY <2>2, <2>4
  <2>6. f[(i - 1) + 1] = F[f[i - 1]] /\ h[(i - 1) + 1] = F[h[i - 1]]
    BY <1>2, <2>2, <2>4 DEF Start
  <2>7. QED
    BY <2>2, <2>4, <2>5, <2>6
<1> DEFINE at(n) == CHOOSE f : Start(f, n)
           loop == [i \in Nat |-> at(i)[i]]
<1>3. \A n \in Nat : Start(at(n), n)
  BY <1>1
<1> HIDE DEF at
<1>4. loop \in [Nat -> Q]
  BY <1>3 DEF Start
<1>5. loop[0] = x
  BY <1>3 DEF Start
<1>6. ASSUME NEW i \in Nat PROVE loop[i + 1] = F[loop[i]]
  <2>1. at(i + 1)[i] = at(i)[i]
    <3>1. Start(at(i + 1), i + 1) /\ Start(at(i), i) /\ i + 1 \in Nat /\ i <= i + 1 /\ i <= i
      BY <1>3
    <3>2. QED
      BY <1>2, <3>1
  <2>2. at(i + 1)[i + 1] = F[at(i + 1)[i]]
    BY <1>3 DEF Start
  <2>3. QED
    BY <2>1, <2>2
<1>7. QED
  BY <1>4, <1>5, <1>6 DEF Iterates


-----------------------------------------------------------------------------
(* Red-black trees                                                           *)

\* the tree of the nodes X: ordered by v, no red node with a red child, a black
\* root, as many black nodes on every path down; the nodes of S are in no tree
RbShape(t, sub, bh) ==
    /\ \A m \in sub[t.root] \ t.black, s \in Side : ~Red(t, t.kid[s][m])
    /\ ~Red(t, t.root)

Good(t, N, S, X, v) ==
    \E sub, bh : /\ Whole(t, N, S, sub, v) /\ sub[t.root] = X
                 /\ Level(t, N, X, bh) /\ RbShape(t, sub, bh)

\* the same, with the sets of nodes below each node
GoodAs(t, N, S, X, v, sub) ==
    /\ Whole(t, N, S, sub, v) /\ sub[t.root] = X
    /\ \E bh : Level(t, N, X, bh) /\ RbShape(t, sub, bh)

LEMMA GoodAsGood ==
    ASSUME NEW t, NEW N, NEW S, NEW X, NEW v, NEW sub, GoodAs(t, N, S, X, v, sub)
    PROVE  Good(t, N, S, X, v)
  BY DEF GoodAs, Good

\* The last step of rb_insert_color: the root gets black.
LEMMA RootBlackens ==
    ASSUME NEW N, NULL \notin N, NEW t, NEW sub, NEW bh, NEW n, Inserting(t, N, sub, bh, n),
           ~Red(t, t.par[n]), NEW S, NEW v, Whole(t, N, S, sub, v)
    PROVE  /\ GoodAs(SetBlack(t, {t.root}), N, S, sub[t.root], v, sub)
           /\ SetBlack(t, {t.root}).kid = t.kid
<1>X. PICK X : X = sub[t.root]
  OBVIOUS
<1>r. PICK r : r = t.root
  OBVIOUS
<1>1. /\ t \in TreeOn(N) /\ X \subseteq N /\ Tree(t, N, sub) /\ n \in X \ t.black /\ n \in N
      /\ Level(t, N, X, bh)
      /\ \A m \in X \ t.black, s \in Side : Red(t, t.kid[s][m]) => t.kid[s][m] = n
      /\ r \notin t.black => r = n
  BY <1>X, <1>r, KidType DEF Inserting, Tree
<1>2. r \in X /\ r \in N /\ t.par[r] = NULL
  BY <1>1, <1>X, <1>r, KidType DEF Tree
<1>u. PICK u : u = SetBlack(t, {r})
  OBVIOUS
<1>3. /\ u \in TreeOn(N) /\ u.root = t.root /\ u.kid = t.kid /\ u.par = t.par
      /\ u.black = t.black \cup {r}
  BY <1>1, <1>2, <1>u DEF SetBlack, TreeOn
<1>4. Whole(u, N, S, sub, v)
  BY <1>3, PaintKeepsWhole
<1>5. \A m \in X, d \in Side : /\ t.kid[d][m] \in N \cup {NULL}
                               /\ t.kid[d][m] # NULL => t.par[t.kid[d][m]] = m
  BY <1>1, <1>X, KidType DEF Tree, Agrees
<1>6. \A m \in X, d \in Side : t.kid[d][m] # r
  <2> TAKE m \in X, d \in Side
  <2>1. m # NULL /\ r # NULL
    BY <1>1, <1>2
  <2>2. QED
    BY <1>2, <1>5, <2>1
<1>7. \A m \in X \ u.black, d \in Side : ~Red(u, t.kid[d][m])
  <2> SUFFICES ASSUME NEW m \in X \ u.black, NEW d \in Side, Red(u, t.kid[d][m]) PROVE FALSE
    OBVIOUS
  <2>1. m \in X \ t.black /\ Red(t, t.kid[d][m])
    BY <1>3 DEF Red
  <2>2. t.kid[d][m] = n
    BY <1>1, <2>1
  <2>3. t.par[n] = m /\ m # NULL
    BY <1>1, <1>5, <2>1, <2>2
  <2>4. QED
    BY <2>1, <2>3 DEF Red
<1>8. \E b : Level(u, N, X, b)
  <2>1. CASE r \in t.black
    <3>1. u.black = t.black
      BY <1>3, <2>1
    <3>2. \A m : One(u, m) = One(t, m)
      BY <3>1 DEF One
    <3>3. Level(u, N, X, bh)
      BY <1>1, <1>3, <3>2 DEF Level
    <3>4. QED
      BY <3>3
  <2>2. CASE r \notin t.black
    <3> DEFINE b == [m \in N \cup {NULL} |-> IF m = r THEN bh[m] + 1 ELSE bh[m]]
    <3>1. /\ bh \in [N \cup {NULL} -> Nat] /\ bh[NULL] = 0
          /\ \A m \in X, d \in Side : bh[m] = One(t, m) + bh[t.kid[d][m]]
      BY <1>1 DEF Level
    <3>2. /\ b \in [N \cup {NULL} -> Nat] /\ b[NULL] = 0 /\ b[r] = bh[r] + 1
          /\ \A m \in N \cup {NULL} : m # r => b[m] = bh[m]
      <4>1. \A m \in N \cup {NULL} : bh[m] \in Nat /\ bh[m] + 1 \in Nat
        BY <3>1
      <4>2. b \in [N \cup {NULL} -> Nat]
        BY <4>1
      <4>3. \A m \in N \cup {NULL} : b[m] = IF m = r THEN bh[m] + 1 ELSE bh[m]
        OBVIOUS
      <4>4. QED
        BY <1>2, <3>1, <4>2, <4>3, Zenon
    <3> HIDE DEF b
    <3>3. One(u, r) = 1 /\ One(t, r) = 0 /\ \A m : m # r => One(u, m) = One(t, m)
      BY <1>3, <2>2 DEF One
    <3>4. ASSUME NEW m \in X, NEW d \in Side PROVE b[m] = One(u, m) + b[t.kid[d][m]]
      <4>1. PICK k \in N \cup {NULL} : k = t.kid[d][m]
        BY <1>5
      <4>2. b[k] = bh[k] /\ bh[m] = One(t, m) + bh[k] /\ bh[k] \in Nat
        BY <1>6, <3>1, <3>2, <4>1
      <4>3. CASE m = r
        <5>0. bh[r] \in Nat
          BY <1>2, <3>1
        <5>1. bh[r] = 0 + bh[k] /\ b[r] = bh[r] + 1 /\ One(u, r) = 1
          BY <3>2, <3>3, <4>2, <4>3
        <5>2. b[r] = 1 + b[k]
          BY <4>2, <5>0, <5>1
        <5>3. QED
          BY <3>3, <4>1, <4>3, <5>2
      <4>4. CASE m # r
        <5>1. b[m] = bh[m] /\ One(u, m) = One(t, m)
          BY <1>1, <3>2, <3>3, <4>4
        <5>2. QED
          BY <4>1, <4>2, <5>1
      <4>5. QED
        BY <4>3, <4>4
    <3>5. Level(u, N, X, b)
      BY <1>3, <3>2, <3>4 DEF Level
    <3>6. QED
      BY <3>5
  <2>3. QED
    BY <2>1, <2>2
<1>9. PICK b : Level(u, N, X, b)
  BY <1>8
<1>10. RbShape(u, sub, b)
  <2>1. ~Red(u, u.root)
    BY <1>3, <1>r DEF Red
  <2>2. QED
    BY <1>3, <1>7, <1>X, <2>1 DEF RbShape
<1>11. u = SetBlack(t, {t.root}) /\ sub[u.root] = X /\ u.kid = t.kid
  BY <1>u, <1>r, <1>X, <1>3
<1>12. QED
  BY <1>4, <1>9, <1>10, <1>11, <1>X DEF GoodAs

\* x is a moment of the loop of rb_insert_color that has i turns behind it
InsertionAt(x, N, S, X, v, i, old, d) ==
    \E t, n, sub, bh : /\ x = [tree |-> t, node |-> n]
                       /\ Inserting(t, N, sub, bh, n) /\ sub[t.root] = X
                       /\ Whole(t, N, S, sub, v)
                       /\ Red(t, t.par[n]) => Cardinality(sub[n]) > i
                       /\ Follows(t, X, n, old, sub, d)

LEMMA InsertionAtNext ==
    ASSUME NEW N, NULL \notin N, IsFiniteSet(N), NEW S, NEW X, NEW v, NEW i \in Nat,
           NEW old, NEW d, NEW x, InsertionAt(x, N, S, X, v, i, old, d)
    PROVE  InsertionAt(InsertTurn(x), N, S, X, v, i + 1, old, d)
<1>1. PICK t, n, sub, bh : /\ x = [tree |-> t, node |-> n]
                           /\ Inserting(t, N, sub, bh, n) /\ sub[t.root] = X
                           /\ Whole(t, N, S, sub, v)
                           /\ Red(t, t.par[n]) => Cardinality(sub[n]) > i
                           /\ Follows(t, X, n, old, sub, d)
  BY DEF InsertionAt
<1>s. CASE ~Red(t, t.par[n])
  <2>1. InsertTurn(x) = x
    <3>1. x.tree = t /\ x.node = n
      BY <1>1
    <3>2. ~Red(x.tree, x.tree.par[x.node])
      BY <1>s, <3>1
    <3>3. QED
      BY <3>2, Zenon DEF InsertTurn
  <2>2. QED
    BY <1>1, <1>s, <2>1 DEF InsertionAt
<1>r. CASE Red(t, t.par[n])
  <2>1. sub = old /\ d \in sub[n]
    BY <1>1, <1>r DEF Follows
  <2>2. PICK u, m, new, bh2 :
            /\ InsertTurn(x) = [tree |-> u, node |-> m]
            /\ Inserting(u, N, new, bh2, m) /\ new[u.root] = sub[t.root]
            /\ Whole(u, N, S, new, v)
            /\ Red(u, u.par[m]) => /\ sub[n] \subseteq new[m] /\ m \notin sub[n]
                                   /\ Red(t, t.par[n])
            /\ \A k \in sub[n] : Follows(u, sub[t.root], m, sub, new, k)
    BY <1>1, InsertTurns
  <2>3. Red(u, u.par[m]) => Cardinality(new[m]) > i + 1
    <3> SUFFICES ASSUME Red(u, u.par[m]) PROVE Cardinality(new[m]) > i + 1
      OBVIOUS
    <3>1. m \in new[m] /\ new[m] \subseteq N
      BY <2>2, TwoSides, KidType DEF Inserting, Tree, Splits
    <3>2. IsFiniteSet(new[m])
      BY <3>1, FS_Subset
    <3>3. sub[n] \subseteq new[m] /\ sub[n] # new[m]
      BY <2>2, <3>1
    <3>4. Cardinality(sub[n]) < Cardinality(new[m]) /\ Cardinality(sub[n]) \in Nat
          /\ Cardinality(new[m]) \in Nat
      BY <3>2, <3>3, FS_Subset, FS_CardinalityType
    <3>5. Cardinality(sub[n]) > i
      BY <1>1, <1>r
    <3>6. QED
      BY <3>4, <3>5
  <2>4. Follows(u, X, m, old, new, d)
    BY <1>1, <2>1, <2>2
  <2>5. QED
    BY <1>1, <2>2, <2>3, <2>4 DEF InsertionAt
<1>2. QED
  BY <1>s, <1>r



\* rb_insert_color gives back a red-black tree of the same nodes.
LEMMA InsertColors ==
    ASSUME NEW N, NULL \notin N, IsFiniteSet(N), NEW t, NEW sub, NEW bh, NEW n,
           Inserting(t, N, sub, bh, n), NEW S, NEW v, Whole(t, N, S, sub, v),
           NEW d \in sub[n]
    PROVE  \E new : /\ GoodAs(InsertColor(t, n), N, S, sub[t.root], v, new)
                    /\ Stirs(InsertColor(t, n), sub[t.root], sub, new, d)
<1>X. PICK X : X = sub[t.root]
  OBVIOUS
<1>x. PICK x : x = [tree |-> t, node |-> n]
  OBVIOUS
<1> DEFINE loop[i \in Nat] == IF i = 0 THEN x ELSE InsertTurn(loop[i - 1])
           end == loop[Cardinality(DOMAIN t.par)].tree
<1>1. InsertColor(t, n) = SetBlack(end, {end.root})
  BY <1>x DEF InsertColor
<1> DEFINE Q == {y \in [tree : TreeOn(N), node : N] : \E i \in Nat : InsertionAt(y, N, S, X, v, i, sub, d)}
           F == [y \in Q |-> InsertTurn(y)]
<1>2. ASSUME NEW y, NEW i \in Nat, InsertionAt(y, N, S, X, v, i, sub, d) PROVE y \in Q
  <2>1. PICK u, m, new, bh2 : y = [tree |-> u, node |-> m] /\ Inserting(u, N, new, bh2, m)
    BY <1>2 DEF InsertionAt
  <2>2. u \in TreeOn(N) /\ m \in N
    BY <2>1, KidType DEF Inserting, Tree
  <2>3. QED
    BY <1>2, <2>1, <2>2
<1>3. InsertionAt(x, N, S, X, v, 0, sub, d)
  <2>1. n \in sub[n] /\ sub[n] \subseteq N
    BY TwoSides, KidType DEF Inserting, Tree, Splits
  <2>2. Cardinality(sub[n]) > 0
    BY <2>1, FS_Subset, FS_CardinalityType, FS_EmptySet
  <2>3. Follows(t, X, n, sub, sub, d)
    BY DEF Follows
  <2>4. QED
    BY <1>X, <1>x, <2>2, <2>3 DEF InsertionAt
<1>4. x \in Q
  BY <1>2, <1>3
<1>5. F \in [Q -> Q]
  <2>1. ASSUME NEW y \in Q PROVE InsertTurn(y) \in Q
    <3>1. PICK i \in Nat : InsertionAt(y, N, S, X, v, i, sub, d)
      OBVIOUS
    <3>2. InsertionAt(InsertTurn(y), N, S, X, v, i + 1, sub, d) /\ i + 1 \in Nat
      BY <3>1, InsertionAtNext
    <3>3. QED
      BY <1>2, <3>2
  <2>2. QED
    BY <2>1
<1>f. \A y \in Q : F[y] = InsertTurn(y)
  OBVIOUS
<1> HIDE DEF Q, F
<1>6. \E f : f = [i \in Nat |-> IF i = 0 THEN x ELSE InsertTurn(f[i - 1])]
  <2>0. PICK f : Iterates(f, Q, F, x)
    BY <1>4, <1>5, Iteration
  <2>1. f \in [Nat -> Q] /\ f[0] = x /\ \A i \in Nat : f[i + 1] = F[f[i]]
    BY <2>0 DEF Iterates
  <2>2. ASSUME NEW i \in Nat PROVE f[i] = IF i = 0 THEN x ELSE InsertTurn(f[i - 1])
    <3>1. CASE i = 0
      BY <2>1, <3>1
    <3>2. CASE i # 0
      <4>1. i - 1 \in Nat /\ (i - 1) + 1 = i
        BY <3>2
      <4>2. f[i] = F[f[i - 1]] /\ f[i - 1] \in Q
        BY <2>1, <4>1
      <4>3. QED
        BY <1>f, <3>2, <4>2
    <3>3. QED
      BY <3>1, <3>2
  <2>3. f = [i \in Nat |-> IF i = 0 THEN x ELSE InsertTurn(f[i - 1])]
    BY <2>1, <2>2
  <2>4. QED
    BY <2>3
<1>7. loop = [i \in Nat |-> IF i = 0 THEN x ELSE InsertTurn(loop[i - 1])]
  BY <1>6
<1> HIDE DEF loop
<1>8. ASSUME NEW k \in Nat PROVE InsertionAt(loop[k], N, S, X, v, k, sub, d)
  <2> DEFINE Bad == {i \in Nat : ~ InsertionAt(loop[i], N, S, X, v, i, sub, d)}
  <2>1. SUFFICES ASSUME Bad # {} PROVE FALSE
    OBVIOUS
  <2>2. PICK i \in Bad : \A j \in Bad : i <= j
    BY <2>1, Least
  <2>3. i # 0
    BY <1>3, <1>7, <2>2
  <2>4. i - 1 \in Nat /\ i \in Nat /\ i - 1 < i
    BY <2>2, <2>3
  <2>5. InsertionAt(loop[i - 1], N, S, X, v, i - 1, sub, d)
    <3>1. i - 1 \notin Bad
      <4> HIDE DEF Bad
      <4>1. QED
        BY <2>2, <2>4
    <3>2. QED
      BY <2>4, <3>1
  <2>6. InsertionAt(InsertTurn(loop[i - 1]), N, S, X, v, (i - 1) + 1, sub, d) /\ (i - 1) + 1 = i
    BY <2>4, <2>5, InsertionAtNext
  <2>7. loop[i] = InsertTurn(loop[i - 1])
    BY <1>7, <2>3, <2>4
  <2>8. QED
    BY <2>2, <2>6, <2>7
<1>9. PICK k \in Nat : k = Cardinality(DOMAIN t.par) /\ k = Cardinality(N)
  <2>1. DOMAIN t.par = N
    BY KidType DEF Inserting, Tree
  <2>2. QED
    BY <2>1, FS_CardinalityType
<1>10. PICK u, m, new, bh2 : /\ loop[k] = [tree |-> u, node |-> m]
                             /\ Inserting(u, N, new, bh2, m) /\ new[u.root] = X
                             /\ Whole(u, N, S, new, v)
                             /\ Red(u, u.par[m]) => Cardinality(new[m]) > k
                             /\ Follows(u, X, m, sub, new, d)
  BY <1>8 DEF InsertionAt
<1>11. ~Red(u, u.par[m])
  <2>1. m \in N /\ new[m] \subseteq N
    BY <1>10, KidType DEF Inserting, Tree
  <2>2. Cardinality(new[m]) <= Cardinality(N) /\ Cardinality(new[m]) \in Nat
    BY <2>1, FS_Subset, FS_CardinalityType
  <2>3. QED
    BY <1>9, <1>10, <2>2
<1>w. PICK w : w = SetBlack(u, {u.root})
  OBVIOUS
<1>12. GoodAs(w, N, S, X, v, new) /\ w.kid = u.kid
  BY <1>10, <1>11, <1>w, RootBlackens
<1>13. Stirs(w, X, sub, new, d)
  <2>1. CASE new = sub /\ d \in sub[m]
    <3>1. m \in X
      BY <1>10 DEF Inserting
    <3>2. QED
      BY <2>1, <3>1 DEF Stirs
  <2>2. CASE Stirs(u, X, sub, new, d)
    BY <1>12, <2>2 DEF Stirs
  <2>3. QED
    BY <1>10, <2>1, <2>2 DEF Follows
<1>14. end = u
  BY <1>9, <1>10
<1>15. InsertColor(t, n) = w
  BY <1>1, <1>14, <1>w
<1>16. QED
  BY <1>12, <1>13, <1>15, <1>X

-----------------------------------------------------------------------------
(* rb_link_node                                                              *)

\* what rb_link_node has done when rb_insert_color starts
Hooked(t, n, p, s) ==
    LET t1 == SetRed(SetParent(SetKid(SetKid(t, n, "L", NULL), n, "R", NULL), n, p), {n})
    IN IF p = NULL THEN [t1 EXCEPT !.root = n] ELSE SetKid(t1, p, s, n)

IsHooked(u, t, N, n, p, s) ==
    /\ u \in TreeOn(N) /\ u.root = IF p = NULL THEN n ELSE t.root
    /\ u.black = t.black \ {n} /\ u.par[n] = p /\ \A d \in Side : u.kid[d][n] = NULL
    /\ \A m \in N \ {n} : u.par[m] = t.par[m]
    /\ \A m \in N \ {n}, d \in Side :
           u.kid[d][m] = IF m = p /\ d = s THEN n ELSE t.kid[d][m]

LEMMA HookedLinks ==
    ASSUME NEW N, NULL \notin N, NEW t \in TreeOn(N), NEW n \in N, NEW p \in N \cup {NULL}, p # n,
           NEW s \in Side
    PROVE  IsHooked(Hooked(t, n, p, s), t, N, n, p, s)
<1> DEFINE t1 == SetKid(t, n, "L", NULL)
<1>1. /\ t1 \in TreeOn(N) /\ t1.root = t.root /\ t1.par = t.par /\ t1.black = t.black
      /\ \A d \in Side, m \in N : t1.kid[d][m] = IF d = "L" /\ m = n THEN NULL ELSE t.kid[d][m]
  BY DEF SetKid, TreeOn, Side
<1> HIDE DEF t1
<1> DEFINE t2 == SetKid(t1, n, "R", NULL)
<1>2. /\ t2 \in TreeOn(N) /\ t2.root = t.root /\ t2.par = t.par /\ t2.black = t.black
      /\ \A d \in Side, m \in N : t2.kid[d][m] = IF d = "R" /\ m = n THEN NULL ELSE t1.kid[d][m]
  BY <1>1 DEF SetKid, TreeOn, Side
<1> HIDE DEF t2
<1> DEFINE t3 == SetParent(t2, n, p)
<1>3. /\ t3 \in TreeOn(N) /\ t3.root = t.root /\ t3.kid = t2.kid /\ t3.black = t.black
      /\ \A m \in N : t3.par[m] = IF m = n THEN p ELSE t.par[m]
  BY <1>2 DEF SetParent, TreeOn
<1> HIDE DEF t3
<1> DEFINE t4 == SetRed(t3, {n})
<1>4. /\ t4 \in TreeOn(N) /\ t4.root = t.root /\ t4.kid = t3.kid /\ t4.par = t3.par
      /\ t4.black = t.black \ {n}
  BY <1>3 DEF SetRed, TreeOn
<1> HIDE DEF t4
<1>5. Hooked(t, n, p, s) = IF p = NULL THEN [t4 EXCEPT !.root = n] ELSE SetKid(t4, p, s, n)
  BY DEF Hooked, t4, t3, t2, t1
<1>6. PICK u : u = Hooked(t, n, p, s)
  OBVIOUS
<1>7. /\ u \in TreeOn(N) /\ u.root = IF p = NULL THEN n ELSE t.root
      /\ u.par = t4.par /\ u.black = t4.black
      /\ \A d \in Side, m \in N : u.kid[d][m] = IF m = p /\ d = s THEN n ELSE t4.kid[d][m]
  <2>1. CASE p = NULL
    <3>1. u = [t4 EXCEPT !.root = n]
      BY <1>5, <1>6, <2>1
    <3>2. u \in TreeOn(N) /\ u.root = n /\ u.par = t4.par /\ u.black = t4.black /\ u.kid = t4.kid
      BY <1>4, <3>1 DEF TreeOn
    <3>3. QED
      BY <2>1, <3>2
  <2>2. CASE p # NULL
    <3>1. u = SetKid(t4, p, s, n) /\ p \in N
      BY <1>5, <1>6, <2>2
    <3>2. /\ u \in TreeOn(N) /\ u.root = t4.root /\ u.par = t4.par /\ u.black = t4.black
          /\ \A d \in Side, m \in N : u.kid[d][m] = IF m = p /\ d = s THEN n ELSE t4.kid[d][m]
      BY <1>4, <3>1 DEF TreeOn, SetKid
    <3>3. QED
      BY <1>4, <2>2, <3>2
  <2>3. QED
    BY <2>1, <2>2
<1>8. \A d \in Side : u.kid[d][n] = NULL
  BY <1>1, <1>2, <1>3, <1>4, <1>7 DEF Side
<1>9. \A m \in N \ {n}, d \in Side : u.kid[d][m] = IF m = p /\ d = s THEN n ELSE t.kid[d][m]
  BY <1>1, <1>2, <1>3, <1>4, <1>7
<1>10. u.par[n] = p /\ \A m \in N \ {n} : u.par[m] = t.par[m]
  BY <1>3, <1>4, <1>7
<1>11. QED
  BY <1>4, <1>6, <1>7, <1>8, <1>9, <1>10 DEF IsHooked

\* side s of p is where n has to go
Fits(t, sub, v, n, p, s) ==
    /\ v[n] \in Nat
    /\ p = NULL => t.root = NULL
    /\ p # NULL => /\ p \in sub[t.root] /\ t.kid[s][p] = NULL /\ Beside(s, v[n], v[p])
                   /\ \A m \in sub[t.root], d \in Side :
                          p \in sub[t.kid[d][m]] => Beside(d, v[n], v[m])

\* n is a leaf below p
Grown(N, sub, n, p) == [m \in N \cup {NULL} |->
    IF m = n THEN {n} ELSE IF p \in sub[m] THEN sub[m] \cup {n} ELSE sub[m]]

LEMMA HookedTree ==
    ASSUME NEW N, NULL \notin N, NEW t, NEW S, NEW sub, NEW v, Whole(t, N, S, sub, v),
           NEW n \in S, NEW s \in Side, NEW p, Fits(t, sub, v, n, p, s)
    PROVE  LET u == Hooked(t, n, p, s)
               new == Grown(N, sub, n, p)
           IN Whole(u, N, S \ {n}, new, v) /\ new[u.root] = sub[t.root] \cup {n}
<1>X. PICK X : X = sub[t.root]
  OBVIOUS
<1>Y. PICK Y : Y = X \cup {n}
  OBVIOUS
<1>1. /\ t \in TreeOn(N) /\ sub \in [N \cup {NULL} -> SUBSET N] /\ sub[NULL] = {}
      /\ X \subseteq N /\ Tree(t, N, sub) /\ t.root \in N \cup {NULL}
  BY <1>X, KidType DEF Tree, Whole
<1>2. n \in N /\ n \notin X /\ n # NULL
  BY <1>X DEF Whole
<1>3. /\ \A m \in X : /\ m # t.root => t.par[m] \in X /\ \E d \in Side : t.kid[d][t.par[m]] = m
                      /\ m \in sub[m] /\ sub[m] \subseteq X
      /\ \A m \in X, d \in Side : t.kid[d][m] # NULL => t.kid[d][m] \in X /\ t.par[t.kid[d][m]] = m
      /\ t.root # NULL => t.root \in X /\ t.par[t.root] = NULL
  BY <1>X, TwoSides DEF Whole, Tree, Agrees, Splits
<1>4. /\ p \in X \cup {NULL} /\ p # n /\ p \in N \cup {NULL}
      /\ p = NULL => t.root = NULL /\ X = {}
      /\ p # NULL => t.root # NULL /\ p \in X /\ t.kid[s][p] = NULL /\ t.root \in X
  <2>1. CASE p = NULL
    <3>1. t.root = NULL
      BY <2>1 DEF Fits
    <3>2. QED
      BY <1>1, <1>2, <1>X, <2>1, <3>1
  <2>2. CASE p # NULL
    <3>1. p \in X /\ t.kid[s][p] = NULL
      BY <1>X, <2>2 DEF Fits
    <3>2. t.root # NULL
      BY <1>1, <1>X, <3>1
    <3>3. QED
      BY <1>1, <1>2, <1>3, <2>2, <3>1, <3>2
  <2>3. QED
    BY <2>1, <2>2
<1>u. PICK u \in TreeOn(N) :
          /\ u = Hooked(t, n, p, s) /\ u.root = IF p = NULL THEN n ELSE t.root
          /\ u.par[n] = p /\ \A d \in Side : u.kid[d][n] = NULL
          /\ \A m \in N \ {n} : u.par[m] = t.par[m]
          /\ \A m \in N \ {n}, d \in Side :
                 u.kid[d][m] = IF m = p /\ d = s THEN n ELSE t.kid[d][m]
  <2>1. PICK u : u = Hooked(t, n, p, s)
    OBVIOUS
  <2>2. t \in TreeOn(N) /\ n \in N /\ p \in N \cup {NULL} /\ p # n
    BY <1>1, <1>2, <1>4
  <2>3. IsHooked(u, t, N, n, p, s)
    BY <2>1, <2>2, HookedLinks
  <2>4. QED
    BY <2>1, <2>3 DEF IsHooked
<1>w. PICK new : new = Grown(N, sub, n, p)
  OBVIOUS
<1>5. /\ new \in [N \cup {NULL} -> SUBSET N] /\ new[NULL] = {} /\ new[n] = {n}
      /\ \A m \in N \cup {NULL} : m # n => new[m] = IF p \in sub[m] THEN sub[m] \cup {n} ELSE sub[m]
  BY <1>1, <1>2, <1>w, Zenon DEF Grown
<1>6. new[u.root] = Y
  <2>1. CASE p = NULL
    BY <1>4, <1>5, <1>u, <1>Y, <2>1
  <2>2. CASE p # NULL
    BY <1>1, <1>2, <1>4, <1>5, <1>u, <1>X, <1>Y, <2>2, ZenonT(30)
  <2>3. QED
    BY <2>1, <2>2
<1>7. u.root # NULL => u.root \in Y /\ u.par[u.root] = NULL
  <2>1. CASE p = NULL
    BY <1>u, <1>Y, <2>1
  <2>2. CASE p # NULL
    BY <1>1, <1>2, <1>3, <1>4, <1>u, <1>Y, <2>2
  <2>3. QED
    BY <2>1, <2>2
<1>8. ASSUME NEW m \in Y PROVE Agrees(u, Y, m)
  <2>1. CASE m = n
    <3>1. n # u.root => p \in Y /\ u.kid[s][p] = n
      BY <1>1, <1>2, <1>4, <1>u, <1>Y
    <3>2. QED
      BY <1>u, <2>1, <3>1 DEF Agrees
  <2>2. CASE m # n
    <3>1. m \in X /\ m \in N \ {n}
      BY <1>1, <1>Y, <2>2
    <3>2. ASSUME NEW d \in Side, u.kid[d][m] # NULL
          PROVE  u.kid[d][m] \in Y /\ u.par[u.kid[d][m]] = m
      <4>1. CASE m = p /\ d = s
        BY <1>u, <1>Y, <3>1, <4>1
      <4>2. CASE ~(m = p /\ d = s)
        <5>1. u.kid[d][m] = t.kid[d][m]
          BY <1>u, <3>1, <4>2
        <5>2. t.kid[d][m] \in X /\ t.par[t.kid[d][m]] = m
          BY <1>3, <3>1, <3>2, <5>1
        <5>3. t.kid[d][m] \in N \ {n}
          BY <1>1, <1>2, <5>2
        <5>4. QED
          BY <1>u, <1>Y, <5>1, <5>2, <5>3
      <4>3. QED
        BY <4>1, <4>2
    <3>3. ASSUME m # u.root PROVE u.par[m] \in Y /\ \E d \in Side : u.kid[d][u.par[m]] = m
      <4>1. p # NULL /\ m # t.root
        BY <1>4, <1>u, <3>1, <3>3
      <4>2. PICK d \in Side : t.par[m] \in X /\ t.kid[d][t.par[m]] = m
        BY <1>3, <3>1, <4>1
      <4>3. u.par[m] = t.par[m] /\ t.par[m] \in N \ {n}
        BY <1>1, <1>2, <1>u, <3>1, <4>2
      <4>4. m # NULL
        BY <3>1
      <4>5. ~(t.par[m] = p /\ d = s)
        BY <1>4, <4>1, <4>2, <4>4
      <4>6. u.kid[d][t.par[m]] = m
        BY <1>u, <4>2, <4>3, <4>5
      <4>7. QED
        BY <1>Y, <4>2, <4>3, <4>6
    <3>4. QED
      BY <3>2, <3>3 DEF Agrees
  <2>3. QED
    BY <2>1, <2>2
<1>9. ASSUME NEW m \in Y PROVE new[m] \subseteq Y
  <2>1. CASE m = n
    BY <1>5, <1>Y, <2>1
  <2>2. CASE m # n
    <3>1. m \in X /\ m \in N \cup {NULL} /\ sub[m] \subseteq X
      BY <1>1, <1>3, <1>Y, <2>2
    <3>2. new[m] \subseteq sub[m] \cup {n}
      BY <1>5, <2>2, <3>1
    <3>3. QED
      BY <1>Y, <3>1, <3>2
  <2>3. QED
    BY <2>1, <2>2
<1>10. ASSUME NEW m \in X, NEW d \in Side
       PROVE  /\ t.kid[d][m] \in N \cup {NULL} /\ t.kid[d][m] # n
              /\ sub[t.kid[d][m]] \subseteq X /\ m \notin sub[t.kid[d][m]]
              /\ sub[m] = {m} \cup sub[t.kid[d][m]] \cup sub[t.kid[Other(d)][m]]
              /\ sub[t.kid[d][m]] \cap sub[t.kid[Other(d)][m]] = {}
  <2>1. t.kid[d][m] \in N \cup {NULL} /\ t.kid[d][m] # n
    BY <1>1, <1>2, <1>3, KidType
  <2>2. Splits(t, sub, m, d)
    BY <1>1, <1>X DEF Tree
  <2>3. sub[t.kid[d][m]] \subseteq sub[m]
    BY <2>2 DEF Splits
  <2>4. QED
    BY <1>3, <2>1, <2>2, <2>3 DEF Splits
<1>11. ASSUME NEW m \in Y PROVE \A d \in Side : Splits(u, new, m, d)
  <2>1. CASE m = n
    BY <1>5, <1>u, <2>1, TwoSides DEF Splits
  <2>2. CASE m = p /\ m # n
    <3>1. m \in X /\ p # NULL
      BY <1>Y, <1>1, <2>2
    <3>c. PICK c : c = t.kid[Other(s)][p]
      OBVIOUS
    <3>2. u.kid[s][p] = n /\ u.kid[Other(s)][p] = c
      BY <1>1, <1>u, <2>2, <3>1, <3>c, TwoSides
    <3>3. t.kid[s][p] = NULL
      BY <1>4, <3>1
    <3>4. /\ c \in N \cup {NULL} /\ c # n /\ sub[c] \subseteq X /\ p \notin sub[c]
          /\ sub[p] = {p} \cup sub[c]
      <4>1. Other(s) \in Side
        BY TwoSides
      <4>2. /\ c \in N \cup {NULL} /\ c # n /\ sub[c] \subseteq X /\ p \notin sub[c]
        BY <1>10, <2>2, <3>1, <3>c, <4>1
      <4>3. sub[p] = {p} \cup sub[NULL] \cup sub[c]
        BY <1>10, <2>2, <3>1, <3>3, <3>c
      <4>4. QED
        BY <1>1, <4>2, <4>3
    <3>5. new[p] = sub[p] \cup {n} /\ new[c] = sub[c] /\ new[n] = {n}
      BY <1>1, <1>4, <1>5, <2>2, <3>4, Zenon
    <3>6. new[p] = {p} \cup new[n] \cup new[c] /\ p \notin new[n] /\ p \notin new[c]
          /\ new[n] \cap new[c] = {}
      BY <1>2, <2>2, <3>4, <3>5
    <3>7. Splits(u, new, p, s)
      BY <3>2, <3>6 DEF Splits
    <3>8. QED
      BY <2>2, <3>7, SplitsMirror
  <2>3. CASE m # p /\ m # n
    <3>1. m \in X /\ m \in N \ {n}
      BY <1>1, <1>Y, <2>3
    <3>a. PICK a : a = t.kid[s][m]
      OBVIOUS
    <3>c. PICK c : c = t.kid[Other(s)][m]
      OBVIOUS
    <3>2. u.kid[s][m] = a /\ u.kid[Other(s)][m] = c
      BY <1>u, <2>3, <3>1, <3>a, <3>c, TwoSides
    <3>3. /\ a \in N \cup {NULL} /\ a # n /\ sub[a] \subseteq X /\ m \notin sub[a]
          /\ c \in N \cup {NULL} /\ c # n /\ sub[c] \subseteq X /\ m \notin sub[c]
          /\ sub[m] = {m} \cup sub[a] \cup sub[c] /\ sub[a] \cap sub[c] = {}
      BY <1>10, <3>1, <3>a, <3>c, TwoSides
    <3>4. /\ new[m] = IF p \in sub[m] THEN sub[m] \cup {n} ELSE sub[m]
          /\ new[a] = IF p \in sub[a] THEN sub[a] \cup {n} ELSE sub[a]
          /\ new[c] = IF p \in sub[c] THEN sub[c] \cup {n} ELSE sub[c]
      BY <1>5, <3>1, <3>3
    <3>5. p \in sub[m] <=> p \in sub[a] \/ p \in sub[c]
      BY <2>3, <3>3
    <3>6. n \notin sub[a] /\ n \notin sub[c]
      BY <1>2, <3>3
    <3>7. new[m] = {m} \cup new[a] \cup new[c]
      <4>1. CASE p \in sub[a]
        <5>1. p \notin sub[c] /\ p \in sub[m]
          BY <3>3, <3>5, <4>1
        <5>2. QED
          BY <3>3, <3>4, <4>1, <5>1
      <4>2. CASE p \in sub[c]
        <5>1. p \notin sub[a] /\ p \in sub[m]
          BY <3>3, <3>5, <4>2
        <5>2. QED
          BY <3>3, <3>4, <4>2, <5>1
      <4>3. CASE p \notin sub[a] /\ p \notin sub[c]
        BY <3>3, <3>4, <3>5, <4>3
      <4>4. QED
        BY <4>1, <4>2, <4>3
    <3>8. m \notin new[a] /\ m \notin new[c]
      BY <2>3, <3>3, <3>4
    <3>9. new[a] \cap new[c] = {}
      <4>1. ASSUME NEW x \in new[a], x \in new[c] PROVE FALSE
        <5>1. CASE x = n
          <6>1. p \in sub[a] /\ p \in sub[c]
            BY <3>4, <3>6, <4>1, <5>1
          <6>2. QED
            BY <3>3, <6>1
        <5>2. CASE x # n
          <6>1. x \in sub[a] /\ x \in sub[c]
            BY <3>4, <4>1, <5>2
          <6>2. QED
            BY <3>3, <6>1
        <5>3. QED
          BY <5>1, <5>2
      <4>2. QED
        BY <4>1
    <3>10. Splits(u, new, m, s)
      BY <3>2, <3>7, <3>8, <3>9 DEF Splits
    <3>11. QED
      BY <3>10, SplitsMirror
  <2>4. QED
    BY <2>1, <2>2, <2>3
<1>12. Tree(u, N, new)
  BY <1>5, <1>6, <1>7, <1>8, <1>9, <1>11 DEF Tree
<1>13. Ordered(u, new, v)
  <2>1. \A m \in X : v[m] \in Nat
    BY <1>X DEF Whole, Ordered
  <2>2. v[n] \in Nat
    BY DEF Fits
  <2>3. ASSUME NEW m \in Y, NEW d \in Side, NEW x \in new[u.kid[d][m]] PROVE Beside(d, v[x], v[m])
    <3>1. m # n
      BY <1>5, <1>u, <2>3
    <3>2. m \in X /\ m \in N \ {n}
      BY <1>1, <1>Y, <3>1
    <3>3. CASE m = p /\ d = s
      <4>1. u.kid[d][m] = n
        BY <1>u, <3>2, <3>3
      <4>2. x = n
        BY <1>5, <2>3, <4>1
      <4>3. p # NULL
        BY <3>2, <3>3
      <4>4. QED
        BY <3>3, <4>2, <4>3 DEF Fits
    <3>4. CASE ~(m = p /\ d = s)
      <4>k. PICK k : k = t.kid[d][m]
        OBVIOUS
      <4>1. k \in N \cup {NULL} /\ k # n /\ u.kid[d][m] = k
        BY <1>10, <1>u, <3>2, <3>4, <4>k
      <4>2. CASE x \in sub[k]
        BY <1>X, <3>2, <4>2, <4>k DEF Whole, Ordered
      <4>3. CASE x \notin sub[k]
        <5>1. x = n /\ p \in sub[k]
          BY <1>5, <2>3, <4>1, <4>3
        <5>2. p # NULL
          BY <1>1, <4>1, <5>1
        <5>3. QED
          BY <1>X, <3>2, <4>k, <5>1, <5>2 DEF Fits
      <4>4. QED
        BY <4>2, <4>3
    <3>5. QED
      BY <3>3, <3>4
  <2>4. QED
    BY <1>6, <1>Y, <2>1, <2>2, <2>3 DEF Ordered
<1>14. Rest(u, S \ {n})
  <2> SUFFICES ASSUME NEW m \in S \ {n} PROVE u.par[m] = m /\ \A d \in Side : u.kid[d][m] = NULL
    BY DEF Rest
  <2>1. m \in N \ {n} /\ m # p /\ t.par[m] = m /\ \A d \in Side : t.kid[d][m] = NULL
    <3>1. m \in S /\ S \subseteq N /\ S \cap X = {} /\ Rest(t, S)
      BY <1>X DEF Whole
    <3>2. QED
      BY <1>4, <3>1 DEF Rest
  <2>2. QED
    BY <1>u, <2>1
<1>15. (S \ {n}) \cap Y = {} /\ S \ {n} \subseteq N
  BY <1>X, <1>Y DEF Whole
<1>16. Whole(u, N, S \ {n}, new, v)
  BY <1>6, <1>12, <1>13, <1>14, <1>15 DEF Whole
<1>17. QED
  BY <1>6, <1>16, <1>u, <1>w, <1>X, <1>Y

\* Below which nodes rb_link_node and rb_insert_color change the tree.
LEMMA LinkNodeStirs ==
    ASSUME NEW N, NULL \notin N, IsFiniteSet(N), NEW t, NEW S, NEW sub, NEW v, NEW bh,
           Whole(t, N, S, sub, v), Level(t, N, sub[t.root], bh), RbShape(t, sub, bh),
           NEW n \in S, NEW s \in Side, NEW p, Fits(t, sub, v, n, p, s)
    PROVE  \E new : /\ GoodAs(LinkNode(t, n, p, s), N, S \ {n}, sub[t.root] \cup {n}, v, new)
                    /\ Stirs(LinkNode(t, n, p, s), sub[t.root] \cup {n},
                             Grown(N, sub, n, p), new, n)
<1>X. PICK X : X = sub[t.root]
  OBVIOUS
<1>u. PICK u : u = Hooked(t, n, p, s)
  OBVIOUS
<1>w. PICK new : new = Grown(N, sub, n, p)
  OBVIOUS
<1>1. Whole(u, N, S \ {n}, new, v) /\ new[u.root] = X \cup {n}
  BY <1>X, <1>u, <1>w, HookedTree
<1>2. /\ t \in TreeOn(N) /\ X \subseteq N /\ Tree(t, N, sub) /\ t.root \in N \cup {NULL}
      /\ n \in N /\ n \notin X /\ n # NULL
  BY <1>X, KidType DEF Tree, Whole
<1>3. /\ p \in N \cup {NULL} /\ p # n
      /\ p = NULL => t.root = NULL /\ X = {}
      /\ p # NULL => p \in X /\ t.kid[s][p] = NULL /\ t.root # NULL
  <2>1. CASE p = NULL
    <3>1. t.root = NULL
      BY <2>1 DEF Fits
    <3>2. QED
      BY <1>2, <1>X, <2>1, <3>1 DEF Tree
  <2>2. CASE p # NULL
    <3>1. p \in X /\ t.kid[s][p] = NULL
      BY <1>X, <2>2 DEF Fits
    <3>2. t.root # NULL
      BY <1>2, <1>X, <3>1 DEF Tree
    <3>3. QED
      BY <1>2, <2>2, <3>1, <3>2
  <2>3. QED
    BY <2>1, <2>2
<1>4. IsHooked(u, t, N, n, p, s)
  BY <1>2, <1>3, <1>u, HookedLinks
<1>5. /\ u.root = IF p = NULL THEN n ELSE t.root
      /\ u.black = t.black \ {n} /\ \A d \in Side : u.kid[d][n] = NULL
      /\ \A m \in X, d \in Side : u.kid[d][m] = IF m = p /\ d = s THEN n ELSE t.kid[d][m]
  BY <1>2, <1>4 DEF IsHooked
<1>6. \A m \in X, d \in Side : t.kid[d][m] \in N \cup {NULL} /\ t.kid[d][m] # n
  <2> TAKE m \in X, d \in Side
  <2>1. t.kid[d][m] # NULL => t.kid[d][m] \in X
    BY <1>2, <1>X DEF Tree, Agrees
  <2>2. QED
    BY <1>2, <2>1
<1> DEFINE bh2 == [m \in N \cup {NULL} |-> IF m = n THEN 0 ELSE bh[m]]
<1>7. /\ bh \in [N \cup {NULL} -> Nat] /\ bh[NULL] = 0
      /\ \A m \in X, d \in Side : bh[m] = One(t, m) + bh[t.kid[d][m]]
  BY <1>X DEF Level
<1>8. /\ bh2 \in [N \cup {NULL} -> Nat] /\ bh2[NULL] = 0 /\ bh2[n] = 0
      /\ \A m \in N \cup {NULL} : m # n => bh2[m] = bh[m]
  BY <1>2, <1>7, Zenon
<1> HIDE DEF bh2
<1>9. One(u, n) = 0 /\ \A m \in X : One(u, m) = One(t, m) /\ One(t, m) \in Nat
  BY <1>2, <1>5 DEF One
<1>10. ASSUME NEW m \in X \cup {n}, NEW d \in Side PROVE bh2[m] = One(u, m) + bh2[u.kid[d][m]]
  <2>1. CASE m = n
    BY <1>5, <1>8, <1>9, <2>1
  <2>2. CASE m # n
    <3>0. m \in X
      BY <2>2
    <3>1. PICK k \in N \cup {NULL} : k = t.kid[d][m] /\ k # n
      BY <1>6, <3>0
    <3>2. bh2[m] = bh[m] /\ bh[m] = One(u, m) + bh[k] /\ bh2[k] = bh[k]
      BY <1>2, <1>7, <1>8, <1>9, <3>0, <3>1
    <3>3. CASE m = p /\ d = s
      <4>1. k = NULL /\ u.kid[d][m] = n
        BY <1>3, <1>5, <1>2, <3>0, <3>1, <3>3
      <4>2. QED
        BY <1>7, <1>8, <3>2, <4>1
    <3>4. CASE ~(m = p /\ d = s)
      <4>1. u.kid[d][m] = k
        BY <1>5, <3>0, <3>1, <3>4
      <4>2. QED
        BY <3>2, <4>1
    <3>5. QED
      BY <3>3, <3>4
  <2>3. QED
    BY <2>1, <2>2
<1>11. Level(u, N, new[u.root], bh2)
  BY <1>1, <1>8, <1>10 DEF Level
<1>12. ASSUME NEW m \in (X \cup {n}) \ u.black, NEW d \in Side, Red(u, u.kid[d][m])
       PROVE  u.kid[d][m] = n
  <2> SUFFICES ASSUME u.kid[d][m] # n PROVE FALSE
    OBVIOUS
  <2>1. m # n
    BY <1>5, <1>12 DEF Red
  <2>2. m \in X \ t.black /\ ~(m = p /\ d = s)
    BY <1>5, <2>1
  <2>3. u.kid[d][m] = t.kid[d][m]
    BY <1>5, <2>2
  <2>4. Red(t, t.kid[d][m])
    BY <1>5, <1>12, <2>3 DEF Red
  <2>5. QED
    BY <1>X, <2>2, <2>4 DEF RbShape
<1>13. u.root \notin u.black => u.root = n
  BY <1>3, <1>5 DEF RbShape, Red
<1>14. Inserting(u, N, new, bh2, n)
  <2>1. n \in new[u.root] \ u.black
    BY <1>1, <1>5
  <2>2. Tree(u, N, new)
    BY <1>1 DEF Whole
  <2>3. QED
    BY <1>1, <1>11, <1>12, <1>13, <2>1, <2>2 DEF Inserting
<1>15. n \in new[n]
  BY <1>2, <1>w DEF Grown
<1>16. \E last : /\ GoodAs(InsertColor(u, n), N, S \ {n}, new[u.root], v, last)
                 /\ Stirs(InsertColor(u, n), new[u.root], new, last, n)
  BY <1>1, <1>14, <1>15, InsertColors
<1>17. LinkNode(t, n, p, s) = InsertColor(u, n)
  BY <1>u DEF LinkNode, Hooked
<1>18. QED
  BY <1>1, <1>16, <1>17, <1>X, <1>w

\* rb_link_node and rb_insert_color add the node n, at a place where its value
\* fits, to a red-black tree, and no other: it stays ordered, its links agree,
\* no red node has a red child and every path has as many black nodes
\* (rbtree.h:161-168, rbtree.c:26-135).
THEOREM LinkNodeGrows ==
    ASSUME NEW N, NULL \notin N, IsFiniteSet(N), NEW t, NEW S, NEW sub, NEW v, NEW bh,
           Whole(t, N, S, sub, v), Level(t, N, sub[t.root], bh), RbShape(t, sub, bh),
           NEW n \in S, NEW s \in Side, NEW p, Fits(t, sub, v, n, p, s)
    PROVE  Good(LinkNode(t, n, p, s), N, S \ {n}, sub[t.root] \cup {n}, v)
<1>1. PICK new : GoodAs(LinkNode(t, n, p, s), N, S \ {n}, sub[t.root] \cup {n}, v, new)
  BY LinkNodeStirs
<1>2. QED
  BY <1>1, GoodAsGood


-----------------------------------------------------------------------------
(* Erasing: one path may lack a black node                                   *)

\* bh counts the black nodes, one more on side s of p
Lack(m, d, p, s) == IF m = p /\ d = s THEN 1 ELSE 0

Counts(t, N, X, bh, p, s) ==
    /\ bh \in [N \cup {NULL} -> Nat] /\ bh[NULL] = 0
    /\ \A m \in X, d \in Side : bh[m] = One(t, m) + bh[t.kid[d][m]] + Lack(m, d, p, s)

\* u is t after a rotation to side e of a, which was black and gets red, and its
\* child r, which was red and gets black
Flipped(u, t, X, e, a, r) ==
    /\ u.black = (t.black \cup {r}) \ {a}
    /\ u.root = IF a = t.root THEN r ELSE t.root
    /\ u.par[a] = r /\ u.kid[e][r] = a
    /\ u.kid[Other(e)][a] = t.kid[e][r] /\ u.kid[e][a] = t.kid[e][a]
    /\ u.kid[Other(e)][r] = t.kid[Other(e)][r]
    /\ \A d \in Side, m \in X \ {a, r} : t.kid[d][m] = a => u.kid[d][m] = r
    /\ \A d \in Side, m \in X \ {a, r} : t.kid[d][m] # a => u.kid[d][m] = t.kid[d][m]

Flip(t, e, a, r) == Rotate(SetRed(SetBlack(t, {r}), {a}), a, e)

LEMMA FlipLinks ==
    ASSUME NEW N, NULL \notin N, NEW t, NEW sub, Tree(t, N, sub), NEW a \in sub[t.root],
           NEW e \in Side, NEW r, r = t.kid[Other(e)][a], r # NULL
    PROVE  \E u, new : /\ u = Flip(t, e, a, r) /\ Flipped(u, t, sub[t.root], e, a, r)
                       /\ Tree(u, N, new) /\ new[u.root] = sub[t.root]
                       /\ \A S, v : Whole(t, N, S, sub, v) => Whole(u, N, S, new, v)
                       /\ Raises(t, u, N, sub, new, e, a, r)
<1>X. PICK X : X = sub[t.root]
  OBVIOUS
<1>1. t \in TreeOn(N) /\ a \in N /\ r \in N /\ r # a /\ X \subseteq N /\ Other(e) \in Side
  <2>1. t \in TreeOn(N) /\ X \subseteq N /\ Other(e) \in Side
    BY <1>X, TwoSides, KidType DEF Tree
  <2>2. a \in N /\ r \in N /\ r # a
    BY <2>1, Family
  <2>3. QED
    BY <2>1, <2>2
<1>v. PICK v \in TreeOn(N) : /\ v = SetRed(SetBlack(t, {r}), {a})
                             /\ v.root = t.root /\ v.kid = t.kid /\ v.par = t.par
                             /\ v.black = (t.black \cup {r}) \ {a}
  BY <1>1, Repaints
<1>2. Tree(v, N, sub) /\ \A S, val : Whole(t, N, S, sub, val) => Whole(v, N, S, sub, val)
  <2>1. v.root = t.root /\ v.kid = t.kid /\ v.par = t.par
    BY <1>v
  <2>2. QED
    BY <2>1, PaintKeepsTree, PaintKeepsWhole
<1>3. r = v.kid[Other(e)][a] /\ a \in sub[v.root] /\ X = sub[v.root]
  BY <1>v, <1>X
<1>u. PICK u : u = Rotate(v, a, e)
  OBVIOUS
<1>w. PICK new : new = Turned(sub, v, e, a, r)
  OBVIOUS
<1>4. Rotated(v, u, X, e, a, r)
  BY <1>2, <1>3, <1>u, RotateInTree
<1>5. Tree(u, N, new) /\ new[u.root] = X
  BY <1>2, <1>3, <1>u, <1>w, RotateKeepsTree
<1>6. \A S, val : Whole(t, N, S, sub, val) => Whole(u, N, S, new, val)
  <2>1. \A S, val : Whole(v, N, S, sub, val) => Whole(u, N, S, new, val)
    BY <1>3, <1>u, <1>w, RotateKeepsWhole
  <2>2. QED
    BY <1>2, <2>1
<1>7. Flipped(u, t, X, e, a, r)
  <2>1. /\ v.root = t.root /\ v.black = (t.black \cup {r}) \ {a}
        /\ \A d \in Side : \A m : v.kid[d][m] = t.kid[d][m]
    BY <1>v
  <2>2. /\ u.black = v.black /\ u.root = IF a = v.root THEN r ELSE v.root
        /\ u.par[a] = r /\ u.kid[e][r] = a
        /\ u.kid[Other(e)][a] = v.kid[e][r] /\ u.kid[e][a] = v.kid[e][a]
        /\ u.kid[Other(e)][r] = v.kid[Other(e)][r]
        /\ \A d \in Side, m \in X \ {a, r} :
               u.kid[d][m] = IF v.kid[d][m] = a THEN r ELSE v.kid[d][m]
    BY <1>4, <1>X DEF Rotated
  <2>3. QED
    BY <1>1, <2>1, <2>2 DEF Flipped
<1>8. u = Flip(t, e, a, r)
  BY <1>u, <1>v, SMTT(30) DEF Flip
<1>9. Raises(t, u, N, sub, new, e, a, r)
  <2>1. Raises(v, u, N, sub, new, e, a, r)
    BY <1>1, <1>2, <1>4, <1>w, RotationRaises, SMTT(30)
  <2>2. QED
    BY <1>v, <2>1, RaisesPainted
<1>10. QED
  BY <1>5, <1>6, <1>7, <1>8, <1>9, <1>X

\* the number of black nodes below a and below r are exchanged
Swapped(N, bh, a, r) ==
    [m \in N \cup {NULL} |-> IF m = a THEN bh[r] ELSE IF m = r THEN bh[a] ELSE bh[m]]

LEMMA FlipCounts ==
    ASSUME NEW N, NULL \notin N, NEW t, NEW sub, Tree(t, N, sub), NEW X, X = sub[t.root],
           NEW a \in X \cap t.black, NEW e \in Side, NEW r \in X \ t.black, r = t.kid[Other(e)][a],
           NEW u, Flipped(u, t, X, e, a, r),
           NEW bh, NEW p, NEW s, Counts(t, N, X, bh, p, s), p # r, p = a => s = e
    PROVE  Counts(u, N, X, Swapped(N, bh, a, r), p, s)
<1> DEFINE b2 == Swapped(N, bh, a, r)
<1>1. /\ t \in TreeOn(N) /\ X \subseteq N /\ a \in N /\ r \in N /\ r # a /\ a # NULL /\ r # NULL
      /\ Other(e) \in Side /\ Other(e) # e
  <2>1. t \in TreeOn(N) /\ X \subseteq N /\ Other(e) \in Side /\ Other(e) # e
    BY TwoSides, KidType DEF Tree
  <2>2. QED
    BY <2>1
<1>x. PICK x : x = t.kid[e][a]
  OBVIOUS
<1>c. PICK c : c = t.kid[e][r]
  OBVIOUS
<1>b. PICK b : b = t.kid[Other(e)][r]
  OBVIOUS
<1>2. /\ x \in N \cup {NULL} /\ c \in N \cup {NULL} /\ b \in N \cup {NULL}
      /\ x \notin {a, r} /\ c \notin {a, r} /\ b \notin {a, r}
  <2>1. \A d \in Side : t.kid[d][r] \in N \cup {NULL} /\ t.kid[d][r] \notin {a, r}
    BY <1>1, Family
  <2>2. x \in N \cup {NULL} /\ x # a
    BY <1>1, <1>x, KidType DEF Tree, Splits
  <2>3. x # r
    <3>1. r # t.kid[Other(Other(e))][a]
      BY <1>1, Family
    <3>2. QED
      BY <1>x, <3>1, TwoSides
  <2>4. QED
    BY <1>1, <1>b, <1>c, <2>1, <2>2, <2>3
<1>3. /\ bh \in [N \cup {NULL} -> Nat] /\ bh[NULL] = 0
      /\ \A m \in X, d \in Side : bh[m] = One(t, m) + bh[t.kid[d][m]] + Lack(m, d, p, s)
  BY DEF Counts
<1>4. /\ b2 \in [N \cup {NULL} -> Nat] /\ b2[NULL] = 0 /\ b2[a] = bh[r] /\ b2[r] = bh[a]
      /\ \A m \in N \cup {NULL} : m \notin {a, r} => b2[m] = bh[m]
  <2>1. bh[a] \in Nat /\ bh[r] \in Nat /\ \A m \in N \cup {NULL} : bh[m] \in Nat
    BY <1>1, <1>3
  <2>2. \A m \in N \cup {NULL} :
            b2[m] = IF m = a THEN bh[r] ELSE IF m = r THEN bh[a] ELSE bh[m]
    BY DEF Swapped
  <2>3. b2 \in [N \cup {NULL} -> Nat]
    BY <2>1 DEF Swapped
  <2> HIDE DEF b2
  <2>4. QED
    BY <1>1, <1>3, <2>2, <2>3
<1> HIDE DEF b2
<1>5. /\ One(t, a) = 1 /\ One(t, r) = 0 /\ One(u, a) = 0 /\ One(u, r) = 1
      /\ \A m : m \notin {a, r} => One(u, m) = One(t, m)
  <2>1. u.black = (t.black \cup {r}) \ {a}
    BY DEF Flipped
  <2>2. QED
    BY <1>1, <2>1 DEF One
<1>6. /\ Lack(a, Other(e), p, s) = 0 /\ Lack(r, e, p, s) = 0 /\ Lack(r, Other(e), p, s) = 0
      /\ \A m, d : Lack(m, d, p, s) \in Nat
  BY <1>1 DEF Lack
<1>7. PICK k \in Nat, ba \in Nat, bx \in Nat, l \in Nat :
          /\ ba = bh[a] /\ k = bh[r] /\ bx = bh[x] /\ l = Lack(a, e, p, s)
  BY <1>1, <1>2, <1>3, <1>6
<1>8. ba = 1 + k /\ ba = 1 + bx + l /\ bh[c] = k /\ bh[b] = k
  <2>1. /\ bh[a] = 1 + bh[x] + Lack(a, e, p, s)
        /\ bh[a] = 1 + bh[r] + 0 /\ bh[r] = 0 + bh[c] + 0 /\ bh[r] = 0 + bh[b] + 0
    <3>1. bh[a] = One(t, a) + bh[t.kid[e][a]] + Lack(a, e, p, s)
      BY <1>3
    <3>2. bh[a] = One(t, a) + bh[t.kid[Other(e)][a]] + Lack(a, Other(e), p, s)
      BY <1>1, <1>3
    <3>3. bh[r] = One(t, r) + bh[t.kid[e][r]] + Lack(r, e, p, s)
      BY <1>3
    <3>4. bh[r] = One(t, r) + bh[t.kid[Other(e)][r]] + Lack(r, Other(e), p, s)
      BY <1>1, <1>3
    <3>5. QED
      BY <1>5, <1>6, <1>x, <1>c, <1>b, <3>1, <3>2, <3>3, <3>4
  <2>2. bh[c] \in Nat /\ bh[b] \in Nat
    BY <1>2, <1>3
  <2>3. QED
    BY <1>7, <2>1, <2>2
<1>9. /\ u.kid[e][a] = x /\ u.kid[Other(e)][a] = c /\ u.kid[e][r] = a /\ u.kid[Other(e)][r] = b
      /\ \A d \in Side, m \in X \ {a, r} : t.kid[d][m] = a => u.kid[d][m] = r
      /\ \A d \in Side, m \in X \ {a, r} : t.kid[d][m] # a => u.kid[d][m] = t.kid[d][m]
  BY <1>x, <1>c, <1>b DEF Flipped
<1>10. ASSUME NEW m \in X, NEW d \in Side
       PROVE  b2[m] = One(u, m) + b2[u.kid[d][m]] + Lack(m, d, p, s)
  <2>0. d = e \/ d = Other(e)
    BY TwoSides
  <2>1. CASE m = a
    <3>1. b2[x] = bx /\ b2[c] = k /\ b2[a] = k
      BY <1>2, <1>4, <1>7, <1>8
    <3>2. k = 0 + bx + l /\ k = 0 + k + 0
      BY <1>8
    <3>3. CASE d = e
      BY <1>5, <1>7, <1>9, <2>1, <3>1, <3>2, <3>3
    <3>4. CASE d = Other(e)
      BY <1>5, <1>6, <1>9, <2>1, <3>1, <3>2, <3>4
    <3>5. QED
      BY <2>0, <3>3, <3>4
  <2>2. CASE m = r
    <3>1. b2[b] = k /\ b2[a] = k /\ b2[r] = ba
      BY <1>2, <1>4, <1>7, <1>8
    <3>2. ba = 1 + k + 0
      BY <1>8
    <3>3. CASE d = e
      BY <1>5, <1>6, <1>9, <2>2, <3>1, <3>2, <3>3
    <3>4. CASE d = Other(e)
      BY <1>5, <1>6, <1>9, <2>2, <3>1, <3>2, <3>4
    <3>5. QED
      BY <2>0, <3>3, <3>4
  <2>3. CASE m \notin {a, r}
    <3>1. b2[m] = bh[m] /\ One(u, m) = One(t, m)
      BY <1>1, <1>4, <1>5, <2>3
    <3>2. bh[m] = One(t, m) + bh[t.kid[d][m]] + Lack(m, d, p, s)
      BY <1>3
    <3>3. CASE t.kid[d][m] = a
      BY <1>4, <1>9, <2>3, <3>1, <3>2, <3>3
    <3>4. CASE t.kid[d][m] # a
      <4>1. t.kid[d][m] # r
        <5>1. t.kid[d][m] # NULL => t.par[t.kid[d][m]] = m
          BY DEF Tree, Agrees
        <5>2. t.par[r] = a
          BY <1>1, Family
        <5>3. QED
          BY <1>1, <2>3, <5>1, <5>2
      <4>2. t.kid[d][m] \in N \cup {NULL}
        BY <1>1, KidType
      <4>3. b2[t.kid[d][m]] = bh[t.kid[d][m]] /\ u.kid[d][m] = t.kid[d][m]
        BY <1>4, <1>9, <2>3, <3>4, <4>1, <4>2, SMTT(30)
      <4>4. QED
        BY <3>1, <3>2, <4>3
    <3>5. QED
      BY <3>3, <3>4
  <2>4. QED
    BY <2>1, <2>2, <2>3
<1>11. QED
  BY <1>4, <1>10 DEF Counts, b2

\* no red node gets a red child but perhaps a
RedsKept(u, t, X, e, a, r) ==
    \A m \in X \ u.black, d \in Side : Red(u, u.kid[d][m]) =>
        \/ m = a /\ u.kid[d][m] \in {t.kid[e][a], t.kid[e][r]} /\ Red(t, u.kid[d][m])
        \/ m \in X \ t.black /\ m # a /\ u.kid[d][m] = t.kid[d][m] /\ Red(t, u.kid[d][m])

LEMMA FlipReds ==
    ASSUME NEW N, NULL \notin N, NEW t, NEW sub, Tree(t, N, sub), NEW X, X = sub[t.root],
           NEW a \in X, NEW e \in Side, NEW r \in X, r = t.kid[Other(e)][a],
           NEW u, Flipped(u, t, X, e, a, r)
    PROVE  RedsKept(u, t, X, e, a, r)
<1> SUFFICES ASSUME NEW m \in X \ u.black, NEW d \in Side, Red(u, u.kid[d][m])
    PROVE \/ m = a /\ u.kid[d][m] \in {t.kid[e][a], t.kid[e][r]} /\ Red(t, u.kid[d][m])
          \/ m \in X \ t.black /\ m # a /\ u.kid[d][m] = t.kid[d][m] /\ Red(t, u.kid[d][m])
  BY DEF RedsKept
<1>1. /\ u.black = (t.black \cup {r}) \ {a} /\ u.kid[e][a] = t.kid[e][a]
      /\ u.kid[Other(e)][a] = t.kid[e][r]
      /\ \A f \in Side, x \in X \ {a, r} : t.kid[f][x] = a => u.kid[f][x] = r
      /\ \A f \in Side, x \in X \ {a, r} : t.kid[f][x] # a => u.kid[f][x] = t.kid[f][x]
  BY DEF Flipped
<1>2. /\ a \in N /\ r \in N /\ r # a /\ Other(e) \in Side
      /\ \A f \in Side : t.kid[f][r] # a /\ t.kid[f][a] # a
  <2>1. X \subseteq N /\ Other(e) \in Side /\ t \in TreeOn(N)
    BY TwoSides, KidType DEF Tree
  <2>2. \A f \in Side : t.kid[f][a] # a
    BY DEF Tree, Splits
  <2>3. r # a /\ \A f \in Side : t.kid[f][r] # a
    BY <2>1, Family
  <2>4. QED
    BY <2>1, <2>2, <2>3
<1>3. u.kid[d][m] # r
  BY <1>1, <1>2 DEF Red
<1>4. CASE m = a
  <2>1. u.kid[d][m] \in {t.kid[e][a], t.kid[e][r]}
    BY <1>1, <1>4, TwoSides
  <2>2. Red(t, u.kid[d][m])
    BY <1>1, <1>2, <1>3, <2>1 DEF Red
  <2>3. QED
    BY <1>4, <2>1, <2>2
<1>5. CASE m # a
  <2>1. m # r /\ m \in X \ t.black
    BY <1>1, <1>2, <1>5
  <2>2. t.kid[d][m] # a
    BY <1>1, <1>3, <1>5, <2>1
  <2>3. u.kid[d][m] = t.kid[d][m]
    BY <1>1, <1>5, <2>1, <2>2
  <2>4. Red(t, u.kid[d][m])
    BY <1>1, <1>3, <2>2, <2>3 DEF Red
  <2>5. QED
    BY <1>5, <2>1, <2>3, <2>4
<1>6. QED
  BY <1>4, <1>5


\* side s of p, the node n or no node, is one black node short
Gap(t, N, sub, bh, n, p, s) ==
    /\ Tree(t, N, sub) /\ Counts(t, N, sub[t.root], bh, p, s)
    /\ s \in Side /\ p \in sub[t.root] /\ t.kid[s][p] = n

\* what is around the place where a black node lacks
AroundGap(t, N, sub, bh, n, p, s, o) ==
    /\ t \in TreeOn(N) /\ sub[t.root] \subseteq N /\ Other(s) \in Side /\ Other(s) # s
    /\ p \in N /\ o \in sub[t.root] /\ o \in N /\ o # NULL /\ o # p /\ o # n /\ n # p
    /\ n \in sub[t.root] \cup {NULL} /\ n # t.root /\ o # t.root /\ t.par[o] = p
    /\ n \in N \cup {NULL} /\ bh[n] \in Nat /\ bh[o] = bh[n] + 1
    /\ bh[p] = One(t, p) + bh[o]

LEMMA GapKin ==
    ASSUME NEW N, NULL \notin N, NEW t, NEW sub, NEW bh, NEW n, NEW p, NEW s,
           Gap(t, N, sub, bh, n, p, s), NEW o, o = t.kid[Other(s)][p]
    PROVE  AroundGap(t, N, sub, bh, n, p, s, o)
<1>1. /\ Tree(t, N, sub) /\ s \in Side /\ p \in sub[t.root] /\ t.kid[s][p] = n
      /\ Counts(t, N, sub[t.root], bh, p, s) /\ t \in TreeOn(N)
  BY DEF Gap, Tree
<1>2. sub[t.root] \subseteq N /\ Other(s) \in Side /\ Other(s) # s /\ p \in N /\ p # NULL
  BY <1>1, TwoSides, KidType DEF Tree
<1>3. n \in N \cup {NULL} /\ o \in N \cup {NULL}
  BY <1>1, <1>2, KidType
<1>4. Lack(p, s, p, s) = 1 /\ Lack(p, Other(s), p, s) = 0
  BY <1>2 DEF Lack
<1>5. bh[n] \in Nat /\ bh[o] \in Nat /\ bh[p] \in Nat /\ bh[NULL] = 0
  BY <1>1, <1>2, <1>3 DEF Counts
<1>6. bh[p] = One(t, p) + bh[n] + 1 /\ bh[p] = One(t, p) + bh[o] + 0
  <2>1. bh[p] = One(t, p) + bh[t.kid[s][p]] + Lack(p, s, p, s)
    BY <1>1 DEF Counts
  <2>2. bh[p] = One(t, p) + bh[t.kid[Other(s)][p]] + Lack(p, Other(s), p, s)
    BY <1>1, <1>2 DEF Counts
  <2>3. QED
    BY <1>1, <1>4, <2>1, <2>2
<1>7. PICK b \in Nat, l \in Nat, k \in Nat : b = bh[n] /\ l = bh[o] /\ k = One(t, p)
  BY <1>5 DEF One
<1>8. l = b + 1 /\ bh[p] = k + l
  BY <1>6, <1>7
<1>9. o # NULL
  <2>1. o = NULL => bh[o] = 0
    BY <1>5, Zenon
  <2>2. l # 0
    BY <1>8
  <2>3. QED
    BY <1>7, <2>1, <2>2, Zenon
<1>10. /\ o \in sub[t.root] /\ o # p /\ t.par[o] = p /\ o # t.root
       /\ o # t.kid[Other(Other(s))][p]
  BY <1>1, <1>2, <1>9, Family
<1>11. o # n
  BY <1>1, <1>10, TwoSides
<1>12. n # p /\ n \in sub[t.root] \cup {NULL} /\ (n # NULL => t.par[n] = p)
  BY <1>1 DEF Tree, Agrees, Splits
<1>13. n # t.root
  <2>1. t.root # NULL => t.par[t.root] = NULL
    BY <1>1 DEF Tree
  <2>2. t.root # NULL
    <3>1. t.root = NULL => sub[t.root] = {}
      BY <1>1 DEF Tree
    <3>2. QED
      BY <1>1, <3>1
  <2>3. QED
    BY <1>2, <1>12, <2>1, <2>2
<1>14. bh[o] = bh[n] + 1 /\ bh[p] = One(t, p) + bh[o]
  BY <1>7, <1>8
<1>15. QED
  BY <1>1, <1>2, <1>3, <1>5, <1>9, <1>10, <1>11, <1>12, <1>13, <1>14
     DEF AroundGap

\* it is black, and all colours are as they have to be
Lacking(t, N, sub, bh, n, p, s) ==
    /\ Tree(t, N, sub) /\ RbShape(t, sub, bh) /\ Counts(t, N, sub[t.root], bh, p, s)
    /\ s \in Side /\ p \in sub[t.root] /\ t.kid[s][p] = n /\ ~Red(t, n)

LEMMA LackingKin ==
    ASSUME NEW N, NULL \notin N, NEW t, NEW sub, NEW bh, NEW n, NEW p, NEW s,
           Lacking(t, N, sub, bh, n, p, s), NEW o, o = t.kid[Other(s)][p]
    PROVE  /\ t \in TreeOn(N) /\ sub[t.root] \subseteq N /\ Other(s) \in Side /\ Other(s) # s
           /\ p \in N /\ o \in sub[t.root] /\ o \in N /\ o # NULL /\ o # p /\ o # n /\ n # p
           /\ n \in sub[t.root] \cup {NULL} /\ n # t.root /\ o # t.root /\ t.par[o] = p
           /\ n \in N \cup {NULL} /\ bh[n] \in Nat /\ bh[o] = bh[n] + 1
           /\ bh[p] = One(t, p) + bh[o]
<1>1. Gap(t, N, sub, bh, n, p, s)
  BY DEF Gap, Lacking
<1>2. AroundGap(t, N, sub, bh, n, p, s, o)
  BY <1>1, GapKin
<1>3. QED
  BY <1>2 DEF AroundGap

\* only subtrees with all nodes of D have changed
OnlyAbove(X, sub, new, D) == \A k \in X : new[k] = sub[k] \/ D \subseteq new[k]
OnlyOf(X, sub, new, M) == \A k \in X : new[k] = sub[k] \/ k \in M

LEMMA RaisedAbove ==
    ASSUME NEW N, NEW t, NEW sub, Tree(t, N, sub), NEW s \in Side, NEW p \in sub[t.root],
           NEW o, NEW D, D = {p} \cup sub[t.kid[s][p]],
           NEW u, NEW new, Raises(t, u, N, sub, new, s, p, o)
    PROVE  OnlyAbove(sub[t.root], sub, new, D) /\ D \subseteq new[o] /\ D \subseteq new[p]
<1>1. sub[t.root] \subseteq N /\ Splits(t, sub, p, s)
  BY KidType DEF Tree
<1>2. D \subseteq sub[p]
  BY <1>1 DEF Splits
<1>3. new[o] = sub[p] /\ D \subseteq new[p]
  BY DEF Raises
<1>4. \A k \in sub[t.root] : k # p /\ k # o => new[k] = sub[k]
  BY <1>1 DEF Raises
<1>5. QED
  BY <1>2, <1>3, <1>4 DEF OnlyAbove

\* A red sibling goes up, and the new sibling is black.
LEMMA SiblingGetsBlack ==
    ASSUME NEW N, NULL \notin N, NEW t, NEW sub, NEW bh, NEW n, NEW p, NEW s,
           Lacking(t, N, sub, bh, n, p, s)
    PROVE  \E u, new, bh2 :
               /\ u = BlackSibling(t, p, s) /\ Lacking(u, N, new, bh2, n, p, s)
               /\ new[u.root] = sub[t.root] /\ u.kid[Other(s)][p] \in u.black
               /\ \A S, v : Whole(t, N, S, sub, v) => Whole(u, N, S, new, v)
               /\ Red(u, p) \/ (u = t /\ new = sub)
               /\ new[n] = sub[n] /\ OnlyAbove(sub[t.root], sub, new, {p} \cup sub[n])
<1>X. PICK X : X = sub[t.root]
  OBVIOUS
<1>o. PICK o : o = t.kid[Other(s)][p]
  OBVIOUS
<1>1. /\ t \in TreeOn(N) /\ X \subseteq N /\ Other(s) \in Side /\ Other(s) # s
      /\ p \in N /\ o \in X /\ o \in N /\ o # NULL /\ o # p /\ o # n /\ n # p
      /\ n # t.root /\ o # t.root /\ n \in N \cup {NULL}
      /\ bh[n] \in Nat /\ bh[o] = bh[n] + 1
  BY <1>X, <1>o, LackingKin
<1>2. /\ Tree(t, N, sub) /\ RbShape(t, sub, bh) /\ Counts(t, N, X, bh, p, s)
      /\ s \in Side /\ p \in X /\ t.kid[s][p] = n /\ ~Red(t, n)
  BY <1>X DEF Lacking
<1>3. BlackSibling(t, p, s) = IF Red(t, o) THEN Flip(t, s, p, o) ELSE t
  BY <1>o DEF BlackSibling, Flip
<1>4. CASE ~Red(t, o)
  <2>1. BlackSibling(t, p, s) = t /\ o \in t.black
    BY <1>1, <1>3, <1>4 DEF Red
  <2>2. OnlyAbove(sub[t.root], sub, sub, {p} \cup sub[n])
    BY DEF OnlyAbove
  <2>3. QED
    BY <1>o, <1>X, <2>1, <2>2
<1>5. CASE Red(t, o)
  <2>1. o \in X \ t.black /\ p \in X \cap t.black
    <3>1. o \notin t.black
      BY <1>5 DEF Red
    <3>2. p \in t.black
      BY <1>1, <1>2, <1>5, <1>o, <1>X DEF RbShape
    <3>3. QED
      BY <1>1, <1>2, <3>1, <3>2
  <2>2. PICK u, new : /\ u = Flip(t, s, p, o) /\ Flipped(u, t, X, s, p, o)
                      /\ Tree(u, N, new) /\ new[u.root] = X
                      /\ \A S, v : Whole(t, N, S, sub, v) => Whole(u, N, S, new, v)
                      /\ Raises(t, u, N, sub, new, s, p, o)
    BY <1>1, <1>2, <1>o, <1>X, FlipLinks
  <2>3. PICK b2 : Counts(u, N, X, b2, p, s)
    BY <1>1, <1>2, <1>o, <1>X, <2>1, <2>2, FlipCounts
  <2>c. PICK c : c = t.kid[s][o]
    OBVIOUS
  <2>4. /\ u.black = (t.black \cup {o}) \ {p} /\ u.root = IF p = t.root THEN o ELSE t.root
        /\ u.kid[s][p] = n /\ u.kid[Other(s)][p] = c
    BY <1>2, <2>2, <2>c DEF Flipped
  <2>5. c \in N /\ c \in t.black /\ c # p
    <3>1. bh[o] = One(t, o) + bh[c] + Lack(o, s, p, s)
      BY <1>1, <1>2, <2>c DEF Counts
    <3>2. One(t, o) = 0 /\ Lack(o, s, p, s) = 0 /\ bh[NULL] = 0
      BY <1>1, <1>2, <2>1 DEF One, Lack, Counts
    <3>3. c # NULL
      <4>1. c = NULL => bh[n] + 1 = 0 + 0 + 0
        BY <1>1, <3>1, <3>2
      <4>2. QED
        BY <1>1, <4>1
    <3>4. ~Red(t, c)
      BY <1>2, <1>X, <2>1, <2>c DEF RbShape
    <3>5. c \in N \cup {NULL} /\ c # p
      <4>1. o = t.kid[Other(s)][p] /\ o # NULL /\ Other(s) \in Side /\ p \in sub[t.root]
        BY <1>1, <1>2, <1>o, <1>X
      <4>2. \A d \in Side : t.kid[d][o] \in N \cup {NULL} /\ t.kid[d][o] \notin {p, o}
        BY <1>2, <4>1, Family
      <4>3. QED
        BY <1>2, <2>c, <4>2
    <3>6. QED
      BY <3>3, <3>4, <3>5 DEF Red
  <2>6. ~Red(u, n) /\ Red(u, p) /\ c \in u.black
    BY <1>1, <1>2, <2>4, <2>5 DEF Red
  <2>7. ~Red(u, u.root)
    <3>1. ~Red(t, t.root)
      BY <1>2 DEF RbShape
    <3>2. QED
      BY <1>1, <2>4, <3>1 DEF Red
  <2>r. RedsKept(u, t, X, s, p, o)
    <3>1. /\ p \in X /\ o \in X /\ o = t.kid[Other(s)][p] /\ Tree(t, N, sub) /\ X = sub[t.root]
          /\ s \in Side /\ Flipped(u, t, X, s, p, o)
      BY <1>1, <1>2, <1>o, <1>X, <2>2
    <3>2. QED
      BY <3>1, FlipReds
  <2>8. ASSUME NEW m \in X \ u.black, NEW d \in Side PROVE ~Red(u, u.kid[d][m])
    <3> SUFFICES ASSUME Red(u, u.kid[d][m]) PROVE FALSE
      OBVIOUS
    <3>1. \/ m = p /\ u.kid[d][m] \in {t.kid[s][p], t.kid[s][o]} /\ Red(t, u.kid[d][m])
          \/ m \in X \ t.black /\ m # p /\ u.kid[d][m] = t.kid[d][m] /\ Red(t, u.kid[d][m])
      BY <2>r DEF RedsKept
    <3>2. CASE m = p
      BY <1>2, <2>5, <2>c, <3>1, <3>2 DEF Red
    <3>3. CASE m # p
      BY <1>2, <1>X, <3>1, <3>3 DEF RbShape
    <3>4. QED
      BY <3>2, <3>3
  <2>9. Lacking(u, N, new, b2, n, p, s)
    <3>1. RbShape(u, new, b2)
      BY <2>2, <2>7, <2>8 DEF RbShape
    <3>2. QED
      BY <1>2, <2>2, <2>3, <2>4, <2>6, <3>1 DEF Lacking
  <2>10. u = BlackSibling(t, p, s)
    BY <1>3, <1>5, <2>2
  <2>11. new[n] = sub[n] /\ OnlyAbove(sub[t.root], sub, new, {p} \cup sub[n])
    <3>1. Raises(t, u, N, sub, new, s, p, o) /\ p \in sub[t.root]
      BY <1>2, <1>X, <2>2
    <3>2. new[n] = sub[n]
      BY <1>1, <3>1 DEF Raises
    <3>3. PICK D : D = {p} \cup sub[n]
      OBVIOUS
    <3>4. OnlyAbove(sub[t.root], sub, new, D)
      BY <1>2, <3>1, <3>3, RaisedAbove
    <3>5. QED
      BY <3>2, <3>3, <3>4
  <2>12. QED
    BY <1>X, <2>2, <2>4, <2>6, <2>9, <2>10, <2>11
<1>6. QED
  BY <1>4, <1>5

\* the sibling is black, its child away from the short side red
Ready(t, N, sub, bh, n, p, s) ==
    /\ Lacking(t, N, sub, bh, n, p, s)
    /\ \E o \in t.black : o = t.kid[Other(s)][p] /\ Red(t, t.kid[Other(s)][o])

\* A red nephew next to the short side goes up: the sibling's other child is red.
LEMMA NephewGetsRed ==
    ASSUME NEW N, NULL \notin N, NEW t, NEW sub, NEW bh, NEW n, NEW p, NEW s,
           Lacking(t, N, sub, bh, n, p, s), NEW o \in t.black, o = t.kid[Other(s)][p],
           NEW e \in Side, e = Other(s), Red(t, t.kid[s][o]) \/ Red(t, t.kid[e][o])
    PROVE  \E u, new, bh2 :
               /\ u = RedNephew(t, p, s) /\ Ready(u, N, new, bh2, n, p, s)
               /\ new[u.root] = sub[t.root]
               /\ \A S, v : Whole(t, N, S, sub, v) => Whole(u, N, S, new, v)
               /\ new[n] = sub[n]
               /\ \A k \in sub[t.root] :
                      new[k] = sub[k] \/ k \in {u.kid[e][p], u.kid[e][u.kid[e][p]]}
<1>X. PICK X : X = sub[t.root]
  OBVIOUS
<1>r. PICK r : r = t.kid[s][o]
  OBVIOUS
<1>1. /\ t \in TreeOn(N) /\ X \subseteq N /\ p \in N /\ o \in X /\ o \in N /\ o # NULL
      /\ o # p /\ o # n /\ n # p /\ n \in N \cup {NULL}
  BY <1>X, LackingKin
<1>2. /\ Tree(t, N, sub) /\ RbShape(t, sub, bh) /\ Counts(t, N, X, bh, p, s)
      /\ s \in Side /\ p \in X /\ t.kid[s][p] = n /\ ~Red(t, n) /\ t.kid[e][p] = o
  BY <1>X DEF Lacking
<1>3. e # s /\ Other(e) = s
  BY <1>2, TwoSides
<1>4. RedNephew(t, p, s) = IF Red(t, t.kid[e][o]) THEN t ELSE Flip(t, e, o, r)
  BY <1>2, <1>r DEF RedNephew, Flip
<1>5. CASE Red(t, t.kid[e][o])
  <2>1. RedNephew(t, p, s) = t
    BY <1>4, <1>5
  <2>2. Ready(t, N, sub, bh, n, p, s)
    BY <1>5 DEF Ready
  <2>3. QED
    BY <2>1, <2>2
<1>6. CASE ~Red(t, t.kid[e][o])
  <2>1. r \in N /\ r \notin t.black /\ r # NULL /\ r \in X /\ r = t.kid[Other(e)][o] /\ r # o /\ r # p
    <3>1. r # NULL /\ r \notin t.black
      BY <1>6, <1>r DEF Red
    <3>2. r \in X /\ r \in N /\ r # o /\ t.par[r] = o
      BY <1>1, <1>2, <1>r, <1>X, <3>1, Family
    <3>3. t.par[o] = p /\ t.par[o] # r
      BY <1>1, <1>2, <1>r, <1>X, <3>1, Family, LackingKin, SMTT(30)
    <3>4. QED
      BY <1>3, <1>r, <3>1, <3>2, <3>3
  <2>2. PICK u, new : /\ u = Flip(t, e, o, r) /\ Flipped(u, t, X, e, o, r)
                      /\ Tree(u, N, new) /\ new[u.root] = X
                      /\ \A S, v : Whole(t, N, S, sub, v) => Whole(u, N, S, new, v)
                      /\ Raises(t, u, N, sub, new, e, o, r)
    BY <1>1, <1>2, <1>X, <2>1, FlipLinks
  <2>f. Flipped(u, t, X, e, o, r)
    BY <2>2
  <2>3. PICK b2 : Counts(u, N, X, b2, p, s)
    <3>1. o \in X \cap t.black /\ r \in X \ t.black /\ p # r /\ p # o
      BY <1>1, <2>1
    <3>2. Tree(t, N, sub) /\ Counts(t, N, X, bh, p, s) /\ r = t.kid[Other(e)][o]
      BY <1>2, <2>1
    <3>3. Counts(u, N, X, Swapped(N, bh, o, r), p, s)
      BY <1>X, <2>f, <3>1, <3>2, FlipCounts
    <3>4. QED
      BY <3>3
  <2>r. RedsKept(u, t, X, e, o, r)
    BY <1>1, <1>2, <1>X, <2>1, <2>f, FlipReds
  <2>4. /\ u.black = (t.black \cup {r}) \ {o} /\ u.root = IF o = t.root THEN r ELSE t.root
        /\ u.kid[e][r] = o /\ u.kid[s][p] = n /\ u.kid[e][p] = r
    BY <1>1, <1>2, <2>1, <2>f, ZenonT(30) DEF Flipped
  <2>5. o # t.root /\ ~Red(t, t.root)
    BY <1>2, LackingKin DEF RbShape
  <2>6. ~Red(u, u.root) /\ ~Red(u, n) /\ Red(u, o) /\ r \in u.black
    BY <1>1, <1>2, <2>1, <2>4, <2>5 DEF Red
  <2>7. ASSUME NEW m \in X \ u.black, NEW d \in Side PROVE ~Red(u, u.kid[d][m])
    <3> SUFFICES ASSUME Red(u, u.kid[d][m]) PROVE FALSE
      OBVIOUS
    <3>1. \/ m = o /\ u.kid[d][m] \in {t.kid[e][o], t.kid[e][r]} /\ Red(t, u.kid[d][m])
          \/ m \in X \ t.black /\ m # o /\ u.kid[d][m] = t.kid[d][m] /\ Red(t, u.kid[d][m])
      BY <2>r DEF RedsKept
    <3>2. ~Red(t, t.kid[e][r])
      BY <1>2, <1>X, <2>1, SMTT(30) DEF RbShape
    <3>3. CASE m = o
      BY <1>6, <3>1, <3>2, <3>3
    <3>4. CASE m # o
      BY <1>2, <1>X, <3>1, <3>4 DEF RbShape
    <3>5. QED
      BY <3>3, <3>4
  <2>8. Lacking(u, N, new, b2, n, p, s)
    <3>1. RbShape(u, new, b2)
      BY <2>2, <2>6, <2>7 DEF RbShape
    <3>2. QED
      BY <1>2, <2>2, <2>3, <2>4, <2>6, <3>1, SMTT(30) DEF Lacking
  <2>9. Ready(u, N, new, b2, n, p, s)
    BY <2>4, <2>6, <2>8 DEF Ready
  <2>10. u = RedNephew(t, p, s)
    BY <1>4, <1>6, <2>2
  <2>11. n # r
    BY <1>2, <2>1, SMTT(30) DEF Red
  <2>12. new[n] = sub[n] /\ \A k \in X : k # o /\ k # r => new[k] = sub[k]
    BY <1>1, <2>2, <2>11 DEF Raises
  <2>13. \A k \in X : new[k] = sub[k] \/ k \in {u.kid[e][p], u.kid[e][u.kid[e][p]]}
    BY <2>4, <2>12
  <2>14. QED
    BY <1>X, <2>2, <2>9, <2>10, <2>12, <2>13
<1>7. QED
  BY <1>5, <1>6

\* the colours with which the sibling takes the place of p
Refilled(v, t, p, o, f) ==
    /\ v.root = t.root /\ v.kid = t.kid /\ v.par = t.par
    /\ p \in v.black /\ f \in v.black /\ (o \in v.black <=> p \in t.black)
    /\ \A m : m \notin {p, o, f} => (m \in v.black <=> m \in t.black)

LEMMA Recolors ==
    ASSUME NEW N, NEW t \in TreeOn(N), NEW p \in N, NEW o \in N, NEW f \in N,
           o # p, o # f, f # p
    PROVE  \E v \in TreeOn(N) : /\ v = SetBlack(SetColor(t, o, p), {p, f})
                               /\ Refilled(v, t, p, o, f)
<1> DEFINE w == SetColor(t, o, p)
<1>1. /\ w \in TreeOn(N) /\ w.root = t.root /\ w.kid = t.kid /\ w.par = t.par
      /\ w.black = IF p \in t.black THEN t.black \cup {o} ELSE t.black \ {o}
  BY DEF SetRed, SetBlack, SetColor, TreeOn
<1> HIDE DEF w
<1>2. /\ SetBlack(w, {p, f}) \in TreeOn(N) /\ SetBlack(w, {p, f}).root = w.root
      /\ SetBlack(w, {p, f}).kid = w.kid /\ SetBlack(w, {p, f}).par = w.par
      /\ SetBlack(w, {p, f}).black = w.black \cup {p, f}
  BY <1>1 DEF SetBlack, TreeOn
<1>3. Refilled(SetBlack(w, {p, f}), t, p, o, f)
  BY <1>1, <1>2 DEF Refilled
<1>4. QED
  BY <1>2, <1>3 DEF w

\* The sibling takes the place and the colour of p, which brings the black node
\* to the short side: no path lacks one any more.
LEMMA Refills ==
    ASSUME NEW N, NULL \notin N, NEW t, NEW sub, NEW bh, NEW n, NEW p, NEW s,
           Ready(t, N, sub, bh, n, p, s)
    PROVE  \E u, new, bh2 :
               /\ u = Refill(t, p, s) /\ Tree(u, N, new) /\ new[u.root] = sub[t.root]
               /\ Level(u, N, sub[t.root], bh2) /\ RbShape(u, new, bh2)
               /\ \A S, v : Whole(t, N, S, sub, v) => Whole(u, N, S, new, v)
               /\ Raises(t, u, N, sub, new, s, p, t.kid[Other(s)][p])
<1>X. PICK X : X = sub[t.root]
  OBVIOUS
<1>o. PICK o \in t.black : o = t.kid[Other(s)][p] /\ Red(t, t.kid[Other(s)][o])
  BY DEF Ready
<1>f. PICK f : f = t.kid[Other(s)][o]
  OBVIOUS
<1>c. PICK c : c = t.kid[s][o]
  OBVIOUS
<1>1. /\ t \in TreeOn(N) /\ X \subseteq N /\ Other(s) \in Side /\ Other(s) # s
      /\ p \in N /\ o \in X /\ o \in N /\ o # NULL /\ o # p /\ o # n /\ n # p
      /\ n # t.root /\ o # t.root /\ n \in N \cup {NULL}
      /\ bh[n] \in Nat /\ bh[o] = bh[n] + 1 /\ bh[p] = One(t, p) + bh[o]
  BY <1>X, <1>o, LackingKin DEF Ready
<1>2. /\ Tree(t, N, sub) /\ RbShape(t, sub, bh) /\ Counts(t, N, X, bh, p, s)
      /\ s \in Side /\ p \in X /\ t.kid[s][p] = n /\ ~Red(t, n)
  BY <1>X DEF Ready, Lacking
<1>3. /\ f # NULL /\ f \notin t.black /\ f \in X /\ f \in N /\ f # o /\ f # p /\ f # c
      /\ c \in N \cup {NULL} /\ c # o /\ c # p /\ t.par[o] = p /\ t.par[f] = o
      /\ \A d \in Side : t.kid[d][f] \in N \cup {NULL} /\ t.kid[d][f] \notin {o, f, p}
  <2>1. f # NULL /\ f \notin t.black
    BY <1>o, <1>f DEF Red
  <2>2. /\ f \in X /\ f \in N /\ f # o /\ t.par[f] = o /\ f \in sub[o]
        /\ \A d \in Side : t.kid[d][f] \in N \cup {NULL} /\ t.kid[d][f] \notin {o, f}
    BY <1>1, <1>2, <1>f, <1>X, <2>1, Family
  <2>3. /\ t.par[o] = p /\ p \notin sub[o]
        /\ \A d \in Side : t.kid[d][o] \in N \cup {NULL} /\ t.kid[d][o] \notin {p, o}
    BY <1>1, <1>2, <1>o, <1>X, Family
  <2>4. f # c
    <3>1. \A k : k = t.kid[s][o] /\ k # NULL => k # t.kid[Other(s)][o]
      BY <1>1, <1>2, <1>X, Family
    <3>2. QED
      BY <1>f, <1>c, <2>1, <3>1
  <2>5. ASSUME NEW d \in Side PROVE t.kid[d][f] # p
    <3>1. sub[f] \subseteq sub[o]
      BY <1>1, <1>2, <1>f, <1>X DEF Tree, Splits
    <3>2. p # NULL
      BY <1>1
    <3>3. t.kid[d][f] = p => p \in sub[f]
      BY <1>2, <1>X, <2>2, <3>2, Family
    <3>4. QED
      BY <2>3, <3>1, <3>3
  <2>6. QED
    BY <1>1, <1>2, <1>c, <1>f, <2>1, <2>2, <2>3, <2>4, <2>5
<1>v. PICK v \in TreeOn(N) : /\ v = SetBlack(SetColor(t, o, p), {p, f})
                             /\ Refilled(v, t, p, o, f)
  BY <1>1, <1>3, Recolors
<1>4. /\ v.root = t.root /\ v.kid = t.kid /\ v.par = t.par
      /\ Tree(v, N, sub) /\ \A S, val : Whole(t, N, S, sub, val) => Whole(v, N, S, sub, val)
  <2>1. v.root = t.root /\ v.kid = t.kid /\ v.par = t.par
    BY <1>v DEF Refilled
  <2>2. QED
    BY <1>2, <2>1, PaintKeepsTree, PaintKeepsWhole
<1>5. o = v.kid[Other(s)][p] /\ p \in sub[v.root] /\ X = sub[v.root]
  BY <1>2, <1>4, <1>o, <1>X
<1>u. PICK u : u = Rotate(v, p, s)
  OBVIOUS
<1>w. PICK new : new = Turned(sub, v, s, p, o)
  OBVIOUS
<1>6. Rotated(v, u, X, s, p, o)
  BY <1>1, <1>2, <1>4, <1>5, <1>u, RotateInTree
<1>7. Tree(u, N, new) /\ new[u.root] = X
  BY <1>1, <1>2, <1>4, <1>5, <1>u, <1>w, RotateKeepsTree
<1>8. \A S, val : Whole(t, N, S, sub, val) => Whole(u, N, S, new, val)
  <2>1. \A S, val : Whole(v, N, S, sub, val) => Whole(u, N, S, new, val)
    BY <1>1, <1>2, <1>5, <1>u, <1>w, RotateKeepsWhole
  <2>2. QED
    BY <1>4, <2>1
<1>9. u = Refill(t, p, s)
  BY <1>u, <1>v, <1>o, <1>f DEF Refill
<1>c1. /\ bh \in [N \cup {NULL} -> Nat] /\ bh[NULL] = 0
       /\ \A m \in X, d \in Side : m # p => bh[m] = One(t, m) + bh[t.kid[d][m]]
  <2>1. \A m, d : m # p => Lack(m, d, p, s) = 0
    BY DEF Lack
  <2>2. \A m \in X, d \in Side : bh[m] = One(t, m) + bh[t.kid[d][m]] + Lack(m, d, p, s)
    BY <1>2 DEF Counts
  <2>3. bh \in [N \cup {NULL} -> Nat] /\ bh[NULL] = 0
    BY <1>2 DEF Counts
  <2>4. ASSUME NEW m \in X, NEW d \in Side, m # p PROVE bh[m] = One(t, m) + bh[t.kid[d][m]]
    <3>1. PICK k : k = t.kid[d][m]
      OBVIOUS
    <3>2. k \in N \cup {NULL} /\ bh[k] \in Nat
      BY <1>1, <2>3, <3>1, KidType
    <3>3. bh[m] = One(t, m) + bh[k] + 0 /\ One(t, m) \in Nat
      BY <2>1, <2>2, <2>4, <3>1 DEF One
    <3>4. bh[m] = One(t, m) + bh[k]
      BY <3>2, <3>3
    <3>5. QED
      BY <3>1, <3>4
  <2>5. QED
    BY <2>3, <2>4
<1>k. PICK b \in Nat, k \in Nat : b = bh[n] /\ k = One(t, p)
  BY <1>1 DEF One
<1>10. bh[o] = b + 1 /\ bh[p] = k + (b + 1) /\ bh[c] = b /\ bh[f] = b
  <2>1. bh[o] = 1 + bh[c] /\ bh[o] = 1 + bh[f]
    <3>1. One(t, o) = 1
      BY <1>o DEF One
    <3>2. bh[o] = One(t, o) + bh[t.kid[s][o]]
      BY <1>1, <1>2, <1>c1
    <3>3. bh[o] = One(t, o) + bh[t.kid[Other(s)][o]]
      BY <1>1, <1>c1
    <3>4. QED
      BY <1>c, <1>f, <3>1, <3>2, <3>3
  <2>2. bh[c] \in Nat /\ bh[f] \in Nat
    BY <1>3, <1>c1
  <2>3. QED
    BY <1>1, <1>k, <2>1, <2>2
<1>b. PICK b2 : b2 = [m \in N \cup {NULL} |-> IF m = p THEN b + 1 ELSE IF m = o THEN k + (b + 1)
                                              ELSE IF m = f THEN b + 1 ELSE bh[m]]
  OBVIOUS
<1>11. /\ b2 \in [N \cup {NULL} -> Nat] /\ b2[NULL] = 0
       /\ b2[p] = b + 1 /\ b2[o] = k + (b + 1) /\ b2[f] = b + 1 /\ b2[n] = b /\ b2[c] = b
       /\ \A m \in N \cup {NULL} : m \notin {p, o, f} => b2[m] = bh[m]
  <2>1. \A m \in N \cup {NULL} : bh[m] \in Nat
    BY <1>c1
  <2>2. b + 1 \in Nat /\ k + (b + 1) \in Nat
    OBVIOUS
  <2>3. \A m \in N \cup {NULL} :
            b2[m] = IF m = p THEN b + 1 ELSE IF m = o THEN k + (b + 1)
                    ELSE IF m = f THEN b + 1 ELSE bh[m]
    BY <1>b
  <2>4. b2 \in [N \cup {NULL} -> Nat]
    BY <1>b, <2>1, <2>2
  <2>5. n # f
    BY <1>2, <1>3 DEF Red
  <2>6. n \notin {p, o, f} /\ c \notin {p, o, f} /\ NULL \notin {p, o, f}
    BY <1>1, <1>3, <2>5
  <2>7. QED
    BY <1>1, <1>3, <1>10, <1>c1, <1>k, <2>3, <2>4, <2>6
<1>12. /\ One(v, p) = 1 /\ One(v, f) = 1 /\ One(v, o) = k
       /\ \A m : m \notin {p, o, f} => One(v, m) = One(t, m)
  BY <1>v, <1>k DEF Refilled, One
<1>13. Recounts(v, N, X, s, p, o, b2)
  <2>1. b2[p] = One(v, p) + b2[v.kid[s][p]] /\ b2[p] = One(v, p) + b2[v.kid[s][o]]
    <3>1. v.kid[s][p] = n /\ v.kid[s][o] = c
      BY <1>2, <1>4, <1>c
    <3>2. QED
      BY <1>11, <1>12, <3>1
  <2>2. b2[o] = One(v, o) + b2[p] /\ b2[o] = One(v, o) + b2[v.kid[Other(s)][o]]
    <3>1. v.kid[Other(s)][o] = f
      BY <1>4, <1>f
    <3>2. QED
      BY <1>11, <1>12, <3>1
  <2>3. ASSUME NEW m \in X \ {p, o}, NEW d \in Side
        PROVE  /\ v.kid[d][m] = p => b2[m] = One(v, m) + b2[o]
               /\ v.kid[d][m] # p => b2[m] = One(v, m) + b2[v.kid[d][m]]
    <3>1. PICK x : x = t.kid[d][m]
      OBVIOUS
    <3>2. v.kid[d][m] = x /\ x \in N \cup {NULL}
      BY <1>1, <1>4, <3>1, KidType
    <3>3. bh[m] = One(t, m) + bh[x] /\ m \in N
      BY <1>1, <1>c1, <3>1
    <3>4. CASE m = f
      <4>1. x \notin {o, f, p}
        BY <1>3, <3>1, <3>4
      <4>2. One(t, m) = 0 /\ bh[x] \in Nat
        BY <1>3, <1>c1, <3>2, <3>4 DEF One
      <4>3. bh[x] = b
        BY <1>10, <3>3, <3>4, <4>2
      <4>4. b2[x] = b
        BY <1>11, <3>2, <4>1, <4>3
      <4>5. QED
        BY <1>11, <1>12, <3>2, <3>4, <4>1, <4>4
    <3>5. CASE m # f
      <4>1. x # NULL => t.par[x] = m
        BY <1>2, <1>X, <3>1 DEF Tree, Agrees
      <4>2. x # o /\ x # f
        BY <1>1, <1>3, <3>5, <4>1
      <4>3. b2[m] = bh[m] /\ One(v, m) = One(t, m)
        BY <1>11, <1>12, <3>3, <3>5
      <4>4. CASE x = p
        BY <1>10, <1>11, <3>2, <3>3, <4>3, <4>4
      <4>5. CASE x # p
        <5>1. b2[x] = bh[x]
          BY <1>11, <3>2, <4>2, <4>5
        <5>2. QED
          BY <3>2, <3>3, <4>3, <4>5, <5>1
      <4>6. QED
        BY <4>4, <4>5
    <3>6. QED
      BY <3>4, <3>5
  <2>4. QED
    BY <1>11, <2>1, <2>2, <2>3 DEF Recounts
<1>14. Level(u, N, X, b2)
  BY <1>1, <1>2, <1>6, <1>13, RotateLevels
<1>15. RbShape(u, new, b2)
  <2>1. u.black = v.black /\ u.root = IF p = t.root THEN o ELSE t.root
    BY <1>4, <1>6 DEF Rotated
  <2>2. /\ p \in v.black /\ f \in v.black /\ (o \in v.black <=> p \in t.black)
        /\ \A m : m \notin {p, o, f} => (m \in v.black <=> m \in t.black)
    BY <1>v DEF Refilled
  <2>3. ~Red(t, t.root) /\ \A m \in X \ t.black, d \in Side : ~Red(t, t.kid[d][m])
    BY <1>2, <1>X DEF RbShape
  <2>4. ~Red(u, u.root)
    <3>1. t.root # f
      BY <1>3, <2>3 DEF Red
    <3>2. p # NULL
      BY <1>1
    <3>3. QED
      BY <1>1, <2>1, <2>2, <2>3, <3>1, <3>2 DEF Red
  <2>5. ASSUME NEW m \in X \ u.black, NEW d \in Side PROVE ~Red(u, u.kid[d][m])
    <3>1. m # p /\ m # f /\ (m # o => m \notin t.black)
      BY <2>1, <2>2
    <3>2. Edge(v, u, s, p, o, m, d)
      BY <1>1, <1>2, <1>6, Edges
    <3>3. CASE m = o
      <4>1. u.kid[d][m] \in {p, v.kid[Other(s)][o]}
        BY <1>1, <3>2, <3>3 DEF Edge
      <4>2. u.kid[d][m] \in {p, f}
        BY <1>4, <1>f, <4>1
      <4>3. QED
        BY <2>1, <2>2, <4>2 DEF Red
    <3>4. CASE m # o
      <4>1. PICK x : x = t.kid[d][m]
        OBVIOUS
      <4>2. u.kid[d][m] = IF x = p THEN o ELSE x
        BY <1>4, <3>1, <3>2, <3>4, <4>1 DEF Edge
      <4>3. ~Red(t, x)
        BY <2>3, <3>1, <3>4, <4>1
      <4>4. CASE x = p
        <5>1. p \in t.black
          BY <1>1, <4>3, <4>4 DEF Red
        <5>2. QED
          BY <2>1, <2>2, <4>2, <4>4, <5>1 DEF Red
      <4>5. CASE x # p
        <5>1. x # NULL => t.par[x] = m
          BY <1>2, <1>X, <4>1 DEF Tree, Agrees
        <5>2. x # o /\ x # f
          BY <1>1, <1>3, <3>1, <3>4, <5>1
        <5>3. QED
          BY <2>1, <2>2, <4>2, <4>3, <4>5, <5>2 DEF Red
      <4>6. QED
        BY <4>4, <4>5
    <3>5. QED
      BY <3>3, <3>4
  <2>6. QED
    BY <1>7, <2>4, <2>5 DEF RbShape
<1>16. Raises(t, u, N, sub, new, s, p, o)
  <2>1. Raises(v, u, N, sub, new, s, p, o)
    BY <1>1, <1>4, <1>6, <1>w, RotationRaises
  <2>2. QED
    BY <1>4, <2>1, RaisesPainted
<1>17. QED
  BY <1>7, <1>8, <1>9, <1>14, <1>15, <1>16, <1>o, <1>X

-----------------------------------------------------------------------------
(* The loop of __rb_erase_color                                              *)

\* the node is the root and nothing lacks, or it is next to a gap, and a red
\* node with a red child is it or its parent
Settled(t, N, sub, bh, n) ==
    /\ n = t.root /\ Tree(t, N, sub) /\ Level(t, N, sub[t.root], bh)
    /\ \A m \in sub[t.root] \ t.black, d \in Side : ~Red(t, t.kid[d][m])

Short(t, N, sub, bh, n, p, s) ==
    /\ Gap(t, N, sub, bh, n, p, s) /\ ~Red(t, t.root)
    /\ \A m \in sub[t.root] \ t.black, d \in Side : Red(t, t.kid[d][m]) => n \in {m, t.kid[d][m]}

Erasing(t, N, sub, bh, n, p) ==
    Settled(t, N, sub, bh, n) \/ \E s : Short(t, N, sub, bh, n, p, s)

LEMMA Reddens ==
    ASSUME NEW N, NEW t \in TreeOn(N), NEW o \in N
    PROVE  \E u \in TreeOn(N) : /\ u = SetRed(t, {o}) /\ u.black = t.black \ {o}
                               /\ u.root = t.root /\ u.kid = t.kid /\ u.par = t.par
<1>1. /\ SetRed(t, {o}) \in TreeOn(N) /\ SetRed(t, {o}).root = t.root
      /\ SetRed(t, {o}).kid = t.kid /\ SetRed(t, {o}).par = t.par
      /\ SetRed(t, {o}).black = t.black \ {o}
  BY DEF SetRed, TreeOn
<1>2. QED
  BY <1>1

LEMMA ShortLacks ==
    ASSUME NEW N, NULL \notin N, NEW t, NEW sub, NEW bh, NEW n, NEW p, NEW s,
           Short(t, N, sub, bh, n, p, s)
    PROVE  /\ ~Red(t, n) => Lacking(t, N, sub, bh, n, p, s)
           /\ n # t.root /\ s = IF t.kid["L"][p] = n THEN "L" ELSE "R"
<1>1. /\ Tree(t, N, sub) /\ Counts(t, N, sub[t.root], bh, p, s) /\ Gap(t, N, sub, bh, n, p, s)
      /\ s \in Side /\ p \in sub[t.root] /\ t.kid[s][p] = n /\ ~Red(t, t.root)
      /\ \A m \in sub[t.root] \ t.black, d \in Side : Red(t, t.kid[d][m]) => n \in {m, t.kid[d][m]}
  BY DEF Short, Gap
<1>o. PICK o : o = t.kid[Other(s)][p]
  OBVIOUS
<1>2. o # n /\ n # t.root /\ NULL \notin sub[t.root]
  <2>1. AroundGap(t, N, sub, bh, n, p, s, o)
    BY <1>1, <1>o, GapKin
  <2>2. QED
    BY <2>1 DEF AroundGap
<1>3. ASSUME ~Red(t, n) PROVE Lacking(t, N, sub, bh, n, p, s)
  <2>1. RbShape(t, sub, bh)
    BY <1>1, <1>2, <1>3 DEF RbShape, Red
  <2>2. QED
    BY <1>1, <1>3, <2>1 DEF Lacking
<1>4. s = IF t.kid["L"][p] = n THEN "L" ELSE "R"
  BY <1>1, <1>2, <1>o DEF Side, Other
<1>5. QED
  BY <1>2, <1>3, <1>4

\* With black nephews the sibling gets red, and the gap moves up to p.
LEMMA EraseClimbs ==
    ASSUME NEW N, NULL \notin N, NEW t, NEW sub, NEW bh, NEW n, NEW p, NEW s,
           Lacking(t, N, sub, bh, n, p, s), NEW o \in t.black, o = t.kid[Other(s)][p],
           \A d \in Side : ~Red(t, t.kid[d][o])
    PROVE  \E u, bh2 : /\ u = SetRed(t, {o}) /\ Erasing(u, N, sub, bh2, p, u.par[p])
                       /\ u.root = t.root /\ p \in sub[p] /\ sub[n] \subseteq sub[p] /\ p \notin sub[n]
                       /\ \A S, v : Whole(t, N, S, sub, v) => Whole(u, N, S, sub, v)
                       /\ u.black = t.black \ {o} /\ p # o
<1>X. PICK X : X = sub[t.root]
  OBVIOUS
<1>1. /\ t \in TreeOn(N) /\ X \subseteq N /\ Other(s) \in Side /\ Other(s) # s
      /\ p \in N /\ o \in X /\ o \in N /\ o # NULL /\ o # p /\ o # n /\ n # p
      /\ n # t.root /\ o # t.root /\ n \in N \cup {NULL}
      /\ t.par[o] = p /\ bh[n] \in Nat /\ bh[o] = bh[n] + 1 /\ bh[p] = One(t, p) + bh[o]
  BY <1>X, LackingKin
<1>2. /\ Tree(t, N, sub) /\ RbShape(t, sub, bh) /\ Counts(t, N, X, bh, p, s)
      /\ s \in Side /\ p \in X /\ t.kid[s][p] = n /\ ~Red(t, n) /\ t.kid[Other(s)][p] = o
  BY <1>X DEF Lacking
<1>u. PICK u \in TreeOn(N) : /\ u = SetRed(t, {o}) /\ u.black = t.black \ {o}
                             /\ u.root = t.root /\ u.kid = t.kid /\ u.par = t.par
  BY <1>1, Reddens
<1>3. Tree(u, N, sub) /\ \A S, v : Whole(t, N, S, sub, v) => Whole(u, N, S, sub, v)
  <2>1. u.root = t.root /\ u.kid = t.kid /\ u.par = t.par
    BY <1>u
  <2>2. QED
    BY <1>2, <2>1, PaintKeepsTree, PaintKeepsWhole
<1>4. p \in sub[p] /\ sub[n] \subseteq sub[p] /\ p \notin sub[n]
  BY <1>2, <1>X DEF Tree, Splits
<1>c1. /\ bh \in [N \cup {NULL} -> Nat] /\ bh[NULL] = 0
       /\ \A m \in X, d \in Side : m # p => bh[m] = One(t, m) + bh[t.kid[d][m]]
  <2>1. \A m, d : m # p => Lack(m, d, p, s) = 0
    BY DEF Lack
  <2>2. \A m \in X, d \in Side : bh[m] = One(t, m) + bh[t.kid[d][m]] + Lack(m, d, p, s)
    BY <1>2 DEF Counts
  <2>3. bh \in [N \cup {NULL} -> Nat] /\ bh[NULL] = 0
    BY <1>2 DEF Counts
  <2>4. ASSUME NEW m \in X, NEW d \in Side, m # p PROVE bh[m] = One(t, m) + bh[t.kid[d][m]]
    <3>1. PICK k : k = t.kid[d][m]
      OBVIOUS
    <3>2. k \in N \cup {NULL} /\ bh[k] \in Nat
      BY <1>1, <2>3, <3>1, KidType
    <3>3. bh[m] = One(t, m) + bh[k] + 0 /\ One(t, m) \in Nat
      BY <2>1, <2>2, <2>4, <3>1 DEF One
    <3>4. bh[m] = One(t, m) + bh[k]
      BY <3>2, <3>3
    <3>5. QED
      BY <3>1, <3>4
  <2>5. QED
    BY <2>3, <2>4
<1>k. PICK b \in Nat, k \in Nat : b = bh[n] /\ k = One(t, p)
  BY <1>1 DEF One
<1>5. PICK b2 : b2 = [m \in N \cup {NULL} |-> IF m = p THEN k + b ELSE IF m = o THEN b ELSE bh[m]]
  OBVIOUS
<1>6. /\ b2 \in [N \cup {NULL} -> Nat] /\ b2[NULL] = 0
      /\ b2[p] = k + b /\ b2[o] = b /\ b2[n] = b /\ bh[o] = b + 1 /\ bh[p] = k + b + 1
      /\ \A m \in N \cup {NULL} : m \notin {p, o} => b2[m] = bh[m]
  <2>1. \A m \in N \cup {NULL} : bh[m] \in Nat
    BY <1>c1
  <2>2. k + b \in Nat
    OBVIOUS
  <2>3. \A m \in N \cup {NULL} :
            b2[m] = IF m = p THEN k + b ELSE IF m = o THEN b ELSE bh[m]
    BY <1>5
  <2>4. b2 \in [N \cup {NULL} -> Nat]
    BY <1>5, <2>1, <2>2
  <2>5. bh[o] = b + 1 /\ bh[p] = k + b + 1
    BY <1>1, <1>k
  <2>6. QED
    BY <1>1, <1>c1, <1>k, <2>3, <2>4, <2>5
<1>7. One(u, o) = 0 /\ One(t, o) = 1 /\ One(u, p) = k /\ \A m : m # o => One(u, m) = One(t, m)
  BY <1>1, <1>u, <1>k DEF One
\* only the parent of p notices that a black node is missing
<1>8. ASSUME NEW m \in X, NEW d \in Side
      PROVE  /\ t.kid[d][m] # p => b2[m] = One(u, m) + b2[u.kid[d][m]]
             /\ t.kid[d][m] = p => b2[m] = One(u, m) + b2[u.kid[d][m]] + 1
  <2>1. PICK x : x = t.kid[d][m]
    OBVIOUS
  <2>2. u.kid[d][m] = x /\ x \in N \cup {NULL} /\ bh[x] \in Nat /\ m \in N
    <3>1. u.kid[d][m] = x /\ m \in N
      BY <1>1, <1>u, <2>1
    <3>2. x \in N \cup {NULL}
      BY <1>1, <2>1, KidType
    <3>3. QED
      BY <1>c1, <3>1, <3>2
  <2>3. x # NULL => t.par[x] = m
    BY <1>2, <1>X, <2>1 DEF Tree, Agrees
  <2>4. x # m
    <3>1. Splits(t, sub, m, d)
      BY <1>2, <1>X DEF Tree
    <3>2. m \in sub[m] /\ m \notin sub[x]
      BY <2>1, <3>1 DEF Splits
    <3>3. QED
      BY <3>2
  <2>5. CASE m = p
    <3>1. d = s \/ d = Other(s)
      BY <1>2, TwoSides
    <3>2. x = n \/ x = o
      BY <1>2, <2>1, <2>5, <3>1, SMTT(30)
    <3>3. QED
      BY <1>6, <1>7, <2>1, <2>2, <2>4, <2>5, <3>2
  <2>6. CASE m = o
    <3>1. bh[m] = One(t, m) + bh[x]
      BY <1>1, <1>c1, <2>1, <2>6
    <3>2. b + 1 = 1 + bh[x]
      BY <1>6, <1>7, <2>6, <3>1
    <3>3. x # p
      BY <1>1, <1>2, <1>X, <2>1, <2>6, Family
    <3>4. b2[x] = bh[x]
      BY <1>6, <2>2, <2>4, <2>6, <3>3
    <3>5. QED
      BY <1>6, <1>7, <2>1, <2>2, <2>6, <3>2, <3>3, <3>4
  <2>7. CASE m \notin {p, o}
    <3>1. bh[m] = One(t, m) + bh[x] /\ b2[m] = bh[m] /\ One(u, m) = One(t, m)
      BY <1>c1, <1>6, <1>7, <2>1, <2>2, <2>7
    <3>2. x # o
      BY <1>1, <2>3, <2>7
    <3>3. CASE x = p
      <4>1. PICK j \in Nat : j = One(t, m)
        BY DEF One
      <4>2. QED
        BY <1>6, <2>1, <2>2, <3>1, <3>3, <4>1
    <3>4. CASE x # p
      BY <1>6, <2>1, <2>2, <3>1, <3>2, <3>4
    <3>5. QED
      BY <3>3, <3>4
  <2>8. QED
    BY <2>5, <2>6, <2>7
<1>9. ~Red(u, u.root) /\ \A m \in X \ u.black, d \in Side : Red(u, u.kid[d][m]) => p \in {m, u.kid[d][m]}
  <2>1. ~Red(u, u.root)
    BY <1>1, <1>2, <1>u DEF RbShape, Red
  <2>2. ASSUME NEW m \in X \ u.black, NEW d \in Side, Red(u, u.kid[d][m]), m # p, u.kid[d][m] # p
        PROVE  FALSE
    <3>1. u.kid[d][m] = t.kid[d][m]
      BY <1>u
    <3>2. CASE m = o
      <4>1. t.kid[d][o] # o
        BY <1>1, <1>2, <1>X DEF Tree, Splits
      <4>2. QED
        BY <1>u, <2>2, <3>1, <3>2, <4>1 DEF Red
    <3>3. CASE m # o
      <4>1. ~Red(t, t.kid[d][m])
        BY <1>2, <1>u, <1>X, <3>3 DEF RbShape
      <4>2. t.kid[d][m] # o
        <5>1. t.kid[d][m] # NULL => t.par[t.kid[d][m]] = m
          BY <1>2, <1>X DEF Tree, Agrees
        <5>2. QED
          BY <1>1, <2>2, <5>1
      <4>3. QED
        BY <1>u, <2>2, <3>1, <4>1, <4>2 DEF Red
    <3>4. QED
      BY <3>2, <3>3
  <2>3. QED
    BY <2>1, <2>2
<1>10. Erasing(u, N, sub, b2, p, u.par[p])
  <2>1. CASE p = t.root
    <3>1. \A m \in X, d \in Side : t.kid[d][m] # p
      <4>1. \A m \in X, d \in Side : t.kid[d][m] # NULL => t.par[t.kid[d][m]] = m
        BY <1>2, <1>X DEF Tree, Agrees
      <4>2. t.par[p] = NULL /\ p # NULL /\ NULL \notin X
        BY <1>1, <1>2, <2>1 DEF Tree
      <4>3. QED
        BY <4>1, <4>2
    <3>2. Level(u, N, X, b2)
      BY <1>6, <1>8, <3>1 DEF Level
    <3>3. ASSUME NEW m \in X \ u.black, NEW d \in Side PROVE ~Red(u, u.kid[d][m])
      <4>1. p \in t.black
        BY <1>1, <1>2, <2>1 DEF RbShape, Red
      <4>2. p \in u.black
        BY <1>1, <1>u, <4>1
      <4>3. QED
        BY <1>9, <4>2 DEF Red
    <3>4. RbShape(u, sub, b2)
      BY <1>9, <1>u, <1>X, <3>3 DEF RbShape
    <3>5. QED
      BY <1>3, <1>u, <1>X, <2>1, <3>2, <3>4, Zenon DEF Erasing, Settled, RbShape
  <2>2. CASE p # t.root
    <3>q. PICK q : q = t.par[p]
      OBVIOUS
    <3>1. PICK f \in Side : q = t.par[p] /\ q \in X /\ t.kid[f][q] = p
      <4>1. Agrees(t, X, p)
        BY <1>2, <1>X DEF Tree
      <4>2. t.par[p] \in X /\ \E f \in Side : t.kid[f][t.par[p]] = p
        BY <2>2, <4>1, Zenon DEF Agrees
      <4>3. QED
        BY <3>q, <4>2, Zenon
    <3>2. \A m \in X, d \in Side : t.kid[d][m] = p <=> m = q /\ d = f
      <4>1. \A m \in X, d \in Side : t.kid[d][m] = p => m = q
        <5>1. p # NULL
          BY <1>1
        <5>2. \A m \in X, d \in Side : t.kid[d][m] # NULL => t.par[t.kid[d][m]] = m
          BY <1>2, <1>X DEF Tree, Agrees
        <5>3. QED
          BY <3>1, <5>1, <5>2
      <4>2. \A d \in Side : d # f => t.kid[d][q] # p
        <5>1. \A d \in Side : d = f \/ d = Other(f)
          BY TwoSides
        <5>2. p # t.kid[Other(f)][q]
          <6>0. Tree(t, N, sub) /\ q \in sub[t.root]
            BY <1>2, <1>X, <3>1
          <6>1. \A y : y = t.kid[f][q] /\ y # NULL => y # t.kid[Other(f)][q]
            BY <6>0, Family
          <6>2. QED
            BY <1>1, <3>1, <6>1
        <5>3. QED
          BY <5>1, <5>2
      <4>3. QED
        BY <3>1, <4>1, <4>2
    <3>3. ASSUME NEW m \in X, NEW d \in Side
          PROVE  b2[m] = One(u, m) + b2[u.kid[d][m]] + Lack(m, d, q, f)
      <4>1. b2[u.kid[d][m]] \in Nat /\ One(u, m) \in Nat
        BY <1>1, <1>6, <1>u, KidType DEF One
      <4>2. CASE m = q /\ d = f
        <5>1. Lack(m, d, q, f) = 1
          BY <4>2 DEF Lack
        <5>2. QED
          BY <1>8, <3>2, <4>1, <4>2, <5>1
      <4>3. CASE ~(m = q /\ d = f)
        <5>1. Lack(m, d, q, f) = 0
          BY <4>3 DEF Lack
        <5>2. b2[m] = One(u, m) + b2[u.kid[d][m]]
          BY <1>8, <3>2, <4>3
        <5>3. QED
          BY <4>1, <5>1, <5>2
      <4>4. QED
        BY <4>2, <4>3
    <3>4. Counts(u, N, X, b2, q, f)
      BY <1>6, <3>3 DEF Counts
    <3>5. u.par[p] = q /\ u.kid[f][q] = p /\ sub[u.root] = X
      BY <1>u, <1>X, <3>1
    <3>6. Gap(u, N, sub, b2, p, q, f)
      BY <1>3, <3>1, <3>4, <3>5 DEF Gap
    <3>7. Short(u, N, sub, b2, p, q, f)
      BY <1>9, <3>5, <3>6 DEF Short
    <3>8. QED
      BY <3>5, <3>7 DEF Erasing
  <2>3. QED
    BY <2>1, <2>2
<1>11. QED
  BY <1>1, <1>3, <1>4, <1>10, <1>u

\* d is below m or below the other child of m's parent
Covers(t, X, sub, d, m) ==
    \/ d \in sub[m]
    \/ \E p \in X, s \in Side : m = t.kid[s][p] /\ d \in sub[t.kid[Other(s)][p]]

\* only subtrees that d covers have changed
Tracks(u, X, sub, new, d) == \A k \in X : new[k] = sub[k] \/ Covers(u, X, new, d, k)

\* m and q are the next node and parent of the loop
Trails(u, X, m, q, sub, new, d) ==
    \/ new = sub /\ (d \in sub[m] \/ d = q)
    \/ (Red(u, m) \/ m = u.root) /\ Tracks(u, X, sub, new, d)

\* a change above, one of two nodes, and one above
LEMMA ThreeTurns ==
    ASSUME NEW N, NULL \notin N, NEW X \in SUBSET N, NEW D, NEW d \in D, NEW s \in Side,
           NEW sub, NEW sub1, OnlyAbove(X, sub, sub1, D),
           NEW t2, NEW sub2, NEW p \in X, NEW o \in X, o = t2.kid[Other(s)][p], o # p,
           OnlyOf(X, sub1, sub2, {o, t2.kid[Other(s)][o]}),
           NEW u, NEW sub3, Raises(t2, u, N, sub2, sub3, s, p, o), D \subseteq sub3[o],
           OnlyAbove(X, sub2, sub3, D), D \subseteq sub3[p]
    PROVE  Tracks(u, X, sub, sub3, d)
<1>s. PICK e \in Side : e = Other(s) /\ Other(e) = s
  BY TwoSides
<1>1. u.kid[s][o] = p /\ u.kid[e][o] = t2.kid[e][o]
  BY <1>s DEF Raises
<1>2. ASSUME NEW k \in X PROVE sub3[k] = sub[k] \/ Covers(u, X, sub3, d, k)
  <2>1. CASE k = o
    BY <2>1, SMTT(30) DEF Covers
  <2>2. CASE k = t2.kid[e][o]
    <3>1. k = u.kid[e][o] /\ d \in sub3[u.kid[Other(e)][o]]
      BY <1>1, <1>s, <2>2
    <3>2. QED
      BY <3>1 DEF Covers
  <2>3. CASE k # o /\ k # t2.kid[e][o]
    <3>1. sub2[k] = sub1[k]
      BY <1>s, <2>3 DEF OnlyOf
    <3>2. sub3[k] = sub2[k] \/ d \in sub3[k]
      BY DEF OnlyAbove
    <3>3. sub1[k] = sub[k] \/ d \in sub1[k]
      BY DEF OnlyAbove
    <3>4. QED
      BY <3>1, <3>2, <3>3 DEF Covers
  <2>4. QED
    BY <2>1, <2>2, <2>3
<1>3. QED
  BY <1>2 DEF Tracks

\* what a turn of the loop with a gap makes of the tree t
GapTurned(x, t, N, sub, n, p) ==
    \E u, m, q, new, bh2 :
        /\ EraseTurn(x) = [tree |-> u, node |-> m, par |-> q]
        /\ Erasing(u, N, new, bh2, m, q) /\ new[u.root] = sub[t.root]
        /\ q \in N \cup {NULL}
        /\ \A S, v : Whole(t, N, S, sub, v) => Whole(u, N, S, new, v)
        /\ ~Red(u, m) /\ m # u.root => sub[n] \subseteq new[m] /\ m \in new[m] \ sub[n]
        /\ \A d \in {p} \cup sub[n] : Trails(u, sub[t.root], m, q, sub, new, d)

\* It fills the gap or moves it one step up.
LEMMA GapTurns ==
    ASSUME NEW N, NULL \notin N, NEW t, NEW sub, NEW bh, NEW n, NEW p, NEW s,
           Short(t, N, sub, bh, n, p, s), ~Red(t, n),
           NEW x, x = [tree |-> t, node |-> n, par |-> p]
    PROVE  GapTurned(x, t, N, sub, n, p)
<1>1. /\ Lacking(t, N, sub, bh, n, p, s) /\ n # t.root
      /\ s = IF t.kid["L"][p] = n THEN "L" ELSE "R"
  BY ShortLacks
<1>2. PICK u, new, b2 :
          /\ u = BlackSibling(t, p, s) /\ Lacking(u, N, new, b2, n, p, s)
          /\ new[u.root] = sub[t.root] /\ u.kid[Other(s)][p] \in u.black
          /\ \A S, v : Whole(t, N, S, sub, v) => Whole(u, N, S, new, v)
          /\ Red(u, p) \/ (u = t /\ new = sub)
          /\ new[n] = sub[n] /\ OnlyAbove(sub[t.root], sub, new, {p} \cup sub[n])
  BY <1>1, SiblingGetsBlack
<1>o. PICK o \in u.black : o = u.kid[Other(s)][p]
  BY <1>2
<1>v. PICK v : v = Refill(RedNephew(u, p, s), p, s)
  OBVIOUS
<1>3. EraseTurn(x) =
          IF ~Red(u, u.kid["L"][o]) /\ ~Red(u, u.kid["R"][o])
          THEN [tree |-> SetRed(u, {o}), node |-> p, par |-> u.par[p]]
          ELSE [tree |-> v, node |-> v.root, par |-> p]
  <2>1. x.tree = t /\ x.node = n /\ x.par = p
    OBVIOUS
  <2>2. EraseTurn(x) =
          CASE Red(t, n) \/ n = t.root -> x
            [] ~Red(t, n) /\ n # t.root /\ ~Red(u, u.kid["L"][o]) /\ ~Red(u, u.kid["R"][o]) ->
                [tree |-> SetRed(u, {o}), node |-> p, par |-> u.par[p]]
            [] OTHER -> [tree |-> v, node |-> v.root, par |-> p]
    BY <1>1, <1>2, <1>o, <1>v, <2>1, Zenon DEF EraseTurn
  <2>3. QED
    BY <1>1, <2>2
<1>4. p \in N /\ s \in Side /\ u \in TreeOn(N) /\ Other(s) \in Side
  <2>1. Tree(u, N, new) /\ s \in Side /\ p \in new[u.root]
    BY <1>2 DEF Lacking
  <2>2. QED
    BY <2>1, TwoSides, KidType DEF Tree
<1>5. CASE ~Red(u, u.kid["L"][o]) /\ ~Red(u, u.kid["R"][o])
  <2>1. \A d \in Side : ~Red(u, u.kid[d][o])
    BY <1>5 DEF Side
  <2>0. Lacking(u, N, new, b2, n, p, s)
    BY <1>2
  <2>2. PICK w, b3 : /\ w = SetRed(u, {o}) /\ Erasing(w, N, new, b3, p, w.par[p])
                     /\ w.root = u.root /\ p \in new[p] /\ new[n] \subseteq new[p] /\ p \notin new[n]
                     /\ \A S, val : Whole(u, N, S, new, val) => Whole(w, N, S, new, val)
                     /\ w.black = u.black \ {o} /\ p # o
    BY <1>o, <2>0, <2>1, EraseClimbs
  <2>3. w.par[p] = u.par[p] /\ u.par[p] \in N \cup {NULL}
    BY <1>4, <2>2, KidType DEF SetRed
  <2>4. EraseTurn(x) = [tree |-> w, node |-> p, par |-> w.par[p]]
    BY <1>3, <1>5, <2>2, <2>3
  <2>5. ~Red(w, p) => u = t /\ new = sub
    BY <1>2, <2>2 DEF Red
  <2>6. ~Red(w, p) /\ p # w.root => sub[n] \subseteq new[p] /\ p \in new[p] \ sub[n]
    BY <2>2, <2>5
  <2>7. \A S, val : Whole(t, N, S, sub, val) => Whole(w, N, S, new, val)
    BY <1>2, <2>2
  <2>8. new[w.root] = sub[t.root]
    BY <1>2, <2>2
  <2>9. Erasing(w, N, new, b3, p, w.par[p]) /\ w.par[p] \in N \cup {NULL}
    BY <2>2, <2>3
  <2>10. ASSUME NEW d \in {p} \cup sub[n]
         PROVE  Trails(w, sub[t.root], p, w.par[p], sub, new, d)
    <3>1. CASE new = sub
      BY <2>2, <2>10, <3>1 DEF Trails
    <3>2. CASE new # sub
      <4>1. Red(w, p)
        BY <2>5, <3>2
      <4>2. Tracks(w, sub[t.root], sub, new, d)
        BY <1>2, <2>10 DEF Tracks, Covers, OnlyAbove
      <4>3. QED
        BY <4>1, <4>2 DEF Trails
    <3>3. QED
      BY <3>1, <3>2
  <2>11. QED
    BY <2>4, <2>6, <2>7, <2>8, <2>9, <2>10 DEF GapTurned
<1>6. CASE ~(~Red(u, u.kid["L"][o]) /\ ~Red(u, u.kid["R"][o]))
  <2>e. PICK e \in Side : e = Other(s)
    BY <1>4
  <2>1. Red(u, u.kid[s][o]) \/ Red(u, u.kid[e][o])
    BY <1>4, <1>6, <2>e DEF Side, Other
  <2>2. PICK w, new2, b3 :
            /\ w = RedNephew(u, p, s) /\ Ready(w, N, new2, b3, n, p, s)
            /\ new2[w.root] = new[u.root]
            /\ \A S, val : Whole(u, N, S, new, val) => Whole(w, N, S, new2, val)
            /\ new2[n] = new[n]
            /\ \A k \in new[u.root] :
                   new2[k] = new[k] \/ k \in {w.kid[e][p], w.kid[e][w.kid[e][p]]}
    BY <1>2, <1>o, <2>e, <2>1, NephewGetsRed
  <2>3. PICK z, new3, b4 :
            /\ z = Refill(w, p, s) /\ Tree(z, N, new3) /\ new3[z.root] = new2[w.root]
            /\ Level(z, N, new2[w.root], b4) /\ RbShape(z, new3, b4)
            /\ \A S, val : Whole(w, N, S, new2, val) => Whole(z, N, S, new3, val)
            /\ Raises(w, z, N, new2, new3, s, p, w.kid[Other(s)][p])
    BY <2>2, Refills
  <2>4. z = v
    BY <1>v, <2>2, <2>3
  <2>5. EraseTurn(x) = [tree |-> z, node |-> z.root, par |-> p]
    BY <1>3, <1>6, <2>4
  <2>6. Erasing(z, N, new3, b4, z.root, p)
    BY <2>3 DEF Erasing, Settled, RbShape
  <2>7. \A S, val : Whole(t, N, S, sub, val) => Whole(z, N, S, new3, val)
    BY <1>2, <2>2, <2>3
  <2>8. new3[z.root] = sub[t.root]
    BY <1>2, <2>2, <2>3
  <2>X. PICK X : X = sub[t.root]
    OBVIOUS
  <2>D. PICK D : D = {p} \cup sub[n]
    OBVIOUS
  <2>r. PICK r : r = w.kid[Other(s)][p]
    OBVIOUS
  <2>9. /\ Tree(w, N, new2) /\ p \in X /\ r \in X /\ r # p /\ n = w.kid[s][p]
        /\ X = new2[w.root] /\ X = new[u.root] /\ X \subseteq N
    <3>1. Lacking(w, N, new2, b3, n, p, s)
      BY <2>2 DEF Ready
    <3>2. r \in new2[w.root] /\ r # p /\ new2[w.root] \subseteq N
      BY <2>r, <3>1, LackingKin
    <3>3. Tree(w, N, new2) /\ p \in new2[w.root] /\ n = w.kid[s][p]
      BY <3>1 DEF Lacking
    <3>4. X = new2[w.root] /\ X = new[u.root]
      BY <1>2, <2>2, <2>X
    <3>5. QED
      BY <3>2, <3>3, <3>4
  <2>10. OnlyAbove(X, new2, new3, D) /\ D \subseteq new3[r] /\ D \subseteq new3[p]
    <3>1. Raises(w, z, N, new2, new3, s, p, r) /\ p \in new2[w.root] /\ Tree(w, N, new2)
      BY <2>3, <2>9, <2>r, SMTT(30)
    <3>2. D = {p} \cup new2[w.kid[s][p]]
      BY <1>2, <2>2, <2>9, <2>D
    <3>3. OnlyAbove(new2[w.root], new2, new3, D) /\ D \subseteq new3[r] /\ D \subseteq new3[p]
      <4>1. new2[w.root] \subseteq N /\ Splits(w, new2, p, s)
        BY <1>4, <3>1, KidType DEF Tree
      <4>2. D \subseteq new2[p]
        BY <3>2, <4>1 DEF Splits
      <4>3. new3[r] = new2[p] /\ D \subseteq new3[p]
        BY <3>1, <3>2 DEF Raises
      <4>4. \A k \in new2[w.root] : k # p /\ k # r => new3[k] = new2[k]
        BY <3>1, <4>1 DEF Raises
      <4>5. QED
        BY <4>2, <4>3, <4>4 DEF OnlyAbove
    <3>4. QED
      BY <2>9, <3>3
  <2>11. ASSUME NEW d \in D PROVE Trails(z, X, z.root, p, sub, new3, d)
    <3>1. OnlyAbove(X, sub, new, D)
      BY <1>2, <2>D, <2>X
    <3>2. OnlyOf(X, new, new2, {r, w.kid[Other(s)][r]})
      BY <2>2, <2>9, <2>e, <2>r DEF OnlyOf
    <3>3. Raises(w, z, N, new2, new3, s, p, r)
      BY <2>3, <2>r
    <3>0. /\ s \in Side /\ X \in SUBSET N /\ p \in X /\ r \in X /\ r = w.kid[Other(s)][p] /\ r # p
          /\ OnlyAbove(X, new2, new3, D) /\ D \subseteq new3[r] /\ D \subseteq new3[p]
      BY <1>4, <2>9, <2>10, <2>r
    <3>4. Tracks(z, X, sub, new3, d)
      BY <2>11, <3>0, <3>1, <3>2, <3>3, ThreeTurns
    <3>5. QED
      BY <3>4 DEF Trails
  <2>12. QED
    BY <1>4, <2>5, <2>6, <2>7, <2>8, <2>11, <2>D, <2>X DEF GapTurned
<1>7. QED
  BY <1>5, <1>6

\* x is a moment of the loop of __rb_erase_color that has i turns behind it
EraseAt(x, N, S, X, v, i, old, d) ==
    \E t, n, p, sub, bh : /\ x = [tree |-> t, node |-> n, par |-> p]
                          /\ Erasing(t, N, sub, bh, n, p) /\ sub[t.root] = X
                          /\ Whole(t, N, S, sub, v) /\ p \in N \cup {NULL}
                          /\ ~Red(t, n) /\ n # t.root => Cardinality(sub[n]) >= i
                          /\ Trails(t, X, n, p, old, sub, d)

LEMMA EraseAtNext ==
    ASSUME NEW N, NULL \notin N, IsFiniteSet(N), NEW S, NEW X, NEW v, NEW i \in Nat,
           NEW old, NEW d, NEW x, EraseAt(x, N, S, X, v, i, old, d)
    PROVE  EraseAt(EraseTurn(x), N, S, X, v, i + 1, old, d)
<1>1. PICK t, n, p, sub, bh : /\ x = [tree |-> t, node |-> n, par |-> p]
                              /\ Erasing(t, N, sub, bh, n, p) /\ sub[t.root] = X
                              /\ Whole(t, N, S, sub, v) /\ p \in N \cup {NULL}
                              /\ ~Red(t, n) /\ n # t.root => Cardinality(sub[n]) >= i
                              /\ Trails(t, X, n, p, old, sub, d)
  BY DEF EraseAt
<1>2. CASE Red(t, n) \/ n = t.root
  <2>1. EraseTurn(x) = x
    <3>1. x.tree = t /\ x.node = n
      BY <1>1
    <3>2. Red(x.tree, x.node) \/ x.node = x.tree.root
      BY <1>2, <3>1
    <3>3. QED
      BY <3>2, Zenon DEF EraseTurn
  <2>2. QED
    BY <1>1, <1>2, <2>1 DEF EraseAt
<1>3. CASE ~Red(t, n) /\ n # t.root
  <2>1. PICK s : Short(t, N, sub, bh, n, p, s)
    BY <1>1, <1>3 DEF Erasing, Settled
  <2>2. PICK u, m, q, new, bh2 :
            /\ EraseTurn(x) = [tree |-> u, node |-> m, par |-> q]
            /\ Erasing(u, N, new, bh2, m, q) /\ new[u.root] = sub[t.root]
            /\ q \in N \cup {NULL}
            /\ \A T, val : Whole(t, N, T, sub, val) => Whole(u, N, T, new, val)
            /\ ~Red(u, m) /\ m # u.root => sub[n] \subseteq new[m] /\ m \in new[m] \ sub[n]
            /\ \A k \in {p} \cup sub[n] : Trails(u, sub[t.root], m, q, sub, new, k)
    <3>1. x = [tree |-> t, node |-> n, par |-> p] /\ ~Red(t, n)
      BY <1>1, <1>3
    <3>2. GapTurned(x, t, N, sub, n, p)
      BY <2>1, <3>1, GapTurns
    <3>3. QED
      BY <3>2 DEF GapTurned
  <2>3. ASSUME ~Red(u, m), m # u.root PROVE Cardinality(new[m]) >= i + 1
    <3>1. sub[n] \subseteq new[m] /\ m \in new[m] \ sub[n]
      BY <2>2, <2>3
    <3>2. new[m] \subseteq N
      <4>0. Erasing(u, N, new, bh2, m, q) /\ m # u.root
        BY <2>2, <2>3
      <4>1. PICK f : Short(u, N, new, bh2, m, q, f)
        BY <4>0 DEF Erasing, Settled
      <4>2. Gap(u, N, new, bh2, m, q, f)
        BY <4>1 DEF Short
      <4>3. u \in TreeOn(N) /\ f \in Side /\ q \in N /\ u.kid[f][q] = m
        <5>1. u \in TreeOn(N) /\ f \in Side /\ q \in new[u.root] /\ u.kid[f][q] = m
          BY <4>2 DEF Gap, Tree
        <5>2. new \in [N \cup {NULL} -> SUBSET N]
          BY <4>2 DEF Gap, Tree
        <5>3. QED
          BY <5>1, <5>2, KidType
      <4>4. m \in N \cup {NULL} /\ new \in [N \cup {NULL} -> SUBSET N]
        BY <4>2, <4>3, KidType DEF Gap, Tree
      <4>5. QED
        BY <4>4
    <3>3. IsFiniteSet(new[m]) /\ sub[n] # new[m]
      BY <3>1, <3>2, FS_Subset
    <3>4. Cardinality(sub[n]) < Cardinality(new[m]) /\ Cardinality(sub[n]) \in Nat
          /\ Cardinality(new[m]) \in Nat
      BY <3>1, <3>3, FS_Subset, FS_CardinalityType
    <3>5. QED
      BY <1>1, <1>3, <3>4
  <2>4. Trails(u, X, m, q, old, new, d)
    <3>1. sub = old /\ (d \in sub[n] \/ d = p)
      BY <1>1, <1>3 DEF Trails
    <3>2. QED
      BY <1>1, <2>2, <3>1
  <2>5. QED
    BY <1>1, <2>2, <2>3, <2>4 DEF EraseAt
<1>4. QED
  BY <1>2, <1>3

\* The last step of __rb_erase_color: the node, when there is one, gets black.
LEMMA NodeBlackens ==
    ASSUME NEW N, NULL \notin N, NEW t, NEW sub, NEW bh, NEW n, NEW p,
           Erasing(t, N, sub, bh, n, p), Red(t, n) \/ n = t.root,
           NEW S, NEW v, Whole(t, N, S, sub, v), NEW w, w = SetBlack(t, {n} \ {NULL}),
           NEW X, X = sub[t.root]
    PROVE  GoodAs(w, N, S, X, v, sub)
<1>X. X = sub[t.root]
  OBVIOUS
<1>1. /\ Tree(t, N, sub) /\ t \in TreeOn(N) /\ n \in N \cup {NULL} /\ X \subseteq N
      /\ sub \in [N \cup {NULL} -> SUBSET N] /\ sub[NULL] = {}
  <2>1. Tree(t, N, sub)
    BY DEF Whole
  <2>2. /\ t \in TreeOn(N) /\ sub \in [N \cup {NULL} -> SUBSET N] /\ sub[NULL] = {}
        /\ t.root \in N \cup {NULL}
    BY <2>1, KidType DEF Tree
  <2>3. n = t.root \/ \E s : Short(t, N, sub, bh, n, p, s)
    BY DEF Erasing, Settled
  <2>4. ASSUME NEW s, Short(t, N, sub, bh, n, p, s) PROVE n \in N \cup {NULL}
    <3>1. s \in Side /\ p \in sub[t.root] /\ t.kid[s][p] = n
      BY <2>4 DEF Short, Gap
    <3>2. QED
      BY <2>2, <3>1, KidType
  <2>5. QED
    BY <1>X, <2>1, <2>2, <2>3, <2>4
<1>u. PICK u : u = SetBlack(t, {n} \ {NULL})
  OBVIOUS
<1>2. /\ u \in TreeOn(N) /\ u.root = t.root /\ u.kid = t.kid /\ u.par = t.par
      /\ u.black = t.black \cup ({n} \ {NULL})
  <2>1. {n} \ {NULL} \in SUBSET N
    BY <1>1
  <2>2. PICK R : R = {n} \ {NULL}
    OBVIOUS
  <2>3. /\ u \in TreeOn(N) /\ u.root = t.root /\ u.kid = t.kid /\ u.par = t.par
        /\ u.black = t.black \cup R
    BY <1>1, <1>u, <2>1, <2>2 DEF SetBlack, TreeOn
  <2>4. QED
    BY <2>2, <2>3
<1>3. Whole(u, N, S, sub, v)
  BY <1>2, PaintKeepsWhole
<1>4. CASE Settled(t, N, sub, bh, n)
  <2>1. /\ n = t.root /\ Level(t, N, X, bh)
        /\ \A m \in X \ t.black, d \in Side : ~Red(t, t.kid[d][m])
    BY <1>4, <1>X DEF Settled
  <2>2. CASE ~Red(t, n)
    <3>1. u.black = t.black
      BY <1>2, <2>2 DEF Red
    <3>2. Level(u, N, X, bh)
      BY <1>2, <2>1, <3>1 DEF Level, One
    <3>3. RbShape(u, sub, bh)
      BY <1>2, <1>X, <2>1, <2>2, <3>1 DEF RbShape, Red
    <3>4. QED
      BY <1>2, <1>3, <1>u, <1>X, <3>2, <3>3 DEF GoodAs
  <2>3. CASE Red(t, n)
    <3>1. n # NULL /\ n \in X \ t.black /\ t.par[n] = NULL
      BY <1>1, <1>X, <2>1, <2>3 DEF Tree, Red
    <3>2. Inserting(t, N, sub, bh, n)
      BY <1>1, <1>X, <2>1, <3>1 DEF Inserting
    <3>3. ~Red(t, t.par[n])
      BY <3>1 DEF Red
    <3>4. GoodAs(SetBlack(t, {t.root}), N, S, X, v, sub)
      BY <1>X, <3>2, <3>3, RootBlackens
    <3>5. {t.root} = {n} \ {NULL}
      BY <2>1, <3>1
    <3>6. QED
      BY <1>2, <1>u, <1>X, <3>4, <3>5
  <2>4. QED
    BY <2>2, <2>3
<1>5. CASE \E s : Short(t, N, sub, bh, n, p, s)
  <2>1. PICK s : Short(t, N, sub, bh, n, p, s)
    BY <1>5
  <2>2. /\ Counts(t, N, X, bh, p, s) /\ s \in Side /\ p \in X /\ t.kid[s][p] = n /\ ~Red(t, t.root)
        /\ \A m \in X \ t.black, d \in Side : Red(t, t.kid[d][m]) => n \in {m, t.kid[d][m]}
    BY <1>X, <2>1 DEF Short, Gap
  <2>o. PICK o : o = t.kid[Other(s)][p]
    OBVIOUS
  <2>3. n # t.root /\ o # n /\ n # p /\ bh[n] \in Nat /\ n \in X \cup {NULL}
    <3>1. Gap(t, N, sub, bh, n, p, s)
      BY <2>1 DEF Short
    <3>2. AroundGap(t, N, sub, bh, n, p, s, o)
      BY <2>o, <3>1, GapKin
    <3>3. QED
      BY <1>X, <3>2 DEF AroundGap
  <2>4. n # NULL /\ n \notin t.black /\ n \in X /\ n \in N
    BY <1>1, <2>3 DEF Red
  <2>5. /\ bh \in [N \cup {NULL} -> Nat] /\ bh[NULL] = 0
        /\ \A m \in X, d \in Side : bh[m] = One(t, m) + bh[t.kid[d][m]] + Lack(m, d, p, s)
    BY <2>2 DEF Counts
  <2>6. \A m \in X, d \in Side : t.kid[d][m] = n <=> m = p /\ d = s
    <3>1. \A m \in X, d \in Side : t.kid[d][m] # NULL => t.par[t.kid[d][m]] = m
      BY <1>1, <1>X DEF Tree, Agrees
    <3>2. \A m \in X, d \in Side : t.kid[d][m] = n => m = p
      BY <2>2, <2>4, <3>1
    <3>3. \A d \in Side : d # s => t.kid[d][p] = o
      BY <2>2, <2>o, TwoSides
    <3>4. QED
      BY <2>2, <2>3, <3>2, <3>3
  <2>7. PICK b2 : b2 = [m \in N \cup {NULL} |-> IF m = n THEN bh[n] + 1 ELSE bh[m]]
    OBVIOUS
  <2>8. /\ b2 \in [N \cup {NULL} -> Nat] /\ b2[NULL] = 0 /\ b2[n] = bh[n] + 1
        /\ \A m \in N \cup {NULL} : m # n => b2[m] = bh[m]
    <3>1. \A m \in N \cup {NULL} : bh[m] \in Nat
      BY <2>5
    <3>2. bh[n] + 1 \in Nat
      BY <2>3
    <3>3. \A m \in N \cup {NULL} : b2[m] = IF m = n THEN bh[n] + 1 ELSE bh[m]
      BY <2>7
    <3>4. b2 \in [N \cup {NULL} -> Nat]
      BY <2>7, <3>1, <3>2
    <3>5. QED
      BY <2>4, <2>5, <3>3, <3>4
  <2>9. One(t, n) = 0 /\ One(u, n) = 1 /\ \A m : m # n => One(u, m) = One(t, m)
    BY <1>2, <2>4 DEF One
  <2>10. ASSUME NEW m \in X, NEW d \in Side PROVE b2[m] = One(u, m) + b2[u.kid[d][m]]
    <3>1. PICK x : x = t.kid[d][m]
      OBVIOUS
    <3>2. u.kid[d][m] = x /\ x \in N \cup {NULL} /\ m \in N
      BY <1>1, <1>2, <3>1, KidType
    <3>3. PICK y \in Nat, j \in Nat, l \in Nat : y = bh[x] /\ j = One(t, m) /\ l = Lack(m, d, p, s)
      BY <2>5, <3>2 DEF One, Lack
    <3>4. bh[m] = j + y + l
      BY <2>5, <3>1, <3>3
    <3>5. CASE m = n
      <4>1. j = 0 /\ l = 0 /\ x # n
        BY <2>3, <2>6, <2>9, <3>1, <3>3, <3>5 DEF Lack
      <4>2. b2[x] = y /\ b2[m] = bh[m] + 1 /\ One(u, m) = 1
        BY <2>8, <2>9, <3>2, <3>3, <3>5, <4>1
      <4>3. QED
        BY <3>2, <3>4, <4>1, <4>2
    <3>6. CASE m # n /\ x = n
      <4>1. l = 1
        BY <2>6, <3>1, <3>3, <3>6 DEF Lack
      <4>2. b2[x] = y + 1 /\ b2[m] = bh[m] /\ One(u, m) = j
        BY <2>8, <2>9, <3>2, <3>3, <3>6
      <4>3. QED
        BY <3>2, <3>4, <4>1, <4>2
    <3>7. CASE m # n /\ x # n
      <4>1. l = 0
        BY <2>6, <3>1, <3>3, <3>7 DEF Lack
      <4>2. b2[x] = y /\ b2[m] = bh[m] /\ One(u, m) = j
        BY <2>8, <2>9, <3>2, <3>3, <3>7
      <4>3. QED
        BY <3>2, <3>4, <4>1, <4>2
    <3>8. QED
      BY <3>5, <3>6, <3>7
  <2>11. Level(u, N, X, b2)
    BY <2>8, <2>10 DEF Level
  <2>12. RbShape(u, sub, b2)
    <3>1. ~Red(u, u.root)
      BY <1>2, <2>2 DEF Red
    <3>2. ASSUME NEW m \in X \ u.black, NEW d \in Side PROVE ~Red(u, u.kid[d][m])
      <4>1. u.black = t.black \cup {n} /\ u.kid[d][m] = t.kid[d][m]
        BY <1>2, <2>4
      <4>2. QED
        BY <2>2, <4>1 DEF Red
    <3>3. QED
      BY <1>2, <1>X, <3>1, <3>2 DEF RbShape
  <2>13. QED
    BY <1>2, <1>3, <1>u, <1>X, <2>11, <2>12 DEF GoodAs
<1>6. QED
  BY <1>4, <1>5 DEF Erasing

\* u is a red-black tree of X that differs from sub only where d covers
Erased(u, N, S, X, v, sub, d) ==
    \E new : GoodAs(u, N, S, X, v, new) /\ Tracks(u, X, sub, new, d)

\* __rb_erase_color gives back a red-black tree of the same nodes.
LEMMA EraseColors ==
    ASSUME NEW N, NULL \notin N, IsFiniteSet(N), NEW t, NEW sub, NEW bh, NEW n,
           NEW p \in N \cup {NULL}, Erasing(t, N, sub, bh, n, p),
           NEW S, NEW v, Whole(t, N, S, sub, v),
           NEW d \in {p} \cup sub[n], NEW X, X = sub[t.root]
    PROVE  Erased(EraseColor(t, n, p), N, S, X, v, sub, d)
<1>X. X = sub[t.root]
  OBVIOUS
<1>x. PICK x : x = [tree |-> t, node |-> n, par |-> p]
  OBVIOUS
<1> DEFINE loop[i \in Nat] == IF i = 0 THEN x ELSE EraseTurn(loop[i - 1])
           end == loop[Cardinality(DOMAIN t.par)]
<1>1. EraseColor(t, n, p) = SetBlack(end.tree, {end.node} \ {NULL})
  BY <1>x DEF EraseColor
<1> DEFINE Q == {y \in [tree : TreeOn(N), node : N \cup {NULL}, par : N \cup {NULL}] :
                     \E i \in Nat : EraseAt(y, N, S, X, v, i, sub, d)}
           F == [y \in Q |-> EraseTurn(y)]
<1>2. ASSUME NEW y, NEW i \in Nat, EraseAt(y, N, S, X, v, i, sub, d) PROVE y \in Q
  <2>1. PICK u, m, q, new, bh2 : /\ y = [tree |-> u, node |-> m, par |-> q]
                                 /\ Erasing(u, N, new, bh2, m, q) /\ q \in N \cup {NULL}
                                 /\ Whole(u, N, S, new, v)
    BY <1>2 DEF EraseAt
  <2>2. u \in TreeOn(N) /\ u.root \in N \cup {NULL} /\ new[u.root] \subseteq N
    BY <2>1, KidType DEF Whole, Tree
  <2>3. m \in N \cup {NULL}
    <3>1. m = u.root \/ \E s : Short(u, N, new, bh2, m, q, s)
      BY <2>1 DEF Erasing, Settled
    <3>2. ASSUME NEW s, Short(u, N, new, bh2, m, q, s) PROVE m \in N \cup {NULL}
      <4>1. s \in Side /\ q \in new[u.root] /\ u.kid[s][q] = m
        BY <3>2 DEF Short, Gap
      <4>2. QED
        BY <2>2, <4>1, KidType
    <3>3. QED
      BY <2>2, <3>1, <3>2
  <2>4. QED
    BY <1>2, <2>1, <2>2, <2>3
<1>3. EraseAt(x, N, S, X, v, 0, sub, d)
  <2>1. ~Red(t, n) /\ n # t.root => Cardinality(sub[n]) >= 0
    <3>1. sub \in [N \cup {NULL} -> SUBSET N] /\ t \in TreeOn(N) /\ sub[t.root] \subseteq N
      BY KidType DEF Whole, Tree
    <3>2. ASSUME NEW s, Short(t, N, sub, bh, n, p, s) PROVE n \in N \cup {NULL}
      <4>1. s \in Side /\ p \in sub[t.root] /\ t.kid[s][p] = n
        BY <3>2 DEF Short, Gap
      <4>2. QED
        BY <3>1, <4>1, KidType
    <3>3. n # t.root => n \in N \cup {NULL}
      BY <3>2 DEF Erasing, Settled
    <3>4. n # t.root => IsFiniteSet(sub[n])
      BY <3>1, <3>3, FS_Subset
    <3>5. QED
      BY <3>4, FS_CardinalityType
  <2>2. Trails(t, X, n, p, sub, sub, d)
    BY DEF Trails
  <2>3. QED
    BY <1>X, <1>x, <2>1, <2>2 DEF EraseAt
<1>4. x \in Q
  BY <1>2, <1>3
<1>5. F \in [Q -> Q]
  <2>1. ASSUME NEW y \in Q PROVE EraseTurn(y) \in Q
    <3>1. PICK i \in Nat : EraseAt(y, N, S, X, v, i, sub, d)
      OBVIOUS
    <3>2. EraseAt(EraseTurn(y), N, S, X, v, i + 1, sub, d) /\ i + 1 \in Nat
      BY <3>1, EraseAtNext
    <3>3. QED
      BY <1>2, <3>2
  <2>2. QED
    BY <2>1
<1>f. \A y \in Q : F[y] = EraseTurn(y)
  OBVIOUS
<1> HIDE DEF Q, F
<1>6. \E f : f = [i \in Nat |-> IF i = 0 THEN x ELSE EraseTurn(f[i - 1])]
  <2>0. PICK f : Iterates(f, Q, F, x)
    BY <1>4, <1>5, Iteration
  <2>1. f \in [Nat -> Q] /\ f[0] = x /\ \A i \in Nat : f[i + 1] = F[f[i]]
    BY <2>0 DEF Iterates
  <2>2. ASSUME NEW i \in Nat PROVE f[i] = IF i = 0 THEN x ELSE EraseTurn(f[i - 1])
    <3>1. CASE i = 0
      BY <2>1, <3>1
    <3>2. CASE i # 0
      <4>1. i - 1 \in Nat /\ (i - 1) + 1 = i
        BY <3>2
      <4>2. f[i] = F[f[i - 1]] /\ f[i - 1] \in Q
        BY <2>1, <4>1
      <4>3. QED
        BY <1>f, <3>2, <4>2
    <3>3. QED
      BY <3>1, <3>2
  <2>3. f = [i \in Nat |-> IF i = 0 THEN x ELSE EraseTurn(f[i - 1])]
    BY <2>1, <2>2
  <2>4. QED
    BY <2>3
<1>7. loop = [i \in Nat |-> IF i = 0 THEN x ELSE EraseTurn(loop[i - 1])]
  BY <1>6
<1> HIDE DEF loop
<1>8. ASSUME NEW k \in Nat PROVE EraseAt(loop[k], N, S, X, v, k, sub, d)
  <2> DEFINE Bad == {i \in Nat : ~ EraseAt(loop[i], N, S, X, v, i, sub, d)}
  <2>1. SUFFICES ASSUME Bad # {} PROVE FALSE
    OBVIOUS
  <2>2. PICK i \in Bad : \A j \in Bad : i <= j
    BY <2>1, Least
  <2>3. i # 0
    BY <1>3, <1>7, <2>2
  <2>4. i - 1 \in Nat /\ i \in Nat /\ i - 1 < i
    BY <2>2, <2>3
  <2>5. EraseAt(loop[i - 1], N, S, X, v, i - 1, sub, d)
    <3>1. i - 1 \notin Bad
      <4> HIDE DEF Bad
      <4>1. QED
        BY <2>2, <2>4
    <3>2. QED
      BY <2>4, <3>1
  <2>6. EraseAt(EraseTurn(loop[i - 1]), N, S, X, v, (i - 1) + 1, sub, d) /\ (i - 1) + 1 = i
    BY <2>4, <2>5, EraseAtNext
  <2>7. loop[i] = EraseTurn(loop[i - 1])
    BY <1>7, <2>3, <2>4
  <2>8. QED
    BY <2>2, <2>6, <2>7
<1>9. PICK k \in Nat : k = Cardinality(DOMAIN t.par) /\ k = Cardinality(N)
  <2>1. DOMAIN t.par = N
    BY KidType DEF Whole, Tree
  <2>2. QED
    BY <2>1, FS_CardinalityType
<1>10. PICK u, m, q, new, bh2 :
           /\ loop[k] = [tree |-> u, node |-> m, par |-> q]
           /\ Erasing(u, N, new, bh2, m, q) /\ new[u.root] = X
           /\ Whole(u, N, S, new, v)
           /\ ~Red(u, m) /\ m # u.root => Cardinality(new[m]) >= k
           /\ Trails(u, X, m, q, sub, new, d)
  BY <1>8 DEF EraseAt
<1>11. Red(u, m) \/ m = u.root
  <2> SUFFICES ASSUME ~Red(u, m), m # u.root PROVE FALSE
    OBVIOUS
  <2>0. Erasing(u, N, new, bh2, m, q)
    BY <1>10
  <2>1. PICK s : Short(u, N, new, bh2, m, q, s)
    BY <2>0 DEF Erasing, Settled
  <2>2. Tree(u, N, new) /\ s \in Side /\ q \in new[u.root] /\ u.kid[s][q] = m
    BY <2>1 DEF Short, Gap
  <2>3. /\ u \in TreeOn(N) /\ new \in [N \cup {NULL} -> SUBSET N] /\ u.root \in N \cup {NULL}
        /\ q \notin new[m]
    BY <2>2, KidType DEF Tree, Splits
  <2>4. q \in N /\ m \in N \cup {NULL}
    BY <2>2, <2>3, KidType
  <2>5. new[m] \subseteq N /\ new[m] # N
    BY <2>3, <2>4
  <2>6. Cardinality(new[m]) < Cardinality(N) /\ Cardinality(new[m]) \in Nat
    BY <2>5, FS_Subset, FS_CardinalityType
  <2>7. QED
    BY <1>9, <1>10, <2>6
<1>w. PICK w : w = SetBlack(u, {m} \ {NULL})
  OBVIOUS
<1>12. GoodAs(w, N, S, X, v, new) /\ w.kid = u.kid
  <2>1. /\ Erasing(u, N, new, bh2, m, q) /\ (Red(u, m) \/ m = u.root)
        /\ Whole(u, N, S, new, v)
    BY <1>10, <1>11
  <2>2. w = SetBlack(u, {m} \ {NULL}) /\ X = new[u.root]
    BY <1>10, <1>w
  <2>3. GoodAs(w, N, S, X, v, new)
    BY <2>1, <2>2, NodeBlackens
  <2>4. w.kid = u.kid
    BY <2>2 DEF SetBlack
  <2>5. QED
    BY <2>3, <2>4
<1>13. Tracks(w, X, sub, new, d)
  <2>1. CASE new = sub
    BY <2>1 DEF Tracks
  <2>2. CASE Tracks(u, X, sub, new, d)
    BY <1>12, <2>2 DEF Tracks, Covers
  <2>3. QED
    BY <1>10, <2>1, <2>2 DEF Trails
<1>14. end.tree = u /\ end.node = m
  BY <1>9, <1>10
<1>15. EraseColor(t, n, p) = w
  BY <1>1, <1>14, <1>w
<1>16. QED
  BY <1>12, <1>13, <1>15 DEF Erased

-----------------------------------------------------------------------------
(* rb_erase of a node with at most one child                                 *)

\* the one pointer, besides the root, through which z is reached
HangsAt(t, X, z, f) ==
    /\ t.par[z] \in X /\ f \in Side /\ t.kid[f][t.par[z]] = z
    /\ \A m \in X, d \in Side : t.kid[d][m] = z => m = t.par[z] /\ d = f

LEMMA OneParent ==
    ASSUME NEW N, NULL \notin N, NEW t, NEW sub, Tree(t, N, sub), NEW X, X = sub[t.root],
           NEW z \in X
    PROVE  /\ z \in N /\ z # NULL /\ t \in TreeOn(N) /\ X \subseteq N
           /\ z = t.root => t.par[z] = NULL /\ \A m \in X, d \in Side : t.kid[d][m] # z
           /\ z # t.root => \E f \in Side : HangsAt(t, X, z, f)
<1>1. z \in N /\ z # NULL /\ t \in TreeOn(N) /\ X \subseteq N
  BY KidType DEF Tree
<1>2. \A m \in X, d \in Side : t.kid[d][m] # NULL => t.par[t.kid[d][m]] = m
  BY DEF Tree, Agrees
<1>3. CASE z = t.root
  <2>1. t.par[z] = NULL
    BY <1>1, <1>3 DEF Tree
  <2>2. QED
    BY <1>1, <1>2, <1>3, <2>1
<1>4. CASE z # t.root
  <2>1. Agrees(t, X, z)
    BY DEF Tree
  <2>2. t.par[z] \in X /\ \E f \in Side : t.kid[f][t.par[z]] = z
    BY <1>4, <2>1, Zenon DEF Agrees
  <2>p. PICK p : p = t.par[z]
    OBVIOUS
  <2>3. PICK f \in Side : t.kid[f][p] = z
    BY <2>p, <2>2, Zenon
  <2>4. p \in X /\ p \in sub[t.root]
    BY <2>p, <2>2
  <2>5. z # t.kid[Other(f)][p]
    <3>1. \A y : y = t.kid[f][p] /\ y # NULL => y # t.kid[Other(f)][p]
      BY <2>4, Family
    <3>2. QED
      BY <1>1, <2>3, <3>1
  <2>6. \A d \in Side : d = f \/ d = Other(f)
    BY TwoSides
  <2>7. ASSUME NEW m \in X, NEW d \in Side, t.kid[d][m] = z PROVE m = p /\ d = f
    <3>1. m = p
      BY <1>1, <1>2, <2>p, <2>7
    <3>2. QED
      BY <2>5, <2>6, <2>7, <3>1
  <2>8. HangsAt(t, X, z, f)
    BY <2>p, <2>2, <2>3, <2>7 DEF HangsAt
  <2>9. QED
    BY <1>1, <1>4, <2>8
<1>5. QED
  BY <1>3, <1>4

\* u is t after c took the place of its parent z
IsCut(u, t, N, X, z, c) ==
    /\ u \in TreeOn(N) /\ u.black = t.black
    /\ u.root = IF z = t.root THEN c ELSE t.root
    /\ \A m \in N : u.par[m] = IF m = c THEN t.par[z] ELSE t.par[m]
    /\ \A m \in X, d \in Side : u.kid[d][m] = IF t.kid[d][m] = z THEN c ELSE t.kid[d][m]
    /\ \A m \in N \ X, d \in Side : u.kid[d][m] = t.kid[d][m]

LEMMA CutLinks ==
    ASSUME NEW N, NULL \notin N, NEW t, NEW sub, Tree(t, N, sub), NEW X, X = sub[t.root],
           NEW z \in X, NEW c \in N \cup {NULL}
    PROVE  IsCut(EraseLeaf(t, z, c), t, N, X, z, c)
<1>p. PICK p : p = t.par[z]
  OBVIOUS
<1>1. /\ z \in N /\ z # NULL /\ t \in TreeOn(N) /\ X \subseteq N /\ "L" \in Side
      /\ p \in N \cup {NULL}
  BY <1>p, OneParent, KidType DEF Side
<1>w. PICK w : w = SetParent(t, c, p)
  OBVIOUS
<1>2. /\ w \in TreeOn(N) /\ w.root = t.root /\ w.kid = t.kid /\ w.black = t.black
      /\ \A m \in N : w.par[m] = IF m = c THEN p ELSE t.par[m]
  <2>1. t \in TreeOn(N) /\ p \in N \cup {NULL}
    BY <1>1
  <2>2. ParentSet(w, t, N, c, p)
    BY <1>w, <2>1, SetsParent
  <2>3. QED
    BY <2>2 DEF ParentSet
<1>u. PICK u : u = Hang(w, p, "L", z, c)
  OBVIOUS
<1>3. /\ u \in TreeOn(N) /\ u.par = w.par /\ u.black = w.black
      /\ u.root = IF p = NULL THEN c ELSE w.root
      /\ \A d \in Side, m \in N :
             u.kid[d][m] = IF m = p /\ d = Hook(w, "L", p, z) THEN c ELSE w.kid[d][m]
  BY <1>1, <1>2, <1>u, Hangs
<1>4. u = EraseLeaf(t, z, c)
  BY <1>p, <1>u, <1>w DEF EraseLeaf
<1>5. CASE z = t.root
  <2>1. p = NULL /\ \A m \in X, d \in Side : t.kid[d][m] # z
    BY <1>p, <1>5, OneParent
  <2>2. \A m \in N, d \in Side : u.kid[d][m] = t.kid[d][m]
    BY <1>1, <1>2, <1>3, <2>1
  <2>3. QED
    BY <1>1, <1>2, <1>3, <1>4, <1>5, <1>p, <2>1, <2>2 DEF IsCut
<1>6. CASE z # t.root
  <2>1. PICK f \in Side : HangsAt(t, X, z, f)
    BY <1>6, OneParent
  <2>2. /\ p \in X /\ t.kid[f][p] = z
        /\ \A m \in X, d \in Side : t.kid[d][m] = z => m = p /\ d = f
    BY <1>p, <2>1 DEF HangsAt
  <2>3. Hook(w, "L", p, z) = f
    BY <1>2, <2>2 DEF Hook, Side, Other
  <2>4. \A m \in X, d \in Side : u.kid[d][m] = IF t.kid[d][m] = z THEN c ELSE t.kid[d][m]
    BY <1>1, <1>2, <1>3, <2>2, <2>3
  <2>5. \A m \in N \ X, d \in Side : u.kid[d][m] = t.kid[d][m]
    BY <1>1, <1>2, <1>3, <2>2
  <2>6. p # NULL
    BY <1>1, <2>2
  <2>7. QED
    BY <1>2, <1>3, <1>4, <1>6, <1>p, <2>4, <2>5, <2>6 DEF IsCut
<1>7. QED
  BY <1>5, <1>6

\* the node z leaves all subtrees
Without(N, sub, z) == [m \in N \cup {NULL} |-> sub[m] \ {z}]

LEMMA CutTree ==
    ASSUME NEW N, NULL \notin N, NEW t, NEW S, NEW sub, NEW v, Whole(t, N, S, sub, v),
           NEW X, X = sub[t.root], NEW z \in X, NEW f \in Side, t.kid[f][z] = NULL,
           NEW c, c = t.kid[Other(f)][z], NEW u, IsCut(u, t, N, X, z, c)
    PROVE  /\ Whole(u, N, S, Without(N, sub, z), v)
           /\ Without(N, sub, z)[u.root] = X \ {z}
           /\ \A m \in X \ {z}, d \in Side :
                  u.kid[d][m] = IF t.kid[d][m] = z THEN c ELSE t.kid[d][m]
<1>n. PICK new : new = Without(N, sub, z)
  OBVIOUS
<1>1. /\ Tree(t, N, sub) /\ Ordered(t, sub, v) /\ S \subseteq N /\ S \cap X = {} /\ Rest(t, S)
  BY DEF Whole
<1>2. /\ t \in TreeOn(N) /\ X \subseteq N /\ z \in N /\ z # NULL /\ Other(f) \in Side
      /\ sub \in [N \cup {NULL} -> SUBSET N] /\ sub[NULL] = {} /\ t.root \in N \cup {NULL}
  <2>1. t \in TreeOn(N) /\ sub \in [N \cup {NULL} -> SUBSET N] /\ sub[NULL] = {}
    BY <1>1 DEF Tree
  <2>2. t.root \in N \cup {NULL} /\ Other(f) \in Side
    BY <2>1, KidType, TwoSides
  <2>3. QED
    BY <2>1, <2>2
<1>3. c \in N \cup {NULL} /\ c # z /\ (c # NULL => c \in X /\ c \in sub[c] /\ t.par[c] = z)
  <2>1. c \in N \cup {NULL}
    BY <1>2, KidType
  <2>2. c # NULL => c \in X /\ c \in sub[c] /\ t.par[c] = z /\ c # z
    BY <1>1, <1>2, Family
  <2>3. QED
    BY <1>2, <2>1, <2>2
<1>4. sub[z] = {z} \cup sub[c] /\ z \notin sub[c]
  <2>1. Splits(t, sub, z, f)
    BY <1>1 DEF Tree
  <2>2. QED
    BY <1>2, <2>1 DEF Splits
<1>5. /\ new \in [N \cup {NULL} -> SUBSET N] /\ new[NULL] = {}
      /\ \A m \in N \cup {NULL} : new[m] = sub[m] \ {z}
  BY <1>2, <1>n, Zenon DEF Without
<1>6. /\ u \in TreeOn(N) /\ u.black = t.black
      /\ u.root = IF z = t.root THEN c ELSE t.root
      /\ \A m \in N : u.par[m] = IF m = c THEN t.par[z] ELSE t.par[m]
      /\ \A m \in X, d \in Side : u.kid[d][m] = IF t.kid[d][m] = z THEN c ELSE t.kid[d][m]
      /\ \A m \in N \ X, d \in Side : u.kid[d][m] = t.kid[d][m]
  BY DEF IsCut
<1>7. new[u.root] = X \ {z}
  BY <1>2, <1>3, <1>4, <1>5, <1>6
<1>8. u.root # NULL => u.root \in new[u.root] /\ u.par[u.root] = NULL
  <2>1. CASE z = t.root
    BY <1>1, <1>2, <1>3, <1>5, <1>6, <2>1 DEF Tree
  <2>2. CASE z # t.root
    BY <1>1, <1>2, <1>3, <1>5, <1>6, <2>2 DEF Tree
  <2>3. QED
    BY <2>1, <2>2
\* what is below a pointer is what was below it, without z
<1>9. ASSUME NEW m \in X \ {z}, NEW d \in Side
      PROVE  new[u.kid[d][m]] = sub[t.kid[d][m]] \ {z}
  <2>1. t.kid[d][m] \in N \cup {NULL}
    BY <1>2, KidType
  <2>2. CASE t.kid[d][m] = z
    BY <1>3, <1>4, <1>5, <1>6, <2>2
  <2>3. CASE t.kid[d][m] # z
    BY <1>5, <1>6, <2>1, <2>3
  <2>4. QED
    BY <2>2, <2>3
<1>10. ASSUME NEW n \in X \ {z} PROVE Agrees(u, X \ {z}, n) /\ new[n] \subseteq X \ {z}
  <2>1. ASSUME NEW d \in Side, u.kid[d][n] # NULL
        PROVE  u.kid[d][n] \in X \ {z} /\ u.par[u.kid[d][n]] = n
    <3>1. t.kid[d][n] # NULL => t.kid[d][n] \in X /\ t.par[t.kid[d][n]] = n
      BY <1>1 DEF Tree, Agrees
    <3>2. CASE t.kid[d][n] = z
      <4>1. u.kid[d][n] = c /\ c # NULL
        BY <1>6, <2>1, <3>2
      <4>2. t.par[z] = n /\ c \in X \ {z} /\ c \in N
        BY <1>2, <1>3, <3>1, <3>2, <4>1
      <4>3. u.par[c] = n
        BY <1>6, <4>2
      <4>4. QED
        BY <4>1, <4>2, <4>3
    <3>3. CASE t.kid[d][n] # z
      <4>x. PICK x : x = t.kid[d][n]
        OBVIOUS
      <4>1. u.kid[d][n] = x /\ x # NULL /\ x \in X \ {z} /\ t.par[x] = n /\ x \in N
        BY <1>2, <1>6, <2>1, <3>1, <3>3, <4>x
      <4>2. x # c
        BY <1>3, <4>1
      <4>3. u.par[x] = n
        BY <1>6, <4>1, <4>2
      <4>4. QED
        BY <4>1, <4>3
    <3>4. QED
      BY <3>2, <3>3
  <2>2. ASSUME n # u.root
        PROVE  u.par[n] \in X \ {z} /\ \E s \in Side : u.kid[s][u.par[n]] = n
    <3>1. CASE n = c
      <4>1. z # t.root
        BY <1>6, <2>2, <3>1
      <4>2. PICK g \in Side : HangsAt(t, X, z, g)
        BY <1>1, <4>1, OneParent
      <4>q. PICK q : q = t.par[z]
        OBVIOUS
      <4>3. q \in X /\ t.kid[g][q] = z
        BY <4>2, <4>q DEF HangsAt
      <4>4. q # z
        BY <1>1, <4>3 DEF Tree, Splits
      <4>5. u.par[n] = q /\ u.kid[g][q] = c
        BY <1>2, <1>6, <3>1, <4>q, <4>3
      <4>6. QED
        BY <3>1, <4>3, <4>4, <4>5
    <3>2. CASE n # c
      <4>1. n # t.root
        BY <1>6, <2>2
      <4>2. PICK g \in Side : HangsAt(t, X, n, g)
        BY <1>1, <4>1, OneParent
      <4>q. PICK q : q = t.par[n]
        OBVIOUS
      <4>3. q \in X /\ t.kid[g][q] = n
        BY <4>2, <4>q DEF HangsAt
      <4>4. q # z
        <5>1. q = z => t.kid[f][z] = n \/ t.kid[Other(f)][z] = n
          BY <4>3, TwoSides
        <5>2. n # NULL
          BY <1>2
        <5>3. QED
          BY <3>2, <5>1, <5>2
      <4>5. u.par[n] = q /\ u.kid[g][q] = n
        BY <1>2, <1>6, <3>2, <4>q, <4>3
      <4>6. QED
        BY <4>3, <4>4, <4>5
    <3>3. QED
      BY <3>1, <3>2
  <2>3. new[n] \subseteq X \ {z}
    BY <1>1, <1>2, <1>5 DEF Tree
  <2>4. QED
    BY <2>1, <2>2, <2>3 DEF Agrees
<1>11. ASSUME NEW n \in X \ {z}, NEW s \in Side PROVE Splits(u, new, n, s)
  <2>1. Splits(t, sub, n, s) /\ Other(s) \in Side
    BY <1>1, TwoSides DEF Tree
  <2>a. PICK a : a = sub[t.kid[s][n]]
    OBVIOUS
  <2>b. PICK b : b = sub[t.kid[Other(s)][n]]
    OBVIOUS
  <2>2. sub[n] = {n} \cup a \cup b /\ n \notin a /\ n \notin b /\ a \cap b = {}
    BY <2>1, <2>a, <2>b DEF Splits
  <2>3. new[u.kid[s][n]] = a \ {z}
    BY <1>9, <2>a
  <2>4. new[u.kid[Other(s)][n]] = b \ {z}
    BY <1>9, <2>1, <2>b
  <2>5. new[n] = sub[n] \ {z}
    BY <1>2, <1>5
  <2>6. QED
    BY <2>2, <2>3, <2>4, <2>5 DEF Splits
<1>12. Tree(u, N, new)
  <2>1. \A n \in new[u.root] : Agrees(u, new[u.root], n) /\ new[n] \subseteq new[u.root]
    <3>1. PICK Y : Y = X \ {z}
      OBVIOUS
    <3>2. \A n \in Y : Agrees(u, Y, n) /\ new[n] \subseteq Y
      BY <1>10, <3>1
    <3>3. new[u.root] = Y
      BY <1>7, <3>1
    <3>4. QED
      BY <3>2, <3>3, Zenon
  <2>2. \A n \in new[u.root], s \in Side : Splits(u, new, n, s)
    BY <1>7, <1>11
  <2>3. u \in TreeOn(N) /\ new \in [N \cup {NULL} -> SUBSET N] /\ new[NULL] = {}
    BY <1>5, <1>6
  <2>4. QED
    BY <1>8, <2>1, <2>2, <2>3, Zenon DEF Tree
<1>13. Ordered(u, new, v)
  <2>1. ASSUME NEW n \in X \ {z}, NEW s \in Side, NEW m \in new[u.kid[s][n]]
        PROVE  Beside(s, v[m], v[n])
    <3>1. m \in sub[t.kid[s][n]]
      BY <1>9, <2>1
    <3>2. QED
      BY <1>1, <3>1 DEF Ordered
  <2>2. \A n \in X \ {z} : v[n] \in Nat
    BY <1>1 DEF Ordered
  <2>3. QED
    BY <1>7, <2>1, <2>2 DEF Ordered
<1>14. Rest(u, S) /\ S \cap new[u.root] = {}
  <2>1. \A m \in S : m \in N \ X /\ m # c
    BY <1>1, <1>2, <1>3
  <2>2. ASSUME NEW m \in S PROVE u.par[m] = m /\ \A s \in Side : u.kid[s][m] = NULL
    BY <1>1, <1>6, <2>1 DEF Rest
  <2>3. QED
    BY <1>1, <1>7, <2>2 DEF Rest
<1>15. Whole(u, N, S, new, v)
  BY <1>1, <1>12, <1>13, <1>14 DEF Whole
<1>16. QED
  BY <1>6, <1>7, <1>15, <1>n

\* a node z with at most one child leaves a red-black tree: nothing lacks when
\* z was red, and its child is where __rb_erase_color starts when z was black
Leaves(u, t, N, S, sub, v, bh, z, c) ==
    /\ IsCut(u, t, N, sub[t.root], z, c)
    /\ Whole(u, N, S, Without(N, sub, z), v)
    /\ Without(N, sub, z)[u.root] = sub[t.root] \ {z}
    /\ z \notin t.black => /\ Level(u, N, sub[t.root] \ {z}, bh)
                           /\ RbShape(u, Without(N, sub, z), bh)
                           /\ z # t.root
    /\ z \in t.black /\ z = t.root => Settled(u, N, Without(N, sub, z), bh, c)
    /\ z \in t.black /\ z # t.root => \E s : Short(u, N, Without(N, sub, z), bh, c, t.par[z], s)

LEMMA LeafGoes ==
    ASSUME NEW N, NULL \notin N, NEW t, NEW S, NEW sub, NEW v, NEW bh,
           Whole(t, N, S, sub, v), Level(t, N, sub[t.root], bh), RbShape(t, sub, bh),
           NEW z \in sub[t.root], NEW f \in Side, t.kid[f][z] = NULL,
           NEW c, c = t.kid[Other(f)][z]
    PROVE  Leaves(EraseLeaf(t, z, c), t, N, S, sub, v, bh, z, c)
<1>X. PICK X : X = sub[t.root]
  OBVIOUS
<1>n. PICK new : new = Without(N, sub, z)
  OBVIOUS
<1>u. PICK u : u = EraseLeaf(t, z, c)
  OBVIOUS
<1>1. /\ Tree(t, N, sub) /\ z \in X /\ z \in N /\ z # NULL /\ t \in TreeOn(N) /\ X \subseteq N
      /\ c \in N \cup {NULL}
  <2>1. Tree(t, N, sub)
    BY DEF Whole
  <2>2. t \in TreeOn(N) /\ z \in N /\ z # NULL /\ X \subseteq N /\ Other(f) \in Side
    BY <1>X, <2>1, OneParent, TwoSides
  <2>3. QED
    BY <1>X, <2>1, <2>2, KidType
<1>2. IsCut(u, t, N, X, z, c)
  BY <1>1, <1>X, <1>u, CutLinks
<1>3. Whole(u, N, S, new, v) /\ new[u.root] = X \ {z} /\ Tree(u, N, new)
  <2>1. Whole(u, N, S, new, v) /\ new[u.root] = X \ {z}
    BY <1>1, <1>2, <1>X, <1>n, CutTree
  <2>2. QED
    BY <2>1 DEF Whole
<1>4. /\ u.black = t.black /\ u.root = IF z = t.root THEN c ELSE t.root
      /\ \A m \in N : u.par[m] = IF m = c THEN t.par[z] ELSE t.par[m]
      /\ \A m \in X, d \in Side : u.kid[d][m] = IF t.kid[d][m] = z THEN c ELSE t.kid[d][m]
  BY <1>2 DEF IsCut
<1>5. /\ bh \in [N \cup {NULL} -> Nat] /\ bh[NULL] = 0
      /\ \A m \in X, d \in Side : bh[m] = One(t, m) + bh[t.kid[d][m]]
      /\ bh[z] = One(t, z) + bh[c] /\ \A m : One(u, m) = One(t, m)
  <2>1. /\ bh \in [N \cup {NULL} -> Nat] /\ bh[NULL] = 0
        /\ \A m \in X, d \in Side : bh[m] = One(t, m) + bh[t.kid[d][m]]
    BY <1>X DEF Level
  <2>2. bh[z] = One(t, z) + bh[c]
    BY <1>1, <2>1, TwoSides
  <2>3. \A m : One(u, m) = One(t, m)
    BY <1>4 DEF One
  <2>4. QED
    BY <2>1, <2>2, <2>3
<1>6. ~Red(t, t.root) /\ \A m \in X \ t.black, d \in Side : ~Red(t, t.kid[d][m])
  BY <1>X DEF RbShape
\* a red node with a red child in u: z was between them
<1>7. ASSUME NEW m \in (X \ {z}) \ u.black, NEW d \in Side, Red(u, u.kid[d][m])
      PROVE  u.kid[d][m] = c /\ z \in t.black
  <2>1. m \in X \ t.black
    BY <1>4, <1>7
  <2>2. ~Red(t, t.kid[d][m])
    BY <1>6, <2>1
  <2>3. t.kid[d][m] = z
    BY <1>4, <1>7, <2>1, <2>2 DEF Red
  <2>4. QED
    BY <1>1, <1>4, <2>1, <2>2, <2>3 DEF Red
<1>8. CASE z \notin t.black
  <2>1. z # t.root
    BY <1>1, <1>6, <1>8 DEF Red
  <2>2. ASSUME NEW m \in X \ {z}, NEW d \in Side PROVE bh[m] = One(u, m) + bh[u.kid[d][m]]
    <3>1. bh[z] = bh[c]
      <4>1. One(t, z) = 0 /\ bh[c] \in Nat
        BY <1>1, <1>5, <1>8 DEF One
      <4>2. QED
        BY <1>5, <4>1
    <3>2. bh[u.kid[d][m]] = bh[t.kid[d][m]]
      BY <1>4, <3>1
    <3>3. QED
      BY <1>5, <3>2
  <2>3. Level(u, N, X \ {z}, bh)
    BY <1>5, <2>2 DEF Level
  <2>4. ~Red(u, u.root)
    BY <1>4, <1>6, <2>1 DEF Red
  <2>5. RbShape(u, new, bh)
    BY <1>3, <1>7, <1>8, <2>4 DEF RbShape
  <2>6. QED
    BY <1>2, <1>3, <1>8, <1>X, <1>n, <1>u, <2>1, <2>3, <2>5 DEF Leaves
<1>9. CASE z \in t.black /\ z = t.root
  <2>1. \A m \in X, d \in Side : t.kid[d][m] # z
    BY <1>1, <1>9, <1>X, OneParent
  <2>2. ASSUME NEW m \in X \ {z}, NEW d \in Side PROVE bh[m] = One(u, m) + bh[u.kid[d][m]]
    BY <1>4, <1>5, <2>1
  <2>3. Level(u, N, X \ {z}, bh)
    BY <1>5, <2>2 DEF Level
  <2>4. ASSUME NEW m \in (X \ {z}) \ u.black, NEW d \in Side PROVE ~Red(u, u.kid[d][m])
    <3>1. m \in X \ t.black
      BY <1>4
    <3>2. ~Red(t, t.kid[d][m]) /\ u.kid[d][m] = t.kid[d][m]
      BY <1>4, <1>6, <2>1, <3>1
    <3>3. QED
      BY <1>4, <3>2 DEF Red
  <2>5. Settled(u, N, new, bh, c)
    BY <1>3, <1>4, <1>9, <2>3, <2>4 DEF Settled
  <2>6. QED
    BY <1>2, <1>3, <1>9, <1>X, <1>n, <1>u, <2>5 DEF Leaves
<1>10. CASE z \in t.black /\ z # t.root
  <2>1. PICK g \in Side : HangsAt(t, X, z, g)
    BY <1>1, <1>10, <1>X, OneParent
  <2>q. PICK q : q = t.par[z]
    OBVIOUS
  <2>2. /\ q \in X /\ t.kid[g][q] = z
        /\ \A m \in X, d \in Side : t.kid[d][m] = z => m = q /\ d = g
    BY <2>1, <2>q DEF HangsAt
  <2>3. q # z
    BY <1>1, <1>X, <2>2 DEF Tree, Splits
  <2>4. u.kid[g][q] = c /\ q \in X \ {z}
    BY <1>4, <2>2, <2>3
  <2>5. ASSUME NEW m \in X \ {z}, NEW d \in Side
        PROVE  bh[m] = One(u, m) + bh[u.kid[d][m]] + Lack(m, d, q, g)
    <3>x. PICK x : x = t.kid[d][m]
      OBVIOUS
    <3>1. x \in N \cup {NULL} /\ bh[x] \in Nat /\ bh[c] \in Nat
      BY <1>1, <1>5, <3>x, KidType
    <3>2. PICK j \in Nat : j = One(t, m) /\ j = One(u, m)
      BY <1>5 DEF One
    <3>3. bh[m] = j + bh[x]
      BY <1>5, <3>x, <3>2
    <3>4. CASE x = z
      <4>1. Lack(m, d, q, g) = 1
        BY <2>2, <3>x, <3>4 DEF Lack
      <4>2. bh[x] = 1 + bh[c]
        BY <1>5, <1>10, <3>4 DEF One
      <4>3. bh[u.kid[d][m]] = bh[c]
        <5>1. t.kid[d][m] = z
          BY <3>x, <3>4
        <5>2. u.kid[d][m] = c
          BY <1>4, <5>1
        <5>3. QED
          BY <5>2
      <4>4. bh[m] = j + bh[c] + 1
        BY <3>1, <3>3, <4>2
      <4>5. QED
        BY <3>2, <4>1, <4>3, <4>4
    <3>5. CASE x # z
      <4>1. Lack(m, d, q, g) = 0
        BY <2>2, <3>x, <3>5 DEF Lack
      <4>2. bh[u.kid[d][m]] = bh[x]
        BY <1>4, <3>x, <3>5
      <4>3. bh[m] = j + bh[x] + 0
        BY <3>1, <3>3
      <4>4. QED
        BY <3>2, <4>1, <4>2, <4>3
    <3>6. QED
      BY <3>4, <3>5
  <2>6. Counts(u, N, X \ {z}, bh, q, g)
    BY <1>5, <2>5 DEF Counts
  <2>7. Gap(u, N, new, bh, c, q, g)
    BY <1>3, <2>4, <2>6 DEF Gap
  <2>8. ~Red(u, u.root)
    BY <1>4, <1>6, <1>10 DEF Red
  <2>9. Short(u, N, new, bh, c, q, g)
    BY <1>3, <1>7, <2>7, <2>8 DEF Short
  <2>10. QED
    BY <1>2, <1>3, <1>10, <1>X, <1>n, <1>u, <2>9, <2>q DEF Leaves
<1>11. QED
  BY <1>8, <1>9, <1>10

-----------------------------------------------------------------------------
(* A node y that is in no tree takes the place of z                          *)

Renaming(N, z, y) == [m \in N \cup {NULL} |-> IF m = z THEN y ELSE m]
Swap(A, z, y)     == IF z \in A THEN (A \ {z}) \cup {y} ELSE A

\* u is t with its nodes X renamed by r
IsRenamed(u, t, N, X, r) ==
    /\ u \in TreeOn(N) /\ u.root = r[t.root]
    /\ \A m \in X, d \in Side : u.kid[d][r[m]] = r[t.kid[d][m]]
    /\ \A m \in X : u.par[r[m]] = r[t.par[m]]
    /\ \A m \in X : r[m] \in u.black <=> m \in t.black

RenamedSub(N, sub, z, y) ==
    [m \in N \cup {NULL} |-> Swap(sub[IF m = y THEN z ELSE m], z, y)]

\* what that does to the sets of nodes
Swaps(N, X, sub, z, y, r) ==
    /\ r \in [N \cup {NULL} -> N \cup {NULL}] /\ r[NULL] = NULL /\ r[z] = y
    /\ \A m \in X : r[m] \in Swap(X, z, y) /\ r[m] \in N /\ r[m] # NULL
    /\ \A m \in (X \cup {NULL}) \ {z} : r[m] = m /\ r[m] # y
    /\ \A k \in Swap(X, z, y) : \E m \in X : k = r[m]
    /\ RenamedSub(N, sub, z, y) \in [N \cup {NULL} -> SUBSET N]
    /\ RenamedSub(N, sub, z, y)[NULL] = {}
    /\ \A m \in X \cup {NULL} : RenamedSub(N, sub, z, y)[r[m]] = Swap(sub[m], z, y)

LEMMA SwapFacts ==
    ASSUME NEW N, NULL \notin N, NEW X \in SUBSET N, NEW z \in X, NEW y \in N \ X,
           NEW sub \in [N \cup {NULL} -> SUBSET N], sub[NULL] = {},
           NEW r, r = Renaming(N, z, y)
    PROVE  Swaps(N, X, sub, z, y, r)
<1>1. z \in N /\ y \in N /\ z # y /\ z # NULL /\ y # NULL
  OBVIOUS
<1>2. /\ r \in [N \cup {NULL} -> N \cup {NULL}]
      /\ \A m \in N \cup {NULL} : r[m] = IF m = z THEN y ELSE m
  BY <1>1, Zenon DEF Renaming
<1>3. \A m \in X : r[m] \in Swap(X, z, y)
  BY <1>1, <1>2 DEF Swap
<1>4. \A k \in Swap(X, z, y) : \E m \in X : k = r[m]
  BY <1>1, <1>2 DEF Swap
<1>n. PICK new : new = RenamedSub(N, sub, z, y)
  OBVIOUS
<1>5. \A m \in N \cup {NULL} : new[m] = Swap(sub[IF m = y THEN z ELSE m], z, y)
  BY <1>n DEF RenamedSub
<1>6. new \in [N \cup {NULL} -> SUBSET N]
  <2>1. ASSUME NEW m \in N \cup {NULL} PROVE Swap(sub[IF m = y THEN z ELSE m], z, y) \in SUBSET N
    <3>1. PICK A \in SUBSET N : A = sub[IF m = y THEN z ELSE m]
      BY <1>1
    <3>2. Swap(A, z, y) \in SUBSET N
      BY <1>1 DEF Swap
    <3>3. QED
      BY <3>1, <3>2
  <2>2. QED
    BY <1>n, <2>1 DEF RenamedSub
<1>7. new[NULL] = {}
  BY <1>1, <1>5, Zenon DEF Swap
<1>8. ASSUME NEW m \in X \cup {NULL} PROVE new[r[m]] = Swap(sub[m], z, y)
  <2>1. CASE m = z
    BY <1>1, <1>2, <1>5, <2>1
  <2>2. CASE m # z
    <3>1. r[m] = m /\ m # y /\ m \in N \cup {NULL}
      BY <1>1, <1>2, <2>2
    <3>2. QED
      BY <1>5, <3>1
  <2>3. QED
    BY <2>1, <2>2
<1>9. /\ r[NULL] = NULL /\ r[z] = y /\ \A m \in X : r[m] \in N /\ r[m] # NULL
      /\ \A m \in (X \cup {NULL}) \ {z} : r[m] = m /\ r[m] # y
  BY <1>1, <1>2
<1>10. QED
  BY <1>2, <1>3, <1>4, <1>6, <1>7, <1>8, <1>9, <1>n DEF Swaps

LEMMA RenamesTree ==
    ASSUME NEW N, NULL \notin N, NEW t, NEW sub, Tree(t, N, sub), NEW X, X = sub[t.root],
           NEW z \in X, NEW y \in N \ X, NEW r, r = Renaming(N, z, y),
           NEW u, IsRenamed(u, t, N, X, r)
    PROVE  /\ Tree(u, N, RenamedSub(N, sub, z, y))
           /\ RenamedSub(N, sub, z, y)[u.root] = Swap(X, z, y)
<1>n. PICK new : new = RenamedSub(N, sub, z, y)
  OBVIOUS
<1>Y. PICK Y : Y = Swap(X, z, y)
  OBVIOUS
<1>1. /\ t \in TreeOn(N) /\ X \in SUBSET N /\ z \in N /\ z # NULL
      /\ sub \in [N \cup {NULL} -> SUBSET N] /\ sub[NULL] = {} /\ t.root \in N \cup {NULL}
  <2>1. t \in TreeOn(N) /\ sub \in [N \cup {NULL} -> SUBSET N] /\ sub[NULL] = {}
    BY DEF Tree
  <2>2. t.root \in N \cup {NULL}
    BY <2>1, KidType
  <2>3. QED
    BY <2>1, <2>2
<1>2. t.root # NULL /\ t.root \in X /\ t.par[t.root] = NULL
  BY <1>1 DEF Tree
<1>3. /\ r \in [N \cup {NULL} -> N \cup {NULL}] /\ r[NULL] = NULL /\ r[z] = y
      /\ \A m \in X : r[m] \in Y /\ r[m] \in N /\ r[m] # NULL
      /\ \A m \in (X \cup {NULL}) \ {z} : r[m] = m /\ r[m] # y
      /\ \A k \in Y : \E m \in X : k = r[m]
      /\ new \in [N \cup {NULL} -> SUBSET N] /\ new[NULL] = {}
      /\ \A m \in X \cup {NULL} : new[r[m]] = Swap(sub[m], z, y)
  <2>1. Swaps(N, X, sub, z, y, r)
    BY <1>1, SwapFacts, Zenon
  <2>2. QED
    BY <1>n, <1>Y, <2>1 DEF Swaps
<1>4. /\ u \in TreeOn(N) /\ u.root = r[t.root]
      /\ \A m \in X, d \in Side : u.kid[d][r[m]] = r[t.kid[d][m]]
      /\ \A m \in X : u.par[r[m]] = r[t.par[m]]
  BY DEF IsRenamed
<1>5. new[u.root] = Y
  BY <1>2, <1>3, <1>4, <1>Y
<1>6. u.root \in Y /\ u.par[u.root] = NULL
  BY <1>2, <1>3, <1>4
<1>7. \A m \in X, d \in Side : t.kid[d][m] # NULL => t.kid[d][m] \in X /\ t.par[t.kid[d][m]] = m
  BY DEF Tree, Agrees
<1>8. ASSUME NEW k \in Y PROVE Agrees(u, Y, k) /\ new[k] \subseteq Y
  <2>1. PICK n \in X : k = r[n]
    BY <1>3
  <2>2. ASSUME NEW d \in Side, u.kid[d][k] # NULL PROVE u.kid[d][k] \in Y /\ u.par[u.kid[d][k]] = k
    <3>x. PICK x : x = t.kid[d][n]
      OBVIOUS
    <3>1. u.kid[d][k] = r[x]
      BY <1>4, <2>1, <3>x
    <3>2. x # NULL
      BY <1>3, <2>2, <3>1
    <3>3. x \in X /\ t.par[x] = n
      BY <1>7, <3>x, <3>2
    <3>4. r[x] \in Y /\ u.par[r[x]] = r[n]
      BY <1>3, <1>4, <3>3
    <3>5. QED
      BY <2>1, <3>1, <3>4
  <2>3. ASSUME k # u.root PROVE u.par[k] \in Y /\ \E s \in Side : u.kid[s][u.par[k]] = k
    <3>1. n # t.root
      BY <1>4, <2>1, <2>3
    <3>2. PICK g \in Side : HangsAt(t, X, n, g)
      BY <3>1, OneParent
    <3>q. PICK q : q = t.par[n]
      OBVIOUS
    <3>3. q \in X /\ t.kid[g][q] = n
      BY <3>2, <3>q DEF HangsAt
    <3>4. u.par[k] = r[q] /\ u.kid[g][r[q]] = k /\ r[q] \in Y
      BY <1>3, <1>4, <2>1, <3>q, <3>3
    <3>5. QED
      BY <3>4
  <2>4. new[k] \subseteq Y
    <3>1. new[k] = Swap(sub[n], z, y)
      BY <1>3, <2>1
    <3>2. sub[n] \subseteq X
      BY DEF Tree
    <3>3. QED
      BY <1>Y, <3>1, <3>2 DEF Swap
  <2>5. QED
    BY <2>2, <2>3, <2>4 DEF Agrees
<1>9. ASSUME NEW k \in Y, NEW s \in Side PROVE Splits(u, new, k, s)
  <2>1. PICK n \in X : k = r[n]
    BY <1>3
  <2>2. Splits(t, sub, n, s) /\ Other(s) \in Side
    BY TwoSides DEF Tree
  <2>x. PICK x : x = t.kid[s][n]
    OBVIOUS
  <2>w. PICK w : w = t.kid[Other(s)][n]
    OBVIOUS
  <2>3. x \in X \cup {NULL} /\ w \in X \cup {NULL}
    BY <1>7, <2>2, <2>x, <2>w
  <2>4. u.kid[s][k] = r[x] /\ u.kid[Other(s)][k] = r[w]
    BY <1>4, <2>1, <2>2, <2>x, <2>w
  <2>a. PICK a : a = sub[x]
    OBVIOUS
  <2>b. PICK b : b = sub[w]
    OBVIOUS
  <2>5. sub[n] = {n} \cup a \cup b /\ n \notin a /\ n \notin b /\ a \cap b = {}
    BY <2>2, <2>x, <2>w, <2>a, <2>b DEF Splits
  <2>6. sub[n] \subseteq X
    BY DEF Tree
  <2>7. new[k] = Swap({n} \cup a \cup b, z, y)
    BY <1>3, <2>1, <2>5, ZenonT(30)
  <2>8. new[r[x]] = Swap(a, z, y) /\ new[r[w]] = Swap(b, z, y)
    BY <1>3, <2>3, <2>a, <2>b
  <2>9. a \subseteq X /\ b \subseteq X /\ y \notin a /\ y \notin b /\ y \notin X
    BY <2>5, <2>6
  <2>10. k = IF n = z THEN y ELSE n
    BY <1>3, <2>1
  <2>11. /\ Swap({n} \cup a \cup b, z, y) = {k} \cup Swap(a, z, y) \cup Swap(b, z, y)
         /\ k \notin Swap(a, z, y) /\ k \notin Swap(b, z, y)
         /\ Swap(a, z, y) \cap Swap(b, z, y) = {}
    <3>1. CASE n = z
      <4>1. k = y /\ z \notin a /\ z \notin b
        BY <2>5, <2>10, <3>1
      <4>2. Swap(a, z, y) = a /\ Swap(b, z, y) = b
        BY <4>1 DEF Swap
      <4>3. Swap({n} \cup a \cup b, z, y) = {y} \cup a \cup b
        BY <3>1, <4>1 DEF Swap
      <4>4. QED
        BY <2>5, <2>9, <4>1, <4>2, <4>3
    <3>2. CASE n # z
      <4>1. k = n /\ k # y
        BY <2>9, <2>10, <3>2
      <4>2. CASE z \in a
        <5>1. z \notin b /\ Swap(b, z, y) = b /\ Swap(a, z, y) = (a \ {z}) \cup {y}
          BY <2>5, <4>2 DEF Swap
        <5>2. Swap({n} \cup a \cup b, z, y) = (({n} \cup a \cup b) \ {z}) \cup {y}
          BY <4>2 DEF Swap
        <5>3. QED
          BY <2>5, <2>9, <3>2, <4>1, <5>1, <5>2
      <4>3. CASE z \in b
        <5>1. z \notin a /\ Swap(a, z, y) = a /\ Swap(b, z, y) = (b \ {z}) \cup {y}
          BY <2>5, <4>3 DEF Swap
        <5>2. Swap({n} \cup a \cup b, z, y) = (({n} \cup a \cup b) \ {z}) \cup {y}
          BY <4>3 DEF Swap
        <5>3. QED
          BY <2>5, <2>9, <3>2, <4>1, <5>1, <5>2
      <4>4. CASE z \notin a /\ z \notin b
        <5>1. Swap(a, z, y) = a /\ Swap(b, z, y) = b
          BY <4>4 DEF Swap
        <5>2. Swap({n} \cup a \cup b, z, y) = {n} \cup a \cup b
          BY <3>2, <4>4 DEF Swap
        <5>3. QED
          BY <2>5, <4>1, <5>1, <5>2
      <4>5. QED
        BY <4>2, <4>3, <4>4
    <3>3. QED
      BY <3>1, <3>2
  <2>12. QED
    BY <2>4, <2>7, <2>8, <2>11 DEF Splits
<1>10. Tree(u, N, new)
  <2>1. \A k \in new[u.root] : Agrees(u, new[u.root], k) /\ new[k] \subseteq new[u.root]
    BY <1>5, <1>8
  <2>2. \A k \in new[u.root], s \in Side : Splits(u, new, k, s)
    BY <1>5, <1>9
  <2>3. u \in TreeOn(N) /\ new \in [N \cup {NULL} -> SUBSET N] /\ new[NULL] = {}
    BY <1>3, <1>4
  <2>4. u.root # NULL => u.root \in new[u.root] /\ u.par[u.root] = NULL
    BY <1>5, <1>6
  <2>5. QED
    BY <2>1, <2>2, <2>3, <2>4, Zenon DEF Tree
<1>11. QED
  BY <1>5, <1>10, <1>n, <1>Y

\* y fits in the order at the place of z
InPlace(t, sub, v, z, y) ==
    /\ v[y] \in Nat
    /\ \A m \in sub[t.root], d \in Side : z \in sub[t.kid[d][m]] => Beside(d, v[y], v[m])
    /\ \A d \in Side : \A m \in sub[t.kid[d][z]] : Beside(d, v[m], v[y])

LEMMA RenamesWhole ==
    ASSUME NEW N, NULL \notin N, NEW t, NEW S, NEW sub, NEW v, Whole(t, N, S, sub, v),
           NEW X, X = sub[t.root],
           NEW z \in X, NEW y \in N \ X, y \notin S, NEW r, r = Renaming(N, z, y),
           NEW u, IsRenamed(u, t, N, X, r), Rest(u, S), InPlace(t, sub, v, z, y)
    PROVE  Whole(u, N, S, RenamedSub(N, sub, z, y), v)
<1>n. PICK new : new = RenamedSub(N, sub, z, y)
  OBVIOUS
<1>Y. PICK Y : Y = Swap(X, z, y)
  OBVIOUS
<1>1. Tree(t, N, sub) /\ Ordered(t, sub, v) /\ S \subseteq N /\ S \cap X = {}
  BY DEF Whole
<1>2. Tree(u, N, new) /\ new[u.root] = Y
  BY <1>1, <1>n, <1>Y, RenamesTree
<1>3. /\ t \in TreeOn(N) /\ X \in SUBSET N /\ z \in N /\ z # NULL
      /\ sub \in [N \cup {NULL} -> SUBSET N] /\ sub[NULL] = {}
  <2>1. t \in TreeOn(N) /\ sub \in [N \cup {NULL} -> SUBSET N] /\ sub[NULL] = {}
    BY <1>1 DEF Tree
  <2>2. t.root \in N \cup {NULL}
    BY <2>1, KidType
  <2>3. QED
    BY <2>1, <2>2
<1>4. /\ \A m \in X \cup {NULL} : r[m] = IF m = z THEN y ELSE m
      /\ \A k \in Y : \E m \in X : k = r[m]
      /\ \A m \in X \cup {NULL} : new[r[m]] = Swap(sub[m], z, y)
  <2>1. Swaps(N, X, sub, z, y, r)
    BY <1>3, SwapFacts, Zenon
  <2>2. QED
    BY <1>n, <1>Y, <2>1 DEF Swaps
<1>5. \A m \in X, d \in Side : u.kid[d][r[m]] = r[t.kid[d][m]]
  BY DEF IsRenamed
<1>6. \A k \in Y : v[k] \in Nat
  <2>1. \A m \in X : v[m] \in Nat
    BY <1>1 DEF Ordered
  <2>2. v[y] \in Nat
    BY DEF InPlace
  <2>3. QED
    BY <1>Y, <2>1, <2>2 DEF Swap
<1>7. ASSUME NEW k \in Y, NEW d \in Side, NEW j \in new[u.kid[d][k]] PROVE Beside(d, v[j], v[k])
  <2>1. PICK n \in X : k = r[n]
    BY <1>4
  <2>x. PICK x : x = t.kid[d][n]
    OBVIOUS
  <2>2. x \in X \cup {NULL}
    BY <1>1, <2>x DEF Tree, Agrees
  <2>3. new[u.kid[d][k]] = Swap(sub[x], z, y)
    BY <1>4, <1>5, <2>1, <2>x, <2>2
  <2>4. n \notin sub[x]
    <3>1. Splits(t, sub, n, d)
      BY <1>1 DEF Tree
    <3>2. QED
      BY <2>x, <3>1 DEF Splits
  <2>5. \A m \in sub[x] : Beside(d, v[m], v[n])
    BY <1>1, <2>x DEF Ordered
  <2>6. CASE n = z
    <3>1. k = y /\ j \in sub[x]
      BY <1>4, <1>7, <2>1, <2>3, <2>4, <2>6 DEF Swap
    <3>2. QED
      BY <2>6, <2>x, <3>1 DEF InPlace
  <2>7. CASE n # z
    <3>1. k = n
      BY <1>4, <2>1, <2>7
    <3>2. CASE j \in sub[x]
      BY <2>5, <3>1, <3>2
    <3>3. CASE j \notin sub[x]
      <4>1. j = y /\ z \in sub[x]
        BY <1>7, <2>3, <3>3 DEF Swap
      <4>2. QED
        BY <2>x, <3>1, <4>1 DEF InPlace
    <3>4. QED
      BY <3>2, <3>3
  <2>8. QED
    BY <2>6, <2>7
<1>8. Ordered(u, new, v)
  BY <1>2, <1>6, <1>7 DEF Ordered
<1>9. S \cap new[u.root] = {}
  BY <1>1, <1>2, <1>Y DEF Swap
<1>10. Whole(u, N, S, new, v)
  BY <1>1, <1>2, <1>8, <1>9 DEF Whole
<1>11. QED
  BY <1>10, <1>n

\* the numbers of black nodes, and the red nodes, go with the names
ColorsGo(u, t, N, X, Y, sub, new, r) ==
    /\ \A bh : Level(t, N, X, bh) /\ RbShape(t, sub, bh) =>
           \E b2 : Level(u, N, Y, b2) /\ RbShape(u, new, b2)
    /\ \A bh, n, p, s : Short(t, N, sub, bh, n, p, s) =>
           \E b2 : Short(u, N, new, b2, r[n], r[p], s)

LEMMA RenamesColors ==
    ASSUME NEW N, NULL \notin N, NEW t, NEW sub, Tree(t, N, sub), NEW X, X = sub[t.root],
           NEW z \in X, NEW y \in N \ X, NEW r, r = Renaming(N, z, y),
           NEW u, IsRenamed(u, t, N, X, r), NEW new, new = RenamedSub(N, sub, z, y)
    PROVE  ColorsGo(u, t, N, X, Swap(X, z, y), sub, new, r)
<1>Y. PICK Y : Y = Swap(X, z, y)
  OBVIOUS
<1>1. Tree(u, N, new) /\ new[u.root] = Y
  BY <1>Y, RenamesTree
<1>2. /\ t \in TreeOn(N) /\ X \in SUBSET N /\ z \in N /\ z # NULL /\ y \in N /\ y # NULL
      /\ sub \in [N \cup {NULL} -> SUBSET N] /\ sub[NULL] = {} /\ t.root \in X
  <2>1. t \in TreeOn(N) /\ sub \in [N \cup {NULL} -> SUBSET N] /\ sub[NULL] = {}
    BY DEF Tree
  <2>2. t.root \in N \cup {NULL}
    BY <2>1, KidType
  <2>3. X \in SUBSET N
    BY <2>1, <2>2
  <2>4. t.root \in X
    BY <2>1 DEF Tree
  <2>5. QED
    BY <2>1, <2>3, <2>4
<1>3. /\ \A m \in X \cup {NULL} : r[m] = IF m = z THEN y ELSE m
      /\ \A m \in X : r[m] \in Y /\ r[m] # NULL
      /\ \A k \in Y : \E m \in X : k = r[m]
  <2>1. Swaps(N, X, sub, z, y, r)
    BY <1>2, SwapFacts, Zenon
  <2>2. QED
    BY <1>Y, <2>1 DEF Swaps
<1>4. /\ u.root = r[t.root] /\ \A m \in X, d \in Side : u.kid[d][r[m]] = r[t.kid[d][m]]
      /\ \A m \in X : r[m] \in u.black <=> m \in t.black
  BY DEF IsRenamed
<1>5. \A m \in X, d \in Side : t.kid[d][m] \in X \cup {NULL}
  BY DEF Tree, Agrees
<1>6. \A m \in X \cup {NULL} : Red(u, r[m]) <=> Red(t, m)
  <2>1. r[NULL] = NULL
    BY <1>2, <1>3
  <2>2. QED
    BY <1>2, <1>3, <1>4, <2>1 DEF Red
<1>7. \A m \in X : One(u, r[m]) = One(t, m)
  BY <1>4 DEF One
<1>8. ASSUME NEW bh \in [N \cup {NULL} -> Nat], bh[NULL] = 0
      PROVE  \E b2 \in [N \cup {NULL} -> Nat] : b2[NULL] = 0 /\ \A m \in X \cup {NULL} : b2[r[m]] = bh[m]
  <2>1. PICK b2 : b2 = [m \in N \cup {NULL} |-> IF m = y THEN bh[z] ELSE bh[m]]
    OBVIOUS
  <2>2. b2 \in [N \cup {NULL} -> Nat]
    <3>1. \A m \in N \cup {NULL} : bh[m] \in Nat
      BY <1>8
    <3>2. bh[z] \in Nat
      BY <1>2, <3>1
    <3>3. QED
      BY <2>1, <3>1, <3>2
  <2>3. \A m \in N \cup {NULL} : b2[m] = IF m = y THEN bh[z] ELSE bh[m]
    BY <2>1
  <2>4. \A m \in X \cup {NULL} : b2[r[m]] = bh[m]
    BY <1>2, <1>3, <2>3
  <2>5. b2[NULL] = 0
    BY <1>2, <1>8, <2>3
  <2>6. QED
    BY <2>2, <2>4, <2>5
<1>9. ASSUME NEW bh, Level(t, N, X, bh), RbShape(t, sub, bh)
      PROVE  \E b2 : Level(u, N, Y, b2) /\ RbShape(u, new, b2)
  <2>1. /\ bh \in [N \cup {NULL} -> Nat] /\ bh[NULL] = 0
        /\ \A m \in X, d \in Side : bh[m] = One(t, m) + bh[t.kid[d][m]]
    BY <1>9 DEF Level
  <2>2. PICK b2 \in [N \cup {NULL} -> Nat] : b2[NULL] = 0 /\ \A m \in X \cup {NULL} : b2[r[m]] = bh[m]
    BY <1>8, <2>1
  <2>3. ASSUME NEW k \in Y, NEW d \in Side PROVE b2[k] = One(u, k) + b2[u.kid[d][k]]
    <3>1. PICK n \in X : k = r[n]
      BY <1>3
    <3>2. b2[k] = bh[n] /\ One(u, k) = One(t, n) /\ b2[u.kid[d][k]] = bh[t.kid[d][n]]
      BY <1>4, <1>5, <1>7, <2>2, <3>1
    <3>3. QED
      BY <2>1, <3>2
  <2>4. Level(u, N, Y, b2)
    BY <2>2, <2>3 DEF Level
  <2>5. ~Red(t, t.root) /\ \A m \in X \ t.black, d \in Side : ~Red(t, t.kid[d][m])
    BY <1>9 DEF RbShape
  <2>6. ~Red(u, u.root)
    BY <1>2, <1>4, <1>6, <2>5
  <2>7. ASSUME NEW k \in Y \ u.black, NEW d \in Side PROVE ~Red(u, u.kid[d][k])
    <3>1. PICK n \in X : k = r[n]
      BY <1>3
    <3>2. n \in X \ t.black
      BY <1>4, <2>7, <3>1
    <3>3. ~Red(t, t.kid[d][n])
      BY <2>5, <3>2
    <3>4. QED
      BY <1>4, <1>5, <1>6, <3>1, <3>3
  <2>8. RbShape(u, new, b2)
    BY <1>1, <2>6, <2>7 DEF RbShape
  <2>9. QED
    BY <2>4, <2>8
<1>10. ASSUME NEW bh, NEW n, NEW p, NEW s, Short(t, N, sub, bh, n, p, s)
       PROVE  \E b2 : Short(u, N, new, b2, r[n], r[p], s)
  <2>1. /\ Counts(t, N, X, bh, p, s) /\ s \in Side /\ p \in X /\ t.kid[s][p] = n /\ ~Red(t, t.root)
        /\ \A m \in X \ t.black, d \in Side : Red(t, t.kid[d][m]) => n \in {m, t.kid[d][m]}
    BY <1>10 DEF Short, Gap
  <2>2. /\ bh \in [N \cup {NULL} -> Nat] /\ bh[NULL] = 0
        /\ \A m \in X, d \in Side : bh[m] = One(t, m) + bh[t.kid[d][m]] + Lack(m, d, p, s)
    BY <2>1 DEF Counts
  <2>3. PICK b2 \in [N \cup {NULL} -> Nat] : b2[NULL] = 0 /\ \A m \in X \cup {NULL} : b2[r[m]] = bh[m]
    BY <1>8, <2>2
  <2>4. n \in X \cup {NULL}
    BY <1>5, <2>1
  <2>5. ASSUME NEW k \in Y, NEW d \in Side
        PROVE  b2[k] = One(u, k) + b2[u.kid[d][k]] + Lack(k, d, r[p], s)
    <3>1. PICK m \in X : k = r[m]
      BY <1>3
    <3>2. b2[k] = bh[m] /\ One(u, k) = One(t, m) /\ b2[u.kid[d][k]] = bh[t.kid[d][m]]
      BY <1>4, <1>5, <1>7, <2>3, <3>1
    <3>3. r[m] = r[p] <=> m = p
      BY <1>3, <2>1
    <3>4. Lack(k, d, r[p], s) = Lack(m, d, p, s)
      BY <3>1, <3>3 DEF Lack
    <3>5. QED
      BY <2>2, <3>2, <3>4
  <2>6. Counts(u, N, Y, b2, r[p], s)
    BY <2>3, <2>5 DEF Counts
  <2>7. u.kid[s][r[p]] = r[n] /\ r[p] \in Y
    BY <1>3, <1>4, <2>1
  <2>8. Gap(u, N, new, b2, r[n], r[p], s)
    BY <1>1, <2>1, <2>6, <2>7 DEF Gap
  <2>9. ~Red(u, u.root)
    BY <1>2, <1>4, <1>6, <2>1
  <2>10. ASSUME NEW k \in Y \ u.black, NEW d \in Side, Red(u, u.kid[d][k])
         PROVE  r[n] \in {k, u.kid[d][k]}
    <3>1. PICK m \in X : k = r[m]
      BY <1>3
    <3>2. m \in X \ t.black
      BY <1>4, <2>10, <3>1
    <3>3. u.kid[d][k] = r[t.kid[d][m]] /\ Red(t, t.kid[d][m])
      BY <1>4, <1>5, <1>6, <2>10, <3>1
    <3>4. n = m \/ n = t.kid[d][m]
      BY <2>1, <3>2, <3>3
    <3>5. QED
      BY <3>1, <3>3, <3>4
  <2>11. Short(u, N, new, b2, r[n], r[p], s)
    BY <1>1, <2>8, <2>9, <2>10 DEF Short
  <2>12. QED
    BY <2>11
<1>11. ColorsGo(u, t, N, X, Y, sub, new, r)
  BY <1>9, <1>10 DEF ColorsGo
<1>12. QED
  BY <1>11, <1>Y

-----------------------------------------------------------------------------
(* rb_erase of a node with two children                                      *)

\* what one assignment to a child pointer changes
KidSet(u, t, N, p, s, x) ==
    /\ u \in TreeOn(N) /\ u.root = t.root /\ u.par = t.par /\ u.black = t.black
    /\ \A d \in Side, m \in N : u.kid[d][m] = IF d = s /\ m = p THEN x ELSE t.kid[d][m]

LEMMA KidSets ==
    ASSUME NEW N, NEW t \in TreeOn(N), NEW s \in Side, NEW p \in N, NEW x \in N \cup {NULL}
    PROVE  KidSet(SetKid(t, p, s, x), t, N, p, s, x)
<1> DEFINE u == SetKid(t, p, s, x)
<1>1. /\ u \in TreeOn(N) /\ u.root = t.root /\ u.par = t.par /\ u.black = t.black
      /\ \A d \in Side, m \in N : u.kid[d][m] = IF d = s /\ m = p THEN x ELSE t.kid[d][m]
  BY SetsKid
<1> HIDE DEF u
<1>2. KidSet(u, t, N, p, s, x)
  BY <1>1 DEF KidSet
<1>3. QED
  BY <1>2 DEF u

\* u is t after c took the place of z under z's parent
Hung(u, t, N, X, z, c) ==
    /\ u \in TreeOn(N) /\ u.par = t.par /\ u.black = t.black
    /\ u.root = IF z = t.root THEN c ELSE t.root
    /\ \A m \in X, d \in Side : u.kid[d][m] = IF t.kid[d][m] = z THEN c ELSE t.kid[d][m]
    /\ \A m \in N \ X, d \in Side : u.kid[d][m] = t.kid[d][m]

LEMMA HangsInTree ==
    ASSUME NEW N, NULL \notin N, NEW t, NEW sub, Tree(t, N, sub), NEW X, X = sub[t.root],
           NEW z \in X, NEW c \in N \cup {NULL}
    PROVE  Hung(Hang(t, t.par[z], "L", z, c), t, N, X, z, c)
<1>p. PICK p : p = t.par[z]
  OBVIOUS
<1>1. /\ z \in N /\ z # NULL /\ t \in TreeOn(N) /\ X \subseteq N /\ "L" \in Side
      /\ p \in N \cup {NULL}
  BY <1>p, OneParent, KidType DEF Side
<1>u. PICK u : u = Hang(t, p, "L", z, c)
  OBVIOUS
<1>3. /\ u \in TreeOn(N) /\ u.par = t.par /\ u.black = t.black
      /\ u.root = IF p = NULL THEN c ELSE t.root
      /\ \A d \in Side, m \in N :
             u.kid[d][m] = IF m = p /\ d = Hook(t, "L", p, z) THEN c ELSE t.kid[d][m]
  BY <1>1, <1>u, Hangs
<1>5. CASE z = t.root
  <2>1. p = NULL /\ \A m \in X, d \in Side : t.kid[d][m] # z
    BY <1>p, <1>5, OneParent
  <2>2. \A m \in N, d \in Side : u.kid[d][m] = t.kid[d][m]
    BY <1>1, <1>3, <2>1
  <2>3. Hung(u, t, N, X, z, c)
    BY <1>1, <1>3, <1>5, <2>1, <2>2 DEF Hung
  <2>4. QED
    BY <1>p, <1>u, <2>3
<1>6. CASE z # t.root
  <2>1. PICK f \in Side : HangsAt(t, X, z, f)
    BY <1>6, OneParent
  <2>2. /\ p \in X /\ t.kid[f][p] = z
        /\ \A m \in X, d \in Side : t.kid[d][m] = z => m = p /\ d = f
    BY <1>p, <2>1 DEF HangsAt
  <2>3. Hook(t, "L", p, z) = f
    BY <2>2 DEF Hook, Side, Other
  <2>4. \A m \in X, d \in Side : u.kid[d][m] = IF t.kid[d][m] = z THEN c ELSE t.kid[d][m]
    BY <1>1, <1>3, <2>2, <2>3
  <2>5. \A m \in N \ X, d \in Side : u.kid[d][m] = t.kid[d][m]
    BY <1>1, <1>3, <2>2
  <2>6. p # NULL
    BY <1>1, <2>2
  <2>7. Hung(u, t, N, X, z, c)
    BY <1>3, <1>6, <2>4, <2>5, <2>6 DEF Hung
  <2>8. QED
    BY <1>p, <1>u, <2>7
<1>7. QED
  BY <1>5, <1>6

\* u is t after y, whose parent is q and whose only child is c, took z's place
IsInner(u, t, N, X, z, y, q, c) ==
    /\ u \in TreeOn(N) /\ u.root = IF z = t.root THEN y ELSE t.root
    /\ u.black = IF z \in t.black THEN t.black \cup {y} ELSE t.black \ {y}
    /\ \A m \in N : u.par[m] = IF m = t.kid["L"][z] THEN y ELSE IF m = y THEN t.par[z]
                               ELSE IF q # z /\ m = t.kid["R"][z] THEN y
                               ELSE IF q # z /\ m = c THEN q ELSE t.par[m]
    /\ u.kid["L"][y] = t.kid["L"][z]
    /\ u.kid["R"][y] = IF q = z THEN c ELSE t.kid["R"][z]
    /\ \A m \in X \ {y}, d \in Side :
           u.kid[d][m] = IF q # z /\ m = q /\ d = "L" THEN c
                         ELSE IF t.kid[d][m] = z THEN y ELSE t.kid[d][m]
    /\ \A m \in N \ X, d \in Side : u.kid[d][m] = t.kid[d][m]

\* y is the node that rb_erase puts in the place of z
Heir(t, X, z, y, q, c) ==
    /\ y \in X /\ y # z /\ q \in X /\ q = t.par[y] /\ q # y /\ c = t.kid["R"][y]
    /\ t.kid["L"][z] # NULL /\ t.kid["L"][z] # y /\ t.kid["R"][z] # NULL
    /\ t.par[z] # y /\ \A d \in Side : t.kid[d][y] # z

LEMMA InnerLinks ==
    ASSUME NEW N, NULL \notin N, NEW t, NEW sub, Tree(t, N, sub), NEW X, X = sub[t.root],
           NEW z \in X, NEW y, NEW q, NEW c, Heir(t, X, z, y, q, c)
    PROVE  IsInner(EraseInner(t, z, y), t, N, X, z, y, q, c)
<1>p. PICK p : p = t.par[z]
  OBVIOUS
<1>l. PICK l : l = t.kid["L"][z]
  OBVIOUS
<1>r. PICK r : r = t.kid["R"][z]
  OBVIOUS
<1>1. /\ z \in N /\ z # NULL /\ t \in TreeOn(N) /\ X \subseteq N /\ "L" \in Side /\ "R" \in Side
      /\ p \in N \cup {NULL} /\ l \in N \cup {NULL} /\ r \in N \cup {NULL}
      /\ y \in N /\ q \in N /\ c \in N \cup {NULL} /\ "L" # "R"
  <2>1. /\ z \in N /\ z # NULL /\ t \in TreeOn(N) /\ X \subseteq N
    BY OneParent
  <2>2. "L" \in Side /\ "R" \in Side
    BY DEF Side
  <2>3. y \in N /\ q \in N /\ c = t.kid["R"][y]
    BY <2>1 DEF Heir
  <2>4. QED
    BY <1>p, <1>l, <1>r, <2>1, <2>2, <2>3, KidType
<1>2. /\ y \in X /\ y # z /\ q # y /\ q = t.par[y] /\ l # NULL /\ l # y /\ r # NULL /\ p # y
      /\ c = t.kid["R"][y]
      /\ \A d \in Side : t.kid[d][y] # z
  BY <1>p, <1>l, <1>r DEF Heir
<1>t1. PICK t1 : t1 = Hang(t, p, "L", z, y)
  OBVIOUS
<1>3. Hung(t1, t, N, X, z, y)
  BY <1>1, <1>p, <1>t1, HangsInTree
<1>4. /\ t1 \in TreeOn(N) /\ t1.par = t.par /\ t1.black = t.black
      /\ t1.root = IF z = t.root THEN y ELSE t.root
      /\ \A m \in X, d \in Side : t1.kid[d][m] = IF t.kid[d][m] = z THEN y ELSE t.kid[d][m]
      /\ \A m \in N \ X, d \in Side : t1.kid[d][m] = t.kid[d][m]
  BY <1>3 DEF Hung
<1>w2. PICK w2 : w2 = SetParent(t1, c, q)
  OBVIOUS
<1>5. ParentSet(w2, t1, N, c, q)
  BY <1>1, <1>4, <1>w2, SetsParent
<1>t2. PICK t2 : t2 = SetKid(w2, q, "L", c)
  OBVIOUS
<1>6. w2 \in TreeOn(N)
  BY <1>5 DEF ParentSet
<1>7. KidSet(t2, w2, N, q, "L", c)
  BY <1>1, <1>6, <1>t2, KidSets
<1>8. t2 \in TreeOn(N)
  BY <1>7 DEF KidSet
<1>w3. PICK w3 : w3 = SetKid(t2, y, "R", r)
  OBVIOUS
<1>9. KidSet(w3, t2, N, y, "R", r)
  BY <1>1, <1>8, <1>w3, KidSets
<1>10. w3 \in TreeOn(N)
  BY <1>9 DEF KidSet
<1>v3. PICK v3 : v3 = SetParent(w3, r, y)
  OBVIOUS
<1>11. ParentSet(v3, w3, N, r, y)
  BY <1>1, <1>10, <1>v3, SetsParent
<1>t3. PICK t3 : t3 = IF q = z THEN t1 ELSE v3
  OBVIOUS
\* the links of t3
<1>12. /\ t3 \in TreeOn(N) /\ t3.root = t1.root /\ t3.black = t.black
       /\ \A m \in N : t3.par[m] = IF q # z /\ m = r THEN y ELSE IF q # z /\ m = c THEN q
                                   ELSE t.par[m]
       /\ \A m \in N, d \in Side : t3.kid[d][m] = IF q # z /\ d = "R" /\ m = y THEN r
                                                  ELSE IF q # z /\ d = "L" /\ m = q THEN c
                                                  ELSE t1.kid[d][m]
  <2>1. CASE q = z
    BY <1>4, <1>t3, <2>1
  <2>2. CASE q # z
    <3>1. t3 = v3
      BY <1>t3, <2>2
    <3>2. /\ v3 \in TreeOn(N) /\ v3.root = w3.root /\ v3.kid = w3.kid /\ v3.black = w3.black
          /\ \A m \in N : v3.par[m] = IF m = r THEN y ELSE w3.par[m]
      BY <1>11 DEF ParentSet
    <3>3. /\ w3.root = t2.root /\ w3.par = t2.par /\ w3.black = t2.black
          /\ \A d \in Side, m \in N : w3.kid[d][m] = IF d = "R" /\ m = y THEN r ELSE t2.kid[d][m]
      BY <1>9 DEF KidSet
    <3>4. /\ t2.root = w2.root /\ t2.par = w2.par /\ t2.black = w2.black
          /\ \A d \in Side, m \in N : t2.kid[d][m] = IF d = "L" /\ m = q THEN c ELSE w2.kid[d][m]
      BY <1>7 DEF KidSet
    <3>5. /\ w2.root = t1.root /\ w2.kid = t1.kid /\ w2.black = t1.black
          /\ \A m \in N : w2.par[m] = IF m = c THEN q ELSE t1.par[m]
      BY <1>5 DEF ParentSet
    <3>6. v3.root = t1.root /\ v3.black = t.black
      BY <1>4, <3>2, <3>3, <3>4, <3>5
    <3>7. \A m \in N : v3.par[m] = IF m = r THEN y ELSE IF m = c THEN q ELSE t.par[m]
      BY <1>4, <3>2, <3>3, <3>4, <3>5
    <3>8. \A m \in N, d \in Side : v3.kid[d][m] = IF d = "R" /\ m = y THEN r
                                                  ELSE IF d = "L" /\ m = q THEN c
                                                  ELSE t1.kid[d][m]
      BY <3>2, <3>3, <3>4, <3>5
    <3>9. QED
      BY <2>2, <3>1, <3>2, <3>6, <3>7, <3>8
  <2>3. QED
    BY <2>1, <2>2
<1>w4. PICK w4 : w4 = SetParent(t3, y, p)
  OBVIOUS
<1>13. ParentSet(w4, t3, N, y, p)
  BY <1>1, <1>12, <1>w4, SetsParent
<1>14. /\ w4 \in TreeOn(N) /\ w4.root = t3.root /\ w4.kid = t3.kid /\ w4.black = t3.black
       /\ \A m \in N : w4.par[m] = IF m = y THEN p ELSE t3.par[m]
  BY <1>13 DEF ParentSet
<1>v4. PICK v4 : v4 = SetColor(w4, y, z)
  OBVIOUS
<1>15. /\ v4 \in TreeOn(N) /\ v4.root = w4.root /\ v4.kid = w4.kid /\ v4.par = w4.par
       /\ v4.black = IF z \in t.black THEN t.black \cup {y} ELSE t.black \ {y}
  <2>1. w4 \in TreeOn(N) /\ y \in N
    BY <1>1, <1>14
  <2>4. /\ v4 \in TreeOn(N) /\ v4.root = w4.root /\ v4.kid = w4.kid /\ v4.par = w4.par
        /\ v4.black = IF z \in w4.black THEN w4.black \cup {y} ELSE w4.black \ {y}
    BY <1>v4, <2>1 DEF SetRed, SetBlack, SetColor, TreeOn
  <2>2. w4.black = t.black
    BY <1>12, <1>14
  <2>3. QED
    BY <2>4, <2>2
<1>t4. PICK t4 : t4 = SetKid(v4, y, "L", l)
  OBVIOUS
<1>16. KidSet(t4, v4, N, y, "L", l)
  BY <1>1, <1>15, <1>t4, KidSets
<1>17. /\ t4 \in TreeOn(N) /\ t4.root = v4.root /\ t4.par = v4.par /\ t4.black = v4.black
       /\ \A d \in Side, m \in N : t4.kid[d][m] = IF d = "L" /\ m = y THEN l ELSE v4.kid[d][m]
  BY <1>16 DEF KidSet
<1>u. PICK u : u = SetParent(t4, l, y)
  OBVIOUS
<1>18. ParentSet(u, t4, N, l, y)
  BY <1>1, <1>17, <1>u, SetsParent
<1>19. /\ u \in TreeOn(N) /\ u.root = t4.root /\ u.kid = t4.kid /\ u.black = t4.black
       /\ \A m \in N : u.par[m] = IF m = l THEN y ELSE t4.par[m]
  BY <1>18 DEF ParentSet
<1>20. u = EraseInner(t, z, y)
  <2>1. EraseInner(t, z, y) =
          LET s2 == SetKid(SetParent(t1, c, q), q, "L", c)
              s3 == IF q = z THEN t1 ELSE SetParent(SetKid(s2, y, "R", r), r, y)
          IN SetParent(SetKid(SetColor(SetParent(s3, y, p), y, z), y, "L", l), l, y)
    BY <1>2, <1>p, <1>l, <1>r, <1>t1, Zenon DEF EraseInner
  <2>2. QED
    BY <1>w2, <1>t2, <1>w3, <1>v3, <1>t3, <1>w4, <1>v4, <1>t4, <1>u, <2>1, Zenon
<1>21. u.root = IF z = t.root THEN y ELSE t.root
  BY <1>4, <1>12, <1>14, <1>15, <1>17, <1>19
<1>22. u.black = IF z \in t.black THEN t.black \cup {y} ELSE t.black \ {y}
  BY <1>15, <1>17, <1>19
<1>23. \A m \in N : u.par[m] = IF m = l THEN y ELSE IF m = y THEN p
                               ELSE IF q # z /\ m = r THEN y
                               ELSE IF q # z /\ m = c THEN q ELSE t.par[m]
  BY <1>12, <1>14, <1>15, <1>17, <1>19
<1>24. \A m \in N, d \in Side : u.kid[d][m] = IF d = "L" /\ m = y THEN l
                                             ELSE IF q # z /\ d = "R" /\ m = y THEN r
                                             ELSE IF q # z /\ d = "L" /\ m = q THEN c
                                             ELSE t1.kid[d][m]
  BY <1>12, <1>14, <1>15, <1>17, <1>19
<1>25. u.kid["L"][y] = l
  BY <1>1, <1>24
<1>26. u.kid["R"][y] = IF q = z THEN c ELSE r
  <2>1. t1.kid["R"][y] = c
    BY <1>1, <1>2, <1>4
  <2>2. QED
    BY <1>1, <1>24, <2>1
<1>27. \A m \in X \ {y}, d \in Side :
           u.kid[d][m] = IF q # z /\ m = q /\ d = "L" THEN c
                         ELSE IF t.kid[d][m] = z THEN y ELSE t.kid[d][m]
  <2>1. ASSUME NEW m \in X \ {y}, NEW d \in Side
        PROVE  u.kid[d][m] = IF q # z /\ m = q /\ d = "L" THEN c ELSE t1.kid[d][m]
    BY <1>1, <1>24
  <2>2. QED
    BY <1>4, <2>1
<1>28. \A m \in N \ X, d \in Side : u.kid[d][m] = t.kid[d][m]
  <2>1. q \in X
    BY DEF Heir
  <2>2. ASSUME NEW m \in N \ X, NEW d \in Side PROVE u.kid[d][m] = t1.kid[d][m]
    BY <1>2, <1>24, <2>1
  <2>3. QED
    BY <1>4, <2>2
<1>29. IsInner(u, t, N, X, z, y, q, c)
  BY <1>19, <1>21, <1>22, <1>23, <1>25, <1>26, <1>27, <1>28, <1>p, <1>l, <1>r DEF IsInner
<1>30. QED
  BY <1>20, <1>29


-----------------------------------------------------------------------------
(* Induction from the leaves of a tree up                                    *)

LEMMA KidSmaller ==
    ASSUME NEW N, NULL \notin N, IsFiniteSet(N), NEW t, NEW sub, Tree(t, N, sub),
           NEW m \in sub[t.root], NEW d \in Side, NEW k, k = t.kid[d][m], k # NULL
    PROVE  /\ k \in sub[t.root] /\ sub[k] \subseteq sub[m]
           /\ Cardinality(sub[k]) < Cardinality(sub[m])
<1>1. k \in sub[t.root] /\ m \notin sub[k] /\ m \in sub[m]
  BY Family
<1>2. sub[k] \subseteq sub[m]
  BY DEF Tree, Splits
<1>3. IsFiniteSet(sub[m]) /\ Cardinality(sub[m]) \in Nat /\ Cardinality(sub[k]) \in Nat
  <2>1. sub[m] \in SUBSET N /\ sub[k] \in SUBSET N
    <3>1. t \in TreeOn(N) /\ sub \in [N \cup {NULL} -> SUBSET N]
      BY DEF Tree
    <3>2. t.root \in N \cup {NULL}
      BY <3>1, KidType
    <3>3. sub[t.root] \in SUBSET N
      BY <3>1, <3>2
    <3>4. QED
      BY <1>1, <3>1, <3>3
  <2>2. QED
    BY <2>1, FS_Subset, FS_CardinalityType
<1>4. sub[k] # sub[m]
  BY <1>1
<1>5. Cardinality(sub[k]) <= Cardinality(sub[m]) /\ Cardinality(sub[k]) # Cardinality(sub[m])
  BY <1>2, <1>3, <1>4, FS_Subset
<1>6. QED
  BY <1>1, <1>2, <1>3, <1>5

LEMMA TreeInduction ==
    ASSUME NEW N, NULL \notin N, IsFiniteSet(N), NEW t, NEW sub, Tree(t, N, sub),
           NEW X, X = sub[t.root], NEW Q,
           \A m \in X : (\A d \in Side : t.kid[d][m] \in Q \cup {NULL}) => m \in Q
    PROVE  X \subseteq Q
<1>1. /\ t \in TreeOn(N) /\ X \subseteq N /\ sub \in [N \cup {NULL} -> SUBSET N]
  <2>1. t \in TreeOn(N) /\ sub \in [N \cup {NULL} -> SUBSET N]
    BY DEF Tree
  <2>2. QED
    BY <2>1, KidType
<1>2. \A m \in X : IsFiniteSet(sub[m]) /\ Cardinality(sub[m]) \in Nat
  <2>1. ASSUME NEW m \in X PROVE IsFiniteSet(sub[m]) /\ Cardinality(sub[m]) \in Nat
    <3>1. sub[m] \in SUBSET N
      BY <1>1
    <3>2. QED
      BY <3>1, FS_Subset, FS_CardinalityType
  <2>2. QED
    BY <2>1
<1> DEFINE Sizes == {Cardinality(sub[m]) : m \in X \ Q}
<1>3. SUFFICES ASSUME Sizes # {} PROVE FALSE
  OBVIOUS
<1>4. Sizes \in SUBSET Nat
  BY <1>2
<1>5. PICK i \in Sizes : \A j \in Sizes : i <= j
  <2> HIDE DEF Sizes
  <2>1. QED
    BY <1>3, <1>4, Least
<1>6. PICK m \in X \ Q : i = Cardinality(sub[m])
  BY <1>5
<1> HIDE DEF Sizes
<1>7. ASSUME NEW d \in Side, t.kid[d][m] # NULL PROVE t.kid[d][m] \in Q
  <2>k. PICK k : k = t.kid[d][m]
    OBVIOUS
  <2>1. k # NULL /\ m \in sub[t.root]
    BY <1>7, <2>k
  <2>2. k \in X /\ Cardinality(sub[k]) < Cardinality(sub[m])
    <3>1. k \in sub[t.root] /\ Cardinality(sub[k]) < Cardinality(sub[m])
      BY <2>k, <2>1, KidSmaller
    <3>2. QED
      BY <3>1
  <2>4. Cardinality(sub[k]) \in Nat /\ i \in Nat
    BY <1>2, <1>6, <2>2
  <2>5. k \notin X \ Q
    <3>1. k \in X \ Q => Cardinality(sub[k]) \in Sizes
      BY DEF Sizes
    <3>2. k \in X \ Q => Cardinality(sub[m]) <= Cardinality(sub[k])
      BY <1>5, <1>6, <3>1, Zenon
    <3>3. QED
      BY <1>6, <2>2, <2>4, <3>2
  <2>6. QED
    BY <2>k, <2>2, <2>5
<1>8. m \in Q
  BY <1>7
<1>9. QED
  BY <1>6, <1>8

\* What is below a node below m is below m.
LEMMA Nested ==
    ASSUME NEW N, NULL \notin N, IsFiniteSet(N), NEW t, NEW sub, Tree(t, N, sub),
           NEW X, X = sub[t.root]
    PROVE  \A m \in X : \A n \in sub[m] : sub[n] \subseteq sub[m]
<1> DEFINE Q == {m \in X : \A n \in sub[m] : sub[n] \subseteq sub[m]}
<1>1. ASSUME NEW m \in X, \A d \in Side : t.kid[d][m] \in Q \cup {NULL} PROVE m \in Q
  <2>1. /\ "L" \in Side /\ "R" \in Side /\ Other("L") = "R" /\ sub[NULL] = {}
    BY DEF Side, Other, Tree
  <2>a. PICK a : a = t.kid["L"][m]
    OBVIOUS
  <2>b. PICK b : b = t.kid["R"][m]
    OBVIOUS
  <2>2. Splits(t, sub, m, "L")
    BY <2>1 DEF Tree
  <2>3. sub[m] = {m} \cup sub[a] \cup sub[b]
    BY <2>1, <2>2, <2>a, <2>b DEF Splits
  <2>4. a \in Q \cup {NULL} /\ b \in Q \cup {NULL}
    BY <1>1, <2>1, <2>a, <2>b
  <2>5. ASSUME NEW n \in sub[m] PROVE sub[n] \subseteq sub[m]
    BY <2>1, <2>3, <2>4
  <2>6. QED
    BY <2>5
<1> HIDE DEF Q
<1>2. \A m \in X : (\A d \in Side : t.kid[d][m] \in Q \cup {NULL}) => m \in Q
  BY <1>1
<1>3. X \subseteq Q
  BY <1>2, TreeInduction
<1>4. QED
  BY <1>3 DEF Q


\* y is the node with the smallest value in the right subtree of z
Successor(t, sub, v, z, y) ==
    /\ t.kid["L"][z] # NULL /\ y \in sub[t.kid["R"][z]] /\ t.kid["L"][y] = NULL
    /\ \A k \in sub[t.kid["R"][z]] : k = y \/ v[y] < v[k]

LEMMA SuccessorKin ==
    ASSUME NEW N, NULL \notin N, IsFiniteSet(N), NEW t, NEW sub, Tree(t, N, sub),
           NEW X, X = sub[t.root], NEW z \in X, NEW v, NEW y, Successor(t, sub, v, z, y)
    PROVE  /\ Heir(t, X, z, y, t.par[y], t.kid["R"][y])
           /\ y # t.root /\ y \in sub[z]
           /\ \A m \in X : z \in sub[m] => y \in sub[m]
           /\ \A m \in X, d \in Side : z \in sub[t.kid[d][m]] => y \in sub[t.kid[d][m]]
<1>1. /\ "L" \in Side /\ "R" \in Side /\ Other("R") = "L" /\ Other("L") = "R" /\ sub[NULL] = {}
  BY DEF Side, Other, Tree
<1>a. PICK a : a = t.kid["L"][z]
  OBVIOUS
<1>b. PICK b : b = t.kid["R"][z]
  OBVIOUS
<1>2. a # NULL /\ y \in sub[b] /\ t.kid["L"][y] = NULL
  BY <1>a, <1>b DEF Successor
<1>3. Splits(t, sub, z, "R")
  BY <1>1 DEF Tree
<1>4. /\ sub[z] = {z} \cup sub[b] \cup sub[a]
      /\ z \notin sub[b] /\ z \notin sub[a] /\ sub[b] \cap sub[a] = {}
  BY <1>1, <1>3, <1>a, <1>b DEF Splits
<1>5. sub[z] \subseteq X
  BY DEF Tree
<1>6. y \in X /\ y # z /\ y \in sub[z]
  BY <1>2, <1>4, <1>5
<1>7. b # NULL
  BY <1>1, <1>2
<1>8. b \in X /\ a \in X /\ a \in sub[a] /\ z \in N
  <2>1. b \in X
    <3>1. z \in sub[t.root]
      OBVIOUS
    <3>2. b \in sub[t.root]
      BY <1>1, <1>b, <1>7, <3>1, Family
    <3>3. QED
      BY <3>2
  <2>2. a \in X /\ a \in sub[a] /\ z \in N
    <3>1. z \in sub[t.root]
      OBVIOUS
    <3>2. a \in sub[t.root] /\ a \in sub[a] /\ z \in N
      BY <1>1, <1>a, <1>2, <3>1, Family
    <3>3. QED
      BY <3>2
  <2>3. QED
    BY <2>1, <2>2
<1>9. a # y
  BY <1>2, <1>4, <1>8
<1>10. \A m \in X : \A n \in sub[m] : sub[n] \subseteq sub[m]
  BY Nested
<1>11. \A m \in X : z \in sub[m] => y \in sub[m]
  BY <1>6, <1>10
<1>12. ASSUME NEW m \in X, NEW d \in Side, z \in sub[t.kid[d][m]] PROVE y \in sub[t.kid[d][m]]
  <2>k. PICK k : k = t.kid[d][m]
    OBVIOUS
  <2>1. k # NULL
    BY <1>1, <1>12, <2>k
  <2>2. k \in X
    <3>1. m \in sub[t.root]
      OBVIOUS
    <3>2. k \in sub[t.root]
      BY <2>k, <2>1, <3>1, Family
    <3>3. QED
      BY <3>2
  <2>3. QED
    BY <1>11, <1>12, <2>k, <2>2
<1>13. \A d \in Side : t.kid[d][y] # z
  <2>1. ASSUME NEW d \in Side, t.kid[d][y] = z PROVE FALSE
    <3>1. z \in sub[z]
      BY <1>4
    <3>2. y \in sub[t.kid[d][y]]
      BY <1>6, <1>12, <2>1, <3>1
    <3>3. Splits(t, sub, y, d)
      BY <1>6 DEF Tree
    <3>4. QED
      BY <3>2, <3>3 DEF Splits
  <2>2. QED
    BY <2>1
<1>14. y # t.root
  <2>1. ASSUME y = t.root PROVE FALSE
    <3>1. sub[y] \subseteq sub[b]
      BY <1>2, <1>8, <1>10
    <3>2. QED
      BY <1>4, <2>1, <3>1
  <2>2. QED
    BY <2>1
<1>15. PICK f \in Side : HangsAt(t, X, y, f)
  BY <1>6, <1>14, OneParent
<1>q. PICK q : q = t.par[y]
  OBVIOUS
<1>16. q \in X /\ t.kid[f][q] = y
  BY <1>15, <1>q DEF HangsAt
<1>17. q # y
  <2>1. Splits(t, sub, q, f) /\ y \in sub[y]
    BY <1>1, <1>6, <1>16 DEF Tree, Splits
  <2>2. QED
    BY <1>16, <2>1 DEF Splits
<1>18. t.par[z] # y
  <2>1. CASE z = t.root
    <3>1. y # NULL
      BY <1>6, OneParent
    <3>2. t.par[z] = NULL
      BY <2>1, OneParent
    <3>3. QED
      BY <3>1, <3>2
  <2>2. CASE z # t.root
    <3>1. PICK g \in Side : HangsAt(t, X, z, g)
      BY <2>2, OneParent
    <3>p. PICK p : p = t.par[z]
      OBVIOUS
    <3>2. t.kid[g][p] = z
      BY <3>1, <3>p DEF HangsAt
    <3>3. QED
      BY <1>13, <3>2, <3>p
  <2>3. QED
    BY <2>1, <2>2
<1>19. Heir(t, X, z, y, q, t.kid["R"][y])
  BY <1>2, <1>6, <1>7, <1>9, <1>13, <1>16, <1>17, <1>18, <1>a, <1>b, <1>q DEF Heir
<1>20. QED
  BY <1>6, <1>11, <1>12, <1>14, <1>19, <1>q


LEMMA ParentBelow ==
    ASSUME NEW N, NULL \notin N, IsFiniteSet(N), NEW t, NEW sub, Tree(t, N, sub),
           NEW X, X = sub[t.root]
    PROVE  \A m \in X : \A n \in sub[m] : n # m => t.par[n] \in sub[m]
<1> DEFINE Q == {m \in X : \A n \in sub[m] : n # m => t.par[n] \in sub[m]}
<1>1. ASSUME NEW m \in X, \A d \in Side : t.kid[d][m] \in Q \cup {NULL} PROVE m \in Q
  <2>1. /\ "L" \in Side /\ "R" \in Side /\ Other("L") = "R" /\ sub[NULL] = {}
    BY DEF Side, Other, Tree
  <2>a. PICK a : a = t.kid["L"][m]
    OBVIOUS
  <2>b. PICK b : b = t.kid["R"][m]
    OBVIOUS
  <2>2. Splits(t, sub, m, "L")
    BY <2>1 DEF Tree
  <2>3. sub[m] = {m} \cup sub[a] \cup sub[b]
    BY <2>1, <2>2, <2>a, <2>b DEF Splits
  <2>4. a \in Q \cup {NULL} /\ b \in Q \cup {NULL}
    BY <1>1, <2>1, <2>a, <2>b
  <2>5. Agrees(t, X, m)
    BY DEF Tree
  <2>6. (a # NULL => t.par[a] = m) /\ (b # NULL => t.par[b] = m)
    BY <2>1, <2>5, <2>a, <2>b DEF Agrees
  <2>7. ASSUME NEW n \in sub[m], n # m PROVE t.par[n] \in sub[m]
    <3>1. CASE n \in sub[a]
      <4>1. n = a => t.par[n] = m
        BY <2>1, <2>6, <3>1
      <4>2. n # a => t.par[n] \in sub[a]
        BY <2>1, <2>4, <3>1
      <4>3. QED
        BY <2>3, <4>1, <4>2
    <3>2. CASE n \in sub[b]
      <4>1. n = b => t.par[n] = m
        BY <2>1, <2>6, <3>2
      <4>2. n # b => t.par[n] \in sub[b]
        BY <2>1, <2>4, <3>2
      <4>3. QED
        BY <2>3, <4>1, <4>2
    <3>3. QED
      BY <2>3, <2>7, <3>1, <3>2
  <2>8. QED
    BY <2>7
<1> HIDE DEF Q
<1>2. \A m \in X : (\A d \in Side : t.kid[d][m] \in Q \cup {NULL}) => m \in Q
  BY <1>1
<1>3. X \subseteq Q
  BY <1>2, TreeInduction
<1>4. QED
  BY <1>3 DEF Q

\* it is a left child but when it is the right child of z
LEMMA SuccessorLeft ==
    ASSUME NEW N, NULL \notin N, IsFiniteSet(N), NEW t, NEW sub, NEW v, Tree(t, N, sub),
           Ordered(t, sub, v),
           NEW X, X = sub[t.root], NEW z \in X, NEW y, Successor(t, sub, v, z, y),
           NEW q, q = t.par[y]
    PROVE  /\ q = z => t.kid["R"][z] = y
           /\ q # z => t.kid["L"][q] = y /\ t.kid["R"][q] # y /\ t.kid["R"][z] # y
<1>1. /\ Heir(t, X, z, y, q, t.kid["R"][y]) /\ y # t.root
  BY SuccessorKin
<1>2. /\ q \in X /\ y \in X /\ q # y /\ t.kid["L"][z] # y
  BY <1>1 DEF Heir
<1>3. PICK f \in Side : HangsAt(t, X, y, f)
  BY <1>1, <1>2, OneParent
<1>4. t.kid[f][q] = y /\ \A m \in X, d \in Side : t.kid[d][m] = y => m = q /\ d = f
  BY <1>3 DEF HangsAt
<1>5. "L" \in Side /\ "R" \in Side /\ (f = "L" \/ f = "R")
  BY DEF Side
<1>6. CASE q = z
  BY <1>2, <1>4, <1>5, <1>6
<1>7. CASE q # z
  <2>b. PICK b : b = t.kid["R"][z]
    OBVIOUS
  <2>1. y \in sub[b] /\ \A k \in sub[b] : k = y \/ v[y] < v[k]
    BY <2>b DEF Successor
  <2>2. b # y
    BY <1>4, <1>5, <1>7, <2>b
  <2>3. b \in X
    <3>1. b # NULL
      BY <2>1 DEF Tree
    <3>2. z \in sub[t.root] /\ "R" \in Side
      BY <1>5
    <3>3. b \in sub[t.root]
      BY <2>b, <3>1, <3>2, Family
    <3>4. QED
      BY <3>3
  <2>4. q \in sub[b]
    <3>1. \A m \in X : \A n \in sub[m] : n # m => t.par[n] \in sub[m]
      BY ParentBelow
    <3>2. QED
      BY <2>1, <2>2, <2>3, <3>1
  <2>5. v[y] < v[q] /\ v[y] \in Nat /\ v[q] \in Nat
    <3>1. v[y] < v[q]
      BY <1>2, <2>1, <2>4
    <3>2. v[y] \in Nat /\ v[q] \in Nat
      BY <1>2 DEF Ordered
    <3>3. QED
      BY <3>1, <3>2
  <2>6. y \in sub[t.kid[f][q]]
    <3>1. Splits(t, sub, y, "L")
      BY <1>2, <1>5 DEF Tree
    <3>2. y \in sub[y]
      BY <3>1 DEF Splits
    <3>3. QED
      BY <1>4, <3>2
  <2>7. Beside(f, v[y], v[q])
    BY <1>2, <2>6 DEF Ordered
  <2>8. f = "L"
    BY <1>5, <2>5, <2>7 DEF Beside
  <2>9. "R" # "L"
    OBVIOUS
  <2>10. t.kid["L"][q] = y
    BY <1>4, <2>8, Zenon
  <2>11. t.kid["R"][q] # y
    BY <1>2, <1>4, <1>5, <2>8, <2>9, Zenon
  <2>12. QED
    BY <1>7, <2>2, <2>b, <2>10, <2>11, Zenon
<1>8. QED
  BY <1>6, <1>7


\* The tree with y in the place of z is the tree without y, with z renamed.
LEMMA InnerRenames ==
    ASSUME NEW N, NULL \notin N, NEW t, NEW sub, Tree(t, N, sub),
           NEW X, X = sub[t.root], NEW z \in X, NEW y, NEW q, NEW c, Heir(t, X, z, y, q, c),
           y # t.root, t.kid["L"][y] = NULL,
           q = z => t.kid["R"][z] = y,
           q # z => t.kid["L"][q] = y /\ t.kid["R"][q] # y /\ t.kid["R"][z] # y,
           NEW u, IsInner(u, t, N, X, z, y, q, c), NEW w, IsCut(w, t, N, X, y, c),
           NEW r, r = Renaming(N, z, y)
    PROVE  IsRenamed(u, w, N, X \ {y}, r)
<1>l. PICK l : l = t.kid["L"][z]
  OBVIOUS
<1>b. PICK b : b = t.kid["R"][z]
  OBVIOUS
<1>1. /\ z \in N /\ z # NULL /\ y \in N /\ y # NULL /\ y # z /\ y \in X /\ X \subseteq N
      /\ q \in X /\ q # y /\ l # NULL /\ l # y /\ b # NULL /\ t.par[z] # y
      /\ c = t.kid["R"][y] /\ t \in TreeOn(N)
  <2>1. y \in X
    BY DEF Heir
  <2>2. z \in N /\ z # NULL /\ y \in N /\ y # NULL /\ X \subseteq N /\ t \in TreeOn(N)
    BY <2>1, OneParent
  <2>3. y # z /\ q \in X /\ q # y /\ l # NULL /\ l # y /\ b # NULL /\ t.par[z] # y
        /\ c = t.kid["R"][y]
    BY <1>l, <1>b DEF Heir
  <2>4. QED
    BY <2>1, <2>2, <2>3
<1>2. r[NULL] = NULL /\ r[z] = y /\ \A m \in N \cup {NULL} : m # z => r[m] = m
  BY <1>1, Zenon DEF Renaming
<1>3. \A m \in X, d \in Side : t.kid[d][m] # NULL => t.kid[d][m] \in X /\ t.par[t.kid[d][m]] = m
  BY DEF Tree, Agrees
<1>4. \A m \in X, d \in Side : t.kid[d][m] \in N \cup {NULL} /\ t.par[m] \in N \cup {NULL}
  BY <1>1, KidType
<1>5. "L" \in Side /\ "R" \in Side /\ "R" # "L" /\ \A d \in Side : d = "L" \/ d = "R"
  BY DEF Side
<1>6. \A m \in X, d \in Side : t.kid[d][m] = y => m = q
  <2>1. q = t.par[y]
    BY DEF Heir
  <2>2. QED
    BY <1>1, <1>3, <2>1
<1>7. c \in N \cup {NULL} /\ c # z /\ (c # NULL => c \in X /\ t.par[c] = y)
  <2>1. c \in N \cup {NULL} /\ (c # NULL => c \in X /\ t.par[c] = y)
    BY <1>1, <1>3, <1>4, <1>5
  <2>2. c # z
    BY <1>1, <2>1
  <2>3. QED
    BY <2>1, <2>2
<1>8. /\ u \in TreeOn(N) /\ u.root = IF z = t.root THEN y ELSE t.root
      /\ u.black = IF z \in t.black THEN t.black \cup {y} ELSE t.black \ {y}
      /\ \A m \in N : u.par[m] = IF m = l THEN y ELSE IF m = y THEN t.par[z]
                                 ELSE IF q # z /\ m = b THEN y
                                 ELSE IF q # z /\ m = c THEN q ELSE t.par[m]
      /\ u.kid["L"][y] = l
      /\ u.kid["R"][y] = IF q = z THEN c ELSE b
      /\ \A m \in X \ {y}, d \in Side :
             u.kid[d][m] = IF q # z /\ m = q /\ d = "L" THEN c
                           ELSE IF t.kid[d][m] = z THEN y ELSE t.kid[d][m]
  BY <1>l, <1>b DEF IsInner
<1>9. /\ w \in TreeOn(N) /\ w.black = t.black /\ w.root = t.root
      /\ \A m \in N : w.par[m] = IF m = c THEN t.par[y] ELSE t.par[m]
      /\ \A m \in X, d \in Side : w.kid[d][m] = IF t.kid[d][m] = y THEN c ELSE t.kid[d][m]
  BY DEF IsCut
<1>10. u.root = r[w.root]
  <2>1. t.root \in N \cup {NULL}
    BY <1>1, KidType
  <2>2. QED
    BY <1>2, <1>8, <1>9, <2>1
<1>11. ASSUME NEW m \in X \ {y}, NEW d \in Side PROVE u.kid[d][r[m]] = r[w.kid[d][m]]
  <2>1. CASE m = z /\ d = "L"
    <3>1. w.kid["L"][z] = l /\ r[l] = l
      <4>1. t.kid["L"][z] = l /\ t.kid["L"][z] # y
        BY <1>1, <1>l
      <4>2. w.kid["L"][z] = l
        BY <1>5, <1>9, <4>1
      <4>3. l \in N \cup {NULL} /\ l # z
        <5>1. l \in N
          BY <1>1, <1>3, <1>5, <1>l
        <5>2. Splits(t, sub, z, "L")
          BY <1>5 DEF Tree
        <5>3. Splits(t, sub, l, "L")
          BY <1>1, <1>3, <1>5, <1>l, SMTT(30) DEF Tree
        <5>4. l # z
          BY <5>2, <5>3, <1>l DEF Splits
        <5>5. QED
          BY <5>1, <5>4
      <4>4. QED
        BY <1>2, <4>2, <4>3
    <3>2. QED
      BY <1>2, <1>8, <2>1, <3>1
  <2>2. CASE m = z /\ d = "R" /\ q = z
    <3>1. w.kid["R"][z] = c
      BY <1>5, <1>9, <2>2
    <3>2. QED
      BY <1>2, <1>7, <1>8, <2>2, <3>1
  <2>3. CASE m = z /\ d = "R" /\ q # z
    <3>1. w.kid["R"][z] = b
      <4>1. t.kid["R"][z] = b /\ t.kid["R"][z] # y
        BY <1>b, <2>3
      <4>2. QED
        BY <1>5, <1>9, <4>1
    <3>2. b \in N \cup {NULL} /\ b # z
      <4>1. b \in N
        BY <1>1, <1>3, <1>5, <1>b
      <4>2. Splits(t, sub, z, "R")
        BY <1>5 DEF Tree
      <4>3. Splits(t, sub, b, "L")
        BY <1>1, <1>3, <1>5, <1>b, SMTT(30) DEF Tree
      <4>4. b # z
        BY <4>2, <4>3, <1>b, Zenon DEF Splits
      <4>5. QED
        BY <4>1, <4>4
    <3>3. QED
      BY <1>2, <1>8, <2>3, <3>1, <3>2
  <2>4. CASE m # z
    <3>k. PICK k : k = t.kid[d][m]
      OBVIOUS
    <3>1. r[m] = m /\ m \in X /\ k \in N \cup {NULL} /\ m \in N
      BY <1>1, <1>2, <1>4, <2>4, <3>k
    <3>2. CASE k = y
      <4>1. m = q /\ q # z
        BY <1>6, <2>4, <3>k, <3>2
      <4>2. d = "L"
        BY <1>5, <4>1, <3>k, <3>2
      <4>3. u.kid[d][m] = c
        BY <1>8, <4>1, <4>2
      <4>4. w.kid[d][m] = c
        BY <1>9, <3>1, <3>2, <3>k
      <4>5. QED
        BY <1>2, <1>7, <3>1, <4>3, <4>4
    <3>3. CASE k # y
      <4>1. w.kid[d][m] = k
        BY <1>9, <3>1, <3>3, <3>k
      <4>2. ~(q # z /\ m = q /\ d = "L")
        BY <3>3, <3>k
      <4>3. u.kid[d][m] = IF k = z THEN y ELSE k
        BY <1>8, <4>2, <3>k
      <4>4. QED
        BY <1>2, <3>1, <4>1, <4>3
    <3>4. QED
      BY <3>2, <3>3
  <2>5. QED
    BY <1>5, <2>1, <2>2, <2>3, <2>4
<1>12. ASSUME NEW m \in X \ {y} PROVE u.par[r[m]] = r[w.par[m]]
  <2>p. PICK p : p = t.par[m]
    OBVIOUS
  <2>0. m \in X /\ m \in N /\ p \in N \cup {NULL}
    BY <1>1, <1>4, <1>5, <2>p
  <2>q. q = t.par[y]
    BY DEF Heir
  <2>l. l \in X /\ t.par[l] = z
    BY <1>1, <1>3, <1>5, <1>l
  <2>b. b \in X /\ t.par[b] = z
    BY <1>1, <1>3, <1>5, <1>b
  <2>1. CASE m = z
    <3>1. p # z
      <4>1. CASE z = t.root
        BY <1>1, <2>1, <2>p, <4>1, OneParent
      <4>2. CASE z # t.root
        <5>1. PICK f \in Side : HangsAt(t, X, z, f)
          BY <4>2, OneParent
        <5>2. p \in X /\ t.kid[f][p] = z
          BY <5>1, <2>1, <2>p DEF HangsAt
        <5>3. Splits(t, sub, p, f) /\ Splits(t, sub, z, f)
          BY <5>2 DEF Tree
        <5>4. QED
          BY <5>2, <5>3 DEF Splits
      <4>3. QED
        BY <4>1, <4>2
    <3>2. w.par[z] = p
      BY <1>1, <1>7, <1>9, <2>1, <2>p
    <3>3. u.par[y] = p
      BY <1>1, <1>8, <2>1, <2>p
    <3>4. QED
      BY <1>2, <2>0, <2>1, <3>1, <3>2, <3>3
  <2>2. CASE m = c /\ m # z
    <3>1. w.par[m] = q /\ r[m] = m /\ p = y
      BY <1>2, <1>7, <1>9, <2>0, <2>2, <2>p, <2>q, <1>1
    <3>2. m # l /\ m # b
      BY <1>1, <2>l, <2>b, <2>p, <3>1
    <3>3. CASE q = z
      <4>1. u.par[m] = p
        BY <1>8, <2>0, <2>p, <3>2, <3>3
      <4>2. QED
        BY <1>2, <3>1, <3>3, <4>1
    <3>4. CASE q # z
      <4>1. u.par[m] = q
        BY <1>8, <2>0, <2>2, <3>2, <3>4
      <4>2. q \in N
        BY <1>1
      <4>3. QED
        BY <1>2, <3>1, <3>4, <4>1, <4>2
    <3>5. QED
      BY <3>3, <3>4
  <2>3. CASE m # c /\ m # z
    <3>1. w.par[m] = p /\ r[m] = m
      BY <1>2, <1>9, <2>0, <2>3, <2>p
    <3>2. CASE p = z
      <4>1. m # t.root
        <5>1. m = t.root => t.par[m] = NULL
          BY <2>0, OneParent
        <5>2. QED
          BY <1>1, <2>p, <3>2, <5>1
      <4>2. PICK f \in Side : HangsAt(t, X, m, f)
        BY <2>0, <4>1, OneParent
      <4>3. t.kid[f][z] = m
        BY <4>2, <2>p, <3>2 DEF HangsAt
      <4>4. m = l \/ m = b
        BY <1>5, <1>l, <1>b, <4>3
      <4>5. q = z => b = y
        BY <1>b
      <4>6. u.par[m] = y
        BY <1>8, <2>0, <4>4, <4>5
      <4>7. QED
        BY <1>2, <3>1, <3>2, <4>6
    <3>3. CASE p # z
      <4>1. m # l /\ m # b
        BY <2>l, <2>b, <2>p, <3>3
      <4>2. u.par[m] = p
        BY <1>8, <2>0, <2>3, <2>p, <4>1
      <4>3. QED
        BY <1>2, <2>0, <3>1, <3>3, <4>2
    <3>4. QED
      BY <3>2, <3>3
  <2>4. QED
    BY <2>1, <2>2, <2>3
<1>13. ASSUME NEW m \in X \ {y} PROVE r[m] \in u.black <=> m \in w.black
  <2>1. m \in N
    BY <1>1
  <2>2. CASE m = z
    BY <1>2, <1>8, <1>9, <2>2
  <2>3. CASE m # z
    BY <1>2, <1>8, <1>9, <2>1, <2>3
  <2>4. QED
    BY <2>2, <2>3
<1>14. QED
  <2>1. PICK Y : Y = X \ {y}
    OBVIOUS
  <2>2. IsRenamed(u, w, N, Y, r)
    BY <1>8, <1>10, <1>11, <1>12, <1>13, <2>1 DEF IsRenamed
  <2>3. QED
    BY <2>1, <2>2


LEMMA CutBelow ==
    ASSUME NEW N, NULL \notin N, NEW t, NEW sub, Tree(t, N, sub),
           NEW X, X = sub[t.root], NEW z \in X, NEW f \in Side, t.kid[f][z] = NULL,
           NEW c, c = t.kid[Other(f)][z], NEW u, IsCut(u, t, N, X, z, c)
    PROVE  \A m \in X, d \in Side : Without(N, sub, z)[u.kid[d][m]] = sub[t.kid[d][m]] \ {z}
<1>n. PICK new : new = Without(N, sub, z)
  OBVIOUS
<1>1. t \in TreeOn(N) /\ X \subseteq N /\ z \in N /\ sub[NULL] = {} /\ Other(f) \in Side
  <2>1. t \in TreeOn(N) /\ X \subseteq N /\ z \in N
    BY OneParent
  <2>2. sub[NULL] = {} /\ Other(f) \in Side
    BY TwoSides DEF Tree
  <2>3. QED
    BY <2>1, <2>2
<1>2. c \in N \cup {NULL}
  BY <1>1, KidType
<1>3. \A m \in N \cup {NULL} : new[m] = sub[m] \ {z}
  BY <1>n DEF Without
<1>4. sub[z] = {z} \cup sub[c] /\ z \notin sub[c]
  <2>1. Splits(t, sub, z, f)
    BY DEF Tree
  <2>2. QED
    BY <1>1, <2>1 DEF Splits
<1>5. ASSUME NEW m \in X, NEW d \in Side PROVE new[u.kid[d][m]] = sub[t.kid[d][m]] \ {z}
  <2>k. PICK k : k = t.kid[d][m]
    OBVIOUS
  <2>1. k \in N \cup {NULL}
    BY <1>1, <2>k, KidType
  <2>2. u.kid[d][m] = IF k = z THEN c ELSE k
    BY <2>k DEF IsCut
  <2>3. CASE k = z
    <3>1. new[c] = sub[c] \ {z}
      BY <1>2, <1>3
    <3>2. u.kid[d][m] = c /\ sub[k] \ {z} = sub[c]
      BY <1>4, <2>2, <2>3
    <3>3. QED
      BY <1>4, <2>k, <3>1, <3>2
  <2>4. CASE k # z
    BY <1>3, <2>1, <2>2, <2>4, <2>k
  <2>5. QED
    BY <2>3, <2>4
<1>6. QED
  BY <1>5, <1>n

\* u is t without z, whose place the node y has; what lacks, if anything, lacks
\* at c, the child that y had
InnerGone(u, t, N, S, sub, v, z, y, c, p) ==
    \E new, bh :
        /\ Whole(u, N, S, new, v) /\ new[u.root] = sub[t.root] \ {z}
        /\ y \notin t.black => Level(u, N, sub[t.root] \ {z}, bh) /\ RbShape(u, new, bh)
        /\ y \in t.black => \E s : Short(u, N, new, bh, c, p, s)
        /\ new = RenamedSub(N, Without(N, sub, y), z, y)

LEMMA InnerGoes ==
    ASSUME NEW N, NULL \notin N, IsFiniteSet(N), NEW t, NEW S, NEW sub, NEW v, NEW bh,
           Whole(t, N, S, sub, v), Level(t, N, sub[t.root], bh), RbShape(t, sub, bh),
           NEW z \in sub[t.root], NEW y, Successor(t, sub, v, z, y),
           NEW q, q = t.par[y], NEW c, c = t.kid["R"][y]
    PROVE  InnerGone(EraseInner(t, z, y), t, N, S, sub, v, z, y, c, IF q = z THEN y ELSE q)
<1>X. PICK X : X = sub[t.root]
  OBVIOUS
<1>u. PICK u : u = EraseInner(t, z, y)
  OBVIOUS
<1>w. PICK w : w = EraseLeaf(t, y, c)
  OBVIOUS
<1>W. PICK W : W = Without(N, sub, y)
  OBVIOUS
<1>r. PICK r : r = Renaming(N, z, y)
  OBVIOUS
<1>1. /\ Tree(t, N, sub) /\ Ordered(t, sub, v) /\ S \subseteq N /\ S \cap X = {} /\ Rest(t, S)
  BY <1>X DEF Whole
<1>2. z \in X
  BY <1>X
<1>3. "L" \in Side /\ "R" \in Side /\ Other("L") = "R"
  BY DEF Side, Other
<1>4. t.kid["L"][y] = NULL
  BY DEF Successor
<1>5. /\ Heir(t, X, z, y, q, c) /\ y # t.root
      /\ \A m \in X, d \in Side : z \in sub[t.kid[d][m]] => y \in sub[t.kid[d][m]]
  <2>1. /\ Heir(t, X, z, y, t.par[y], t.kid["R"][y]) /\ y # t.root
        /\ \A m \in X, d \in Side : z \in sub[t.kid[d][m]] => y \in sub[t.kid[d][m]]
    BY <1>1, <1>2, <1>X, SuccessorKin
  <2>2. QED
    BY <2>1
<1>6. /\ q = z => t.kid["R"][z] = y
      /\ q # z => t.kid["L"][q] = y /\ t.kid["R"][q] # y /\ t.kid["R"][z] # y
  BY <1>1, <1>2, <1>X, SuccessorLeft
<1>7. y \in X /\ y # z /\ q \in X
  BY <1>5 DEF Heir
<1>8. X \subseteq N /\ y \in N /\ z \in N /\ t \in TreeOn(N)
  BY <1>1, <1>2, <1>7, <1>X, OneParent
<1>9. Leaves(w, t, N, S, sub, v, bh, y, c)
  <2>1. y \in sub[t.root] /\ c = t.kid[Other("L")][y]
    BY <1>3, <1>7, <1>X
  <2>2. QED
    BY <1>3, <1>4, <1>w, <2>1, LeafGoes
<1>10. /\ IsCut(w, t, N, X, y, c) /\ Whole(w, N, S, W, v) /\ W[w.root] = X \ {y}
       /\ y \notin t.black => Level(w, N, X \ {y}, bh) /\ RbShape(w, W, bh)
       /\ y \in t.black => \E s : Short(w, N, W, bh, c, q, s)
  BY <1>5, <1>9, <1>X, <1>W DEF Leaves
<1>11. IsInner(u, t, N, X, z, y, q, c)
  BY <1>1, <1>2, <1>5, <1>u, <1>X, InnerLinks
<1>12. IsRenamed(u, w, N, X \ {y}, r)
  BY <1>1, <1>2, <1>4, <1>5, <1>6, <1>10, <1>11, <1>X, <1>r, InnerRenames
<1>Y. PICK Y : Y = X \ {y}
  OBVIOUS
<1>13. IsRenamed(u, w, N, Y, r) /\ Y = W[w.root] /\ z \in Y /\ y \in N \ Y /\ Tree(w, N, W)
  <2>1. Tree(w, N, W)
    BY <1>10 DEF Whole
  <2>2. QED
    BY <1>2, <1>7, <1>8, <1>10, <1>12, <1>Y, <2>1
<1>14. y \notin S
  BY <1>1, <1>7
<1>15. Rest(u, S)
  <2>1. q = t.par[y] /\ t.kid["L"][z] # NULL
    BY <1>5 DEF Heir
  <2>2. /\ \A m \in X, d \in Side : t.kid[d][m] # NULL => t.kid[d][m] \in X
    BY <1>1, <1>X DEF Tree, Agrees
  <2>3. c \in X \cup {NULL} /\ t.kid["L"][z] \in X \cup {NULL} /\ t.kid["R"][z] \in X \cup {NULL}
    BY <1>2, <1>3, <1>7, <2>2
  <2>4. ASSUME NEW m \in S PROVE u.par[m] = m /\ \A s \in Side : u.kid[s][m] = NULL
    <3>1. m \in N \ X /\ m # NULL
      BY <1>1
    <3>2. t.par[m] = m /\ \A s \in Side : t.kid[s][m] = NULL
      BY <1>1 DEF Rest
    <3>3. u.par[m] = m
      <4>1. m # t.kid["L"][z] /\ m # t.kid["R"][z] /\ m # c /\ m # y
        BY <1>7, <2>3, <3>1
      <4>2. QED
        BY <1>11, <3>1, <3>2, <4>1 DEF IsInner
    <3>4. \A s \in Side : u.kid[s][m] = NULL
      BY <1>11, <3>1, <3>2 DEF IsInner
    <3>5. QED
      BY <3>3, <3>4
  <2>5. QED
    BY <2>4 DEF Rest
<1>16. \A m \in X, d \in Side : W[w.kid[d][m]] = sub[t.kid[d][m]] \ {y}
  <2>1. c = t.kid[Other("L")][y] /\ "L" \in Side /\ Tree(t, N, sub) /\ y \in X
        /\ IsCut(w, t, N, X, y, c)
    BY <1>1, <1>3, <1>7, <1>10
  <2>2. \A m \in X, d \in Side : Without(N, sub, y)[w.kid[d][m]] = sub[t.kid[d][m]] \ {y}
    BY <1>4, <1>X, <2>1, CutBelow
  <2>3. QED
    BY <1>W, <2>2
<1>17. InPlace(w, W, v, z, y)
  <2>1. /\ \A n \in X : v[n] \in Nat
        /\ \A n \in X, s \in Side : \A m \in sub[t.kid[s][n]] : Beside(s, v[m], v[n])
    BY <1>1, <1>X DEF Ordered
  <2>2. v[y] \in Nat
    BY <1>7, <2>1
  <2>3. ASSUME NEW m \in Y, NEW d \in Side, z \in W[w.kid[d][m]] PROVE Beside(d, v[y], v[m])
    <3>1. m \in X
      BY <1>Y
    <3>2. z \in sub[t.kid[d][m]]
      BY <1>16, <2>3, <3>1
    <3>3. y \in sub[t.kid[d][m]]
      BY <1>5, <3>1, <3>2
    <3>4. QED
      BY <2>1, <3>1, <3>3
  <2>4. ASSUME NEW d \in Side, NEW m \in W[w.kid[d][z]] PROVE Beside(d, v[m], v[y])
    <3>1. m \in sub[t.kid[d][z]] /\ m # y
      BY <1>2, <1>16, <2>4
    <3>2. y \in sub[t.kid["R"][z]] /\ \A k \in sub[t.kid["R"][z]] : k = y \/ v[y] < v[k]
      BY DEF Successor
    <3>3. m \in X
      <4>1. Splits(t, sub, z, d)
        BY <1>1, <1>2, <1>X DEF Tree
      <4>2. sub[z] \subseteq X
        BY <1>1, <1>2, <1>X DEF Tree
      <4>3. QED
        BY <3>1, <4>1, <4>2 DEF Splits
    <3>4. CASE d = "R"
      <4>1. v[y] < v[m]
        BY <3>1, <3>2, <3>4
      <4>2. "R" # "L"
        OBVIOUS
      <4>3. QED
        BY <3>4, <4>1, <4>2 DEF Beside
    <3>5. CASE d = "L"
      <4>1. Beside("L", v[m], v[z]) /\ Beside("R", v[y], v[z])
        BY <1>2, <1>3, <2>1, <3>1, <3>2, <3>5
      <4>2. v[m] < v[z] /\ v[z] < v[y]
        BY <4>1 DEF Beside
      <4>3. v[m] \in Nat /\ v[z] \in Nat
        BY <1>2, <2>1, <3>3
      <4>4. v[m] < v[y]
        BY <2>2, <4>2, <4>3
      <4>5. QED
        BY <3>5, <4>4 DEF Beside
    <3>6. QED
      BY <3>4, <3>5 DEF Side
  <2>5. QED
    BY <1>13, <2>2, <2>3, <2>4 DEF InPlace
<1>n. PICK new : new = RenamedSub(N, W, z, y)
  OBVIOUS
<1>18. Whole(u, N, S, new, v)
  BY <1>10, <1>13, <1>14, <1>15, <1>17, <1>r, <1>n, RenamesWhole
<1>19. Swap(Y, z, y) = X \ {z}
  BY <1>2, <1>7, <1>Y DEF Swap
<1>20. new[u.root] = X \ {z}
  <2>1. new[u.root] = Swap(Y, z, y)
    BY <1>13, <1>r, <1>n, RenamesTree
  <2>2. QED
    BY <1>19, <2>1
<1>21. /\ NULL \notin N /\ Tree(w, N, W) /\ Y = W[w.root] /\ z \in Y /\ y \in N \ Y
       /\ r = Renaming(N, z, y) /\ IsRenamed(u, w, N, Y, r) /\ new = RenamedSub(N, W, z, y)
  BY <1>13, <1>r, <1>n
<1>24. ColorsGo(u, w, N, Y, Swap(Y, z, y), W, new, r)
  BY <1>21, RenamesColors
<1>22. CASE y \notin t.black
  <2>1. Level(w, N, Y, bh) /\ RbShape(w, W, bh)
    BY <1>10, <1>22, <1>Y
  <2>4. \E b2 : Level(u, N, Swap(Y, z, y), b2) /\ RbShape(u, new, b2)
    BY <1>24, <2>1 DEF ColorsGo
  <2>2. PICK b2 : Level(u, N, X \ {z}, b2) /\ RbShape(u, new, b2)
    BY <1>19, <2>4
  <2>3. QED
    BY <1>18, <1>20, <1>22, <1>W, <1>X, <1>n, <1>u, <2>2 DEF InnerGone
<1>23. CASE y \in t.black
  <2>1. PICK s : Short(w, N, W, bh, c, q, s)
    BY <1>10, <1>23
  <2>2. PICK b2 : Short(u, N, new, b2, r[c], r[q], s)
    BY <1>24, <2>1, Zenon DEF ColorsGo
  <2>3. r[c] = c
    <3>1. c \in N \cup {NULL}
      BY <1>3, <1>7, <1>8, KidType
    <3>2. c # z
      BY <1>3, <1>5 DEF Heir
    <3>3. QED
      BY <1>r, <3>1, <3>2 DEF Renaming
  <2>4. r[q] = IF q = z THEN y ELSE q
    BY <1>7, <1>8, <1>r DEF Renaming
  <2>5. Short(u, N, new, b2, c, IF q = z THEN y ELSE q, s)
    BY <2>2, <2>3, <2>4
  <2>6. QED
    BY <1>18, <1>20, <1>23, <1>W, <1>X, <1>n, <1>u, <2>5 DEF InnerGone
<1>25. QED
  BY <1>22, <1>23


-----------------------------------------------------------------------------
(* Walks: a function that follows links until it arrives                     *)

Arrives(f, N, B, H, G) ==
    /\ f = [m \in N |-> f[m]]
    /\ \A m \in N : /\ m \in B => f[m] = H[m]
                    /\ m \notin B => f[m] = f[G[m]]

LEMMA TailRecursion ==
    ASSUME NEW N, NEW B, NEW H, NEW G, \A m \in N \ B : G[m] \in N
    PROVE  \E f : Arrives(f, N, B, H, G)
<1> DEFINE Closed(C) == C \in SUBSET N /\ \A x \in C \ B : G[x] \in C
           Ends(m) == {b \in B : \A C : m \in C /\ Closed(C) => b \in C}
           end(m) == CHOOSE b : b \in Ends(m)
           f == [m \in N |-> H[end(m)]]
<1>1. ASSUME NEW m \in N, m \in B PROVE Ends(m) = {m}
  <2>1. Closed({m})
    BY <1>1
  <2>2. \A b \in Ends(m) : b = m
    BY <2>1
  <2>3. m \in Ends(m)
    BY <1>1
  <2>4. QED
    BY <2>2, <2>3
<1>2. ASSUME NEW m \in N, m \notin B PROVE Ends(m) = Ends(G[m])
  <2>1. ASSUME NEW b \in Ends(m) PROVE b \in Ends(G[m])
    <3>1. ASSUME NEW C, G[m] \in C, Closed(C) PROVE b \in C
      <4>d. PICK D : D = C \cup {m}
        OBVIOUS
      <4>1. m \in D /\ Closed(D)
        BY <3>1, <4>d
      <4>2. b \in D /\ b \in B
        <5> HIDE DEF Closed
        <5>1. QED
          BY <4>1
      <4>3. QED
        BY <1>2, <4>d, <4>2
    <3>2. QED
      BY <3>1
  <2>2. ASSUME NEW b \in Ends(G[m]) PROVE b \in Ends(m)
    <3>1. ASSUME NEW C, m \in C, Closed(C) PROVE b \in C
      <4>1. G[m] \in C
        BY <1>2, <3>1
      <4>2. QED
        BY <3>1, <4>1
    <3>2. QED
      BY <3>1
  <2>3. QED
    BY <2>1, <2>2
<1>3. ASSUME NEW m \in N
      PROVE  (m \in B => end(m) = m) /\ (m \notin B => end(m) = end(G[m]))
  <2> HIDE DEF Ends
  <2>1. CASE m \in B
    BY <1>1, <2>1
  <2>2. CASE m \notin B
    BY <1>2, <2>2
  <2>3. QED
    BY <2>1, <2>2
<1> HIDE DEF end
<1>4. \A m \in N : f[m] = H[end(m)]
  OBVIOUS
<1>5. f = [m \in N |-> f[m]]
  BY <1>4
<1> HIDE DEF f
<1>6. ASSUME NEW m \in N
      PROVE  (m \in B => f[m] = H[m]) /\ (m \notin B => f[m] = f[G[m]])
  <2>1. CASE m \in B
    BY <1>3, <1>4, <2>1
  <2>2. CASE m \notin B
    <3>1. G[m] \in N /\ end(m) = end(G[m])
      BY <1>3, <2>2
    <3>2. QED
      BY <1>4, <2>2, <3>1
  <2>3. QED
    BY <2>1, <2>2
<1>7. Arrives(f, N, B, H, G)
  BY <1>5, <1>6 DEF Arrives
<1>8. QED
  BY <1>7

\* What beside means on the other side, and what a node splits.
LEMMA BesideFlips ==
    ASSUME NEW s \in Side, NEW x \in Nat, NEW y \in Nat
    PROVE  /\ Beside(s, x, y) <=> Beside(Other(s), y, x)
           /\ Beside(Other(s), x, y) <=> Beside(s, y, x)
  BY DEF Beside, Side, Other

LEMMA BesideChains ==
    ASSUME NEW s \in Side, NEW x \in Nat, NEW y \in Nat, NEW z \in Nat,
           Beside(s, x, y), Beside(s, y, z)
    PROVE  Beside(s, x, z)
  BY DEF Beside, Side

\* A node, the nodes on one of its sides and those on the other.
Fork(t, sub, v, m, s, a, b) ==
    /\ a = t.kid[s][m] /\ b = t.kid[Other(s)][m]
    /\ sub[m] = {m} \cup sub[a] \cup sub[b] /\ m \notin sub[a] /\ m \notin sub[b]
    /\ sub[a] \cap sub[b] = {} /\ sub[m] \subseteq sub[t.root]
    /\ \A k \in sub[m] : v[k] \in Nat
    /\ \A k \in sub[a] : Beside(s, v[k], v[m])
    /\ \A k \in sub[b] : Beside(s, v[m], v[k])

LEMMA Forks ==
    ASSUME NEW N, NULL \notin N, NEW t, NEW sub, NEW v, Tree(t, N, sub), Ordered(t, sub, v),
           NEW m \in sub[t.root], NEW s \in Side
    PROVE  /\ Fork(t, sub, v, m, s, t.kid[s][m], t.kid[Other(s)][m])
           /\ \A d \in Side : t.kid[d][m] # NULL =>
                  t.kid[d][m] \in sub[t.root] /\ t.par[t.kid[d][m]] = m
<1>a. PICK a : a = t.kid[s][m]
  OBVIOUS
<1>b. PICK b : b = t.kid[Other(s)][m]
  OBVIOUS
<1>1. Other(s) \in Side
  BY TwoSides
<1>2. Splits(t, sub, m, s) /\ Agrees(t, sub[t.root], m) /\ sub[m] \subseteq sub[t.root]
  BY DEF Tree
<1>3. /\ sub[m] = {m} \cup sub[a] \cup sub[b] /\ m \notin sub[a] /\ m \notin sub[b]
      /\ sub[a] \cap sub[b] = {}
  BY <1>2, <1>a, <1>b DEF Splits
<1>4. /\ \A k \in sub[t.root] : v[k] \in Nat
      /\ \A k \in sub[a] : Beside(s, v[k], v[m])
      /\ \A k \in sub[b] : Beside(Other(s), v[k], v[m])
  BY <1>1, <1>a, <1>b DEF Ordered
<1>5. \A k \in sub[b] : Beside(s, v[m], v[k])
  <2>1. ASSUME NEW k \in sub[b] PROVE Beside(s, v[m], v[k])
    <3>1. v[m] \in Nat /\ v[k] \in Nat /\ Beside(Other(s), v[k], v[m])
      BY <1>2, <1>3, <1>4
    <3>2. QED
      BY <3>1, BesideFlips
  <2>2. QED
    BY <2>1
<1>6. Fork(t, sub, v, m, s, a, b)
  BY <1>2, <1>3, <1>4, <1>5, <1>a, <1>b DEF Fork
<1>7. QED
  BY <1>2, <1>6, <1>a, <1>b DEF Agrees

\* The walk to one side from n ends at the outermost node below n.
LEMMA OutermostIs ==
    ASSUME NEW N, NULL \notin N, IsFiniteSet(N), NEW t, NEW sub, NEW v, Tree(t, N, sub),
           Ordered(t, sub, v), NEW n \in sub[t.root], NEW s \in Side,
           NEW y, y = Outermost(t, n, s)
    PROVE  /\ y \in sub[n] /\ t.kid[s][y] = NULL
           /\ \A k \in sub[n] : k = y \/ Beside(s, v[y], v[k])
<1>1. /\ t \in TreeOn(N) /\ DOMAIN t.par = N /\ sub[NULL] = {} /\ sub[t.root] \subseteq N
      /\ \A m \in N : t.kid[s][m] \in N \cup {NULL}
  <2>1. t \in TreeOn(N) /\ sub[NULL] = {} /\ sub \in [N \cup {NULL} -> SUBSET N]
    BY DEF Tree
  <2>2. t.root \in N \cup {NULL} /\ \A m \in N : t.kid[s][m] \in N \cup {NULL}
    BY <2>1, KidType
  <2>3. QED
    BY <2>1, <2>2, KidType
<1> DEFINE last[m \in N] == IF t.kid[s][m] = NULL THEN m ELSE last[t.kid[s][m]]
<1>2. y = last[n]
  BY <1>1 DEF Outermost
<1>3. \E f : f = [m \in N |-> IF t.kid[s][m] = NULL THEN m ELSE f[t.kid[s][m]]]
  <2> DEFINE B == {m \in N : t.kid[s][m] = NULL}
             G == [m \in N |-> t.kid[s][m]]
             H == [m \in N |-> m]
  <2>1. \A m \in N \ B : G[m] \in N
    BY <1>1
  <2>2. \A m \in N : (m \in B <=> t.kid[s][m] = NULL) /\ G[m] = t.kid[s][m] /\ H[m] = m
    OBVIOUS
  <2> HIDE DEF B, G, H
  <2>3. PICK f : Arrives(f, N, B, H, G)
    BY <2>1, TailRecursion
  <2>4. /\ f = [m \in N |-> f[m]]
        /\ \A m \in N : f[m] = IF t.kid[s][m] = NULL THEN m ELSE f[t.kid[s][m]]
    BY <2>2, <2>3 DEF Arrives
  <2>5. f = [m \in N |-> IF t.kid[s][m] = NULL THEN m ELSE f[t.kid[s][m]]]
    BY <2>4
  <2>6. QED
    BY <2>5
<1>4. last = [m \in N |-> IF t.kid[s][m] = NULL THEN m ELSE last[t.kid[s][m]]]
  BY <1>3, Zenon
<1> HIDE DEF last
<1>5. \A m \in N : last[m] = IF t.kid[s][m] = NULL THEN m ELSE last[t.kid[s][m]]
  BY <1>4
<1>X. PICK X : X = sub[t.root]
  OBVIOUS
<1> DEFINE Out(m, b) == /\ b \in sub[m] /\ t.kid[s][b] = NULL
                        /\ \A k \in sub[m] : k = b \/ Beside(s, v[b], v[k])
           Q == {m \in X : Out(m, last[m])}
<1>6. ASSUME NEW m \in X, \A d \in Side : t.kid[d][m] \in Q \cup {NULL} PROVE m \in Q
  <2>a. PICK a : a = t.kid[s][m]
    OBVIOUS
  <2>b. PICK b : b = t.kid[Other(s)][m]
    OBVIOUS
  <2>1. Fork(t, sub, v, m, s, a, b)
    BY <1>X, <2>a, <2>b, Forks
  <2>2. /\ sub[m] = {m} \cup sub[a] \cup sub[b] /\ \A k \in sub[m] : v[k] \in Nat
        /\ \A k \in sub[a] : Beside(s, v[k], v[m])
        /\ \A k \in sub[b] : Beside(s, v[m], v[k])
    BY <2>1 DEF Fork
  <2>3. CASE a = NULL
    <3>1. last[m] = m
      BY <1>1, <1>5, <1>X, <2>3, <2>a
    <3>2. sub[a] = {}
      BY <1>1, <2>3
    <3>3. Out(m, m)
      BY <2>2, <2>3, <2>a, <3>2
    <3>4. QED
      BY <3>1, <3>3
  <2>4. CASE a # NULL
    <3>c. PICK c : c = last[m]
      OBVIOUS
    <3>1. a \in Q
      BY <1>6, <2>4, <2>a
    <3>2. c = last[a]
      BY <1>1, <1>5, <1>X, <2>4, <2>a, <3>c
    <3>3. c \in sub[a] /\ t.kid[s][c] = NULL /\ \A k \in sub[a] : k = c \/ Beside(s, v[c], v[k])
      BY <3>1, <3>2
    <3>4. ASSUME NEW k \in sub[b] PROVE Beside(s, v[c], v[k])
      <4>1. /\ Beside(s, v[c], v[m]) /\ Beside(s, v[m], v[k])
            /\ v[c] \in Nat /\ v[m] \in Nat /\ v[k] \in Nat
        BY <2>2, <3>3
      <4>2. QED
        BY <4>1, BesideChains
    <3>5. Out(m, c)
      BY <2>2, <3>3, <3>4
    <3>6. QED
      BY <3>5, <3>c
  <2>5. QED
    BY <2>3, <2>4
<1> HIDE DEF Q
<1>7. \A m \in X : (\A d \in Side : t.kid[d][m] \in Q \cup {NULL}) => m \in Q
  BY <1>6
<1>8. X \subseteq Q
  BY <1>7, <1>X, TreeInduction
<1>9. n \in Q
  BY <1>8, <1>X
<1>10. QED
  BY <1>2, <1>9 DEF Q

\* The nodes that are reached from a node are those below it.
LEMMA MembersAre ==
    ASSUME NEW N, NULL \notin N, IsFiniteSet(N), NEW t, NEW X, NEW v, NEW sub,
           Whole(t, N, N \ X, sub, v), sub[t.root] = X
    PROVE  \A m \in X \cup {NULL} : Members(t, m) = sub[m]
<1>1. Whole(t, N, N \ X, sub, v) /\ sub[t.root] = X
  OBVIOUS
<1>2. Tree(t, N, sub) /\ Rest(t, N \ X)
  BY <1>1 DEF Whole
<1>3. /\ t \in TreeOn(N) /\ DOMAIN t.par = N /\ "L" \in Side /\ "R" \in Side /\ Other("L") = "R"
      /\ t.root \in N \cup {NULL} /\ sub[NULL] = {} /\ X \subseteq N
      /\ sub \in [N \cup {NULL} -> SUBSET N]
  <2>1. t \in TreeOn(N) /\ "L" \in Side /\ "R" \in Side /\ Other("L") = "R" /\ sub[NULL] = {}
        /\ sub \in [N \cup {NULL} -> SUBSET N]
    BY <1>2 DEF Tree, Side, Other
  <2>2. QED
    BY <1>1, <2>1, KidType
<1> DEFINE D == N \cup {NULL}
           below[m \in D] == IF m = NULL THEN {}
                             ELSE {m} \cup below[t.kid["L"][m]] \cup below[t.kid["R"][m]]
<1>4. \A m : Members(t, m) = below[m]
  BY <1>3 DEF Members
<1>5. \A m \in X : sub[m] = {m} \cup sub[t.kid["L"][m]] \cup sub[t.kid["R"][m]]
  <2>1. ASSUME NEW m \in X
        PROVE  sub[m] = {m} \cup sub[t.kid["L"][m]] \cup sub[t.kid["R"][m]]
    <3>1. Splits(t, sub, m, "L")
      BY <1>1, <1>2, <1>3 DEF Tree
    <3>2. QED
      BY <1>3, <3>1 DEF Splits
  <2>2. QED
    BY <2>1
<1>6. \E f : f = [m \in D |-> IF m = NULL THEN {}
                              ELSE {m} \cup f[t.kid["L"][m]] \cup f[t.kid["R"][m]]]
  <2> DEFINE f == [m \in D |-> IF m \in X \cup {NULL} THEN sub[m] ELSE {m}]
  <2>1. \A m \in D : f[m] = IF m \in X \cup {NULL} THEN sub[m] ELSE {m}
    OBVIOUS
  <2>2. f = [m \in D |-> f[m]]
    BY <2>1
  <2> HIDE DEF f
  <2>3. ASSUME NEW m \in D, m # NULL
        PROVE  f[m] = {m} \cup f[t.kid["L"][m]] \cup f[t.kid["R"][m]]
    <3>a. PICK a : a = t.kid["L"][m]
      OBVIOUS
    <3>b. PICK b : b = t.kid["R"][m]
      OBVIOUS
    <3>1. CASE m \in X
      <4>1. Agrees(t, X, m)
        BY <1>1, <1>2, <3>1 DEF Tree
      <4>2. a \in X \cup {NULL} /\ b \in X \cup {NULL}
        BY <1>3, <3>a, <3>b, <4>1 DEF Agrees
      <4>3. f[a] = sub[a] /\ f[b] = sub[b] /\ f[m] = sub[m]
        BY <1>3, <2>1, <3>1, <4>2
      <4>4. sub[m] = {m} \cup sub[a] \cup sub[b]
        BY <1>5, <3>1, <3>a, <3>b
      <4>5. QED
        BY <3>a, <3>b, <4>3, <4>4
    <3>2. CASE m \notin X
      <4>1. a = NULL /\ b = NULL
        BY <1>2, <1>3, <2>3, <3>2, <3>a, <3>b DEF Rest
      <4>2. f[NULL] = {} /\ f[m] = {m}
        BY <1>3, <2>1, <2>3, <3>2
      <4>3. QED
        BY <3>a, <3>b, <4>1, <4>2
    <3>3. QED
      BY <3>1, <3>2
  <2>4. f[NULL] = {}
    BY <1>3, <2>1
  <2>5. \A m \in D : f[m] = IF m = NULL THEN {} ELSE {m} \cup f[t.kid["L"][m]] \cup f[t.kid["R"][m]]
    BY <2>3, <2>4, ZenonT(30)
  <2>6. f = [m \in D |-> IF m = NULL THEN {}
                         ELSE {m} \cup f[t.kid["L"][m]] \cup f[t.kid["R"][m]]]
    BY <2>2, <2>5, Zenon
  <2>7. QED
    BY <2>6
<1>7. below = [m \in D |-> IF m = NULL THEN {}
                           ELSE {m} \cup below[t.kid["L"][m]] \cup below[t.kid["R"][m]]]
  <2> HIDE DEF D
  <2>1. QED
    BY <1>6, Zenon
<1> HIDE DEF below
<1>8. \A m \in D : below[m] = IF m = NULL THEN {}
                              ELSE {m} \cup below[t.kid["L"][m]] \cup below[t.kid["R"][m]]
  BY <1>7, Zenon
<1> DEFINE Q == {m \in X : below[m] = sub[m]}
<1>9. ASSUME NEW m \in X, \A d \in Side : t.kid[d][m] \in Q \cup {NULL} PROVE m \in Q
  <2>a. PICK a : a = t.kid["L"][m]
    OBVIOUS
  <2>b. PICK b : b = t.kid["R"][m]
    OBVIOUS
  <2>1. a \in Q \cup {NULL} /\ b \in Q \cup {NULL}
    BY <1>3, <1>9, <2>a, <2>b
  <2>2. below[NULL] = sub[NULL]
    BY <1>3, <1>8
  <2>3. below[a] = sub[a] /\ below[b] = sub[b]
    BY <2>1, <2>2
  <2>4. below[m] = {m} \cup below[a] \cup below[b]
    <3>1. m \in D /\ m # NULL
      BY <1>3
    <3>2. QED
      BY <1>8, <2>a, <2>b, <3>1, Zenon
  <2>5. sub[m] = {m} \cup sub[a] \cup sub[b]
    BY <1>5, <2>a, <2>b
  <2>6. QED
    BY <2>3, <2>4, <2>5
<1> HIDE DEF Q
<1>10. \A m \in X : (\A d \in Side : t.kid[d][m] \in Q \cup {NULL}) => m \in Q
  BY <1>9
<1>11. X \subseteq Q
  <2>1. X = sub[t.root]
    BY <1>1
  <2>2. QED
    BY <1>2, <1>10, <2>1, TreeInduction
<1>12. \A m \in X \cup {NULL} : below[m] = sub[m]
  BY <1>3, <1>8, <1>11 DEF Q
<1>13. QED
  BY <1>4, <1>12

LEMMA LinkedAre ==
    ASSUME NEW N, NULL \notin N, IsFiniteSet(N), NEW t, NEW X, NEW v, Good(t, N, N \ X, X, v)
    PROVE  Linked(t) = X
<1>1. PICK sub, bh : /\ Whole(t, N, N \ X, sub, v) /\ sub[t.root] = X
                     /\ Level(t, N, X, bh) /\ RbShape(t, sub, bh)
  BY DEF Good
<1>2. t.root \in X \cup {NULL}
  <2>1. t.root \in N \cup {NULL} /\ (t.root = NULL \/ t.root \in sub[t.root])
    BY <1>1, KidType DEF Whole, Tree
  <2>2. QED
    BY <1>1, <2>1
<1>3. Members(t, t.root) = sub[t.root]
  BY <1>1, <1>2, MembersAre
<1>4. QED
  BY <1>1, <1>3 DEF Linked

-----------------------------------------------------------------------------
(* rb_erase                                                                  *)

\* d is where the way up starts on which the subtrees have changed
UpFrom(X, z, sub, new, d, p, c) ==
    /\ d \in {p} \cup new[c] /\ d \in (X \ {z}) \cup {NULL}
    /\ \A k \in X \ {z} : new[k] = sub[k] \/ d \in new[k]

LEMMA LeafBegins ==
    ASSUME NEW N, NULL \notin N, IsFiniteSet(N), NEW t, NEW sub, Tree(t, N, sub),
           NEW X, X = sub[t.root], NEW z \in X, NEW f \in Side, t.kid[f][z] = NULL,
           NEW c, c = t.kid[Other(f)][z], NEW new, new = Without(N, sub, z),
           NEW d, d = IF c = NULL THEN t.par[z] ELSE c
    PROVE  UpFrom(X, z, sub, new, d, t.par[z], c)
<1>1. /\ z \in N /\ X \subseteq N /\ t \in TreeOn(N) /\ c \in N \cup {NULL} /\ Other(f) \in Side
  BY OneParent, KidType, TwoSides
<1>2. \A m \in N \cup {NULL} : new[m] = sub[m] \ {z}
  BY DEF Without
<1>3. c # NULL => c \in sub[c] /\ c # z /\ c \in sub[z]
  BY <1>1, Family
<1>4. d \in {t.par[z]} \cup new[c]
  BY <1>1, <1>2, <1>3
<1>8. d \in (X \ {z}) \cup {NULL}
  <2>1. t.par[z] \in X \cup {NULL}
    <3>1. z # t.root => t.par[z] \in X
      BY DEF Tree, Agrees
    <3>2. z = t.root => t.par[z] = NULL
      BY OneParent
    <3>3. QED
      BY <3>1, <3>2
  <2>2. t.par[z] # z
    <3>1. z # t.root => t.par[z] \in X /\ \E s \in Side : t.kid[s][t.par[z]] = z
      BY DEF Tree, Agrees
    <3>2. CASE z = t.root
      BY <1>1, <3>2, OneParent
    <3>3. CASE z # t.root
      <4>1. PICK s \in Side : t.par[z] \in X /\ t.kid[s][t.par[z]] = z
        BY <3>1, <3>3
      <4>2. PICK q \in X : q = t.par[z] /\ t.kid[s][q] = z
        BY <4>1
      <4>3. z # q
        <5>1. q \in sub[t.root] /\ z = t.kid[s][q] /\ z # NULL
          BY <1>1, <4>2
        <5>2. QED
          BY <5>1, Family
      <4>4. QED
        BY <4>2, <4>3
    <3>4. QED
      BY <3>2, <3>3
  <2>3. c # NULL => c \in X
    BY DEF Tree, Agrees, Side, Other
  <2>4. QED
    BY <1>3, <2>1, <2>2, <2>3
<1>5. ASSUME NEW k \in X \ {z}, z \in sub[k] PROVE d \in new[k]
  <2>1. sub[z] \subseteq sub[k] /\ t.par[z] \in sub[k]
    BY <1>5, Nested, ParentBelow
  <2>2. NULL \notin sub[k]
    BY <1>1 DEF Tree
  <2>3. QED
    BY <1>1, <1>2, <1>3, <1>8, <2>1, <2>2
<1>6. ASSUME NEW k \in X \ {z}, z \notin sub[k] PROVE new[k] = sub[k]
  <2>1. new[k] = sub[k] \ {z}
    BY <1>1, <1>2
  <2>2. QED
    BY <1>6, <2>1
<1>7. QED
  BY <1>4, <1>5, <1>6, <1>8 DEF UpFrom

LEMMA InnerBegins ==
    ASSUME NEW N, NULL \notin N, IsFiniteSet(N), NEW t, NEW sub, NEW v, Tree(t, N, sub),
           NEW X, X = sub[t.root], NEW z \in X, NEW y, Successor(t, sub, v, z, y),
           NEW c, c = t.kid["R"][y], NEW q, q = t.par[y],
           NEW W, W = Without(N, sub, y), NEW new, new = RenamedSub(N, W, z, y),
           NEW p, p = IF q = z THEN y ELSE q, NEW d, d = IF c = NULL THEN p ELSE c
    PROVE  UpFrom(X, z, sub, new, d, p, c)
<1>1. /\ y \in X /\ y # z /\ q \in X /\ q # y /\ y \in sub[z] /\ z \notin sub[y]
      /\ \A k \in X : z \in sub[k] => y \in sub[k]
  <2>1. /\ Heir(t, X, z, y, t.par[y], t.kid["R"][y]) /\ y # t.root /\ y \in sub[z]
        /\ \A m \in X : z \in sub[m] => y \in sub[m]
    BY SuccessorKin
  <2>2. z \notin sub[y]
    <3>r. PICK r : r = t.kid["R"][z]
      OBVIOUS
    <3>1. r # NULL /\ y \in sub[r]
      BY <2>1, <3>r DEF Heir, Successor
    <3>2. "R" \in Side /\ z \in sub[t.root]
      BY DEF Side
    <3>3. r \in X /\ z \notin sub[r]
      BY <3>1, <3>2, <3>r, Family
    <3>4. sub[y] \subseteq sub[r]
      BY <3>1, <3>3, Nested
    <3>5. QED
      BY <3>3, <3>4
  <2>3. QED
    BY <2>1, <2>2 DEF Heir
<1>2. /\ X \subseteq N /\ NULL \notin X /\ t \in TreeOn(N) /\ c \in N \cup {NULL}
      /\ sub \in [N \cup {NULL} -> SUBSET N] /\ sub[NULL] = {}
      /\ \A k \in X : k \in sub[k]
  <2>1. X \subseteq N /\ NULL \notin X /\ t \in TreeOn(N) /\ y \in N
    BY <1>1, OneParent
  <2>2. "R" \in Side
    BY DEF Side
  <2>3. c \in N \cup {NULL}
    BY <2>1, <2>2, KidType
  <2>4. \A k \in X : k \in sub[k]
    BY <2>2 DEF Tree, Splits
  <2>5. QED
    BY <2>1, <2>3, <2>4 DEF Tree
<1>3. c # NULL => c \in X /\ c \in sub[c] /\ c \in sub[y] /\ y \notin sub[c] /\ c # y /\ sub[c] \subseteq sub[y]
  <2>1. "R" \in Side /\ y \in sub[t.root]
    BY <1>1 DEF Side
  <2>2. c # NULL => c \in X /\ c \in sub[c] /\ c \in sub[y] /\ y \notin sub[c] /\ c # y
    BY <2>1, Family
  <2>3. c # NULL => sub[c] \subseteq sub[y]
    BY <1>1, <2>2, Nested
  <2>4. QED
    BY <2>2, <2>3
<1>4. \A k \in X : y \in sub[k] => sub[y] \subseteq sub[k]
  BY Nested
<1>5. \A k \in X : y \in sub[k] /\ k # y => q \in sub[k]
  BY ParentBelow
<1>6. /\ \A k \in N \cup {NULL} : k # y => new[k] = Swap(sub[k] \ {y}, z, y)
      /\ new[y] = Swap(sub[z] \ {y}, z, y)
  <2>1. \A k \in N \cup {NULL} : W[k] = sub[k] \ {y}
    BY DEF Without
  <2>2. \A k \in N \cup {NULL} : new[k] = Swap(W[IF k = y THEN z ELSE k], z, y)
    BY DEF RenamedSub
  <2>3. ASSUME NEW k \in N \cup {NULL}, k # y PROVE new[k] = Swap(sub[k] \ {y}, z, y)
    <3>1. W[k] = sub[k] \ {y} /\ new[k] = Swap(W[k], z, y)
      BY <2>1, <2>2, <2>3
    <3>2. QED
      BY <3>1
  <2>4. new[y] = Swap(sub[z] \ {y}, z, y)
    <3>1. y \in N /\ z \in N
      BY <1>1, <1>2
    <3>2. W[z] = sub[z] \ {y} /\ new[y] = Swap(W[z], z, y)
      BY <2>1, <2>2, <3>1
    <3>3. QED
      BY <3>2
  <2>5. QED
    BY <2>3, <2>4
\* d is not z, and in every subtree y is in
<1>7. d # z /\ \A k \in X : y \in sub[k] /\ (k # y) => d \in sub[k]
  <2>1. CASE c = NULL
    BY <1>1, <1>5, <2>1
  <2>2. CASE c # NULL
    <3>1. d = c /\ c # z
      BY <1>1, <1>3, <2>2
    <3>2. QED
      BY <1>3, <1>4, <2>2, <3>1
  <2>3. QED
    BY <2>1, <2>2
<1>8. d \in {p} \cup new[c]
  <2>1. CASE c = NULL
    BY <2>1
  <2>2. CASE c # NULL
    <3>1. new[c] = Swap(sub[c] \ {y}, z, y) /\ z \notin sub[c]
      BY <1>1, <1>2, <1>3, <1>6, <2>2
    <3>2. QED
      BY <1>3, <2>2, <3>1 DEF Swap
  <2>3. QED
    BY <2>1, <2>2
<1>9. ASSUME NEW k \in X \ {z} PROVE new[k] = sub[k] \/ d \in new[k]
  <2>1. CASE k = y
    <3>1. new[k] = ((sub[z] \ {y}) \ {z}) \cup {y}
      BY <1>1, <1>2, <1>6, <2>1 DEF Swap
    <3>2. d \in sub[z]
      BY <1>1, <1>7
    <3>3. QED
      BY <1>7, <3>1, <3>2
  <2>2. CASE k # y /\ z \in sub[k]
    <3>1. new[k] = ((sub[k] \ {y}) \ {z}) \cup {y}
      BY <1>1, <1>2, <1>6, <2>2 DEF Swap
    <3>2. d \in sub[k]
      BY <1>1, <1>7, <2>2
    <3>3. QED
      BY <1>7, <3>1, <3>2
  <2>3. CASE k # y /\ z \notin sub[k]
    <3>1. new[k] = sub[k] \ {y}
      BY <1>2, <1>6, <2>3 DEF Swap
    <3>2. CASE y \notin sub[k]
      BY <3>1, <3>2
    <3>3. CASE y \in sub[k]
      <4>1. q \in sub[k] /\ q # z
        BY <1>5, <2>3, <3>3
      <4>2. d # y
        BY <1>1, <1>3, <4>1
      <4>3. QED
        BY <1>7, <2>3, <3>1, <3>3, <4>2
    <3>4. QED
      BY <3>2, <3>3
  <2>4. QED
    BY <2>1, <2>2, <2>3
<1>10. d \in X \ {z}
  <2>1. CASE c = NULL
    BY <1>1, <1>7, <2>1
  <2>2. CASE c # NULL
    BY <1>3, <1>7, <2>2
  <2>3. QED
    BY <2>1, <2>2
<1>11. QED
  BY <1>8, <1>9, <1>10 DEF UpFrom

LEMMA ErasingGood ==
    ASSUME NEW N, NULL \notin N, IsFiniteSet(N), NEW t, NEW sub, NEW bh, NEW n, NEW p,
           NEW S, NEW v, Whole(t, N, S, sub, v),
           (Settled(t, N, sub, bh, n) /\ p \in N \cup {NULL}) \/ \E s : Short(t, N, sub, bh, n, p, s),
           NEW Y, NEW z, NEW X, X = Y \ {z}, X = sub[t.root], NEW old, NEW d, UpFrom(Y, z, old, sub, d, p, n)
    PROVE  Erased(EraseColor(t, n, p), N, S, X, v, old, d)
<1>1. p \in N \cup {NULL}
  <2>1. ASSUME NEW s, Short(t, N, sub, bh, n, p, s) PROVE p \in N
    <3>1. Tree(t, N, sub) /\ p \in sub[t.root]
      BY <2>1 DEF Short, Gap
    <3>2. QED
      BY <3>1, OneParent
  <2>2. QED
    BY <2>1
<1>2. Erasing(t, N, sub, bh, n, p)
  BY DEF Erasing
<1>3. d \in {p} \cup sub[n] /\ \A k \in X : sub[k] = old[k] \/ d \in sub[k]
  BY DEF UpFrom
<1>4. Erased(EraseColor(t, n, p), N, S, X, v, sub, d)
  BY <1>1, <1>2, <1>3, EraseColors
<1>u. PICK u : u = EraseColor(t, n, p)
  OBVIOUS
<1>5. PICK new : GoodAs(u, N, S, X, v, new) /\ Tracks(u, X, sub, new, d)
  BY <1>4, <1>u DEF Erased
<1>6. Tracks(u, X, old, new, d)
  <2>1. ASSUME NEW k \in X PROVE new[k] = old[k] \/ Covers(u, X, new, d, k)
    <3>1. new[k] = sub[k] \/ Covers(u, X, new, d, k)
      BY <1>5 DEF Tracks
    <3>2. CASE new[k] = sub[k] /\ d \in sub[k]
      BY <3>2 DEF Covers
    <3>3. QED
      BY <1>3, <3>1, <3>2
  <2>2. QED
    BY <2>1 DEF Tracks
<1>7. QED
  BY <1>5, <1>6, <1>u DEF Erased

\* without a black node to make up for, the tree stays as it is
LEMMA NothingLacks ==
    ASSUME NEW N, NEW u, NEW S, NEW v, NEW new, NEW bh, NEW Y, NEW z, NEW X, X = Y \ {z},
           Whole(u, N, S, new, v), new[u.root] = X, Level(u, N, X, bh), RbShape(u, new, bh),
           NEW sub, NEW d, NEW p, NEW c, UpFrom(Y, z, sub, new, d, p, c)
    PROVE  Erased(u, N, S, X, v, sub, d)
<1>1. GoodAs(u, N, S, X, v, new)
  BY DEF GoodAs
<1>2. Tracks(u, X, sub, new, d)
  BY DEF UpFrom, Tracks, Covers
<1>3. QED
  BY <1>1, <1>2 DEF Erased

\* rb_erase takes z out of the tree, and only subtrees above the node that
\* rb_augment_erase_begin found and beside the way up from it change.
LEMMA ErasesAbove ==
    ASSUME NEW N, NULL \notin N, IsFiniteSet(N), NEW t, NEW S, NEW X, NEW v, NEW sub,
           GoodAs(t, N, S, X, v, sub), NEW z \in X, NEW Z, Z = X \ {z},
           NEW d, d = Deepest(t, z)
    PROVE  Erased(RbErase(t, z), N, S, Z, v, sub, d) /\ d \in Z \cup {NULL}
<1>1. PICK bh : /\ Whole(t, N, S, sub, v) /\ sub[t.root] = X
                /\ Level(t, N, X, bh) /\ RbShape(t, sub, bh)
  BY DEF GoodAs
<1>2. /\ Tree(t, N, sub) /\ Ordered(t, sub, v) /\ z \in sub[t.root]
      /\ Level(t, N, sub[t.root], bh) /\ Whole(t, N, S, sub, v) /\ RbShape(t, sub, bh)
  BY <1>1 DEF Whole
<1>3. "L" \in Side /\ "R" \in Side /\ Other("L") = "R" /\ Other("R") = "L" /\ "L" # "R"
  BY DEF Side, Other
<1>a. PICK a : a = t.kid["L"][z]
  OBVIOUS
<1>b. PICK b : b = t.kid["R"][z]
  OBVIOUS
<1>4. CASE a # NULL /\ b # NULL
  <2>y. PICK y : y = Outermost(t, b, "L")
    OBVIOUS
  <2>q. PICK q : q = t.par[y]
    OBVIOUS
  <2>c. PICK c : c = t.kid["R"][y]
    OBVIOUS
  <2>u. PICK u : u = EraseInner(t, z, y)
    OBVIOUS
  <2>p. PICK p : p = IF q = z THEN y ELSE q
    OBVIOUS
  <2>1. b \in sub[t.root]
    BY <1>2, <1>3, <1>4, <1>b, Family
  <2>2. /\ y \in sub[b] /\ t.kid["L"][y] = NULL
        /\ \A k \in sub[b] : k = y \/ v[y] < v[k]
    <3>1. \A k \in sub[b] : k = y \/ Beside("L", v[y], v[k])
      BY <1>2, <1>3, <2>1, <2>y, OutermostIs
    <3>2. y \in sub[b] /\ t.kid["L"][y] = NULL
      BY <1>2, <1>3, <2>1, <2>y, OutermostIs
    <3>3. QED
      BY <3>1, <3>2 DEF Beside
  <2>3. Successor(t, sub, v, z, y)
    BY <1>4, <1>a, <1>b, <2>2 DEF Successor
  <2>4. InnerGone(u, t, N, S, sub, v, z, y, c, p)
    <3>1. InnerGone(EraseInner(t, z, y), t, N, S, sub, v, z, y, c, IF q = z THEN y ELSE q)
      BY <1>2, <2>3, <2>q, <2>c, InnerGoes
    <3>2. QED
      BY <2>u, <2>p, <3>1, Zenon
  <2>5. PICK new, b2 :
            /\ Whole(u, N, S, new, v) /\ new[u.root] = X \ {z}
            /\ y \notin t.black => Level(u, N, X \ {z}, b2) /\ RbShape(u, new, b2)
            /\ y \in t.black => \E s : Short(u, N, new, b2, c, p, s)
            /\ new = RenamedSub(N, Without(N, sub, y), z, y)
    BY <1>1, <2>4 DEF InnerGone
  <2>W. PICK W : W = Without(N, sub, y)
    OBVIOUS
  <2>d. d = IF c = NULL THEN p ELSE c
    <3>1. RbNext(t, z) = y
      <4>1. t.par[z] # z
        BY <1>2, <1>3, <1>4, <1>b, Family
      <4>2. QED
        BY <1>3, <1>4, <1>b, <2>y, <4>1, Zenon DEF RbNext, Neighbour
    <3>2. d = IF t.kid["R"][y] # NULL THEN t.kid["R"][y]
              ELSE IF t.par[y] # z THEN t.par[y] ELSE y
      BY <1>4, <1>a, <1>b, <3>1 DEF Deepest
    <3>3. QED
      BY <2>c, <2>p, <2>q, <3>2
  <2>b. UpFrom(X, z, sub, new, d, p, c)
    <3>1. Tree(t, N, sub) /\ X = sub[t.root] /\ W = Without(N, sub, y) /\ new = RenamedSub(N, W, z, y)
      BY <1>1, <1>2, <2>5, <2>W
    <3>2. QED
      BY <2>3, <2>c, <2>d, <2>p, <2>q, <3>1, InnerBegins
  <2>9. d \in Z \cup {NULL}
    BY <2>b DEF UpFrom
  <2>10. Whole(u, N, S, new, v) /\ Z = new[u.root]
    BY <2>5
  <2>6. RbErase(t, z) = IF y \in t.black THEN EraseColor(u, c, p) ELSE u
    <3>1. t.kid[IF t.kid["L"][y] = NULL THEN "R" ELSE "L"][y] = c
      BY <2>2, <2>c
    <3>2. QED
      BY <1>4, <1>a, <1>b, <2>y, <2>q, <2>u, <2>p, <3>1, Zenon DEF RbErase
  <2>7. CASE y \notin t.black
    <3>1. Level(u, N, Z, b2) /\ RbShape(u, new, b2)
      BY <2>5, <2>7
    <3>2. Erased(u, N, S, Z, v, sub, d)
      BY <2>10, <2>b, <3>1, NothingLacks
    <3>3. QED
      BY <2>6, <2>7, <2>9, <3>2
  <2>8. CASE y \in t.black
    <3>1. \E s : Short(u, N, new, b2, c, p, s)
      BY <2>5, <2>8
    <3>2. Erased(EraseColor(u, c, p), N, S, Z, v, sub, d)
      BY <2>10, <2>b, <3>1, ErasingGood
    <3>3. QED
      BY <2>6, <2>8, <2>9, <3>2
  <2>11. QED
    BY <2>7, <2>8
<1>5. CASE a = NULL \/ b = NULL
  <2>c. PICK c : c = t.kid[IF a = NULL THEN "R" ELSE "L"][z]
    OBVIOUS
  <2>u. PICK u : u = EraseLeaf(t, z, c)
    OBVIOUS
  <2>1. \E f \in Side : t.kid[f][z] = NULL /\ c = t.kid[Other(f)][z]
    BY <1>3, <1>5, <1>a, <1>b, <2>c
  <2>2. Leaves(u, t, N, S, sub, v, bh, z, c)
    <3>1. PICK f \in Side : t.kid[f][z] = NULL /\ c = t.kid[Other(f)][z]
      BY <2>1
    <3>2. QED
      BY <1>2, <2>u, <3>1, LeafGoes
  <2>p. PICK p : p = t.par[z]
    OBVIOUS
  <2>n. PICK new : new = Without(N, sub, z)
    OBVIOUS
  <2>d. d = IF c = NULL THEN p ELSE c
    BY <1>5, <1>a, <1>b, <2>c, <2>p DEF Deepest
  <2>b. UpFrom(X, z, sub, new, d, p, c)
    <3>1. PICK f \in Side : t.kid[f][z] = NULL /\ c = t.kid[Other(f)][z]
      BY <2>1
    <3>2. Tree(t, N, sub) /\ X = sub[t.root] /\ d = IF c = NULL THEN t.par[z] ELSE c
      BY <1>1, <1>2, <2>d, <2>p
    <3>3. UpFrom(X, z, sub, new, d, t.par[z], c)
      BY <2>n, <3>1, <3>2, LeafBegins
    <3>4. QED
      BY <2>p, <3>3
  <2>3. /\ Whole(u, N, S, new, v) /\ new[u.root] = X \ {z}
        /\ z \notin t.black => /\ Level(u, N, X \ {z}, bh) /\ RbShape(u, new, bh)
        /\ z \in t.black => Settled(u, N, new, bh, c) \/ \E s : Short(u, N, new, bh, c, p, s)
    BY <1>1, <2>2, <2>n, <2>p DEF Leaves
  <2>8. Whole(u, N, S, new, v) /\ Z = new[u.root]
    BY <2>3
  <2>9. d \in Z \cup {NULL}
    BY <2>b DEF UpFrom
  <2>4. RbErase(t, z) = IF z \in t.black THEN EraseColor(u, c, p) ELSE u
    <3>1. ~(a # NULL /\ b # NULL)
      BY <1>5
    <3>2. QED
      BY <3>1, <1>a, <1>b, <2>c, <2>u, <2>p, Zenon DEF RbErase
  <2>5. CASE z \notin t.black
    <3>1. Level(u, N, Z, bh) /\ RbShape(u, new, bh)
      BY <2>3, <2>5
    <3>2. Erased(u, N, S, Z, v, sub, d)
      BY <2>8, <2>b, <3>1, NothingLacks
    <3>3. QED
      BY <2>4, <2>5, <2>9, <3>2
  <2>6. CASE z \in t.black
    <3>1. p \in N \cup {NULL}
      <4>1. z \in N /\ t \in TreeOn(N)
        BY <1>2, OneParent
      <4>2. QED
        BY <2>p, <4>1, KidType
    <3>2. (Settled(u, N, new, bh, c) /\ p \in N \cup {NULL}) \/ \E s : Short(u, N, new, bh, c, p, s)
      BY <2>3, <2>6, <3>1
    <3>3. Erased(EraseColor(u, c, p), N, S, Z, v, sub, d)
      BY <2>8, <2>b, <3>2, ErasingGood
    <3>4. QED
      BY <2>4, <2>6, <2>9, <3>3
  <2>7. QED
    BY <2>5, <2>6
<1>6. QED
  BY <1>4, <1>5

\* rb_erase takes the node z out of a red-black tree, and no other, whatever
\* children and colours it meets: the tree stays ordered, its links agree, no
\* red node has a red child and every path has as many black nodes
\* (rbtree.c:137-282).
THEOREM RbErases ==
    ASSUME NEW N, NULL \notin N, IsFiniteSet(N), NEW t, NEW S, NEW X, NEW v,
           Good(t, N, S, X, v), NEW z \in X
    PROVE  Good(RbErase(t, z), N, S, X \ {z}, v)
<1>1. PICK sub : GoodAs(t, N, S, X, v, sub)
  BY DEF Good, GoodAs
<1>Z. PICK Z : Z = X \ {z}
  OBVIOUS
<1>d. PICK d : d = Deepest(t, z)
  OBVIOUS
<1>2. Erased(RbErase(t, z), N, S, Z, v, sub, d)
  BY <1>1, <1>Z, <1>d, ErasesAbove
<1>3. PICK new : GoodAs(RbErase(t, z), N, S, Z, v, new)
  BY <1>2 DEF Erased
<1>4. QED
  BY <1>3, <1>Z, GoodAsGood


-----------------------------------------------------------------------------
(* What happens to nodes that are not in the tree does not matter            *)

Alike(u, t, X) == /\ u.root = t.root
                  /\ \A m \in X : u.par[m] = t.par[m] /\ (m \in u.black <=> m \in t.black)
                  /\ \A m \in X, d \in Side : u.kid[d][m] = t.kid[d][m]

LEMMA AsElsewhere ==
    ASSUME NEW N, NULL \notin N, NEW t, NEW S, NEW X, NEW v, NEW sub, GoodAs(t, N, S, X, v, sub),
           NEW u \in TreeOn(N), Alike(u, t, X), NEW v2, \A m \in X : v2[m] = v[m],
           NEW S2 \in SUBSET (N \ X), Rest(u, S2)
    PROVE  GoodAs(u, N, S2, X, v2, sub)
<1>a. /\ u.root = t.root
      /\ \A m \in X : u.par[m] = t.par[m] /\ (m \in u.black <=> m \in t.black)
      /\ \A m \in X, d \in Side : u.kid[d][m] = t.kid[d][m]
  BY DEF Alike
<1>1. PICK bh : /\ Whole(t, N, S, sub, v) /\ sub[t.root] = X
                /\ Level(t, N, X, bh) /\ RbShape(t, sub, bh)
  BY DEF GoodAs
<1>2. Tree(t, N, sub) /\ Ordered(t, sub, v)
  BY <1>1 DEF Whole
<1>3. X \subseteq N /\ NULL \notin X /\ t.root \in X \cup {NULL}
  <2>1. sub \in [N \cup {NULL} -> SUBSET N] /\ t \in TreeOn(N)
    BY <1>2 DEF Tree
  <2>2. t.root \in N \cup {NULL} /\ (t.root = NULL \/ t.root \in X)
    BY <1>1, <1>2, <2>1, KidType DEF Tree
  <2>3. QED
    BY <1>1, <2>1, <2>2
<1>4. \A n \in X : Agrees(t, X, n) /\ sub[n] \subseteq X
  BY <1>1, <1>2 DEF Tree
<1>5. \A n \in X, s \in Side : t.kid[s][n] \in X \cup {NULL}
  BY <1>4 DEF Agrees
<1>6. ASSUME NEW n \in X PROVE Agrees(u, X, n)
  <2>1. Agrees(t, X, n)
    BY <1>4
  <2>2. \A s \in Side : u.kid[s][n] # NULL => u.kid[s][n] \in X /\ u.par[u.kid[s][n]] = n
    BY <1>a, <2>1 DEF Agrees
  <2>3. n # u.root => u.par[n] \in X /\ \E s \in Side : u.kid[s][u.par[n]] = n
    BY <1>a, <2>1 DEF Agrees
  <2>4. QED
    BY <2>2, <2>3 DEF Agrees
<1>7. ASSUME NEW n \in X, NEW s \in Side PROVE Splits(u, sub, n, s)
  <2>1. Splits(t, sub, n, s) /\ Other(s) \in Side
    BY <1>1, <1>2, TwoSides DEF Tree
  <2>2. u.kid[s][n] = t.kid[s][n] /\ u.kid[Other(s)][n] = t.kid[Other(s)][n]
    BY <1>a, <2>1
  <2>3. QED
    BY <2>1, <2>2 DEF Splits
<1>8. Tree(u, N, sub)
  <2>1. sub[u.root] = X
    BY <1>1, <1>a
  <2>2. /\ \A n \in sub[u.root] : Agrees(u, sub[u.root], n) /\ sub[n] \subseteq sub[u.root]
        /\ \A n \in sub[u.root], s \in Side : Splits(u, sub, n, s)
    BY <1>4, <1>6, <1>7, <2>1
  <2>3. u.root # NULL => u.root \in sub[u.root] /\ u.par[u.root] = NULL
    <3>1. ASSUME t.root # NULL PROVE t.root \in X /\ u.par[t.root] = NULL
      BY <1>1, <1>2, <1>3, <1>a, <3>1 DEF Tree
    <3>2. QED
      BY <1>a, <2>1, <3>1
  <2>4. sub \in [N \cup {NULL} -> SUBSET N] /\ sub[NULL] = {}
    BY <1>2 DEF Tree
  <2>5. QED
    BY <2>2, <2>3, <2>4 DEF Tree
<1>9. Ordered(u, sub, v2)
  <2>1. \A n \in X : v2[n] \in Nat
    BY <1>1, <1>2 DEF Ordered
  <2>2. ASSUME NEW n \in X, NEW s \in Side, NEW m \in sub[u.kid[s][n]] PROVE Beside(s, v2[m], v2[n])
    <3>1. m \in sub[t.kid[s][n]]
      BY <1>a, <2>2
    <3>2. m \in X
      <4>1. Splits(t, sub, n, s)
        BY <1>1, <1>2 DEF Tree
      <4>2. QED
        BY <1>4, <3>1, <4>1 DEF Splits
    <3>3. Beside(s, v[m], v[n])
      BY <1>1, <1>2, <3>1 DEF Ordered
    <3>4. QED
      BY <3>2, <3>3
  <2>3. QED
    BY <1>1, <1>a, <2>1, <2>2 DEF Ordered
<1>10. Whole(u, N, S2, sub, v2)
  BY <1>1, <1>8, <1>9, <1>a DEF Whole
<1>11. Level(u, N, X, bh)
  <2>1. \A n \in X : One(u, n) = One(t, n)
    BY <1>a DEF One
  <2>2. QED
    BY <1>1, <1>a, <2>1 DEF Level
<1>12. RbShape(u, sub, bh)
  <2>1. \A n \in X \cup {NULL} : Red(u, n) <=> Red(t, n)
    BY <1>3, <1>a DEF Red
  <2>2. ~Red(u, u.root)
    BY <1>1, <1>3, <1>a, <2>1 DEF RbShape
  <2>3. ASSUME NEW m \in X \ u.black, NEW s \in Side PROVE ~Red(u, u.kid[s][m])
    <3>1. m \in X \ t.black /\ u.kid[s][m] = t.kid[s][m]
      BY <1>a
    <3>2. ~Red(t, t.kid[s][m])
      BY <1>1, <3>1 DEF RbShape
    <3>3. QED
      BY <1>5, <2>1, <3>1, <3>2
  <2>4. QED
    BY <1>1, <1>a, <2>2, <2>3 DEF RbShape
<1>13. QED
  BY <1>1, <1>10, <1>11, <1>12, <1>a DEF GoodAs

LEMMA GoodElsewhere ==
    ASSUME NEW N, NULL \notin N, NEW t, NEW S, NEW X, NEW v, Good(t, N, S, X, v),
           NEW u \in TreeOn(N), Alike(u, t, X), NEW v2, \A m \in X : v2[m] = v[m],
           NEW S2 \in SUBSET (N \ X), Rest(u, S2)
    PROVE  Good(u, N, S2, X, v2)
<1>1. PICK sub : GoodAs(t, N, S, X, v, sub)
  BY DEF Good, GoodAs
<1>2. GoodAs(u, N, S2, X, v2, sub)
  BY <1>1, AsElsewhere
<1>3. QED
  BY <1>2, GoodAsGood

\* RB_CLEAR_NODE puts a node at rest.
LEMMA ForgetsAs ==
    ASSUME NEW N, NULL \notin N, NEW t, NEW S, NEW X, NEW v, NEW sub, GoodAs(t, N, S, X, v, sub),
           NEW z \in N \ X, NEW S2, S2 = S \cup {z}
    PROVE  GoodAs(Forget(t, z), N, S2, X, v, sub)
<1>1. t \in TreeOn(N) /\ S \subseteq N \ X /\ Rest(t, S)
  <2>1. Whole(t, N, S, sub, v) /\ sub[t.root] = X
    BY DEF GoodAs
  <2>2. QED
    BY <2>1 DEF Whole, Tree
<1>2. "L" \in Side /\ "R" \in Side /\ \A d \in Side : d = "L" \/ d = "R"
  BY DEF Side
<1>a. PICK a : a = SetKid(t, z, "L", NULL)
  OBVIOUS
<1>3. KidSet(a, t, N, z, "L", NULL)
  BY <1>1, <1>2, <1>a, KidSets
<1>b. PICK b : b = SetKid(a, z, "R", NULL)
  OBVIOUS
<1>4. KidSet(b, a, N, z, "R", NULL)
  <2>1. a \in TreeOn(N)
    BY <1>3 DEF KidSet
  <2>2. QED
    BY <1>2, <1>b, <2>1, KidSets
<1>c. PICK c : c = SetParent(b, z, z)
  OBVIOUS
<1>5. ParentSet(c, b, N, z, z)
  <2>1. b \in TreeOn(N)
    BY <1>4 DEF KidSet
  <2>2. QED
    BY <1>c, <2>1, SetsParent
<1>6. c \in TreeOn(N)
  BY <1>5 DEF ParentSet
<1>u. PICK u \in TreeOn(N) : /\ u = SetRed(c, {z}) /\ u.black = c.black \ {z}
                              /\ u.root = c.root /\ u.kid = c.kid /\ u.par = c.par
  <2>1. z \in N
    OBVIOUS
  <2>2. QED
    BY <1>6, <2>1, Reddens
<1>7. u = Forget(t, z)
  BY <1>a, <1>b, <1>c, <1>u DEF Forget
<1>8. u.root = t.root /\ u.black = t.black \ {z} /\ u.par[z] = z
      /\ \A m \in N : m # z => u.par[m] = t.par[m]
  <2>1. u.root = c.root /\ u.black = c.black \ {z} /\ u.par = c.par /\ z \in N
    BY <1>u
  <2>2. c.root = b.root /\ c.black = b.black /\ \A m \in N : c.par[m] = IF m = z THEN z ELSE b.par[m]
    BY <1>5 DEF ParentSet
  <2>3. b.root = a.root /\ b.black = a.black /\ b.par = a.par
    BY <1>4 DEF KidSet
  <2>4. a.root = t.root /\ a.black = t.black /\ a.par = t.par
    BY <1>3 DEF KidSet
  <2>5. QED
    BY <2>1, <2>2, <2>3, <2>4
<1>9. \A m \in N, d \in Side : u.kid[d][m] = IF m = z THEN NULL ELSE t.kid[d][m]
  BY <1>2, <1>3, <1>4, <1>5, <1>u DEF KidSet, ParentSet
<1>10. X \subseteq N
  <2>1. Whole(t, N, S, sub, v) /\ sub[t.root] = X
    BY DEF GoodAs
  <2>2. QED
    BY <2>1, KidType DEF Whole, Tree
<1>11. Rest(u, S2)
  BY <1>1, <1>8, <1>9 DEF Rest
<1>12. GoodAs(u, N, S2, X, v, sub)
  <2>1. S2 \in SUBSET (N \ X)
    BY <1>1
  <2>2. Alike(u, t, X)
    BY <1>8, <1>9, <1>10 DEF Alike
  <2>3. \A m \in X : v[m] = v[m]
    OBVIOUS
  <2>4. QED
    BY <1>u, <1>11, <2>1, <2>2, <2>3, AsElsewhere
<1>13. QED
  BY <1>7, <1>12

LEMMA Forgets ==
    ASSUME NEW N, NULL \notin N, NEW t, NEW S, NEW X, NEW v, Good(t, N, S, X, v), NEW z \in N \ X
    PROVE  Good(Forget(t, z), N, S \cup {z}, X, v)
<1>1. PICK sub : GoodAs(t, N, S, X, v, sub)
  BY DEF Good, GoodAs
<1>2. PICK S2 : S2 = S \cup {z}
  OBVIOUS
<1>3. GoodAs(Forget(t, z), N, S2, X, v, sub)
  BY <1>1, <1>2, ForgetsAs
<1>4. QED
  BY <1>2, <1>3, GoodAsGood

-----------------------------------------------------------------------------
(* Where a new node goes                                                     *)

\* pl is the place below n where a node of value k keeps the order
Spot(pl, t, sub, v, n, k) ==
    \E p \in sub[n], s \in Side :
        /\ pl = <<p, s>> /\ t.kid[s][p] = NULL /\ Beside(s, k, v[p])
        /\ \A m \in sub[n], d \in Side : p \in sub[t.kid[d][m]] => Beside(d, k, v[m])

\* one step of the walk, to side s of m
LEMMA SpotHigher ==
    ASSUME NEW N, NULL \notin N, IsFiniteSet(N), NEW t, NEW sub, Tree(t, N, sub), NEW v, NEW k,
           NEW m \in sub[t.root], NEW s \in Side, Beside(s, k, v[m]), NEW pl,
           NEW c, c = t.kid[s][m],
           c = NULL => pl = <<m, s>>, c # NULL => Spot(pl, t, sub, v, c, k)
    PROVE  Spot(pl, t, sub, v, m, k)
<1>X. PICK X : X = sub[t.root]
  OBVIOUS
<1>b. PICK b : b = t.kid[Other(s)][m]
  OBVIOUS
<1>1. /\ sub[m] = {m} \cup sub[c] \cup sub[b] /\ m \notin sub[c] /\ m \notin sub[b]
      /\ sub[c] \cap sub[b] = {}
  <2>1. Splits(t, sub, m, s)
    BY DEF Tree
  <2>2. QED
    BY <1>b, <2>1 DEF Splits
<1>2. /\ sub[NULL] = {} /\ m \in X /\ sub[m] \subseteq X
      /\ \A n \in X : \A x \in sub[n] : sub[x] \subseteq sub[n]
  <2>1. sub[NULL] = {} /\ m \in X /\ sub[m] \subseteq X
    BY <1>X DEF Tree
  <2>2. QED
    BY <1>X, <2>1, Nested
<1>3. \A n \in X, d \in Side : sub[t.kid[d][n]] \subseteq sub[n]
  <2>1. ASSUME NEW n \in X, NEW d \in Side PROVE sub[t.kid[d][n]] \subseteq sub[n]
    <3>1. Splits(t, sub, n, d)
      BY <1>X DEF Tree
    <3>2. QED
      BY <3>1 DEF Splits
  <2>2. QED
    BY <2>1
<1>4. (c = NULL \/ c \in X) /\ (b = NULL \/ b \in X)
  <2>1. Agrees(t, X, m) /\ Other(s) \in Side
    BY <1>X, TwoSides DEF Tree
  <2>2. QED
    BY <1>b, <2>1 DEF Agrees
<1>5. ASSUME NEW n \in sub[c], NEW d \in Side PROVE sub[t.kid[d][n]] \subseteq sub[c]
  BY <1>1, <1>2, <1>3, <1>4, <1>5
<1>6. ASSUME NEW n \in sub[b], NEW d \in Side PROVE sub[t.kid[d][n]] \subseteq sub[b]
  BY <1>1, <1>2, <1>3, <1>4, <1>6
<1>7. ASSUME NEW d \in Side, NEW p \in sub[c], p \in sub[t.kid[d][m]] PROVE d = s
  <2>1. d = s \/ d = Other(s)
    BY TwoSides
  <2>2. d # Other(s)
    BY <1>1, <1>7, <1>b
  <2>3. QED
    BY <2>1, <2>2
<1>8. CASE c = NULL
  <2>1. ASSUME NEW n \in sub[m], NEW d \in Side, m \in sub[t.kid[d][n]] PROVE FALSE
    <3>1. sub[c] = {}
      BY <1>2, <1>8
    <3>2. CASE n = m
      <4>1. d = s \/ d = Other(s)
        BY TwoSides
      <4>2. QED
        BY <1>1, <1>b, <2>1, <3>2, <4>1
    <3>3. CASE n \in sub[b]
      BY <1>1, <1>6, <2>1, <3>3
    <3>4. QED
      BY <1>1, <3>1, <3>2, <3>3
  <2>2. m \in sub[m] /\ pl = <<m, s>> /\ t.kid[s][m] = NULL
    BY <1>1, <1>8
  <2>3. QED
    BY <2>1, <2>2 DEF Spot
<1>9. CASE c # NULL
  <2>1. PICK p \in sub[c], g \in Side :
            /\ pl = <<p, g>> /\ t.kid[g][p] = NULL /\ Beside(g, k, v[p])
            /\ \A n \in sub[c], d \in Side : p \in sub[t.kid[d][n]] => Beside(d, k, v[n])
    BY <1>9 DEF Spot
  <2>2. ASSUME NEW n \in sub[m], NEW d \in Side, p \in sub[t.kid[d][n]] PROVE Beside(d, k, v[n])
    <3>1. CASE n = m
      BY <1>7, <2>2, <3>1
    <3>2. CASE n \in sub[c]
      BY <2>1, <2>2, <3>2
    <3>3. CASE n \in sub[b]
      BY <1>1, <1>6, <2>2, <3>3
    <3>4. QED
      BY <1>1, <3>1, <3>2, <3>3
  <2>3. p \in sub[m]
    BY <1>1
  <2>4. QED
    BY <2>1, <2>2, <2>3 DEF Spot
<1>10. QED
  BY <1>8, <1>9

\* The walk down from n ends at a place that keeps the order.
LEMMA Descends ==
    ASSUME NEW N, NULL \notin N, IsFiniteSet(N), NEW t, NEW sub, Tree(t, N, sub), NEW v,
           NEW k \in Nat, NEW larger,
           \A m \in sub[t.root] : /\ v[m] \in Nat /\ v[m] # k
                                  /\ (m \in larger <=> k < v[m]),
           NEW n \in sub[t.root]
    PROVE  Spot(DescendFrom(t, n, larger), t, sub, v, n, k)
<1>X. PICK X : X = sub[t.root]
  OBVIOUS
<1>1. t \in TreeOn(N) /\ DOMAIN t.par = N /\ X \subseteq N
  <2>1. t \in TreeOn(N) /\ sub \in [N \cup {NULL} -> SUBSET N]
    BY DEF Tree
  <2>2. QED
    BY <1>X, <2>1, KidType
<1> DEFINE side(m) == IF m \in larger THEN "L" ELSE "R"
           place[m \in N] == IF t.kid[side(m)][m] = NULL THEN <<m, side(m)>>
                             ELSE place[t.kid[side(m)][m]]
<1>2. DescendFrom(t, n, larger) = place[n]
  BY <1>1 DEF DescendFrom
<1>3. \A m : side(m) \in Side
  BY DEF Side
<1>4. \A m \in X : Beside(side(m), k, v[m])
  <2>1. ASSUME NEW m \in X PROVE Beside(side(m), k, v[m])
    <3>1. PICK i \in Nat : i = v[m]
      BY <1>X
    <3>2. i # k /\ (m \in larger <=> k < i)
      BY <1>X, <3>1
    <3>3. CASE m \in larger
      BY <3>1, <3>2, <3>3 DEF Beside
    <3>4. CASE m \notin larger
      BY <3>1, <3>2, <3>4 DEF Beside
    <3>5. QED
      BY <3>3, <3>4
  <2>2. QED
    BY <2>1
<1> HIDE DEF side
<1>5. \E f : f = [m \in N |-> IF t.kid[side(m)][m] = NULL THEN <<m, side(m)>>
                              ELSE f[t.kid[side(m)][m]]]
  <2> DEFINE B == {m \in N : t.kid[side(m)][m] = NULL}
             G == [m \in N |-> t.kid[side(m)][m]]
             H == [m \in N |-> <<m, side(m)>>]
  <2>1. \A m \in N \ B : G[m] \in N
    BY <1>1, <1>3, KidType
  <2>2. \A m \in N : /\ (m \in B <=> t.kid[side(m)][m] = NULL) /\ G[m] = t.kid[side(m)][m]
                     /\ H[m] = <<m, side(m)>>
    OBVIOUS
  <2> HIDE DEF B, G, H
  <2>3. PICK f : Arrives(f, N, B, H, G)
    BY <2>1, TailRecursion
  <2>4. /\ f = [m \in N |-> f[m]]
        /\ \A m \in N : f[m] = IF t.kid[side(m)][m] = NULL THEN <<m, side(m)>>
                               ELSE f[t.kid[side(m)][m]]
    BY <2>2, <2>3 DEF Arrives
  <2>5. f = [m \in N |-> IF t.kid[side(m)][m] = NULL THEN <<m, side(m)>>
                         ELSE f[t.kid[side(m)][m]]]
    BY <2>4
  <2>6. QED
    BY <2>5
<1>6. place = [m \in N |-> IF t.kid[side(m)][m] = NULL THEN <<m, side(m)>>
                           ELSE place[t.kid[side(m)][m]]]
  BY <1>5, Zenon
<1> HIDE DEF place
<1>7. \A m \in N : place[m] = IF t.kid[side(m)][m] = NULL THEN <<m, side(m)>>
                              ELSE place[t.kid[side(m)][m]]
  BY <1>6, Zenon
<1> DEFINE Q == {m \in X : Spot(place[m], t, sub, v, m, k)}
<1>8. ASSUME NEW m \in X, \A d \in Side : t.kid[d][m] \in Q \cup {NULL} PROVE m \in Q
  <2>s. PICK s \in Side : s = side(m)
    BY <1>3
  <2>c. PICK c : c = t.kid[s][m]
    OBVIOUS
  <2>p. PICK pl : pl = place[m]
    OBVIOUS
  <2>1. pl = IF c = NULL THEN <<m, s>> ELSE place[c]
    BY <1>1, <1>7, <2>s, <2>c, <2>p
  <2>2. c # NULL => Spot(place[c], t, sub, v, c, k)
    BY <1>8, <2>c
  <2>3. (c = NULL => pl = <<m, s>>) /\ (c # NULL => Spot(pl, t, sub, v, c, k))
    BY <2>1, <2>2
  <2>4. Beside(s, k, v[m]) /\ m \in sub[t.root]
    BY <1>4, <1>X, <2>s
  <2>5. Spot(pl, t, sub, v, m, k)
    BY <2>3, <2>4, <2>c, SpotHigher
  <2>6. QED
    BY <2>5, <2>p
<1> HIDE DEF Q
<1>9. \A m \in X : (\A d \in Side : t.kid[d][m] \in Q \cup {NULL}) => m \in Q
  BY <1>8
<1>10. X \subseteq Q
  BY <1>9, <1>X, TreeInduction
<1>11. n \in Q
  BY <1>10, <1>X
<1>12. QED
  BY <1>2, <1>11 DEF Q

=============================================================================
