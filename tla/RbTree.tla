-------------------------------- MODULE RbTree --------------------------------
(***************************************************************************)
(* The red-black trees of rbtree.c and rbtree.h as operators on a tree     *)
(*   root    rb_root.rb_node                                               *)
(*   kid     kid["L"][n] and kid["R"][n], rb_left and rb_right             *)
(*   par     rb_parent; a node that is its own parent is in no tree        *)
(*   black   the nodes whose colour bit is RB_BLACK                        *)
(* The source writes every case twice, mirrored; here a case is written    *)
(* once, with the side s it is about.  A walk is a recursive function of   *)
(* the node it has reached, a rebalancing loop one of its turns: it makes  *)
(* fewer of them than there are nodes, and a turn behind the last changes  *)
(* nothing.  Applying a function to NULL is the program's NULL             *)
(* dereference: TLC stops with an error there.                             *)
(***************************************************************************)
EXTENDS Null, Naturals, Sequences, FiniteSets

Side == {"L", "R"}
Other(s) == IF s = "L" THEN "R" ELSE "L"

\* RB_ROOT, and RB_CLEAR_NODE of every node of S
EmptyTree(S) == [root  |-> NULL,
                 kid   |-> [s \in Side |-> [n \in S |-> NULL]],
                 par   |-> [n \in S |-> n],
                 black |-> {}]

Red(t, n) == n # NULL /\ n \notin t.black     \* `n && rb_is_red(n)'

\* one pointer, or the colours of the nodes in S; rb_set_parent is not called
\* for a node that is missing
SetKid(t, n, s, c)  == [t EXCEPT !.kid[s][n] = c]
SetParent(t, n, p)  == IF n = NULL THEN t ELSE [t EXCEPT !.par[n] = p]
SetBlack(t, S)      == [t EXCEPT !.black = @ \cup S]
SetRed(t, S)        == [t EXCEPT !.black = @ \ S]
SetColor(t, n, m)   == IF m \in t.black THEN SetBlack(t, {n}) ELSE SetRed(t, {n})

\* make c take the place of n under p: the child of side s when n is there,
\* the other child when it is not, the root when there is no p
Hang(t, p, s, n, c) ==
    IF p = NULL THEN [t EXCEPT !.root = c]
    ELSE SetKid(t, p, IF t.kid[s][p] = n THEN s ELSE Other(s), c)

\* a rotation of n and its child r: what was r's child of side s becomes n's
Handover(t, n, r, s) ==
    SetParent(SetKid(t, n, Other(s), t.kid[s][r]), t.kid[s][r], n)
\* n becomes r's child of side s, and p r's parent
Lift(t, n, r, s, p) == SetParent(SetKid(t, r, s, n), r, p)

\* __rb_rotate_left is Rotate(t, n, "L"), __rb_rotate_right Rotate(t, n, "R"):
\* n goes down on side s, its child of the other side takes its place
Rotate(t, n, s) ==
    LET r == t.kid[Other(s)][n]
        p == t.par[n]
    IN SetParent(Hang(Lift(Handover(t, n, r, s), n, r, s, p), p, s, n, r), n, r)

\* one turn of rb_insert_color, while the parent of the node is red
InsertTurn(x) ==
    LET t == x.tree
        n == x.node
        p == t.par[n]
        g == t.par[p]
        s == IF t.kid["L"][g] = p THEN "L" ELSE "R"
        uncle == t.kid[Other(s)][g]
        inner == t.kid[Other(s)][p] = n
        upper == IF inner THEN n ELSE p
        lower == IF inner THEN p ELSE n
        t1    == IF inner THEN Rotate(t, p, s) ELSE t
        t2    == SetRed(SetBlack(t1, {upper}), {g})
    IN CASE ~Red(t, p) -> x
         [] Red(t, p) /\ Red(t, uncle) ->
                [tree |-> SetRed(SetBlack(t, {uncle, p}), {g}), node |-> g]
         [] OTHER -> [tree |-> Rotate(t2, g, Other(s)), node |-> lower]

InsertColor(t, n) ==
    LET loop[i \in Nat] == IF i = 0 THEN [tree |-> t, node |-> n] ELSE InsertTurn(loop[i - 1])
        end == loop[Cardinality(DOMAIN t.par)].tree
    IN SetBlack(end, {end.root})

\* rb_link_node at side s of p (at the root when p is NULL), rb_insert_color
LinkNode(t, n, p, s) ==
    LET t1 == SetRed(SetParent(SetKid(SetKid(t, n, "L", NULL), n, "R", NULL), n, p), {n})
    IN InsertColor(IF p = NULL THEN [t1 EXCEPT !.root = n] ELSE SetKid(t1, p, s, n), n)

\* Mutant: the black node that is missing below p stays missing
EraseColorNode(t, n, p) == SetBlack(t, {n} \ {NULL})

\* side s of p is one black short; a red sibling goes up, the new one is black
BlackSibling(t, p, s) ==
    LET o == t.kid[Other(s)][p]
    IN IF Red(t, o) THEN Rotate(SetRed(SetBlack(t, {o}), {p}), p, s) ELSE t

\* of the sibling's children the one that is farther from the short side gets red
RedNephew(t, p, s) ==
    LET o == t.kid[Other(s)][p]
    IN IF Red(t, t.kid[Other(s)][o]) THEN t
       ELSE Rotate(SetRed(SetBlack(t, {t.kid[s][o]}), {o}), o, Other(s))

\* the sibling takes place and colour of p, its red child and p get black
Refill(t, p, s) ==
    LET o == t.kid[Other(s)][p]
    IN Rotate(SetBlack(SetColor(t, o, p), {p, t.kid[Other(s)][o]}), p, s)

\* one turn of __rb_erase_color, while the node (perhaps NULL) is black, not
\* the root, and one black short
EraseTurn(x) ==
    LET t == x.tree
        n == x.node
        p == x.par
        s == IF t.kid["L"][p] = n THEN "L" ELSE "R"
        u == BlackSibling(t, p, s)
        o == u.kid[Other(s)][p]
        v == Refill(RedNephew(u, p, s), p, s)
    IN CASE Red(t, n) \/ n = t.root -> x
         [] ~Red(t, n) /\ n # t.root /\ ~Red(u, u.kid["L"][o]) /\ ~Red(u, u.kid["R"][o]) ->
                [tree |-> SetRed(u, {o}), node |-> p, par |-> u.par[p]]
         [] OTHER -> [tree |-> v, node |-> v.root, par |-> p]

EraseColor(t, n, p) ==
    LET loop[i \in Nat] == IF i = 0 THEN [tree |-> t, node |-> n, par |-> p]
                           ELSE EraseTurn(loop[i - 1])
        end == loop[Cardinality(DOMAIN t.par)]
    IN SetBlack(end.tree, {end.node} \ {NULL})

\* from n to side s as long as there is a child
Outermost(t, n, s) ==
    LET last[m \in DOMAIN t.par] == IF t.kid[s][m] = NULL THEN m ELSE last[t.kid[s][m]]
    IN last[n]

RbFirst(t) == IF t.root = NULL THEN NULL ELSE Outermost(t, t.root, "L")
RbLast(t)  == IF t.root = NULL THEN NULL ELSE Outermost(t, t.root, "R")

\* the first ancestor of n that n is not below on side s
Ascend(t, n, s) ==
    LET above[m \in DOMAIN t.par] == IF t.par[m] # NULL /\ t.kid[s][t.par[m]] = m
                                     THEN above[t.par[m]] ELSE t.par[m]
    IN above[n]

Neighbour(t, n, s) == CASE t.par[n] = n -> NULL
                        [] t.par[n] # n /\ t.kid[s][n] # NULL ->
                               Outermost(t, t.kid[s][n], Other(s))
                        [] OTHER -> Ascend(t, n, s)
RbNext(t, n) == Neighbour(t, n, "R")
RbPrev(t, n) == Neighbour(t, n, "L")

\* node z with at most one child: the child takes its place
EraseLeaf(t, z, c) == Hang(SetParent(t, c, t.par[z]), t.par[z], "L", z, c)

\* node z with two children: its successor y leaves its place to its right
\* child and takes over links and colour of z
EraseInner(t, z, y) ==
    LET q  == t.par[y]
        c  == t.kid["R"][y]
        t1 == Hang(t, t.par[z], "L", z, y)
        t2 == SetKid(SetParent(t1, c, q), q, "L", c)
        t3 == IF q = z THEN t1
              ELSE SetParent(SetKid(t2, y, "R", t.kid["R"][z]), t.kid["R"][z], y)
        t4 == SetKid(SetColor(SetParent(t3, y, t.par[z]), y, z), y, "L", t.kid["L"][z])
    IN SetParent(t4, t.kid["L"][z], y)

RbErase(t, z) ==
    LET inner == t.kid["L"][z] # NULL /\ t.kid["R"][z] # NULL
        y == IF inner THEN Outermost(t, t.kid["R"][z], "L") ELSE z    \* what leaves its place
        c == t.kid[IF t.kid["L"][y] = NULL THEN "R" ELSE "L"][y]
        p == IF t.par[y] = z THEN y ELSE t.par[y]
    IN IF inner THEN IF y \in t.black THEN EraseColor(EraseInner(t, z, y), c, p)
                                      ELSE EraseInner(t, z, y)
       ELSE IF z \in t.black THEN EraseColor(EraseLeaf(t, z, c), c, t.par[z])
                             ELSE EraseLeaf(t, z, c)

\* the fields of a node that left the tree are never read again: forget them
Forget(t, n) == SetRed(SetParent(SetKid(SetKid(t, n, "L", NULL), n, "R", NULL), n, n), {n})

\* rb_replace_node: v's place, links and colour go to n
RbReplace(t, v, n) ==
    LET t1 == Hang(t, t.par[v], "L", v, n)
        t2 == SetParent(SetParent(t1, t.kid["L"][v], n), t.kid["R"][v], n)
        t3 == SetKid(SetKid(t2, n, "L", t.kid["L"][v]), n, "R", t.kid["R"][v])
    IN SetColor(SetParent(t3, n, t.par[v]), n, v)

\* where a new node goes that is smaller than the nodes in `larger'
DescendFrom(t, n, larger) ==
    LET side(m) == IF m \in larger THEN "L" ELSE "R"
        place[m \in DOMAIN t.par] == IF t.kid[side(m)][m] = NULL THEN <<m, side(m)>>
                                     ELSE place[t.kid[side(m)][m]]
    IN place[n]
InsertSorted(t, n, larger) ==
    LET at == IF t.root = NULL THEN <<NULL, "L">> ELSE DescendFrom(t, t.root, larger)
    IN LinkNode(t, n, at[1], at[2])

-----------------------------------------------------------------------------
(* Augmented trees: the nodes func is called for                             *)

\* the call of rb_augment_path between the one for m and the one for m's parent
Sibling(t, m) ==
    LET p == t.par[m]
    IN IF p = NULL THEN NULL
       ELSE IF t.kid["L"][p] = m /\ t.kid["R"][p] # NULL THEN t.kid["R"][p] ELSE t.kid["L"][p]

\* Mutant: the new node is taken for the deepest one
AugmentInsertNode(t, n) == n

\* where rb_augment_insert starts
AugmentInsert(t, n) == IF t.kid["L"][n] # NULL THEN t.kid["L"][n]
                       ELSE IF t.kid["R"][n] # NULL THEN t.kid["R"][n] ELSE n

\* rb_augment_erase_begin: the deepest node whose subtree an erase of n changes
Deepest(t, n) ==
    LET l == t.kid["L"][n]  r == t.kid["R"][n]  y == RbNext(t, n)
    IN CASE l = NULL /\ r = NULL -> t.par[n]
         [] l # NULL /\ r = NULL -> l
         [] l = NULL /\ r # NULL -> r
         [] OTHER -> IF t.kid["R"][y] # NULL THEN t.kid["R"][y]
                     ELSE IF t.par[y] # n THEN t.par[y] ELSE y

-----------------------------------------------------------------------------
(* What a tree has to be                                                     *)

InOrder(t) ==
    LET from[n \in DOMAIN t.par \cup {NULL}] ==
            IF n = NULL THEN <<>> ELSE <<n>> \o from[RbNext(t, n)]
    IN from[RbFirst(t)]

\* the nodes of the subtree of n
Members(t, n) ==
    LET below[m \in DOMAIN t.par \cup {NULL}] ==
            IF m = NULL THEN {} ELSE {m} \cup below[t.kid["L"][m]] \cup below[t.kid["R"][m]]
    IN below[n]
Linked(t) == Members(t, t.root)

\* the numbers of black nodes on the paths from n down to a missing child
BlackHeights(t, n) ==
    LET heights[m \in DOMAIN t.par \cup {NULL}] ==
            IF m = NULL THEN {0}
            ELSE {h + IF m \in t.black THEN 1 ELSE 0 :
                     h \in heights[t.kid["L"][m]] \cup heights[t.kid["R"][m]]}
    IN heights[n]

LinksAgree(t) == /\ t.root # NULL => t.par[t.root] = NULL
                 /\ \A n \in Linked(t), s \in Side :
                        t.kid[s][n] # NULL => t.par[t.kid[s][n]] = n

RedBlack(t) == /\ LinksAgree(t)
               /\ ~Red(t, t.root)
               /\ \A n \in Linked(t), s \in Side : Red(t, n) => ~Red(t, t.kid[s][n])
               /\ Cardinality(BlackHeights(t, t.root)) = 1

=============================================================================
