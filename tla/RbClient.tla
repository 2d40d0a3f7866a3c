------------------------------- MODULE RbClient -------------------------------
(***************************************************************************)
(* A program that uses rbtree.h as the comment at rbtree.h:27-92 tells it  *)
(* to: it searches a place itself, links and recolours, erases, replaces a *)
(* node by one with the same key, and keeps a value per node up to date    *)
(* with the augment calls.  The value is the size of the node's subtree.   *)
(***************************************************************************)
EXTENDS RbTree, SequencesExt

CONSTANTS RbNode, RbKey       \* the nodes, the keys the client orders them by
ASSUME RbNodeAssumption == /\ RbKey \in [RbNode -> Nat]
                           /\ NULL \notin RbNode /\ IsFiniteSet(RbNode)

VARIABLES rb,    \* the tree
          size   \* size[n]: what func last stored in n
rbVars == <<rb, size>>

RbInit == rb = EmptyTree(RbNode) /\ size = [n \in RbNode |-> 0]

InTree(n) == rb.par[n] # n

\* func(node): recompute the value from the children's
SizeOf(sz, n) == IF n = NULL THEN 0 ELSE sz[n]
Func(t, sz, n) ==
    IF n = NULL THEN sz
    ELSE [sz EXCEPT ![n] = 1 + SizeOf(sz, t.kid["L"][n]) + SizeOf(sz, t.kid["R"][n])]

\* rb_augment_path, one turn and the loop, which does nothing from no node
AugmentTurn(t, x) ==
    IF x.node = NULL THEN x
    ELSE [node |-> t.par[x.node],
          size |-> Func(t, Func(t, x.size, x.node), Sibling(t, x.node))]

AugmentPath(t, sz, n) ==
    LET loop[i \in Nat] == IF i = 0 THEN [node |-> n, size |-> sz]
                           ELSE AugmentTurn(t, loop[i - 1])
    IN loop[Cardinality(DOMAIN t.par)].size

\* an equal key ends the search: nothing is inserted
RbInsert(n) ==
    /\ \A m \in RbNode : InTree(m) => RbKey[m] # RbKey[n]
    /\ rb' = InsertSorted(rb, n, {m \in RbNode : RbKey[n] < RbKey[m]})
    /\ size' = AugmentPath(rb', size, AugmentInsert(rb', n))

RbRemove(n) ==
    /\ InTree(n)
    /\ LET t == RbErase(rb, n)
       IN /\ rb' = Forget(t, n)
          /\ size' = [AugmentPath(t, size, Deepest(rb, n)) EXCEPT ![n] = 0]

\* v is replaced by n, to which the client copies the value
RbSwap(v, n) ==
    /\ InTree(v) /\ ~InTree(n) /\ RbKey[v] = RbKey[n]
    /\ rb' = Forget(RbReplace(rb, v, n), v)
    /\ size' = [size EXCEPT ![n] = size[v], ![v] = 0]

RbClientNext == \E n \in RbNode : \/ RbInsert(n) \/ RbRemove(n)
                                  \/ \E v \in RbNode : RbSwap(v, n)

-----------------------------------------------------------------------------
\* rb_next from rb_first and rb_prev from rb_last visit exactly the nodes of
\* the tree, in order of their keys
Sorted(t) ==
    LET s == InOrder(t)
    IN /\ \A i \in 1 .. Len(s) - 1 : RbKey[s[i]] < RbKey[s[i + 1]] /\ RbPrev(t, s[i + 1]) = s[i]
       /\ ToSet(s) = {n \in RbNode : InTree(n)}
       /\ s # <<>> => s[Len(s)] = RbLast(t) /\ RbPrev(t, s[1]) = NULL

\* After any sequence of insertions, erasures and replacements the links of
\* the tree agree, its root is black, no red node has a red child, every path
\* has the same number of black nodes and no rotation has lost or misplaced a
\* node: rb_insert_color and __rb_erase_color rebalance every shape they meet.
ClientTree == RedBlack(rb) /\ Sorted(rb)

\* The nodes rb_augment_insert and rb_augment_erase_end visit are all those
\* whose subtree an insertion, an erasure and their rotations changed: the
\* value in every node stays the one its subtree has.
Augmented == \A n \in RbNode : size[n] = IF InTree(n) THEN Cardinality(Members(rb, n)) ELSE 0

=============================================================================
