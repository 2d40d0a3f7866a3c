------------------------------- MODULE HashWalk -------------------------------
(***************************************************************************)
(* A walk over the hash table with hash_table_next_by_user: the caller     *)
(* passes the structure the last call returned (NULL at first) and stops   *)
(* at NULL.  Between two calls the lock is free, and other threads add and *)
(* delete.  Every function works under the lock from its first look at the *)
(* chains to its last, so each call is one step here (HashList shows that  *)
(* they are atomic).  An element is its key, all that cmp_cb and            *)
(* hash_val_cb look at; hash_table_reusable_add can link several that are   *)
(* equal.  The walker reads the structure it stands on, so the model has    *)
(* nobody delete an element equal to that one.                              *)
(***************************************************************************)
EXTENDS Null, Naturals, Sequences

CONSTANTS
    WKey,       \* what cmp_cb compares
    HashSize,   \* opt->hash_size
    Hash,       \* opt->hash_val_cb
    MaxLen      \* bound: elements in a bucket

Bucket == 0 .. HashSize - 1

ASSUME HashAssumption == HashSize \in Nat \ {0} /\ Hash \in [WKey -> Bucket]
ASSUME WalkAssumption == NULL \notin WKey /\ MaxLen \in Nat

VARIABLES
    chain,   \* chain[b]: the keys of bucket b, first to last
    walk,    \* "off", "on" or "ended"
    cur,     \* the walker's structure, NULL before the first call
    seen,    \* what the walk has returned so far
    stable,  \* what has been in the table since the walk began
    dup      \* two equal elements have been in the table since then

walkVars == <<chain, walk, cur, seen, stable, dup>>

-----------------------------------------------------------------------------
(* Positions of the table, in the order in which a walk passes them *)

Pos == {p \in Bucket \X (1 .. MaxLen) : p[2] <= Len(chain[p[1]])}
At(p) == chain[p[1]][p[2]]
Before(p, q) == p[1] < q[1] \/ (p[1] = q[1] /\ p[2] < q[2])

Present == {At(p) : p \in Pos}
Distinct == \A p, q \in Pos : At(p) = At(q) => p = q

-----------------------------------------------------------------------------
\* Mutant: `find' is forgotten at the end of a bucket
SameBucket(u) == {q \in Pos : /\ At(q) # u
                              /\ \E p \in Pos : At(p) = u /\ p[1] = q[1] /\ Before(p, q)}

\* where hash_table_next_by_user(u) may stop: behind an element equal to u that
\* it found in the bucket of u or a later one, at an element that is not equal
Behind(u) == {q \in Pos : /\ At(q) # u
                          /\ \E p \in Pos : /\ p[1] >= Hash[u] /\ At(p) = u
                                            /\ Before(p, q)}

NextByUser(u) ==
    LET C == IF u = NULL THEN Pos ELSE Behind(u)
    IN  IF C = {} THEN NULL
        ELSE At(CHOOSE q \in C : \A r \in C : r = q \/ Before(q, r))

-----------------------------------------------------------------------------
\* Mutant: hlist_add_head links at the end of the chain
LinkTail(k) ==
    /\ Len(chain[Hash[k]]) < MaxLen
    /\ chain' = [chain EXCEPT ![Hash[k]] = Append(@, k)]

\* hlist_add_head
Link(k) ==
    /\ Len(chain[Hash[k]]) < MaxLen
    /\ chain' = [chain EXCEPT ![Hash[k]] = <<k>> \o @]

\* hlist_del at the places I of bucket b: the others stay, in their order
Unlink(b, I) ==
    \E n \in 0 .. Len(chain[b]) : \E f \in [1 .. n -> DOMAIN chain[b]] :
        /\ \A i, j \in 1 .. n : i < j => f[i] < f[j]
        /\ \A i \in DOMAIN chain[b] : i \in I <=> \A j \in 1 .. n : f[j] # i
        /\ chain' = [chain EXCEPT ![b] = [j \in 1 .. n |-> chain[b][f[j]]]]

PlacesOf(k) == {i \in DOMAIN chain[Hash[k]] : chain[Hash[k]][i] = k}

\* hash_table_add; a key that is there is refused
WAdd(k) ==
    /\ k \notin Present
    /\ Link(k)
    /\ UNCHANGED <<walk, cur, seen, stable, dup>>

\* hash_table_reusable_add does not look for an equal element
ReusableAdd(k) ==
    /\ Link(k)
    /\ dup' = (dup \/ k \in Present)
    /\ UNCHANGED <<walk, cur, seen, stable>>

\* one element equal to k or more are unlinked and freed
Delete(k, I) ==
    /\ walk = "on" => k # cur
    /\ Unlink(Hash[k], I)
    /\ stable' = stable \ {k}
    /\ UNCHANGED <<walk, cur, seen, dup>>

\* hash_table_del removes the first element that is equal
Del(k) == \E i \in PlacesOf(k) : (\A j \in PlacesOf(k) : i <= j) /\ Delete(k, {i})

\* hash_table_reusable_del removes every element that is equal
ReusableDel(k) == PlacesOf(k) # {} /\ Delete(k, PlacesOf(k))

Begin ==
    /\ walk = "off"
    /\ walk' = "on" /\ cur' = NULL /\ seen' = {} /\ stable' = Present
    /\ dup' = ~Distinct
    /\ UNCHANGED chain

\* one call of hash_table_next_by_user
WalkOn ==
    /\ walk = "on"
    /\ \/ /\ NextByUser(cur) # NULL
          /\ cur' = NextByUser(cur) /\ seen' = seen \cup {NextByUser(cur)}
          /\ UNCHANGED walk
       \/ /\ NextByUser(cur) = NULL
          /\ cur' = NULL /\ walk' = "ended"
          /\ UNCHANGED seen
    /\ UNCHANGED <<chain, stable, dup>>

EndWalk ==
    /\ walk = "ended"
    /\ walk' = "off" /\ seen' = {} /\ stable' = {}
    /\ UNCHANGED <<chain, cur, dup>>

-----------------------------------------------------------------------------
WalkInit ==
    /\ chain = [b \in Bucket |-> <<>>]
    /\ walk = "off" /\ cur = NULL /\ seen = {} /\ stable = {} /\ dup = FALSE

WalkNext == \/ \E k \in WKey : WAdd(k) \/ ReusableAdd(k) \/ Del(k) \/ ReusableDel(k)
            \/ Begin \/ WalkOn \/ EndWalk

WalkSpec == WalkInit /\ [][WalkNext]_walkVars

\* the walker calls again as long as it gets an element
WalkFairSpec == WalkSpec /\ WF_walkVars(WalkOn)

-----------------------------------------------------------------------------
(* Properties *)

\* No call of hash_table_next_by_user returns an element the walk has returned
\* before, not even one that was deleted and added again behind the walker's
\* back, unless two equal elements were in the table during the walk.
OnlyOnce == [][WalkOn /\ ~dup => cur' \notin seen]_walkVars

\* A walk that ended has returned every element that was in the table from its
\* beginning to its end, whatever other threads added and deleted meanwhile,
\* equal elements included.
Complete == walk = "ended" => stable \subseteq seen

\* A walk reaches NULL when nothing is added or deleted any more, as the loop of
\* test/hash/test.c around hash_table_next_by_user expects of a table it has
\* filled with hash_table_reusable_add.
WalkEnds == []<><<chain' # chain>>_walkVars \/ (walk = "on" ~> walk = "ended")

=============================================================================
