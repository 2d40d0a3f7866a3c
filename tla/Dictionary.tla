------------------------------ MODULE Dictionary ------------------------------
(***************************************************************************)
(* The dictionary of dictionary.c: names and values in parallel arrays     *)
(* that double when they are full.  A dictionary is the record             *)
(*   key, val, hash   the arrays, as sequences of length d->size           *)
(*   n                the count of entries that decides when to grow       *)
(*   gone             the arrays mem_double has replaced by NULL           *)
(* Strings are members of Name and Val; malloc may fail at every call.     *)
(***************************************************************************)
EXTENDS Null, Naturals, Sequences, FiniteSets

CONSTANTS Name, Val,
          NameHash,      \* dictionary_hash
          DictMinSz      \* DICTMINSZ
ASSUME DictAssumption == /\ NameHash \in [Name -> Nat]
                         /\ DictMinSz \in Nat \ {0}
                         /\ NULL \notin Name \cup Val

Size(d) == Len(d.key)
Filled(d) == {i \in 1 .. Size(d) : d.key[i] # NULL}

\* dictionary_new(0)
NewDict == [key  |-> [i \in 1 .. DictMinSz |-> NULL],
            val  |-> [i \in 1 .. DictMinSz |-> NULL],
            hash |-> [i \in 1 .. DictMinSz |-> 0],
            n |-> 0, gone |-> {}]

\* Mutant: equal hashes are taken for equal names
HitsByHash(d, k) == {i \in Filled(d) : d.hash[i] = NameHash[k]}

\* the slots the searches of dictionary_get, _set and _unset stop at
Hits(d, k) == {i \in Filled(d) : d.hash[i] = NameHash[k] /\ d.key[i] = k}
Lowest(S) == CHOOSE i \in S : \A j \in S : i <= j

\* xstrdup(v), or its NULL
Copies(v) == {v, NULL}

\* dictionary_set of a name that is there: d.val[i] becomes a copy of v
Replacements(d, k, v) == {[d EXCEPT !.val[Lowest(Hits(d, k))] = c] : c \in Copies(v)}

\* mem_double of the three arrays; those in `lost' could not be allocated, and one
\* that was missing before is not copied from unless that fails again
Doubled(s, zero) == s \o [i \in 1 .. Len(s) |-> zero]
Grown(d) == [d EXCEPT !.key = Doubled(@, NULL), !.val = Doubled(@, NULL), !.hash = Doubled(@, 0)]
Ungrown(d) == {[d EXCEPT !.gone = lost] :
                   lost \in {m \in SUBSET {"key", "val", "hash"} : d.gone \subseteq m /\ m # {}}}

Roomy(d) == IF d.n = Size(d) THEN Grown(d) ELSE d

Empty(d) == {i \in 1 .. Size(d) : d.key[i] = NULL}

\* slot i becomes an entry, and is counted
Entry(d, i, h, ck, cv) == [d EXCEPT !.key[i] = ck, !.val[i] = cv, !.hash[i] = h, !.n = @ + 1]

\* the first empty slot is filled; a key that could not be copied leaves the
\* slot empty, and is counted and reported as success all the same
Additions(d, k, v) == {Entry(d, Lowest(Empty(d)), NameHash[k], ck, cv) :
                           ck \in Copies(k), cv \in Copies(v)}

\* dictionary_set: the dictionaries it may leave when it returns 0, and -1
Sets(d, k, v) == IF d.n > 0 /\ Hits(d, k) # {} THEN Replacements(d, k, v)
                 ELSE Additions(Roomy(d), k, v)
SetFails(d, k) == IF (d.n > 0 /\ Hits(d, k) # {}) \/ d.n # Size(d) THEN {} ELSE Ungrown(d)

\* Mutant: the count is taken back also for a name that is not there
UnsetCounts(d, k) ==
    IF Hits(d, k) = {} THEN [d EXCEPT !.n = @ - 1]
    ELSE LET i == Lowest(Hits(d, k))
         IN [d EXCEPT !.key[i] = NULL, !.val[i] = NULL, !.hash[i] = 0, !.n = @ - 1]

\* dictionary_unset
Unset(d, k) ==
    IF Hits(d, k) = {} THEN d
    ELSE LET i == Lowest(Hits(d, k))
         IN [d EXCEPT !.key[i] = NULL, !.val[i] = NULL, !.hash[i] = 0, !.n = @ - 1]

\* dictionary_get
Get(d, k, def) == IF Hits(d, k) = {} THEN def ELSE d.val[Lowest(Hits(d, k))]

\* the searches read every key, the hash of a name, the value of the name they find
SearchFaults(d, k) == \/ "key" \in d.gone
                      \/ "hash" \in d.gone /\ Filled(d) # {}
                      \/ "val" \in d.gone /\ Hits(d, k) # {}

\* dictionary_del reads every key and value: with either array gone it faults
DelFaults(d) == d.gone \cap {"key", "val"} # {}

-----------------------------------------------------------------------------
\* The arrays have the same length, the count is between the number of names
\* and that length, so that a dictionary that does not grow has an empty slot
\* and one with count 0 needs no search; no name is there twice; every stored
\* hash is that of its name, so that a search cannot miss it.
DictShape(d) ==
    /\ Len(d.val) = Size(d) /\ Len(d.hash) = Size(d)
    /\ Cardinality(Filled(d)) <= d.n /\ d.n <= Size(d)
    /\ \A i \in Filled(d) : /\ d.hash[i] = NameHash[d.key[i]]
                            /\ \A j \in Filled(d) : d.key[i] = d.key[j] => i = j

=============================================================================
