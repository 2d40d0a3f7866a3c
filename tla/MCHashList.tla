----------------------------- MODULE MCHashList -----------------------------
(* Instances of HashList for TLC: keys 0..MaxKey hashed modulo the size of   *)
(* the table, as the callback of test/hash/test.c does.                      *)
EXTENDS HashList, TLC

MCHash == [k \in Key |-> k % HashSize]
WholeTable == {<<0, HashSize>>}
\* a whole walk, a proper range, an empty range inside and one behind the table
SomeRanges == {<<0, HashSize>>, <<1, 2>>, <<1, 1>>, <<HashSize, HashSize>>}
NoRange == {}

Symmetry == Permutations(Thread) \cup Permutations(Node)

=============================================================================
