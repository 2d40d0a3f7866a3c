----------------------------- MODULE MCHashWalk -----------------------------
(* Instances of HashWalk for TLC: keys hashed modulo the size of the table.  *)
EXTENDS HashWalk

MCHash == [k \in WKey |-> k % HashSize]

=============================================================================
