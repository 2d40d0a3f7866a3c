--------------------------------- MODULE Assoc ---------------------------------
(***************************************************************************)
(* What dictionary.h promises: names with values, set and unset one at a   *)
(* time.  Memory may run out: the value is then lost, or the whole entry.  *)
(***************************************************************************)
CONSTANTS Name, Val, NULL, Absent
VARIABLE map

Init == map = [k \in Name |-> Absent]

Set == \E k \in Name : map'[k] \in Val \cup {NULL} /\ map' = [map EXCEPT ![k] = map'[k]]
Unset == \E k \in Name : map' = [map EXCEPT ![k] = Absent]
Clear == map' = [k \in Name |-> Absent]

Next == Set \/ Unset \/ Clear
Spec == Init /\ [][Next]_map

=============================================================================
