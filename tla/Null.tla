---------------------------------- MODULE Null ----------------------------------
(***************************************************************************)
(* The null pointer, which the components of the library share.            *)
(***************************************************************************)
CONSTANT NULL

=============================================================================
