-------------------------------- MODULE Null --------------------------------
(***************************************************************************)
(* The null pointer, different from every value it is compared with.       *)
(***************************************************************************)
CONSTANT NULL
=============================================================================
