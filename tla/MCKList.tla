-------------------------------- MODULE MCKList --------------------------------
(* The list of testklist, with its one pushing task. *)
EXTENDS KList
=============================================================================
