-------------------------------- MODULE Nil --------------------------------
(***************************************************************************)
(* The value of a nil pointer, a missing map entry, or an error return.    *)
(***************************************************************************)
CONSTANT None
=============================================================================
