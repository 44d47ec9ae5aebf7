-------------------------------- MODULE Maybe --------------------------------
(* The one value that stands for Python's None wherever a value may be missing. *)
CONSTANT None
=============================================================================
