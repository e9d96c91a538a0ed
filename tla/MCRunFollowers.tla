--------------------------- MODULE MCRunFollowers ---------------------------
(***************************************************************************)
(* RunFollowers for TLC: every constant is a number given by the .cfg      *)
(* files, so the module only names what is instantiated.                   *)
(***************************************************************************)
EXTENDS RunFollowers
=============================================================================
