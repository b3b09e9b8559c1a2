------------------------------ MODULE Optional ------------------------------
(***************************************************************************)
(* What is not there: a cap the user did not set, an option that was not   *)
(* given, a file that does not exist, an answer that has not come (None in *)
(* the code, or no file).                                                  *)
(***************************************************************************)
EXTENDS Naturals

CONSTANT None

ASSUME NoneAssumption == None \notin Nat
=============================================================================
