------------------------------ MODULE NoValue ------------------------------
(***************************************************************************)
(* What an optional field of the program holds when it holds nothing.      *)
(***************************************************************************)
CONSTANT None
=============================================================================
