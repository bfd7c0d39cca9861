------------------------------ MODULE MCGMutex ------------------------------
(* Model-checking instance of GMutex. *)
EXTENDS GMutex, TLC
=============================================================================
