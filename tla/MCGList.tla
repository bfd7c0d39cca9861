------------------------------- MODULE MCGList -------------------------------
(* Model-checking instance of GList. *)
EXTENDS GList

\* Data of two ranks, with two that compare equal.
MCData == {1, 2, 3}
MCLess == {<<x, y>> \in MCData \X MCData : x < y /\ y > 2}
=============================================================================
