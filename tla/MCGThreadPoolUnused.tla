------------------------- MODULE MCGThreadPoolUnused -------------------------
(* Model-checking instance of GThreadPoolUnused. *)
EXTENDS GThreadPoolUnused

\* No limit, and one that leaves room for a single waiting thread.
MCLimits == {-1, 2}

\* The threads are interchangeable.
Symmetry == Permutations(Workers)
=============================================================================
