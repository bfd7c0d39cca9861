---------------------------- MODULE MCGAsyncQueue ----------------------------
(* Model-checking instance of GAsyncQueue. *)
EXTENDS GAsyncQueue

CONSTANTS a, b

\* Two items that compare different; each may be pushed more than once.
MCKey == (a :> 1) @@ (b :> 2)

\* Wait for ever, or until a deadline.
Deadlines == {-1, 1}
=============================================================================
