---------------------------- MODULE MCGThreadPool ----------------------------
(* Model-checking instance of GThreadPool. *)
EXTENDS GThreadPool

CONSTANTS a, b, c

\* The priorities of three tasks.
MCKey == (a :> 1 @@ b :> 2 @@ c :> 1)

\* The limits that are set; -1 is no limit.
MCMaxThreads == {-1, 0, 1, 3}
=============================================================================
