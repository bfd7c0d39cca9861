--------------------------- MODULE MCGCancellable ---------------------------
(* Model-checking instance of GCancellable. *)
EXTENDS GCancellable

=============================================================================
