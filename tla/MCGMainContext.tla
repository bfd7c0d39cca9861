--------------------------- MODULE MCGMainContext ---------------------------
(* Model-checking instance of GMainContext. *)
EXTENDS GMainContext, TLC

CONSTANTS s1, s2, t1, t2

MCPriority == [s \in Sources |-> IF s = s1 THEN -1 ELSE 0]

\* One thread may iterate in a callback, or destroy a source there.
MCMaxDepth == [t \in Threads |-> IF t = t1 THEN 2 ELSE 1]

MCHolder == [s \in Sources |-> IF s = s1 THEN t1 ELSE t2]

MCCalls == [t \in Threads |-> IF t = t1 THEN {"iterate", "pending"} ELSE {"run"}]
=============================================================================
