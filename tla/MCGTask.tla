------------------------------- MODULE MCGTask -------------------------------
EXTENDS GTask

CONSTANTS t1, t2

\* t1 is run by the application, every other task by the task_func of t1.
MCParent == [k \in Tasks |-> IF k = t1 THEN None ELSE t1]

MCResults == [k \in Tasks |-> IF k = t1 THEN {"error"} ELSE {"value"}]

MCPriority == [k \in Tasks |-> 0]

MCModes == [k \in Tasks |-> IF k = t1 THEN {"async"} ELSE {"async", "sync", "plain"}]

\* An instance without cancellation: the task_func of t1 waits for the others.
MCSync == [k \in Tasks |-> {"sync"}]

MCValue == [k \in Tasks |-> {"value"}]

=============================================================================
