--------------------------- MODULE MCPriorityLock ---------------------------
(* Three tasks, two of the three priorities and up to three queued futures. *)
EXTENDS PriorityLock

CONSTANTS t1, t2, t3

MCTasks == {t1, t2, t3}
MCPriorities == {0, 10}
=============================================================================
