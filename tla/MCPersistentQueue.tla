-------------------------- MODULE MCPersistentQueue --------------------------
(* PersistentQueue for TLC: tasks are numbered from 1. *)
EXTENDS PersistentQueue
CONSTANT NumTasks
MCTasks == 1..NumTasks
=============================================================================
