------------------------------- MODULE MCWorker -------------------------------
(* Worker on small instances, for TLC. *)
EXTENDS Worker

OneTask == {1}
TwoTasks == 1 .. 2

\* A write task (it gets an approval card), a read task, and one submitted by a
\* tool, which has no delivery target.
WriteTask == [mode |-> "write", blocked |-> FALSE, target |-> TRUE]
ReadTask == [mode |-> "read", blocked |-> FALSE, target |-> TRUE]
ToolTask == [mode |-> "read", blocked |-> FALSE, target |-> FALSE]

MCPayloads == {WriteTask, ReadTask, ToolTask}
=============================================================================
