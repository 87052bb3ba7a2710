--------------------------- MODULE MCFileTaskQueue ---------------------------
(* FileTaskQueue on small instances, for TLC. *)
EXTENDS FileTaskQueue

OneTask == {1}
TwoTasks == 1 .. 2

\* A read task, a write task and a write task the risk policy blocks.
MCPayloads == {[mode |-> "read", blocked |-> FALSE, target |-> TRUE],
               [mode |-> "write", blocked |-> FALSE, target |-> TRUE],
               [mode |-> "write", blocked |-> TRUE, target |-> TRUE]}


\* Enough to order two claimable files of which one may wait for approval.
ScanPayloads == {p \in MCPayloads : ~p.blocked}
=============================================================================
