------------------------------ MODULE MCWorkerCron ------------------------------
(* WorkerCron on small instances, for TLC. *)
EXTENDS WorkerCron

TwoTasks == 1 .. 2

\* A read task is queued at once; a write task would wait for its approval.
MCPayloads == {[mode |-> m, blocked |-> FALSE, target |-> TRUE] : m \in Mode}
=============================================================================
