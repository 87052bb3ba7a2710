---------------------------- MODULE MCApprovalCards ----------------------------
(* ApprovalCards on small instances, for TLC. *)
EXTENDS ApprovalCards, TLC

\* Which person sends which command makes no difference.
CommandSymmetry == Permutations(Commands)

OneTask == {1}

\* A read task needs no approval; a write task gets a card.
WriteTask == [mode |-> "write", blocked |-> FALSE, target |-> TRUE]
ReadTask == [mode |-> "read", blocked |-> FALSE, target |-> TRUE]

MCPayloads == {WriteTask, ReadTask}
=============================================================================
