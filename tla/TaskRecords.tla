------------------------------ MODULE TaskRecords ------------------------------
(***************************************************************************)
(* The record FileTaskQueue keeps for one task (queue.py) and what each    *)
(* queue operation does to it.  Both the abstract queue (TaskQueue) and    *)
(* the file-level one (FileTaskQueue) are built from these operators.      *)
(*                                                                         *)
(* Abstracted: timestamps, prompts, runner, repository and the approval    *)
(* metadata.  payload.approved and record.approved are set together by     *)
(* every operation, so one field stands for both; no caller of enqueue     *)
(* submits an approved payload (to_task_payload has no such key), so a new *)
(* record is not approved.  card_updates is the length of that list.       *)
(***************************************************************************)
EXTENDS Naturals

CONSTANTS
    Task,       \* task ids; their order is the sorted order of the file names
    Absent,     \* what is at _path(t) before enqueue: no file
    Torn        \* a file cut short: write_json truncates, then writes

Mode == {"read", "write"}

Status == {"BLOCKED", "APPROVAL_REQUIRED", "QUEUED", "RUNNING",
           "DONE", "FAILED", "REJECTED"}

FINAL_STATUSES == {"DONE", "FAILED"}

DeliveryStatus == {"none", "DELIVERED", "DELIVERY_FAILED", "NO_TARGET"}

Payload == [mode : Mode, blocked : BOOLEAN, target : BOOLEAN]

TaskRecord ==
    [task_id : Task, status : Status, mode : Mode, approved : BOOLEAN,
     target : BOOLEAN, approval_card : BOOLEAN,
     delivery_result : DeliveryStatus, card_updates : Nat]

ASSUME TaskAssumption == Task \subseteq Nat
ASSUME FileAssumption == /\ Absent # Torn
                         /\ Absent \notin TaskRecord
                         /\ Torn \notin TaskRecord

\* A file content that json.loads accepts.
Whole(content) == content \notin {Absent, Torn}

\* The tasks whose claim has been written at some time.
Ran == {"RUNNING"} \cup FINAL_STATUSES

-----------------------------------------------------------------------------
(* What each operation writes. *)

\* Seeded fault: the mode is not looked at.
EnqueuedWithoutApproval(payload) ==
    IF payload.blocked THEN "BLOCKED" ELSE "QUEUED"

EnqueuedStatus(payload) ==
    IF payload.blocked THEN "BLOCKED"
    ELSE IF payload.mode = "write" THEN "APPROVAL_REQUIRED"
    ELSE "QUEUED"

EnqueuedRecord(t, payload) ==
    [task_id |-> t, status |-> EnqueuedStatus(payload), mode |-> payload.mode,
     approved |-> FALSE, target |-> payload.target, approval_card |-> FALSE,
     delivery_result |-> "none", card_updates |-> 0]

\* approve() of a task that is already approved and queued changes nothing.
AlreadyApproved(r) == r.status = "QUEUED" /\ r.approved

\* Seeded fault: anything that has not run yet may be decided (again).
NotRunYet(r) == r.status \notin {"RUNNING", "DONE", "FAILED"}

AwaitingApproval(r) == r.status = "APPROVAL_REQUIRED"

ApprovedRecord(r) == [r EXCEPT !.approved = TRUE, !.status = "QUEUED"]

\* Seeded fault: the command's other name is written as the status.
DeniedRecord(r) == [r EXCEPT !.approved = FALSE, !.status = "DENIED"]

RejectedRecord(r) == [r EXCEPT !.approved = FALSE, !.status = "REJECTED"]

ClaimedRecord(r) == [r EXCEPT !.status = "RUNNING"]

\* Seeded fault: any result counts as a success.
CompletedAnyway(r, success) == [r EXCEPT !.status = "DONE"]

\* No guard on the status: complete() and fail() overwrite a settled record.
CompletedRecord(r, success) ==
    [r EXCEPT !.status = IF success THEN "DONE" ELSE "FAILED"]

DeliveryMarkedRecord(r, result) == [r EXCEPT !.delivery_result = result]

ApprovalCardRecord(r) == [r EXCEPT !.approval_card = TRUE]

CardUpdateRecord(r) == [r EXCEPT !.card_updates = @ + 1]

\* claim_next() reads the files in name order and takes the first QUEUED one;
\* a torn file met before it makes json.loads raise.
Claimable(files, t) ==
    /\ Whole(files[t])
    /\ files[t].status = "QUEUED"
    /\ \A u \in Task :
        u < t => \/ files[u] = Absent
                 \/ Whole(files[u]) /\ files[u].status # "QUEUED"
=============================================================================
