------------------------------- MODULE TaskQueue -------------------------------
(***************************************************************************)
(* What the task queue promises: every operation of FileTaskQueue is one   *)
(* indivisible step on one record.  The only thing that is not promised is *)
(* a record whose writer died in the middle of write_json: it is lost.     *)
(* FileTaskQueue.tla implements this module; Worker.tla and                *)
(* ApprovalCards.tla use the queue at this level.                          *)
(***************************************************************************)
EXTENDS TaskRecords

CONSTANTS
    Payloads,           \* what callers submit
    DeliveryResults,    \* what delivery records
    MaxCardUpdates      \* bound on mark_card_update calls per task

VARIABLE records            \* [Task -> TaskRecord \cup {Absent, Torn}]

TypeOK == records \in [Task -> TaskRecord \cup {Absent, Torn}]

Init == records = [t \in Task |-> Absent]

Put(t, r) == records' = [records EXCEPT ![t] = r]

Enqueue(t, payload) ==
    /\ records[t] = Absent
    /\ Put(t, EnqueuedRecord(t, payload))

Approve(t) ==
    /\ Whole(records[t])
    /\ AwaitingApproval(records[t])
    /\ Put(t, ApprovedRecord(records[t]))

Reject(t) ==
    /\ Whole(records[t])
    /\ AwaitingApproval(records[t])
    /\ Put(t, RejectedRecord(records[t]))

ClaimNext(t) ==
    /\ Claimable(records, t)
    /\ Put(t, ClaimedRecord(records[t]))

\* complete() and fail(); only the worker that claimed the task calls them.
Complete(t, success) ==
    /\ Whole(records[t])
    /\ records[t].status \in Ran
    /\ Put(t, CompletedRecord(records[t], success))

\* Delivery selects records with a final status only.
MarkDelivery(t, result) ==
    /\ Whole(records[t])
    /\ records[t].status \in FINAL_STATUSES
    /\ Put(t, DeliveryMarkedRecord(records[t], result))

MarkApprovalCard(t) ==
    /\ Whole(records[t])
    /\ Put(t, ApprovalCardRecord(records[t]))

MarkCardUpdate(t) ==
    /\ Whole(records[t])
    /\ records[t].card_updates < MaxCardUpdates
    /\ Put(t, CardUpdateRecord(records[t]))

Lose(t) ==
    /\ Whole(records[t])
    /\ Put(t, Torn)

Next ==
    \E t \in Task :
        \/ \E payload \in Payloads : Enqueue(t, payload)
        \/ Approve(t)
        \/ Reject(t)
        \/ ClaimNext(t)
        \/ \E success \in BOOLEAN : Complete(t, success)
        \/ \E result \in DeliveryResults : MarkDelivery(t, result)
        \/ MarkApprovalCard(t)
        \/ MarkCardUpdate(t)
        \/ Lose(t)

Spec == Init /\ [][Next]_records
=============================================================================
