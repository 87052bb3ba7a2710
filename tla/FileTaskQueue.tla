----------------------------- MODULE FileTaskQueue -----------------------------
(***************************************************************************)
(* FileTaskQueue (queue.py) as it runs: one JSON file per task, an         *)
(* advisory lock on queue.lock, and processes that take the lock, read,    *)
(* truncate, write and unlock one step at a time.  A process may die       *)
(* between any two steps; the kernel then drops its lock and the file      *)
(* stays as it is.                                                         *)
(*                                                                         *)
(* A "process" is one life of one caller: a gateway handler, a tool        *)
(* handler or a worker.  It makes calls one after another.                 *)
(***************************************************************************)
EXTENDS TaskRecords

CONSTANTS
    Proc,               \* lives of callers
    NoProc,             \* the lock is free
    Payloads,           \* what callers submit
    DeliveryResults,    \* what delivery records
    MaxCardUpdates      \* bound on mark_card_update calls per task

ASSUME ProcAssumption == NoProc \notin Proc

ASSUME InputAssumption == /\ Payloads \subseteq Payload
                          /\ DeliveryResults \subseteq DeliveryStatus \ {"none"}
                          /\ MaxCardUpdates \in Nat

VARIABLES
    files,      \* [Task -> TaskRecord \cup {Absent, Torn}], the directory
    lock,       \* who holds queue.lock
    pc,         \* where each process is in its call
    request,    \* the call each process is making
    buffer,     \* the record the process has in memory and will write
    claims      \* claims[t]: the processes claim_next has returned t to

vars == <<files, lock, pc, request, buffer, claims>>

NoRequest == [op |-> "none"]

Request ==
    {NoRequest}
    \cup [op : {"enqueue"}, task : Task, payload : Payloads]
    \cup [op : {"approve", "reject", "mark_approval_card", "mark_card_update"},
          task : Task]
    \cup [op : {"claim_next"}]
    \cup [op : {"complete"}, task : Task, success : BOOLEAN]
    \cup [op : {"mark_delivery"}, task : Task,
          result : DeliveryResults]

TypeOK ==
    /\ files \in [Task -> TaskRecord \cup {Absent, Torn}]
    /\ lock \in Proc \cup {NoProc}
    /\ pc \in [Proc -> {"idle", "acquire", "read", "truncate", "write",
                        "claimed", "release", "dead"}]
    /\ request \in [Proc -> Request]
    /\ buffer \in [Proc -> TaskRecord \cup {Absent}]
    /\ claims \in [Task -> SUBSET Proc]

Init ==
    /\ files = [t \in Task |-> Absent]
    /\ lock = NoProc
    /\ pc = [p \in Proc |-> "idle"]
    /\ request = [p \in Proc |-> NoRequest]
    /\ buffer = [p \in Proc |-> Absent]
    /\ claims = [t \in Task |-> {}]

-----------------------------------------------------------------------------
(* Calls.  Each opens queue.lock and asks for it. *)

Call(p, req) ==
    /\ pc[p] = "idle"
    /\ pc' = [pc EXCEPT ![p] = "acquire"]
    /\ request' = [request EXCEPT ![p] = req]
    /\ UNCHANGED <<files, lock, buffer, claims>>

\* _new_queue_id: a random id nobody else has, in any order within a second.
Enqueue(p, t, payload) ==
    /\ files[t] = Absent
    /\ \A q \in Proc : request[q].op = "enqueue" => request[q].task # t
    /\ Call(p, [op |-> "enqueue", task |-> t, payload |-> payload])

Approve(p, t) == Call(p, [op |-> "approve", task |-> t])

Reject(p, t) == Call(p, [op |-> "reject", task |-> t])

ClaimNext(p) == Call(p, [op |-> "claim_next"])

\* run_next_queue_task completes (or fails) only a task it was given.
Complete(p, t, success) ==
    /\ p \in claims[t]
    /\ Call(p, [op |-> "complete", task |-> t, success |-> success])

\* deliver_task_result marks only a record it read with a final status.
MarkDelivery(p, t, result) ==
    /\ Whole(files[t])
    /\ files[t].status \in FINAL_STATUSES
    /\ Call(p, [op |-> "mark_delivery", task |-> t, result |-> result])

MarkApprovalCard(p, t) ==
    /\ files[t] # Absent
    /\ Call(p, [op |-> "mark_approval_card", task |-> t])

MarkCardUpdate(p, t) ==
    /\ files[t] # Absent
    /\ Call(p, [op |-> "mark_card_update", task |-> t])

-----------------------------------------------------------------------------
(* The body of a call. *)

\* Seeded fault: the lock is taken without waiting for its holder.
AcquireAnyway(p) ==
    /\ pc[p] = "acquire"
    /\ lock' = p
    /\ pc' = [pc EXCEPT ![p] = "read"]
    /\ UNCHANGED <<files, request, buffer, claims>>

Acquire(p) ==
    /\ pc[p] = "acquire"
    /\ lock = NoProc
    /\ lock' = p
    /\ pc' = [pc EXCEPT ![p] = "read"]
    /\ UNCHANGED <<files, request, buffer, claims>>

\* The call has a record to write ...
Prepare(p, r) ==
    /\ buffer' = [buffer EXCEPT ![p] = r]
    /\ pc' = [pc EXCEPT ![p] = "truncate"]
    /\ UNCHANGED <<files, lock, request, claims>>

\* Seeded fault: no finally clause, the lock stays taken.
LeaveLocked(p) ==
    /\ pc' = [pc EXCEPT ![p] = "idle"]
    /\ request' = [request EXCEPT ![p] = NoRequest]
    /\ UNCHANGED <<files, lock, buffer, claims>>

\* ... or it returns early or raises: the finally clause unlocks.
Leave(p) ==
    /\ pc' = [pc EXCEPT ![p] = "release"]
    /\ UNCHANGED <<files, lock, request, buffer, claims>>

Reading(p, op) == pc[p] = "read" /\ request[p].op = op

Content(p) == files[request[p].task]

NewRecord(p) ==
    /\ Reading(p, "enqueue")
    /\ Prepare(p, EnqueuedRecord(request[p].task, request[p].payload))

ReadToApprove(p) ==
    /\ Reading(p, "approve")
    /\ Whole(Content(p))
    /\ AwaitingApproval(Content(p))
    /\ Prepare(p, ApprovedRecord(Content(p)))

ReadToReject(p) ==
    /\ Reading(p, "reject")
    /\ Whole(Content(p))
    /\ AwaitingApproval(Content(p))
    /\ Prepare(p, RejectedRecord(Content(p)))

ReadToComplete(p) ==
    /\ Reading(p, "complete")
    /\ Whole(Content(p))
    /\ Prepare(p, CompletedRecord(Content(p), request[p].success))

ReadToMarkDelivery(p) ==
    /\ Reading(p, "mark_delivery")
    /\ Whole(Content(p))
    /\ Prepare(p, DeliveryMarkedRecord(Content(p), request[p].result))

ReadToMarkApprovalCard(p) ==
    /\ Reading(p, "mark_approval_card")
    /\ Whole(Content(p))
    /\ Prepare(p, ApprovalCardRecord(Content(p)))

ReadToMarkCardUpdate(p) ==
    /\ Reading(p, "mark_card_update")
    /\ Whole(Content(p))
    /\ Content(p).card_updates < MaxCardUpdates
    /\ Prepare(p, CardUpdateRecord(Content(p)))

\* get() raises KeyError or JSONDecodeError, or the status is not the one the
\* operation wants; approve() of an approved queued task just returns it.
GiveUp(p) ==
    /\ pc[p] = "read"
    /\ request[p].op \notin {"enqueue", "claim_next"}
    /\ Whole(Content(p)) =>
        \/ /\ request[p].op \in {"approve", "reject"}
           /\ ~AwaitingApproval(Content(p))
        \/ /\ request[p].op = "mark_card_update"
           /\ Content(p).card_updates >= MaxCardUpdates
    /\ Leave(p)

\* claim_next(): the first queued record, or nothing, or JSONDecodeError.
ScanForQueued(p) ==
    /\ Reading(p, "claim_next")
    /\ \/ \E t \in Task : /\ Claimable(files, t)
                          /\ Prepare(p, ClaimedRecord(files[t]))
       \/ /\ \A t \in Task : ~Claimable(files, t)
          /\ Leave(p)

\* Seeded fault: the record is written after the lock was given back.
TruncateUnlocked(p) ==
    /\ pc[p] = "truncate"
    /\ files' = [files EXCEPT ![buffer[p].task_id] = Torn]
    /\ lock' = NoProc
    /\ pc' = [pc EXCEPT ![p] = "write"]
    /\ UNCHANGED <<request, buffer, claims>>

\* write_json: write_text opens the file for writing, which empties it ...
Truncate(p) ==
    /\ pc[p] = "truncate"
    /\ files' = [files EXCEPT ![buffer[p].task_id] = Torn]
    /\ pc' = [pc EXCEPT ![p] = "write"]
    /\ UNCHANGED <<lock, request, buffer, claims>>

\* ... and then writes the text.
Write(p) ==
    /\ pc[p] = "write"
    /\ files' = [files EXCEPT ![buffer[p].task_id] = buffer[p]]
    /\ pc' = [pc EXCEPT ![p] = IF request[p].op = "claim_next"
                               THEN "claimed" ELSE "release"]
    /\ UNCHANGED <<lock, request, buffer, claims>>

Unlock(p) ==
    /\ lock' = NoProc
    /\ pc' = [pc EXCEPT ![p] = "idle"]
    /\ request' = [request EXCEPT ![p] = NoRequest]
    /\ buffer' = [buffer EXCEPT ![p] = Absent]
    /\ UNCHANGED files

Release(p) ==
    /\ pc[p] = "release"
    /\ Unlock(p)
    /\ UNCHANGED claims

\* claim_next() hands the record to the worker that called it.
ReturnClaim(p) ==
    /\ pc[p] = "claimed"
    /\ Unlock(p)
    /\ claims' = [claims EXCEPT ![buffer[p].task_id] = @ \cup {p}]

Crash(p) ==
    /\ pc[p] # "dead"
    /\ pc' = [pc EXCEPT ![p] = "dead"]
    /\ lock' = IF lock = p THEN NoProc ELSE lock
    /\ request' = [request EXCEPT ![p] = NoRequest]
    /\ buffer' = [buffer EXCEPT ![p] = Absent]
    /\ UNCHANGED <<files, claims>>

-----------------------------------------------------------------------------

Calls(p) ==
    \/ ClaimNext(p)
    \/ \E t \in Task :
        \/ \E payload \in Payloads : Enqueue(p, t, payload)
        \/ Approve(p, t)
        \/ Reject(p, t)
        \/ \E success \in BOOLEAN : Complete(p, t, success)
        \/ \E result \in DeliveryResults : MarkDelivery(p, t, result)
        \/ MarkApprovalCard(p, t)
        \/ MarkCardUpdate(p, t)

Body(p) ==
    \/ Acquire(p)
    \/ NewRecord(p)
    \/ ReadToApprove(p)
    \/ ReadToReject(p)
    \/ ReadToComplete(p)
    \/ ReadToMarkDelivery(p)
    \/ ReadToMarkApprovalCard(p)
    \/ ReadToMarkCardUpdate(p)
    \/ GiveUp(p)
    \/ ScanForQueued(p)
    \/ Truncate(p)
    \/ Write(p)
    \/ Release(p)
    \/ ReturnClaim(p)

Next == \E p \in Proc : Calls(p) \/ Body(p) \/ Crash(p)

\* The code between lock and unlock does not wait for anything.
Fairness == \A p \in Proc : WF_vars(Body(p))

Spec == Init /\ [][Next]_vars /\ Fairness
-----------------------------------------------------------------------------
(* Properties. *)

\* The contents as the operations order them: a record counts as written from
\* the moment its file is emptied, because from then on only the writer has it.
Committed ==
    [t \in Task |-> IF lock # NoProc /\ pc[lock] = "write"
                                    /\ buffer[lock].task_id = t
                    THEN buffer[lock] ELSE files[t]]

\* Every call of the file-level queue is one indivisible step of TaskQueue: no
\* update of one process is lost under an update of another, guards are decided
\* on the record that is overwritten, and only a crash loses a record.
\* (queue.py: the flock around every read-modify-write.)
Abstract == INSTANCE TaskQueue WITH records <- Committed

ImplementsTaskQueue == Abstract!Spec

\* claim_next() returns a task to one worker only, whatever the interleaving of
\* the workers' scans, and never again after that worker died.
ClaimedOnce ==
    \A t \in Task : \A p, q \in claims[t] : p = q

\* A write task that can be claimed, or that was, has been approved: no order
\* of approve, reject, claim and the marks gets around the approval.
ApprovalGate ==
    \A t \in Task :
        Whole(files[t]) /\ files[t].mode = "write"
                       /\ files[t].status \in {"QUEUED"} \cup Ran
        => files[t].approved

\* Without a crash a torn file is one its writer is writing right now under the
\* lock, so a call that holds the lock never reads one.
NoTornAtRest ==
    (\A p \in Proc : pc[p] # "dead") =>
        \A t \in Task : files[t] = Torn =>
            lock # NoProc /\ pc[lock] = "write" /\ buffer[lock].task_id = t

\* A refused task stays refused and a claimed one never becomes claimable again,
\* whatever a call that read the record earlier writes back.
Irrevocable ==
    [][\A t \in Task : Whole(Committed[t]) /\ Whole(Committed'[t]) =>
        /\ Committed[t].status \in {"BLOCKED", "REJECTED"}
             => Committed'[t].status = Committed[t].status
        /\ Committed[t].status \in Ran => Committed'[t].status \in Ran]_vars

\* Whoever takes queue.lock gives it back: by the finally clause on every path,
\* or through the kernel when the process dies.
LockGivenBack == \A p \in Proc : (lock = p) ~> (lock # p)

\* "... drains one agent queue task per scheduler tick": a scan that comes back
\* without a task has left no queued task behind.
ClaimFindsQueued ==
    \A p \in Proc : pc[p] = "release" /\ request[p].op = "claim_next" =>
        \A t \in Task : Whole(files[t]) => files[t].status # "QUEUED"
=============================================================================
