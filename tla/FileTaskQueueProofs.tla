-------------------------- MODULE FileTaskQueueProofs --------------------------
(***************************************************************************)
(* Proofs about FileTaskQueue, for every set of tasks and callers.         *)
(***************************************************************************)
EXTENDS FileTaskQueue, TLAPS

\* The lock is held exactly by the process that is between Acquire and Unlock.
LockInv ==
    \A p \in Proc :
        lock = p <=> pc[p] \in {"read", "truncate", "write", "claimed", "release"}

\* What is known of a call from the moment it is made.
RequestInv ==
    /\ \A p \in Proc : pc[p] \in {"idle", "dead"} <=> request[p].op = "none"
    /\ \A p \in Proc : request[p].op = "complete" => p \in claims[request[p].task]
    /\ \A p \in Proc : request[p].op = "mark_delivery" =>
        \/ Committed[request[p].task] = Torn
        \/ /\ Committed[request[p].task] # Absent
           /\ Committed[request[p].task].status \in FINAL_STATUSES
    /\ \A p \in Proc :
        request[p].op = "enqueue" /\ pc[p] \in {"acquire", "read", "truncate"} =>
            Committed[request[p].task] = Absent
    /\ \A p, q \in Proc :
        p # q /\ request[p].op = "enqueue" /\ request[q].op = "enqueue" =>
            request[p].task # request[q].task

\* new is what the call req makes of the record r.
Updates(req, r, new) ==
    \/ /\ req.op = "approve"
       /\ AwaitingApproval(r)
       /\ new = ApprovedRecord(r)
    \/ /\ req.op = "reject"
       /\ AwaitingApproval(r)
       /\ new = RejectedRecord(r)
    \/ /\ req.op = "complete"
       /\ new = CompletedRecord(r, req.success)
    \/ /\ req.op = "mark_delivery"
       /\ new = DeliveryMarkedRecord(r, req.result)
    \/ /\ req.op = "mark_approval_card"
       /\ new = ApprovalCardRecord(r)
    \/ /\ req.op = "mark_card_update"
       /\ r.card_updates < MaxCardUpdates
       /\ new = CardUpdateRecord(r)

\* The buffer still is the update of what is on disk when it is written.
Decided(p) ==
    LET t == buffer[p].task_id
    IN  \/ /\ request[p].op = "enqueue"
           /\ t = request[p].task
           /\ buffer[p] = EnqueuedRecord(t, request[p].payload)
        \/ /\ request[p].op = "claim_next"
           /\ Claimable(files, t)
           /\ buffer[p] = ClaimedRecord(files[t])
        \/ /\ request[p].op \notin {"enqueue", "claim_next"}
           /\ t = request[p].task
           /\ Whole(files[t])
           /\ Updates(request[p], files[t], buffer[p])

BufferInv ==
    \A p \in Proc :
        /\ pc[p] \in {"truncate", "write", "claimed"} => buffer[p] \in TaskRecord
        /\ pc[p] = "truncate" => Decided(p)
        /\ pc[p] = "write" => files[buffer[p].task_id] = Torn
        /\ pc[p] = "claimed" => /\ request[p].op = "claim_next"
                                /\ files[buffer[p].task_id] = buffer[p]
        /\ pc[p] \in {"write", "claimed"} /\ request[p].op = "claim_next" =>
            /\ buffer[p].status = "RUNNING"
            /\ claims[buffer[p].task_id] = {}

\* What is known of the committed records.
RecordInv ==
    \A t \in Task :
        /\ Whole(Committed[t]) =>
            /\ Committed[t].task_id = t
            /\ Committed[t].mode = "write"
               /\ Committed[t].status \in {"QUEUED"} \cup Ran
                 => Committed[t].approved
        /\ claims[t] # {} =>
            \/ Committed[t] = Torn
            \/ /\ Committed[t] # Absent
               /\ Committed[t].status \in Ran

IInv ==
    /\ TypeOK
    /\ LockInv
    /\ RequestInv
    /\ BufferInv
    /\ RecordInv
    /\ ClaimedOnce

-----------------------------------------------------------------------------
(* The operations on records. *)

\* enqueue() writes a well-formed record (queue.py:29-36).
LEMMA EnqueuedType ==
    ASSUME NEW t \in Task, NEW payload \in Payload
    PROVE  EnqueuedRecord(t, payload) \in TaskRecord
<1>1. EnqueuedStatus(payload) \in Status
    BY DEF EnqueuedStatus, Status
<1>2. QED
    BY <1>1 DEF EnqueuedRecord, TaskRecord, Payload, DeliveryStatus

\* claim_next() keeps a record well-formed and on its own file.
LEMMA ClaimedType ==
    ASSUME NEW r \in TaskRecord
    PROVE  /\ ClaimedRecord(r) \in TaskRecord
           /\ ClaimedRecord(r).task_id = r.task_id
    BY DEF ClaimedRecord, TaskRecord, Status

\* Every other operation keeps a record well-formed and on its own file.
LEMMA UpdatedType ==
    ASSUME NEW r \in TaskRecord,
           NEW req \in Request,
           NEW new,
           Updates(req, r, new)
    PROVE  /\ new \in TaskRecord
           /\ new.task_id = r.task_id
<1>1. CASE req.op = "approve"
    BY <1>1 DEF Updates, ApprovedRecord, TaskRecord, Status
<1>2. CASE req.op = "reject"
    BY <1>2 DEF Updates, RejectedRecord, TaskRecord, Status
<1>3. CASE req.op = "complete"
    BY <1>3 DEF Updates, CompletedRecord, TaskRecord, Status
<1>4. CASE req.op = "mark_delivery"
  <2>1. req.result \in DeliveryStatus
    BY <1>4, InputAssumption DEF Request, NoRequest
  <2>2. QED
    BY <1>4, <2>1 DEF Updates, DeliveryMarkedRecord, TaskRecord
<1>5. CASE req.op = "mark_approval_card"
    BY <1>5 DEF Updates, ApprovalCardRecord, TaskRecord
<1>6. CASE req.op = "mark_card_update"
    BY <1>6 DEF Updates, CardUpdateRecord, TaskRecord
<1>7. QED
    BY <1>1, <1>2, <1>3, <1>4, <1>5, <1>6 DEF Updates
-----------------------------------------------------------------------------
(* Type correctness. *)

\* The request of a call names a task of the queue and well-formed inputs.
LEMMA RequestType ==
    ASSUME TypeOK, NEW p \in Proc, request[p].op \notin {"none", "claim_next"}
    PROVE  /\ request[p].task \in Task
           /\ request[p].op = "enqueue" => request[p].payload \in Payload
    BY InputAssumption DEF TypeOK, Request, NoRequest

\* What a process read from a file that json.loads accepts is a record.
LEMMA WholeType ==
    ASSUME TypeOK, NEW t \in Task, Whole(files[t])
    PROVE  files[t] \in TaskRecord
    BY DEF TypeOK, Whole

\* Making a call keeps the types.
LEMMA CallType ==
    ASSUME TypeOK, NEW p \in Proc, NEW req \in Request, Call(p, req)
    PROVE  TypeOK'
    BY DEF TypeOK, Call

\* Any call a caller may make keeps the types.
LEMMA CallsType ==
    ASSUME TypeOK, NEW p \in Proc, Calls(p)
    PROVE  TypeOK'
<1>1. CASE ClaimNext(p)
    BY <1>1, CallType DEF ClaimNext, Request
<1>2. ASSUME NEW t \in Task, NEW payload \in Payloads, Enqueue(p, t, payload)
      PROVE  TypeOK'
    BY <1>2, CallType DEF Enqueue, Request
<1>3. ASSUME NEW t \in Task, Approve(p, t)
      PROVE  TypeOK'
    BY <1>3, CallType DEF Approve, Request
<1>4. ASSUME NEW t \in Task, Reject(p, t)
      PROVE  TypeOK'
    BY <1>4, CallType DEF Reject, Request
<1>5. ASSUME NEW t \in Task, NEW success \in BOOLEAN, Complete(p, t, success)
      PROVE  TypeOK'
    BY <1>5, CallType DEF Complete, Request
<1>6. ASSUME NEW t \in Task, NEW result \in DeliveryResults,
             MarkDelivery(p, t, result)
      PROVE  TypeOK'
    BY <1>6, CallType DEF MarkDelivery, Request
<1>7. ASSUME NEW t \in Task, MarkApprovalCard(p, t)
      PROVE  TypeOK'
    BY <1>7, CallType DEF MarkApprovalCard, Request
<1>8. ASSUME NEW t \in Task, MarkCardUpdate(p, t)
      PROVE  TypeOK'
    BY <1>8, CallType DEF MarkCardUpdate, Request
<1>9. QED
    BY <1>1, <1>2, <1>3, <1>4, <1>5, <1>6, <1>7, <1>8 DEF Calls

\* A call that has read all it needs and computes the record it will write.
Prepares(p) ==
    \/ NewRecord(p)
    \/ ReadToApprove(p)
    \/ ReadToReject(p)
    \/ ReadToComplete(p)
    \/ ReadToMarkDelivery(p)
    \/ ReadToMarkApprovalCard(p)
    \/ ReadToMarkCardUpdate(p)
    \/ \E t \in Task : /\ Reading(p, "claim_next")
                       /\ Claimable(files, t)
                       /\ Prepare(p, ClaimedRecord(files[t]))

\* Such a step falls in one of three classes: a new record, a claimed one, or an
\* update of the record the call names.
LEMMA PreparesCases ==
    ASSUME NEW p \in Proc, Prepares(p)
    PROVE  /\ pc[p] = "read"
           /\ \E r :
                /\ Prepare(p, r)
                /\ \/ /\ request[p].op = "enqueue"
                      /\ r = EnqueuedRecord(request[p].task, request[p].payload)
                   \/ /\ request[p].op = "claim_next"
                      /\ \E t \in Task : /\ Claimable(files, t)
                                         /\ r = ClaimedRecord(files[t])
                   \/ /\ request[p].op \notin {"none", "enqueue", "claim_next"}
                      /\ Whole(Content(p))
                      /\ Updates(request[p], Content(p), r)
<1>1. CASE NewRecord(p)
    BY <1>1 DEF NewRecord, Reading
<1>2. CASE ReadToApprove(p)
    BY <1>2 DEF ReadToApprove, Reading, Updates
<1>3. CASE ReadToReject(p)
    BY <1>3 DEF ReadToReject, Reading, Updates
<1>4. CASE ReadToComplete(p)
    BY <1>4 DEF ReadToComplete, Reading, Updates
<1>5. CASE ReadToMarkDelivery(p)
    BY <1>5 DEF ReadToMarkDelivery, Reading, Updates
<1>6. CASE ReadToMarkApprovalCard(p)
    BY <1>6 DEF ReadToMarkApprovalCard, Reading, Updates
<1>7. CASE ReadToMarkCardUpdate(p)
    BY <1>7 DEF ReadToMarkCardUpdate, Reading, Updates
<1>8. CASE \E t \in Task : /\ Reading(p, "claim_next")
                           /\ Claimable(files, t)
                           /\ Prepare(p, ClaimedRecord(files[t]))
    BY <1>8 DEF Reading
<1>9. QED
    BY <1>1, <1>2, <1>3, <1>4, <1>5, <1>6, <1>7, <1>8 DEF Prepares

\* The record to be written is well-formed.
LEMMA PreparedType ==
    ASSUME TypeOK, NEW p \in Proc, Prepares(p)
    PROVE  buffer'[p] \in TaskRecord
<1>1. PICK r :
        /\ Prepare(p, r)
        /\ \/ /\ request[p].op = "enqueue"
              /\ r = EnqueuedRecord(request[p].task, request[p].payload)
           \/ /\ request[p].op = "claim_next"
              /\ \E t \in Task : /\ Claimable(files, t)
                                 /\ r = ClaimedRecord(files[t])
           \/ /\ request[p].op \notin {"none", "enqueue", "claim_next"}
              /\ Whole(Content(p))
              /\ Updates(request[p], Content(p), r)
    BY PreparesCases
<1>2. buffer'[p] = r
    BY <1>1 DEF Prepare, TypeOK
<1>3. CASE request[p].op = "enqueue"
  <2>1. r = EnqueuedRecord(request[p].task, request[p].payload)
    BY <1>1, <1>3
  <2>2. QED
    BY <1>2, <1>3, <2>1, RequestType, EnqueuedType
<1>4. CASE request[p].op = "claim_next"
  <2>1. PICK t \in Task : Claimable(files, t) /\ r = ClaimedRecord(files[t])
    BY <1>1, <1>4
  <2>2. files[t] \in TaskRecord
    BY <2>1, WholeType DEF Claimable
  <2>3. QED
    BY <1>2, <2>1, <2>2, ClaimedType
<1>5. CASE request[p].op \notin {"none", "enqueue", "claim_next"}
  <2>1. Whole(Content(p)) /\ Updates(request[p], Content(p), r)
    BY <1>1, <1>5
  <2>2. request[p] \in Request /\ request[p].task \in Task
    BY <1>5, RequestType DEF TypeOK
  <2>3. Content(p) \in TaskRecord
    BY <2>1, <2>2, WholeType DEF Content
  <2>4. QED
    BY <1>2, <2>1, <2>2, <2>3, UpdatedType
<1>6. QED
    BY <1>1, <1>3, <1>4, <1>5

\* A step of the body of a call is one of these.
LEMMA BodyCases ==
    ASSUME NEW p \in Proc, Body(p)
    PROVE  \/ Acquire(p)
           \/ Prepares(p)
           \/ pc[p] = "read" /\ Leave(p)
           \/ Truncate(p)
           \/ Write(p)
           \/ Release(p)
           \/ ReturnClaim(p)
<1>1. CASE GiveUp(p)
    BY <1>1 DEF GiveUp
<1>2. CASE ScanForQueued(p)
    BY <1>2 DEF ScanForQueued, Prepares, Reading
<1>3. QED
    BY <1>1, <1>2 DEF Body, Prepares

\* Every step keeps the types.
LEMMA TypeStep ==
    ASSUME TypeOK, [Next]_vars
    PROVE  TypeOK'
<1>1. CASE UNCHANGED vars
    BY <1>1 DEF TypeOK, vars
<1>2. ASSUME NEW p \in Proc, Calls(p)
      PROVE  TypeOK'
    BY <1>2, CallsType
<1>3. ASSUME NEW p \in Proc, Acquire(p)
      PROVE  TypeOK'
    BY <1>3 DEF Acquire, TypeOK
<1>4. ASSUME NEW p \in Proc, Prepares(p)
      PROVE  TypeOK'
  <2>1. buffer'[p] \in TaskRecord
    BY <1>4, PreparedType
  <2>2. PICK r : Prepare(p, r)
    BY <1>4, PreparesCases
  <2>3. r \in TaskRecord
    BY <2>1, <2>2 DEF Prepare, TypeOK
  <2>4. QED
    BY <2>2, <2>3 DEF Prepare, TypeOK
<1>5. ASSUME NEW p \in Proc, Leave(p)
      PROVE  TypeOK'
    BY <1>5 DEF Leave, TypeOK
<1>6. ASSUME NEW p \in Proc, Truncate(p)
      PROVE  TypeOK'
    BY <1>6 DEF Truncate, TypeOK
<1>7. ASSUME NEW p \in Proc, Write(p)
      PROVE  TypeOK'
    BY <1>7 DEF Write, TypeOK
<1>8. ASSUME NEW p \in Proc, Release(p)
      PROVE  TypeOK'
    BY <1>8 DEF Release, Unlock, TypeOK, Request
<1>9. ASSUME NEW p \in Proc, ReturnClaim(p)
      PROVE  TypeOK'
    BY <1>9 DEF ReturnClaim, Unlock, TypeOK, Request
<1>10. ASSUME NEW p \in Proc, Crash(p)
       PROVE  TypeOK'
    BY <1>10 DEF Crash, TypeOK, Request
<1>11. QED
    BY <1>1, <1>2, <1>3, <1>4, <1>5, <1>6, <1>7, <1>8, <1>9, <1>10, BodyCases
    DEF Next

\* FileTaskQueue's variables always have their types, whatever the calls, their
\* interleaving and the crashes.
THEOREM TypeCorrect == Spec => []TypeOK
<1>1. Init => TypeOK
    BY DEF Init, TypeOK, Request
<1>2. TypeOK /\ [Next]_vars => TypeOK'
    BY TypeStep
<1>3. QED
    BY <1>1, <1>2, PTL DEF Spec
-----------------------------------------------------------------------------
(* What a step does to the committed records. *)

\* Two processes are never between lock and unlock together.
LEMMA Exclusion ==
    ASSUME LockInv, NEW p \in Proc, NEW q \in Proc,
           pc[p] \in {"read", "truncate", "write", "claimed", "release"},
           pc[q] \in {"read", "truncate", "write", "claimed", "release"}
    PROVE  p = q
    BY DEF LockInv

\* While nobody has emptied a file, what is committed is what is on disk.
LEMMA CommittedOnDisk ==
    ASSUME LockInv, NEW p \in Proc, NEW t \in Task,
           pc[p] \in {"read", "truncate", "claimed", "release"}
    PROVE  Committed[t] = files[t]
<1>1. lock = p
    BY DEF LockInv
<1>2. QED
    BY <1>1 DEF Committed

\* Making a call commits nothing.
LEMMA CallQuiet ==
    ASSUME TypeOK, LockInv, NEW p \in Proc, NEW req, Call(p, req)
    PROVE  Committed' = Committed
<1>1. pc[p] # "write" /\ pc'[p] # "write"
    BY DEF Call, TypeOK
<1>2. \A q \in Proc : pc'[q] = "write" <=> pc[q] = "write"
    BY <1>1 DEF Call, TypeOK
<1>3. lock \in Proc \cup {NoProc}
    BY DEF TypeOK
<1>4. QED
    BY <1>2, <1>3 DEF Committed, Call

\* Neither does a step that leaves the files alone and is not the writer's.
LEMMA LockedQuiet ==
    ASSUME TypeOK, LockInv, NEW p \in Proc,
           \/ Acquire(p)
           \/ Prepares(p)
           \/ pc[p] = "read" /\ Leave(p)
           \/ Release(p)
           \/ ReturnClaim(p)
    PROVE  Committed' = Committed
<1>1. CASE Acquire(p)
    BY <1>1, ProcAssumption DEF Acquire, Committed, TypeOK
<1>2. CASE Prepares(p)
  <2>1. PICK r : pc[p] = "read" /\ Prepare(p, r)
    BY <1>2, PreparesCases
  <2>2. lock = p
    BY <2>1 DEF LockInv
  <2>3. QED
    BY <2>1, <2>2 DEF Prepare, Committed, TypeOK
<1>3. CASE pc[p] = "read" /\ Leave(p)
  <2>1. lock = p
    BY <1>3 DEF LockInv
  <2>2. QED
    BY <1>3, <2>1 DEF Leave, Committed, TypeOK
<1>4. CASE Release(p) \/ ReturnClaim(p)
  <2>1. lock = p /\ pc[p] # "write"
    BY <1>4 DEF LockInv, Release, ReturnClaim
  <2>2. lock' = NoProc /\ files' = files
    BY <1>4 DEF Release, ReturnClaim, Unlock
  <2>3. QED
    BY <2>1, <2>2 DEF Committed
<1>5. QED
    BY <1>1, <1>2, <1>3, <1>4

\* Emptying the file commits the buffer ...
LEMMA TruncateCommits ==
    ASSUME TypeOK, LockInv, BufferInv, NEW p \in Proc, Truncate(p)
    PROVE  /\ buffer[p].task_id \in Task
           /\ Committed' = [Committed EXCEPT ![buffer[p].task_id] = buffer[p]]
<1>1. buffer[p] \in TaskRecord /\ buffer[p].task_id \in Task
    BY DEF BufferInv, Truncate, TaskRecord
<1>2. lock = p /\ p # NoProc
    BY ProcAssumption DEF LockInv, Truncate
<1>3. /\ files' = [files EXCEPT ![buffer[p].task_id] = Torn]
      /\ pc'[p] = "write"
      /\ lock' = lock /\ buffer' = buffer
    BY DEF Truncate, TypeOK
<1>4. Committed = files
    BY <1>2 DEF Committed, Truncate, TypeOK
<1>5. Committed' = [t \in Task |-> IF buffer[p].task_id = t THEN buffer[p]
                                                         ELSE files'[t]]
    BY <1>2, <1>3 DEF Committed
<1>6. QED
    BY <1>1, <1>3, <1>4, <1>5 DEF TypeOK

\* ... and writing the text then changes nothing.
LEMMA WriteQuiet ==
    ASSUME TypeOK, LockInv, BufferInv, NEW p \in Proc, Write(p)
    PROVE  Committed' = Committed
<1>1. lock = p /\ p # NoProc
    BY ProcAssumption DEF LockInv, Write
<1>2. /\ files' = [files EXCEPT ![buffer[p].task_id] = buffer[p]]
      /\ pc'[p] # "write"
      /\ lock' = lock
    BY DEF Write, TypeOK
<1>3. Committed' = files'
    BY <1>1, <1>2 DEF Committed, TypeOK
<1>4. Committed = [t \in Task |-> IF buffer[p].task_id = t THEN buffer[p]
                                                        ELSE files[t]]
    BY <1>1 DEF Committed, Write
<1>5. QED
    BY <1>2, <1>3, <1>4 DEF TypeOK

\* A crash loses the record the dead process was writing, and no other.
LEMMA CrashCommits ==
    ASSUME TypeOK, LockInv, BufferInv, NEW p \in Proc, Crash(p)
    PROVE  \/ Committed' = Committed
           \/ /\ pc[p] = "write"
              /\ buffer[p].task_id \in Task
              /\ Committed[buffer[p].task_id] = buffer[p]
              /\ Committed' = [Committed EXCEPT ![buffer[p].task_id] = Torn]
<1>1. CASE pc[p] = "write"
  <2>1. lock = p /\ p # NoProc
    BY <1>1, ProcAssumption DEF LockInv
  <2>2. buffer[p].task_id \in Task /\ files[buffer[p].task_id] = Torn
    BY <1>1 DEF BufferInv, TaskRecord
  <2>3. Committed' = files
    BY <2>1 DEF Crash, Committed, TypeOK
  <2>4. Committed = [t \in Task |-> IF buffer[p].task_id = t THEN buffer[p]
                                                          ELSE files[t]]
    BY <1>1, <2>1 DEF Committed
  <2>5. QED
    BY <1>1, <2>2, <2>3, <2>4 DEF TypeOK
<1>2. CASE pc[p] # "write" /\ lock = p
    BY <1>2 DEF Crash, Committed
<1>3. CASE pc[p] # "write" /\ lock # p
    BY <1>3 DEF Crash, Committed, TypeOK
<1>4. QED
    BY <1>1, <1>2, <1>3
-----------------------------------------------------------------------------
(* Emptying a file is the step of TaskQueue that the call stands for. *)

\* An update of an existing record keeps what the invariant says of records.
LEMMA UpdatesKeep ==
    ASSUME NEW r \in TaskRecord, NEW req \in Request, NEW new,
           Updates(req, r, new),
           req.op = "complete" => r.status \in Ran,
           r.mode = "write" /\ r.status \in {"QUEUED"} \cup Ran => r.approved
    PROVE  /\ r.status \in FINAL_STATUSES => new.status \in FINAL_STATUSES
           /\ r.status \in Ran => new.status \in Ran
           /\ r.status \in {"BLOCKED", "REJECTED"} => new.status = r.status
           /\ new.mode = "write" /\ new.status \in {"QUEUED"} \cup Ran
                => new.approved
<1>1. CASE req.op = "approve"
    BY <1>1 DEF Updates, ApprovedRecord, AwaitingApproval, TaskRecord,
                FINAL_STATUSES, Ran
<1>2. CASE req.op = "reject"
    BY <1>2 DEF Updates, RejectedRecord, AwaitingApproval, TaskRecord,
                FINAL_STATUSES, Ran
<1>3. CASE req.op = "complete"
    BY <1>3 DEF Updates, CompletedRecord, TaskRecord, FINAL_STATUSES, Ran
<1>4. CASE req.op = "mark_delivery"
    BY <1>4 DEF Updates, DeliveryMarkedRecord, TaskRecord
<1>5. CASE req.op = "mark_approval_card"
    BY <1>5 DEF Updates, ApprovalCardRecord, TaskRecord
<1>6. CASE req.op = "mark_card_update"
    BY <1>6 DEF Updates, CardUpdateRecord, TaskRecord
<1>7. QED
    BY <1>1, <1>2, <1>3, <1>4, <1>5, <1>6 DEF Updates

\* What is known of the record a Truncate step commits.
Commits(p, t, old, new) ==
    /\ new \in TaskRecord
    /\ new.task_id = t
    /\ old # Torn
    /\ request[p].op = "enqueue" \/ old # Absent
    /\ old = Absent => request[p].op = "enqueue" /\ t = request[p].task
    /\ old # Absent =>
        /\ old.status \in FINAL_STATUSES => new.status \in FINAL_STATUSES
        /\ old.status \in Ran => new.status \in Ran
        /\ old.status \in {"BLOCKED", "REJECTED"} => new.status = old.status
    /\ new.mode = "write" /\ new.status \in {"QUEUED"} \cup Ran => new.approved
    /\ request[p].op = "claim_next" =>
        /\ old.status = "QUEUED"
        /\ new.status = "RUNNING"

\* Emptying the file puts the buffer in the place of the record on disk, and
\* changes what is committed of no other task.
LEMMA TruncateEffect ==
    ASSUME IInv, NEW p \in Proc, Truncate(p)
    PROVE  Commits(p, buffer[p].task_id, Committed[buffer[p].task_id], buffer[p])
<1> DEFINE t == buffer[p].task_id
<1> USE DEF IInv
<1>1. pc[p] = "truncate" /\ buffer[p] \in TaskRecord /\ t \in Task
    BY DEF Truncate, BufferInv, TaskRecord
<1>2. Committed[t] = files[t]
    BY <1>1, CommittedOnDisk
<1>3. request[p] \in Request /\ request[p].op # "none"
    BY <1>1 DEF TypeOK, RequestInv
<1>4. Decided(p)
    BY <1>1 DEF BufferInv
<1>5. CASE request[p].op = "enqueue"
  <2>1. t = request[p].task /\ buffer[p] = EnqueuedRecord(t, request[p].payload)
    BY <1>4, <1>5 DEF Decided
  <2>2. Committed[t] = Absent
    BY <1>1, <1>5, <2>1 DEF RequestInv
  <2>3. request[p].payload \in Payload
    BY <1>5, RequestType
  <2>4. buffer[p].mode = "write" => buffer[p].status \notin {"QUEUED"} \cup Ran
    BY <2>1, <2>3 DEF EnqueuedRecord, EnqueuedStatus, Ran, FINAL_STATUSES
  <2>5. QED
    BY <1>1, <1>5, <2>1, <2>2, <2>4, FileAssumption DEF Commits
<1>6. CASE request[p].op = "claim_next"
  <2>1. Claimable(files, t) /\ buffer[p] = ClaimedRecord(files[t])
    BY <1>4, <1>6 DEF Decided
  <2>2. files[t] \in TaskRecord /\ files[t].status = "QUEUED"
    BY <1>1, <2>1, WholeType DEF Claimable
  <2>3. files[t].mode = "write" => files[t].approved
    BY <1>1, <1>2, <2>1, <2>2 DEF RecordInv, Claimable
  <2>4. /\ buffer[p].status = "RUNNING"
        /\ buffer[p].mode = files[t].mode
        /\ buffer[p].approved = files[t].approved
    BY <2>1, <2>2 DEF ClaimedRecord, TaskRecord
  <2>5. QED
    BY <1>1, <1>2, <1>6, <2>1, <2>2, <2>3, <2>4
    DEF Commits, Claimable, Whole, FINAL_STATUSES, Ran
<1>7. CASE request[p].op \notin {"enqueue", "claim_next"}
  <2>1. /\ t = request[p].task
        /\ Whole(files[t])
        /\ Updates(request[p], files[t], buffer[p])
    BY <1>4, <1>7 DEF Decided
  <2>2. files[t] \in TaskRecord
    BY <1>1, <2>1, WholeType
  <2>3. request[p].op = "complete" => files[t].status \in Ran
    BY <1>1, <1>2, <2>1 DEF RequestInv, RecordInv, Whole
  <2>4. files[t].mode = "write" /\ files[t].status \in {"QUEUED"} \cup Ran
          => files[t].approved
    BY <1>1, <1>2, <2>1 DEF RecordInv
  <2>5. /\ files[t].status \in FINAL_STATUSES
          => buffer[p].status \in FINAL_STATUSES
        /\ files[t].status \in Ran => buffer[p].status \in Ran
        /\ files[t].status \in {"BLOCKED", "REJECTED"}
          => buffer[p].status = files[t].status
        /\ buffer[p].mode = "write" /\ buffer[p].status \in {"QUEUED"} \cup Ran
          => buffer[p].approved
    BY <1>3, <2>1, <2>2, <2>3, <2>4, UpdatesKeep
  <2>6. QED
    BY <1>1, <1>2, <1>7, <2>1, <2>5 DEF Commits, Whole
<1>8. QED
    BY <1>5, <1>6, <1>7

\* The committed step is one of TaskQueue's.
LEMMA TruncateRefines ==
    ASSUME IInv, NEW p \in Proc, Truncate(p)
    PROVE  Abstract!Next
<1> DEFINE t == buffer[p].task_id
<1> USE DEF IInv
<1>1. pc[p] = "truncate" /\ t \in Task
    BY DEF Truncate, BufferInv, TaskRecord
<1>2. Committed' = [Committed EXCEPT ![t] = buffer[p]]
    BY TruncateCommits
<1>3. Abstract!Put(t, buffer[p])
    BY <1>2 DEF Abstract!Put
<1>4. \A u \in Task : Committed[u] = files[u]
    BY <1>1, CommittedOnDisk
<1>5. Decided(p) /\ request[p] \in Request /\ request[p].op # "none"
    BY <1>1 DEF BufferInv, TypeOK, RequestInv
<1>6. CASE request[p].op = "enqueue"
  <2>1. t = request[p].task /\ buffer[p] = EnqueuedRecord(t, request[p].payload)
    BY <1>5, <1>6 DEF Decided
  <2>2. Committed[t] = Absent
    BY <1>1, <1>6, <2>1 DEF RequestInv
  <2>3. request[p].payload \in Payloads
    BY <1>5, <1>6 DEF Request, NoRequest
  <2>4. Abstract!Enqueue(t, request[p].payload)
    BY <1>3, <2>1, <2>2 DEF Abstract!Enqueue, EnqueuedRecord, EnqueuedStatus,
       Abstract!EnqueuedRecord, Abstract!EnqueuedStatus
  <2>5. QED
    BY <1>1, <2>3, <2>4 DEF Abstract!Next
<1>7. CASE request[p].op = "claim_next"
  <2>1. Claimable(files, t) /\ buffer[p] = ClaimedRecord(files[t])
    BY <1>5, <1>7 DEF Decided
  <2>2. Abstract!Claimable(Committed, t)
    BY <1>1, <1>4, <2>1 DEF Claimable, Whole, Abstract!Claimable, Abstract!Whole
  <2>3. Abstract!ClaimNext(t)
    BY <1>1, <1>3, <1>4, <2>1, <2>2
    DEF Abstract!ClaimNext, ClaimedRecord, Abstract!ClaimedRecord
  <2>4. QED
    BY <1>1, <2>3 DEF Abstract!Next
<1>8. CASE request[p].op \notin {"enqueue", "claim_next"}
  <2>1. /\ t = request[p].task
        /\ Abstract!Whole(Committed[t])
        /\ Updates(request[p], Committed[t], buffer[p])
    BY <1>1, <1>4, <1>5, <1>8 DEF Decided, Whole, Abstract!Whole
  <2>2. CASE request[p].op = "approve"
    <3>1. Abstract!Approve(t)
      BY <1>3, <2>1, <2>2 DEF Updates, Abstract!Approve,
         AwaitingApproval, Abstract!AwaitingApproval,
         ApprovedRecord, Abstract!ApprovedRecord
    <3>2. QED
      BY <1>1, <3>1 DEF Abstract!Next
  <2>3. CASE request[p].op = "reject"
    <3>1. Abstract!Reject(t)
      BY <1>3, <2>1, <2>3 DEF Updates, Abstract!Reject,
         AwaitingApproval, Abstract!AwaitingApproval,
         RejectedRecord, Abstract!RejectedRecord
    <3>2. QED
      BY <1>1, <3>1 DEF Abstract!Next
  <2>4. CASE request[p].op = "complete"
    <3>1. Committed[t].status \in Ran
      BY <1>1, <2>1, <2>4 DEF RequestInv, RecordInv, Abstract!Whole
    <3>2. request[p].success \in BOOLEAN
      BY <1>5, <2>4 DEF Request, NoRequest
    <3>3. Abstract!Complete(t, request[p].success)
      BY <1>3, <2>1, <2>4, <3>1 DEF Updates, Abstract!Complete,
         CompletedRecord, Abstract!CompletedRecord,
         Ran, Abstract!Ran, FINAL_STATUSES, Abstract!FINAL_STATUSES
    <3>4. QED
      BY <1>1, <3>2, <3>3 DEF Abstract!Next
  <2>5. CASE request[p].op = "mark_delivery"
    <3>1. Committed[t].status \in FINAL_STATUSES
      BY <1>1, <2>1, <2>5 DEF RequestInv, Abstract!Whole
    <3>2. request[p].result \in DeliveryResults
      BY <1>5, <2>5 DEF Request, NoRequest
    <3>3. Abstract!MarkDelivery(t, request[p].result)
      BY <1>3, <2>1, <2>5, <3>1 DEF Updates, Abstract!MarkDelivery,
         DeliveryMarkedRecord, Abstract!DeliveryMarkedRecord,
         FINAL_STATUSES, Abstract!FINAL_STATUSES
    <3>4. QED
      BY <1>1, <3>2, <3>3 DEF Abstract!Next
  <2>6. CASE request[p].op = "mark_approval_card"
    <3>1. Abstract!MarkApprovalCard(t)
      BY <1>3, <2>1, <2>6 DEF Updates, Abstract!MarkApprovalCard,
         ApprovalCardRecord, Abstract!ApprovalCardRecord
    <3>2. QED
      BY <1>1, <3>1 DEF Abstract!Next
  <2>7. CASE request[p].op = "mark_card_update"
    <3>1. Abstract!MarkCardUpdate(t)
      BY <1>3, <2>1, <2>7 DEF Updates, Abstract!MarkCardUpdate,
         CardUpdateRecord, Abstract!CardUpdateRecord
    <3>2. QED
      BY <1>1, <3>1 DEF Abstract!Next
  <2>8. QED
    BY <2>1, <2>2, <2>3, <2>4, <2>5, <2>6, <2>7 DEF Updates
<1>9. QED
    BY <1>6, <1>7, <1>8
-----------------------------------------------------------------------------
(* The invariant is inductive. *)

\* Making a call keeps the invariant, if what the call assumes is true then.
LEMMA CallInv ==
    ASSUME IInv, NEW p \in Proc, NEW req \in Request, Call(p, req),
           req.op # "none",
           req.op = "complete" => p \in claims[req.task],
           req.op = "mark_delivery" =>
                \/ Committed[req.task] = Torn
                \/ /\ Committed[req.task] # Absent
                   /\ Committed[req.task].status \in FINAL_STATUSES,
           req.op = "enqueue" =>
                /\ Committed[req.task] = Absent
                /\ \A q \in Proc : request[q].op = "enqueue"
                                    => request[q].task # req.task
    PROVE  IInv'
<1> USE DEF IInv
<1>1. TypeOK' /\ Committed' = Committed
    BY CallType, CallQuiet
<1>2. /\ pc[p] = "idle"
      /\ pc' = [pc EXCEPT ![p] = "acquire"]
      /\ request' = [request EXCEPT ![p] = req]
      /\ UNCHANGED <<files, lock, buffer, claims>>
    BY DEF Call
<1>3. LockInv'
    BY <1>2 DEF LockInv, TypeOK
<1>4. RequestInv'
    BY <1>1, <1>2 DEF RequestInv, TypeOK
<1>5. BufferInv'
    BY <1>2 DEF BufferInv, TypeOK, Decided
<1>6. RecordInv' /\ ClaimedOnce'
    BY <1>1, <1>2 DEF RecordInv, ClaimedOnce
<1>7. QED
    BY <1>1, <1>3, <1>4, <1>5, <1>6

\* Any call a caller may make keeps the invariant and commits nothing.
LEMMA CallsInv ==
    ASSUME IInv, NEW p \in Proc, Calls(p)
    PROVE  IInv' /\ Committed' = Committed
<1> USE DEF IInv
<1>1. CASE ClaimNext(p)
    BY <1>1, CallInv, CallQuiet DEF ClaimNext, Request
<1>2. ASSUME NEW t \in Task, NEW payload \in Payloads, Enqueue(p, t, payload)
      PROVE  IInv' /\ Committed' = Committed
  <2> DEFINE req == [op |-> "enqueue", task |-> t, payload |-> payload]
  <2>1. req \in Request /\ Call(p, req)
    BY <1>2 DEF Enqueue, Request
  <2>2. Committed[t] = Absent
    BY <1>2, FileAssumption DEF Enqueue, Committed, LockInv, BufferInv, TypeOK
  <2>3. \A q \in Proc : request[q].op = "enqueue" => request[q].task # t
    BY <1>2 DEF Enqueue
  <2>4. QED
    BY <2>1, <2>2, <2>3, CallInv, CallQuiet
<1>3. ASSUME NEW t \in Task, Approve(p, t)
      PROVE  IInv' /\ Committed' = Committed
    BY <1>3, CallInv, CallQuiet DEF Approve, Request
<1>4. ASSUME NEW t \in Task, Reject(p, t)
      PROVE  IInv' /\ Committed' = Committed
    BY <1>4, CallInv, CallQuiet DEF Reject, Request
<1>5. ASSUME NEW t \in Task, NEW success \in BOOLEAN, Complete(p, t, success)
      PROVE  IInv' /\ Committed' = Committed
  <2> DEFINE req == [op |-> "complete", task |-> t, success |-> success]
  <2>1. req \in Request /\ Call(p, req) /\ p \in claims[t]
    BY <1>5 DEF Complete, Request
  <2>2. QED
    BY <2>1, CallInv, CallQuiet
<1>6. ASSUME NEW t \in Task, NEW result \in DeliveryResults,
             MarkDelivery(p, t, result)
      PROVE  IInv' /\ Committed' = Committed
  <2> DEFINE req == [op |-> "mark_delivery", task |-> t, result |-> result]
  <2>1. req \in Request /\ Call(p, req)
    BY <1>6 DEF MarkDelivery, Request
  <2>2. Committed[t] = files[t]
    BY <1>6 DEF MarkDelivery, Committed, LockInv, BufferInv, TypeOK, Whole
  <2>3. /\ Committed[t] # Absent
        /\ Committed[t].status \in FINAL_STATUSES
    BY <1>6, <2>2 DEF MarkDelivery, Whole
  <2>4. QED
    BY <2>1, <2>3, CallInv, CallQuiet
<1>7. ASSUME NEW t \in Task, MarkApprovalCard(p, t)
      PROVE  IInv' /\ Committed' = Committed
    BY <1>7, CallInv, CallQuiet DEF MarkApprovalCard, Request
<1>8. ASSUME NEW t \in Task, MarkCardUpdate(p, t)
      PROVE  IInv' /\ Committed' = Committed
    BY <1>8, CallInv, CallQuiet DEF MarkCardUpdate, Request
<1>9. QED
    BY <1>1, <1>2, <1>3, <1>4, <1>5, <1>6, <1>7, <1>8 DEF Calls

\* Taking the lock, and leaving without a write, keep the invariant.
LEMMA AcquireInv ==
    ASSUME IInv, NEW p \in Proc, Acquire(p) \/ (pc[p] = "read" /\ Leave(p))
    PROVE  IInv'
<1> USE DEF IInv
<1>1. Committed' = Committed /\ TypeOK'
    BY LockedQuiet DEF Acquire, Leave, TypeOK
<1>2. /\ \/ pc[p] = "acquire" /\ lock = NoProc /\ lock' = p
            /\ pc' = [pc EXCEPT ![p] = "read"]
         \/ pc[p] = "read" /\ lock' = lock
            /\ pc' = [pc EXCEPT ![p] = "release"]
      /\ UNCHANGED <<files, request, buffer, claims>>
    BY DEF Acquire, Leave
<1>3. LockInv'
    BY <1>2, ProcAssumption DEF LockInv, TypeOK
<1>4. RequestInv'
    BY <1>1, <1>2 DEF RequestInv, TypeOK
<1>5. BufferInv'
    BY <1>2 DEF BufferInv, TypeOK, Decided
<1>6. RecordInv' /\ ClaimedOnce'
    BY <1>1, <1>2 DEF RecordInv, ClaimedOnce
<1>7. QED
    BY <1>1, <1>3, <1>4, <1>5, <1>6

\* Computing the record to write: it is the update of what is on disk.
LEMMA PrepareInv ==
    ASSUME IInv, NEW p \in Proc, Prepares(p)
    PROVE  IInv'
<1> USE DEF IInv
<1>1. TypeOK' /\ Committed' = Committed
  <2>1. buffer'[p] \in TaskRecord
    BY PreparedType
  <2>2. PICK r : Prepare(p, r)
    BY PreparesCases
  <2>3. TypeOK'
    BY <2>1, <2>2 DEF Prepare, TypeOK
  <2>4. QED
    BY <2>3, LockedQuiet
<1>2. PICK r :
        /\ Prepare(p, r)
        /\ \/ /\ request[p].op = "enqueue"
              /\ r = EnqueuedRecord(request[p].task, request[p].payload)
           \/ /\ request[p].op = "claim_next"
              /\ \E t \in Task : /\ Claimable(files, t)
                                 /\ r = ClaimedRecord(files[t])
           \/ /\ request[p].op \notin {"none", "enqueue", "claim_next"}
              /\ Whole(Content(p))
              /\ Updates(request[p], Content(p), r)
    BY PreparesCases
<1>3. /\ pc[p] = "read"
      /\ pc' = [pc EXCEPT ![p] = "truncate"]
      /\ buffer' = [buffer EXCEPT ![p] = r]
      /\ UNCHANGED <<files, lock, request, claims>>
    BY <1>2, PreparesCases DEF Prepare
<1>4. \A t \in Task : Whole(files[t]) =>
            /\ files[t] \in TaskRecord
            /\ files[t].task_id = t
    BY <1>3, CommittedOnDisk, WholeType DEF RecordInv
<1>5. Decided(p)'
  <2>1. CASE request[p].op = "enqueue"
    BY <1>2, <1>3, <2>1 DEF Decided, EnqueuedRecord, TypeOK
  <2>2. CASE request[p].op = "claim_next"
    <3>1. PICK t \in Task : Claimable(files, t) /\ r = ClaimedRecord(files[t])
      BY <1>2, <2>2
    <3>2. r.task_id = t
      BY <1>4, <3>1, ClaimedType DEF Claimable
    <3>3. QED
      BY <1>3, <2>2, <3>1, <3>2 DEF Decided, TypeOK, Claimable
  <2>3. CASE request[p].op \notin {"enqueue", "claim_next"}
    <3>1. /\ Whole(Content(p))
          /\ Updates(request[p], Content(p), r)
          /\ request[p].op # "none"
      BY <1>2, <2>3
    <3>2. request[p].task \in Task
      BY <2>3, <3>1, RequestType
    <3>3. Content(p) \in TaskRecord /\ Content(p).task_id = request[p].task
      BY <1>4, <3>1, <3>2 DEF Content
    <3>4. request[p] \in Request
      BY DEF TypeOK
    <3>5. r.task_id = request[p].task
      BY <3>1, <3>3, <3>4, UpdatedType
    <3>6. buffer'[p] = r /\ request'[p] = request[p] /\ files' = files
      BY <1>3 DEF TypeOK
    <3>7. QED
      BY <2>3, <3>1, <3>5, <3>6 DEF Decided, Content
  <2>4. QED
    BY <2>1, <2>2, <2>3
<1>6. LockInv'
    BY <1>3 DEF LockInv, TypeOK
<1>7. RequestInv'
    BY <1>1, <1>3 DEF RequestInv, TypeOK
<1>8. BufferInv'
  <2>1. buffer'[p] \in TaskRecord
    BY PreparedType
  <2>2. \A q \in Proc : q # p => pc'[q] \notin {"truncate", "write", "claimed"}
    BY <1>3, Exclusion DEF TypeOK
  <2>3. pc'[p] = "truncate"
    BY <1>3 DEF TypeOK
  <2>4. QED
    BY <1>5, <2>1, <2>2, <2>3 DEF BufferInv
<1>9. RecordInv' /\ ClaimedOnce'
    BY <1>1, <1>3 DEF RecordInv, ClaimedOnce
<1>10. QED
    BY <1>1, <1>6, <1>7, <1>8, <1>9

\* Emptying the file: the buffer becomes the committed record.
LEMMA TruncateInv ==
    ASSUME IInv, NEW p \in Proc, Truncate(p)
    PROVE  IInv'
<1> DEFINE t == buffer[p].task_id
<1> USE DEF IInv
<1>1. /\ t \in Task
      /\ Committed' = [Committed EXCEPT ![t] = buffer[p]]
      /\ Commits(p, t, Committed[t], buffer[p])
    BY TruncateCommits, TruncateEffect
<1>2. /\ pc[p] = "truncate"
      /\ pc' = [pc EXCEPT ![p] = "write"]
      /\ files' = [files EXCEPT ![t] = Torn]
      /\ UNCHANGED <<lock, request, buffer, claims>>
    BY DEF Truncate
<1>3. TypeOK'
    BY <1>2 DEF TypeOK
<1>4. LockInv'
    BY <1>2 DEF LockInv, TypeOK
<1>5. /\ Committed'[t] = buffer[p]
      /\ \A u \in Task : u # t => Committed'[u] = Committed[u]
    BY <1>1 DEF Committed
<1>6. buffer[p] # Torn /\ buffer[p] # Absent
    BY <1>1, FileAssumption DEF Commits
<1>7. RequestInv'
  <2>1. \A q \in Proc : request[q].op \notin {"none", "claim_next"}
                        => request[q].task \in Task
    BY RequestType
  <2>2. ASSUME NEW q \in Proc, request[q].op = "mark_delivery"
        PROVE  \/ Committed'[request[q].task] = Torn
               \/ /\ Committed'[request[q].task] # Absent
                  /\ Committed'[request[q].task].status \in FINAL_STATUSES
    <3>1. CASE request[q].task = t
      BY <1>1, <1>5, <1>6, <2>2, <3>1, FileAssumption DEF RequestInv, Commits
    <3>2. CASE request[q].task # t
      BY <1>5, <2>1, <2>2, <3>2 DEF RequestInv
    <3>3. QED
      BY <3>1, <3>2
  <2>3. ASSUME NEW q \in Proc, request[q].op = "enqueue",
               pc'[q] \in {"acquire", "read", "truncate"}
        PROVE  Committed'[request[q].task] = Absent
    <3>1. q # p /\ pc'[q] = pc[q]
      BY <1>2, <2>3 DEF TypeOK
    <3>2. Committed[request[q].task] = Absent
      BY <2>3, <3>1 DEF RequestInv
    <3>3. request[q].task # t
      BY <1>1, <2>3, <3>1, <3>2 DEF RequestInv, Commits
    <3>4. QED
      BY <1>5, <2>1, <2>3, <3>2, <3>3
  <2>4. \A q \in Proc : pc'[q] \in {"idle", "dead"} <=> request[q].op = "none"
    BY <1>2 DEF RequestInv, TypeOK
  <2>5. QED
    BY <1>2, <2>2, <2>3, <2>4 DEF RequestInv
<1>8. BufferInv'
  <2>1. \A q \in Proc : q # p => pc'[q] \notin {"truncate", "write", "claimed"}
    BY <1>2, Exclusion DEF TypeOK
  <2>2. pc'[p] = "write" /\ files'[t] = Torn
    BY <1>1, <1>2 DEF TypeOK
  <2>3. request[p].op = "claim_next" => claims[t] = {}
    BY <1>1, FileAssumption DEF RecordInv, Commits, Ran, FINAL_STATUSES
  <2>4. QED
    BY <1>1, <1>2, <2>1, <2>2, <2>3 DEF BufferInv, Commits
<1>9. RecordInv'
  <2>1. ASSUME NEW u \in Task, u # t
        PROVE  /\ Whole(Committed'[u]) =>
                    /\ Committed'[u].task_id = u
                    /\ Committed'[u].mode = "write"
                       /\ Committed'[u].status \in {"QUEUED"} \cup Ran
                         => Committed'[u].approved
               /\ claims'[u] # {} =>
                    \/ Committed'[u] = Torn
                    \/ /\ Committed'[u] # Absent
                       /\ Committed'[u].status \in Ran
    BY <1>2, <1>5, <2>1 DEF RecordInv
  <2>2. claims[t] # {} => buffer[p].status \in Ran
    BY <1>1 DEF RecordInv, Commits
  <2>3. QED
    BY <1>1, <1>2, <1>5, <1>6, <2>1, <2>2 DEF RecordInv, Commits
<1>10. ClaimedOnce'
    BY <1>2 DEF ClaimedOnce
<1>11. QED
    BY <1>3, <1>4, <1>7, <1>8, <1>9, <1>10

\* Writing the text.
LEMMA WriteInv ==
    ASSUME IInv, NEW p \in Proc, Write(p)
    PROVE  IInv'
<1> DEFINE t == buffer[p].task_id
<1> USE DEF IInv
<1>1. Committed' = Committed
    BY WriteQuiet
<1>2. /\ pc[p] = "write"
      /\ pc' = [pc EXCEPT ![p] = IF request[p].op = "claim_next"
                                 THEN "claimed" ELSE "release"]
      /\ files' = [files EXCEPT ![t] = buffer[p]]
      /\ UNCHANGED <<lock, request, buffer, claims>>
    BY DEF Write
<1>3. buffer[p] \in TaskRecord /\ t \in Task
    BY <1>2 DEF BufferInv, TaskRecord
<1>4. TypeOK'
    BY <1>2 DEF TypeOK
<1>5. LockInv'
    BY <1>2 DEF LockInv, TypeOK
<1>6. RequestInv'
    BY <1>1, <1>2 DEF RequestInv, TypeOK
<1>7. BufferInv'
  <2>1. \A q \in Proc : q # p => pc'[q] \notin {"truncate", "write", "claimed"}
    BY <1>2, Exclusion DEF TypeOK
  <2>2. /\ pc'[p] \notin {"truncate", "write"}
        /\ pc'[p] = "claimed" => request[p].op = "claim_next"
        /\ files'[t] = buffer[p]
    BY <1>2, <1>3 DEF TypeOK
  <2>3. QED
    BY <1>2, <1>3, <2>1, <2>2 DEF BufferInv
<1>8. RecordInv' /\ ClaimedOnce'
    BY <1>1, <1>2 DEF RecordInv, ClaimedOnce
<1>9. QED
    BY <1>4, <1>5, <1>6, <1>7, <1>8

\* Unlocking, with or without a claimed record to return.
LEMMA UnlockInv ==
    ASSUME IInv, NEW p \in Proc, Release(p) \/ ReturnClaim(p)
    PROVE  IInv'
<1> DEFINE t == buffer[p].task_id
<1> USE DEF IInv
<1>1. Committed' = Committed
    BY LockedQuiet
<1>2. /\ pc[p] \in {"release", "claimed"}
      /\ pc' = [pc EXCEPT ![p] = "idle"]
      /\ lock' = NoProc
      /\ request' = [request EXCEPT ![p] = NoRequest]
      /\ buffer' = [buffer EXCEPT ![p] = Absent]
      /\ files' = files
    BY DEF Release, ReturnClaim, Unlock
<1>3. \/ claims' = claims
      \/ /\ pc[p] = "claimed"
         /\ claims' = [claims EXCEPT ![t] = claims[t] \cup {p}]
    BY DEF Release, ReturnClaim
<1>4. /\ \A u \in Task : claims[u] \subseteq claims'[u]
      /\ \A u \in Task : claims'[u] # {} =>
            \/ claims[u] # {}
            \/ Whole(Committed[u]) /\ Committed[u].status \in Ran
      /\ ClaimedOnce'
      /\ claims' \in [Task -> SUBSET Proc]
  <2>1. CASE claims' = claims
    BY <2>1 DEF ClaimedOnce, TypeOK
  <2>2. CASE /\ pc[p] = "claimed"
             /\ claims' = [claims EXCEPT ![t] = claims[t] \cup {p}]
    <3>1. /\ buffer[p] \in TaskRecord /\ t \in Task
          /\ files[t] = buffer[p]
          /\ buffer[p].status = "RUNNING"
          /\ claims[t] = {}
      BY <2>2 DEF BufferInv, TaskRecord
    <3>2. Whole(Committed[t]) /\ Committed[t].status \in Ran
      BY <2>2, <3>1, CommittedOnDisk, FileAssumption DEF Whole, Ran
    <3>3. QED
      BY <2>2, <3>1, <3>2 DEF ClaimedOnce, TypeOK
  <2>3. QED
    BY <1>3, <2>1, <2>2
<1>5. TypeOK'
    BY <1>2, <1>4 DEF TypeOK, Request
<1>6. LockInv'
    BY <1>2, ProcAssumption, Exclusion DEF LockInv, TypeOK
<1>7. RequestInv'
  <2>1. \A q \in Proc : request[q].op = "complete" => request[q].task \in Task
    BY RequestType
  <2>2. request'[p].op = "none" /\ pc'[p] = "idle"
    BY <1>2 DEF TypeOK, NoRequest
  <2>3. \A q \in Proc : q # p => request'[q] = request[q] /\ pc'[q] = pc[q]
    BY <1>2 DEF TypeOK
  <2>4. QED
    BY <1>1, <1>4, <2>1, <2>2, <2>3 DEF RequestInv
<1>8. BufferInv'
  <2>1. \A q \in Proc : pc'[q] \notin {"truncate", "write", "claimed"}
    BY <1>2, Exclusion DEF TypeOK
  <2>2. QED
    BY <2>1 DEF BufferInv
<1>9. RecordInv'
    BY <1>1, <1>4 DEF RecordInv, Whole
<1>10. QED
    BY <1>4, <1>5, <1>6, <1>7, <1>8, <1>9

\* The death of a process.
LEMMA CrashInv ==
    ASSUME IInv, NEW p \in Proc, Crash(p)
    PROVE  IInv'
<1> DEFINE t == buffer[p].task_id
<1> USE DEF IInv
<1>1. /\ pc' = [pc EXCEPT ![p] = "dead"]
      /\ lock' = IF lock = p THEN NoProc ELSE lock
      /\ request' = [request EXCEPT ![p] = NoRequest]
      /\ buffer' = [buffer EXCEPT ![p] = Absent]
      /\ UNCHANGED <<files, claims>>
    BY DEF Crash
<1>2. \A u \in Task : Committed'[u] = Committed[u]
                      \/ (Committed'[u] = Torn /\ Whole(Committed[u]))
  <2>1. CASE Committed' = Committed
    BY <2>1
  <2>2. CASE /\ pc[p] = "write"
             /\ t \in Task
             /\ Committed[t] = buffer[p]
             /\ Committed' = [Committed EXCEPT ![t] = Torn]
    <3>1. Whole(Committed[t])
      BY <2>2, FileAssumption DEF BufferInv, Whole
    <3>2. QED
      BY <2>2, <3>1 DEF Committed
  <2>3. QED
    BY <2>1, <2>2, CrashCommits
<1>3. TypeOK'
    BY <1>1 DEF TypeOK, Request
<1>4. LockInv'
    BY <1>1, ProcAssumption DEF LockInv, TypeOK
<1>5. RequestInv'
  <2>1. \A q \in Proc : request[q].op \notin {"none", "claim_next"}
                        => request[q].task \in Task
    BY RequestType
  <2>2. request'[p].op = "none" /\ pc'[p] = "dead"
    BY <1>1 DEF TypeOK, NoRequest
  <2>3. \A q \in Proc : q # p => request'[q] = request[q] /\ pc'[q] = pc[q]
    BY <1>1 DEF TypeOK
  <2>4. QED
    BY <1>1, <1>2, <2>1, <2>2, <2>3, FileAssumption DEF RequestInv, Whole
<1>6. BufferInv'
    BY <1>1 DEF BufferInv, TypeOK, Decided
<1>7. RecordInv' /\ ClaimedOnce'
    BY <1>1, <1>2 DEF RecordInv, ClaimedOnce, Whole
<1>8. QED
    BY <1>3, <1>4, <1>5, <1>6, <1>7

\* Initially there are no records and no calls.
LEMMA InitInv == Init => IInv
<1> SUFFICES ASSUME Init PROVE IInv
    OBVIOUS
<1> USE DEF Init
<1>1. TypeOK
    BY DEF TypeOK, Request
<1>2. LockInv
    BY ProcAssumption DEF LockInv
<1>3. Committed = files
    BY DEF Committed
<1>4. RequestInv /\ BufferInv
    BY DEF RequestInv, BufferInv, NoRequest
<1>5. RecordInv /\ ClaimedOnce
    BY <1>3 DEF RecordInv, ClaimedOnce, Whole
<1>6. QED
    BY <1>1, <1>2, <1>4, <1>5 DEF IInv

\* Every step, of any process and any call, keeps the invariant.
LEMMA NextInv ==
    ASSUME IInv, [Next]_vars
    PROVE  IInv'
<1>1. CASE UNCHANGED vars
  <2>1. Committed' = Committed
    BY <1>1 DEF vars, Committed
  <2>2. QED
    BY <1>1, <2>1 DEF vars, IInv, TypeOK, LockInv, RequestInv, BufferInv,
       RecordInv, ClaimedOnce, Decided
<1>2. ASSUME NEW p \in Proc, Body(p)
      PROVE  IInv'
    BY <1>2, BodyCases, AcquireInv, PrepareInv, TruncateInv, WriteInv, UnlockInv
<1>3. QED
    BY <1>1, <1>2, CallsInv, CrashInv DEF Next

\* The inductive invariant holds in every state of the file-level queue.
THEOREM Invariance == Spec => []IInv
    BY InitInv, NextInv, PTL DEF Spec

-----------------------------------------------------------------------------
(* The results. *)

\* claim_next() gives a task to one worker only (queue.py:93-103): two workers
\* that were both returned a task are the same worker.
THEOREM OneWorkerPerTask == Spec => []ClaimedOnce
<1>1. IInv => ClaimedOnce
    BY DEF IInv
<1>2. QED
    BY <1>1, Invariance, PTL

\* No write task is queued, running or finished without an approval
\* (queue.py:25-26, 60-70).
THEOREM NoWriteWithoutApproval == Spec => []ApprovalGate
<1>1. ASSUME IInv PROVE ApprovalGate
  <2> SUFFICES ASSUME NEW t \in Task, Whole(files[t]),
                      files[t].mode = "write",
                      files[t].status \in {"QUEUED"} \cup Ran
               PROVE  files[t].approved
    BY DEF ApprovalGate
  <2>1. Committed[t] = files[t]
    BY <1>1 DEF IInv, Committed, LockInv, BufferInv, TypeOK, Whole
  <2>2. QED
    BY <1>1, <2>1 DEF IInv, RecordInv
<1>2. QED
    BY <1>1, Invariance, PTL

\* Without a crash nothing is lost, and only the holder of queue.lock is in the
\* middle of a write (queue.py:148-159, artifacts.py:25-29).
THEOREM TornOnlyWhileWritten == Spec => []NoTornAtRest
<1> DEFINE Kept == (\A p \in Proc : pc[p] # "dead")
                        => \A t \in Task : Committed[t] # Torn
<1>1. Init => Kept
    BY FileAssumption DEF Init, Committed
<1>2. ASSUME IInv, Kept, [Next]_vars PROVE Kept'
  <2>1. CASE UNCHANGED vars
    BY <1>2, <2>1 DEF vars, Committed
  <2>2. ASSUME NEW p \in Proc, Calls(p) PROVE Kept'
    <3>1. Committed' = Committed
      BY <1>2, <2>2, CallsInv
    <3>2. \A q \in Proc : pc'[q] # "dead" => pc[q] # "dead"
      BY <1>2, <2>2 DEF Calls, ClaimNext, Enqueue, Approve, Reject, Complete,
         MarkDelivery, MarkApprovalCard, MarkCardUpdate, Call, IInv, TypeOK
    <3>3. QED
      BY <1>2, <3>1, <3>2
  <2>3. ASSUME NEW p \in Proc, Body(p) PROVE Kept'
    <3>1. \A q \in Proc : pc'[q] # "dead" => pc[q] # "dead"
      <4>1. CASE Prepares(p)
        BY <1>2, <4>1, PreparesCases DEF Prepare, IInv, TypeOK
      <4>2. CASE ~Prepares(p)
        BY <1>2, <2>3, <4>2, BodyCases DEF Acquire, Leave, Truncate, Write,
           Release, ReturnClaim, Unlock, IInv, TypeOK
      <4>3. QED
        BY <4>1, <4>2
    <3>2. CASE Truncate(p)
      <4>1. buffer[p] # Torn
        BY <1>2, <3>2, FileAssumption DEF IInv, BufferInv, Truncate
      <4>2. QED
        BY <1>2, <3>1, <3>2, <4>1, TruncateCommits DEF IInv, Committed
    <3>3. CASE ~Truncate(p)
      <4>1. Committed' = Committed
        BY <1>2, <2>3, <3>3, BodyCases, LockedQuiet, WriteQuiet DEF IInv
      <4>2. QED
        BY <1>2, <3>1, <4>1
    <3>4. QED
      BY <3>2, <3>3
  <2>4. ASSUME NEW p \in Proc, Crash(p) PROVE Kept'
    BY <1>2, <2>4 DEF Crash, IInv, TypeOK
  <2>5. QED
    BY <1>2, <2>1, <2>2, <2>3, <2>4 DEF Next
<1>3. Kept => NoTornAtRest
    BY DEF NoTornAtRest, Committed
<1>4. QED
    BY <1>1, <1>2, <1>3, Invariance, PTL DEF Spec

\* A blocked or rejected task stays so, and a claimed one is never claimable
\* again, under every interleaving of the calls.
THEOREM RefusalsStand == Spec => Irrevocable
<1> DEFINE Step == \A t \in Task : Whole(Committed[t]) /\ Whole(Committed'[t]) =>
        /\ Committed[t].status \in {"BLOCKED", "REJECTED"}
             => Committed'[t].status = Committed[t].status
        /\ Committed[t].status \in Ran => Committed'[t].status \in Ran
<1>1. ASSUME IInv, [Next]_vars PROVE Step \/ UNCHANGED vars
  <2>1. CASE Committed' = Committed
    BY <2>1
  <2>2. ASSUME NEW p \in Proc, Truncate(p) PROVE Step
    <3>1. /\ buffer[p].task_id \in Task
          /\ Committed' = [Committed EXCEPT ![buffer[p].task_id] = buffer[p]]
      BY <1>1, <2>2, TruncateCommits DEF IInv
    <3>2. Commits(p, buffer[p].task_id, Committed[buffer[p].task_id], buffer[p])
      BY <1>1, <2>2, TruncateEffect
    <3>3. QED
      BY <3>1, <3>2 DEF Committed, Commits, Whole
  <2>3. ASSUME NEW p \in Proc, Crash(p) PROVE Step
    BY <1>1, <2>3, CrashCommits DEF IInv, Committed, Whole
  <2>4. ASSUME NEW p \in Proc, Body(p), ~Truncate(p) PROVE Committed' = Committed
    BY <1>1, <2>4, BodyCases, LockedQuiet, WriteQuiet DEF IInv
  <2>5. QED
    BY <1>1, <2>1, <2>2, <2>3, <2>4, CallsInv DEF Next
<1>2. QED
    BY <1>1, Invariance, PTL DEF Spec, Irrevocable

\* FileTaskQueue implements TaskQueue: to every caller each operation looks like
\* one indivisible step, and a record is lost only when its writer dies.
THEOREM Implements == Spec => ImplementsTaskQueue
<1>1. Init => Abstract!Init
    BY DEF Init, Abstract!Init, Committed
<1>2. ASSUME IInv, [Next]_vars PROVE [Abstract!Next]_Committed
  <2>1. CASE Committed' = Committed
    BY <2>1
  <2>2. ASSUME NEW p \in Proc, Truncate(p) PROVE Abstract!Next
    BY <1>2, <2>2, TruncateRefines
  <2>3. ASSUME NEW p \in Proc, Crash(p), Committed' # Committed
        PROVE  Abstract!Next
    <3> DEFINE t == buffer[p].task_id
    <3>1. /\ pc[p] = "write"
          /\ t \in Task
          /\ Committed[t] = buffer[p]
          /\ Committed' = [Committed EXCEPT ![t] = Torn]
      BY <1>2, <2>3, CrashCommits DEF IInv
    <3>2. Abstract!Whole(Committed[t])
      BY <1>2, <3>1, FileAssumption DEF IInv, BufferInv, Abstract!Whole
    <3>3. Abstract!Lose(t)
      BY <3>1, <3>2 DEF Abstract!Lose, Abstract!Put
    <3>4. QED
      BY <3>1, <3>3 DEF Abstract!Next
  <2>4. ASSUME NEW p \in Proc, Body(p), ~Truncate(p) PROVE Committed' = Committed
    BY <1>2, <2>4, BodyCases, LockedQuiet, WriteQuiet DEF IInv
  <2>5. ASSUME UNCHANGED vars PROVE Committed' = Committed
    BY <2>5 DEF vars, Committed
  <2>6. QED
    BY <1>2, <2>1, <2>2, <2>3, <2>4, <2>5, CallsInv DEF Next
<1>3. QED
    BY <1>1, <1>2, Invariance, PTL DEF Spec, ImplementsTaskQueue, Abstract!Spec
=============================================================================
