----------------------------- MODULE WorkerProofs -----------------------------
(***************************************************************************)
(* Proofs about Worker, for every number of workers, tool calls and tasks, *)
(* with every fault.                                                       *)
(***************************************************************************)
EXTENDS Worker, TLAPS

\* What a card can show: what the actors of Worker show, and what the gateway does.
Phase == {"none", "approval", "approved", "rejected", "denied", "RUNNING"}
            \cup FINAL_STATUSES

\* The types, for a card that others edit as well.
TypeInv ==
    /\ Queue!TypeOK
    /\ actor \in [Actor -> Local]
    /\ runs \in [Task -> Nat]
    /\ face \in [Task -> Phase]
    /\ shown \subseteq Task
    /\ outcomes \in [Task -> SUBSET FINAL_STATUSES]
    /\ abandoned \subseteq Task

\* The chat got the result of t.
Exposed(t) == t \in shown

Busy(a) == actor[a].pc \notin {"idle", "ready", "ended"}

\* Where a worker and a tool call can be.
RoleInv(a) ==
    IF a \in Workers
    THEN actor[a].pc \notin {"ready", "ended"} /\ actor[a].within # "tool"
    ELSE /\ actor[a].pc \in {"ready", "select", "edit", "mark_edit", "send", "tool_send",
                             "mark", "ended"}
         /\ actor[a].within = "tool"

\* What an actor knows of its task from the step it has reached, whatever the
\* others do in between.
HoldInv(a) ==
    LET t == actor[a].task
        pc == actor[a].pc
        beforeRun == pc \in {"edit_running", "mark_running", "run"}
        delivering == pc \in {"edit", "mark_edit", "send", "tool_send", "mark"}
    IN  Busy(a) =>
        /\ t \in Task
        /\ records[t] # Absent
        /\ Whole(records[t]) =>
            /\ a \in Workers => records[t].status \in Ran
            /\ beforeRun => records[t].status = "RUNNING"
            /\ delivering => records[t].status \in FINAL_STATUSES
        /\ beforeRun => runs[t] = 0
        /\ beforeRun \/ pc = "complete" => outcomes[t] = {}
        /\ pc = "complete" => runs[t] = 1
        /\ delivering =>
            /\ actor[a].record \in TaskRecord
            /\ actor[a].record.status \in FINAL_STATUSES
            /\ actor[a].record.status \in outcomes[t]
        /\ pc = "mark" => actor[a].outcome \in DeliveryResults
        /\ pc \in {"mark_edit", "mark"} /\ actor[a].outcome = "DELIVERED" => Exposed(t)

\* What is known of a task.  Of a torn record only the run is known.  A result that
\* was written is the status, but for a DONE that fail() has overwritten.
TaskInv(t) ==
    /\ runs[t] <= 1
    /\ runs[t] > 0 \/ outcomes[t] # {} => records[t] # Absent
    /\ face[t] \in FINAL_STATUSES => face[t] \in outcomes[t]
    /\ Whole(records[t]) =>
        /\ outcomes[t] # {} => records[t].status \in FINAL_STATUSES
        /\ records[t].status \in FINAL_STATUSES => records[t].status \in outcomes[t]
        /\ "FAILED" \in outcomes[t] => records[t].status = "FAILED"
        /\ runs[t] > 0 => records[t].status \in Ran
        /\ records[t].mode = "write" /\ records[t].status \in {"QUEUED"} \cup Ran
             => records[t].approved
        /\ records[t].status = "DONE" => runs[t] = 1
        /\ records[t].delivery_result = "DELIVERED" =>
            records[t].status \in FINAL_STATUSES /\ Exposed(t)

\* No two workers have the same task.
OwnTaskInv ==
    \A v, w \in Workers :
        v # w /\ Busy(v) /\ Busy(w) => actor[v].task # actor[w].task

IInv ==
    /\ TypeInv
    /\ \A a \in Actor : RoleInv(a) /\ HoldInv(a)
    /\ \A t \in Task : TaskInv(t)
    /\ OwnTaskInv

-----------------------------------------------------------------------------
(* What the calls of the queue do to the records. *)

\* Only the record of t is written, and it is whole.
Writes(t) ==
    /\ records' \in [Task -> TaskRecord \cup {Absent, Torn}]
    /\ records'[t] \in TaskRecord
    /\ \A u \in Task \ {t} : records'[u] = records[u]

\* Only the record of t is written, and its writer dies in the middle.
Tears(t) ==
    /\ records' \in [Task -> TaskRecord \cup {Absent, Torn}]
    /\ records'[t] = Torn
    /\ \A u \in Task \ {t} : records'[u] = records[u]

\* The fields that the properties look at, of the record of t, but the status and
\* the delivery result.
KeepsRest(t) ==
    /\ records[t] \in TaskRecord
    /\ records'[t].mode = records[t].mode
    /\ records'[t].target = records[t].target

\* The records the queue keeps are those of TaskRecords.
LEMMA QueueType == Queue!TypeOK <=> records \in [Task -> TaskRecord \cup {Absent, Torn}]
    BY DEF Queue!TypeOK, Queue!TaskRecord, Queue!Status, Queue!Mode,
           Queue!DeliveryStatus, TaskRecord, Status, Mode, DeliveryStatus

\* Writing the record of one task leaves the others as they are.
LEMMA PutEffect ==
    ASSUME TypeInv, NEW t \in Task, NEW new \in TaskRecord,
           records' = [records EXCEPT ![t] = new]
    PROVE  Writes(t) /\ records'[t] = new
    BY QueueType DEF TypeInv, Writes

\* enqueue(): the new record has not run and was not delivered (queue.py:19-38).
LEMMA EnqueueEffect ==
    ASSUME TypeInv, NEW t \in Task, NEW payload \in Payloads, Queue!Enqueue(t, payload)
    PROVE  /\ records[t] = Absent
           /\ Writes(t)
           /\ records'[t].status \notin Ran
           /\ records'[t].mode = "write" => records'[t].status # "QUEUED"
           /\ records'[t].delivery_result = "none"
<1> DEFINE new == EnqueuedRecord(t, payload)
<1>1. payload \in Payload
    BY PayloadAssumption
<1>2. /\ new \in TaskRecord
      /\ new.status \notin Ran
      /\ new.mode = "write" => new.status # "QUEUED"
      /\ new.delivery_result = "none"
    BY <1>1 DEF EnqueuedRecord, EnqueuedStatus, Payload, TaskRecord, Status, Mode,
                DeliveryStatus, Ran, FINAL_STATUSES
<1>3. records[t] = Absent /\ records' = [records EXCEPT ![t] = new]
    BY DEF Queue!Enqueue, Queue!Put, Queue!EnqueuedRecord, Queue!EnqueuedStatus,
           EnqueuedRecord, EnqueuedStatus
<1>4. Writes(t) /\ records'[t] = new
    BY <1>2, <1>3, PutEffect
<1>5. QED
    BY <1>2, <1>3, <1>4

\* A record that is whole is a record (queue.py:40-45).
LEMMA WholeType ==
    ASSUME TypeInv, NEW t \in Task, Queue!Whole(records[t])
    PROVE  records[t] \in TaskRecord
    BY QueueType DEF TypeInv, Queue!Whole

\* approve(): an approved record is queued (queue.py:55-73).
LEMMA ApproveEffect ==
    ASSUME TypeInv, NEW t \in Task, Queue!Approve(t)
    PROVE  /\ Writes(t) /\ KeepsRest(t)
           /\ records[t].status = "APPROVAL_REQUIRED"
           /\ records'[t].status = "QUEUED"
           /\ records'[t].approved
           /\ records'[t].delivery_result = records[t].delivery_result
<1> DEFINE new == ApprovedRecord(records[t])
<1>1. /\ records[t] \in TaskRecord
      /\ records[t].status = "APPROVAL_REQUIRED"
      /\ records' = [records EXCEPT ![t] = new]
    BY WholeType DEF Queue!Approve, Queue!Put, Queue!AwaitingApproval,
                     Queue!ApprovedRecord, ApprovedRecord
<1>2. /\ new \in TaskRecord
      /\ new.status = "QUEUED"
      /\ new.approved
      /\ new.mode = records[t].mode
      /\ new.target = records[t].target
      /\ new.delivery_result = records[t].delivery_result
    BY <1>1 DEF ApprovedRecord, TaskRecord, Status
<1>3. QED
    BY <1>1, <1>2, PutEffect DEF KeepsRest

\* mark_approval_card() and mark_card_update() (queue.py:125-141).
LEMMA CardEffect ==
    ASSUME TypeInv, NEW t \in Task, Queue!MarkApprovalCard(t) \/ Queue!MarkCardUpdate(t)
    PROVE  /\ Writes(t) /\ KeepsRest(t)
           /\ records'[t].status = records[t].status
           /\ records'[t].approved = records[t].approved
           /\ records'[t].delivery_result = records[t].delivery_result
<1>1. PICK new \in {ApprovalCardRecord(records[t]), CardUpdateRecord(records[t])} :
        /\ records[t] \in TaskRecord
        /\ records' = [records EXCEPT ![t] = new]
    BY WholeType DEF Queue!MarkApprovalCard, Queue!MarkCardUpdate, Queue!Put,
                     Queue!ApprovalCardRecord, Queue!CardUpdateRecord,
                     ApprovalCardRecord, CardUpdateRecord
<1>2. /\ new \in TaskRecord
      /\ new.status = records[t].status
      /\ new.approved = records[t].approved
      /\ new.mode = records[t].mode
      /\ new.target = records[t].target
      /\ new.delivery_result = records[t].delivery_result
  <2>1. CASE new = ApprovalCardRecord(records[t])
    BY <1>1, <2>1 DEF ApprovalCardRecord, TaskRecord
  <2>2. CASE new = CardUpdateRecord(records[t])
    BY <1>1, <2>2 DEF CardUpdateRecord, TaskRecord
  <2>3. QED
    BY <2>1, <2>2
<1>3. QED
    BY <1>1, <1>2, PutEffect DEF KeepsRest

\* claim_next(): a queued record runs (queue.py:93-103).
LEMMA ClaimEffect ==
    ASSUME TypeInv, NEW t \in Task, Queue!ClaimNext(t)
    PROVE  /\ Writes(t) /\ KeepsRest(t)
           /\ records[t].status = "QUEUED"
           /\ records'[t].status = "RUNNING"
           /\ records'[t].approved = records[t].approved
           /\ records'[t].delivery_result = records[t].delivery_result
<1> DEFINE new == ClaimedRecord(records[t])
<1>1. /\ records[t] \in TaskRecord
      /\ records[t].status = "QUEUED"
      /\ records' = [records EXCEPT ![t] = new]
    BY WholeType DEF Queue!ClaimNext, Queue!Claimable, Queue!Put, Queue!ClaimedRecord,
                     ClaimedRecord
<1>2. /\ new \in TaskRecord
      /\ new.status = "RUNNING"
      /\ new.approved = records[t].approved
      /\ new.mode = records[t].mode
      /\ new.target = records[t].target
      /\ new.delivery_result = records[t].delivery_result
    BY <1>1 DEF ClaimedRecord, TaskRecord, Status
<1>3. QED
    BY <1>1, <1>2, PutEffect DEF KeepsRest

\* complete() and fail() (queue.py:105-115).
LEMMA CompleteEffect ==
    ASSUME TypeInv, NEW t \in Task, NEW success \in BOOLEAN, Queue!Complete(t, success)
    PROVE  /\ Writes(t) /\ KeepsRest(t)
           /\ records[t].status \in Ran
           /\ records'[t].status = IF success THEN "DONE" ELSE "FAILED"
           /\ records'[t].approved = records[t].approved
           /\ records'[t].delivery_result = records[t].delivery_result
<1> DEFINE new == CompletedRecord(records[t], success)
<1>1. /\ records[t] \in TaskRecord
      /\ records[t].status \in Ran
      /\ records' = [records EXCEPT ![t] = new]
    BY WholeType DEF Queue!Complete, Queue!Ran, Queue!FINAL_STATUSES, Queue!Put,
                     Queue!CompletedRecord, CompletedRecord, Ran, FINAL_STATUSES
<1>2. /\ new \in TaskRecord
      /\ new.status = IF success THEN "DONE" ELSE "FAILED"
      /\ new.approved = records[t].approved
      /\ new.mode = records[t].mode
      /\ new.target = records[t].target
      /\ new.delivery_result = records[t].delivery_result
    BY <1>1 DEF CompletedRecord, TaskRecord, Status
<1>3. QED
    BY <1>1, <1>2, PutEffect DEF KeepsRest

\* mark_delivery() of a final record (queue.py:117-123).
LEMMA DeliveryEffect ==
    ASSUME TypeInv, NEW t \in Task, NEW result \in DeliveryResults,
           Queue!MarkDelivery(t, result)
    PROVE  /\ Writes(t) /\ KeepsRest(t)
           /\ records[t].status \in FINAL_STATUSES
           /\ records'[t].status = records[t].status
           /\ records'[t].approved = records[t].approved
           /\ records'[t].delivery_result = result
<1> DEFINE new == DeliveryMarkedRecord(records[t], result)
<1>1. /\ records[t] \in TaskRecord
      /\ records[t].status \in FINAL_STATUSES
      /\ records' = [records EXCEPT ![t] = new]
    BY WholeType DEF Queue!MarkDelivery, Queue!FINAL_STATUSES, Queue!Put,
                     Queue!DeliveryMarkedRecord, DeliveryMarkedRecord, FINAL_STATUSES
<1>2. /\ new \in TaskRecord
      /\ new.status = records[t].status
      /\ new.approved = records[t].approved
      /\ new.mode = records[t].mode
      /\ new.target = records[t].target
      /\ new.delivery_result = result
    BY <1>1 DEF DeliveryMarkedRecord, TaskRecord, DeliveryResults, DeliveryStatus
<1>3. QED
    BY <1>1, <1>2, PutEffect DEF KeepsRest

\* A death in the middle of write_json (artifacts.py:26).
LEMMA TearEffect ==
    ASSUME TypeInv, NEW t \in Task, Queue!Put(t, Torn)
    PROVE  Tears(t)
    BY QueueType DEF TypeInv, Tears, Queue!Put

-----------------------------------------------------------------------------
(* What the local steps do to the actor that makes them. *)

Pcs == {"idle", "edit_running", "mark_running", "run", "complete", "fail", "select",
        "edit", "mark_edit", "send", "tool_send", "mark", "reread", "ready", "ended"}

Outcomes == {"success", "failure"} \cup DeliveryStatus

\* Only a moves.
Moves(a) ==
    /\ actor' \in [Actor -> Local]
    /\ \A b \in Actor \ {a} : actor'[b] = actor[b]

\* a moves to pc and keeps its other variables but the outcome.
MovesTo(a, pc) ==
    /\ Moves(a)
    /\ actor'[a].pc = pc
    /\ actor'[a].task = actor[a].task
    /\ actor'[a].record = actor[a].record
    /\ actor'[a].within = actor[a].within

\* What an actor is made of.
LEMMA LocalType ==
    ASSUME TypeInv, NEW a \in Actor
    PROVE  /\ actor \in [Actor -> Local]
           /\ actor[a].pc \in Pcs
           /\ actor[a].task \in Task \cup {0}
           /\ actor[a].record \in TaskRecord \cup {Absent}
           /\ actor[a].outcome \in Outcomes
           /\ actor[a].within \in {"try", "except", "tool"}
    BY DEF TypeInv, Local, Pcs, Outcomes

\* A new local state of one actor.
LEMMA SetEffect ==
    ASSUME TypeInv, NEW a \in Actor, NEW l \in Local, actor' = [actor EXCEPT ![a] = l]
    PROVE  Moves(a) /\ actor'[a] = l
    BY DEF TypeInv, Moves

\* An actor moves on.
LEMMA GotoEffect ==
    ASSUME TypeInv, NEW a \in Actor, NEW pc \in Pcs, Goto(a, pc)
    PROVE  MovesTo(a, pc) /\ actor'[a].outcome = actor[a].outcome
<1> DEFINE l == [actor[a] EXCEPT !.pc = pc]
<1>1. l \in Local
    BY DEF TypeInv, Local, Pcs
<1>2. actor' = [actor EXCEPT ![a] = l]
    BY DEF Goto
<1>3. Moves(a) /\ actor'[a] = l
    BY <1>1, <1>2, SetEffect
<1>4. QED
    BY <1>3 DEF MovesTo, TypeInv, Local

\* An actor moves on with an outcome.
LEMMA GotoWithEffect ==
    ASSUME TypeInv, NEW a \in Actor, NEW pc \in Pcs, NEW outcome \in Outcomes,
           GotoWith(a, pc, outcome)
    PROVE  MovesTo(a, pc) /\ actor'[a].outcome = outcome
<1> DEFINE l == [actor[a] EXCEPT !.pc = pc]
           moved == [actor EXCEPT ![a] = l]
           m == [moved[a] EXCEPT !.outcome = outcome]
<1>1. l \in Local /\ actor \in [Actor -> Local]
    BY DEF TypeInv, Local, Pcs
<1>2. moved \in [Actor -> Local] /\ moved[a] = l /\ \A b \in Actor \ {a} : moved[b] = actor[b]
    BY <1>1
<1>3. m \in Local /\ m.outcome = outcome /\ m.pc = pc
      /\ m.task = actor[a].task /\ m.record = actor[a].record /\ m.within = actor[a].within
    BY <1>1, <1>2 DEF Local, Outcomes
<1>4. actor' = [moved EXCEPT ![a] = m]
    BY DEF GotoWith
<1> HIDE DEF moved, m
<1>5. Moves(a) /\ actor'[a] = m
    BY <1>2, <1>3, <1>4 DEF Moves
<1>6. QED
    BY <1>3, <1>5 DEF MovesTo

\* The call ends.
LEMMA RestEffect ==
    ASSUME TypeInv, NEW a \in Actor, Rest(a)
    PROVE  Moves(a) /\ ~Busy(a)' /\ RoleInv(a)'
<1>1. Resting(a) \in Local
    BY DEF Resting, AtRest, Local, DeliveryStatus
<1>2. Moves(a) /\ actor'[a] = Resting(a)
    BY <1>1, SetEffect DEF Rest
<1>3. CASE a \in Workers
    BY <1>2, <1>3 DEF Resting, AtRest, Busy, RoleInv
<1>4. CASE a \notin Workers
    BY <1>2, <1>4 DEF Resting, AtRest, Busy, RoleInv
<1>5. QED
    BY <1>2, <1>3, <1>4

-----------------------------------------------------------------------------
(* What a step leaves to the others. *)

\* Nothing of u changes but its record.
Aside(u) ==
    /\ runs'[u] = runs[u]
    /\ face'[u] = face[u]
    /\ outcomes'[u] = outcomes[u]
    /\ Exposed(u)' = Exposed(u)

\* Nothing of u changes.
Same(u) == records'[u] = records[u] /\ Aside(u)

\* A task that was claimed, settled or shown stays so; a torn record stays torn.
Keeps(u) ==
    records[u] # Absent =>
        /\ records'[u] # Absent
        /\ Whole(records'[u]) =>
            /\ Whole(records[u])
            /\ records[u].status \in Ran => records'[u].status \in Ran
            /\ records[u].status \in FINAL_STATUSES =>
                records'[u].status \in FINAL_STATUSES
        /\ outcomes[u] \subseteq outcomes'[u]
        /\ Exposed(u) => Exposed(u)'

\* Nothing of u changes that its worker relies on before it has settled it.
Untouched(u) ==
    /\ runs'[u] = runs[u]
    /\ outcomes'[u] = outcomes[u]
    /\ Whole(records[u]) /\ Whole(records'[u]) /\ records[u].status = "RUNNING" =>
        records'[u].status = "RUNNING"

\* What an actor knows of its task outlasts such a step of another.
LEMMA HoldKept ==
    ASSUME NEW b \in Actor, RoleInv(b), HoldInv(b), actor'[b] = actor[b],
           \A u \in Task : Keeps(u),
           b \in Workers /\ Busy(b) => Untouched(actor[b].task)
    PROVE  RoleInv(b)' /\ HoldInv(b)'
<1> DEFINE t == actor[b].task
<1>1. RoleInv(b)'
    BY DEF RoleInv
<1>2. Busy(b)' <=> Busy(b)
    BY DEF Busy
<1>3. CASE ~Busy(b)
    BY <1>1, <1>2, <1>3 DEF HoldInv
<1>4. CASE Busy(b)
  <2>1. t \in Task /\ Keeps(t)
    BY <1>4 DEF HoldInv
  <2>2. actor[b].pc \in {"edit_running", "mark_running", "run", "complete"} => Untouched(t)
    BY <1>4 DEF RoleInv
  <2>3. actor[b].pc \in {"edit_running", "mark_running", "run"} =>
            /\ Whole(records'[t]) => records'[t].status = "RUNNING"
            /\ runs'[t] = 0 /\ outcomes'[t] = {}
    BY <1>4, <2>1, <2>2 DEF HoldInv, Untouched, Keeps
  <2>4. actor[b].pc = "complete" => runs'[t] = 1 /\ outcomes'[t] = {}
    BY <1>4, <2>2 DEF HoldInv, Untouched
  <2>5. /\ records'[t] # Absent
        /\ Whole(records'[t]) =>
            /\ b \in Workers => records'[t].status \in Ran
            /\ actor[b].pc \in {"edit", "mark_edit", "send", "tool_send", "mark"} =>
                  records'[t].status \in FINAL_STATUSES
        /\ actor[b].pc \in {"edit", "mark_edit", "send", "tool_send", "mark"} =>
              actor[b].record.status \in outcomes'[t]
        /\ actor[b].pc \in {"mark_edit", "mark"} /\ actor[b].outcome = "DELIVERED" =>
              Exposed(t)'
    BY <1>4, <2>1 DEF HoldInv, Keeps
  <2>6. QED
    BY <1>1, <1>4, <2>1, <2>3, <2>4, <2>5 DEF HoldInv
<1>5. QED
    BY <1>3, <1>4

\* What is the same of a task is known of it still.
LEMMA SameKept ==
    ASSUME NEW u \in Task, TaskInv(u), Same(u)
    PROVE  TaskInv(u)' /\ Keeps(u) /\ Untouched(u)
    BY DEF TaskInv, Same, Aside, Keeps, Untouched

\* What is known of a task survives a death that tears its record.
LEMMA TearsKept ==
    ASSUME IInv, NEW t \in Task, Tears(t), UNCHANGED <<runs, chat, outcomes>>
    PROVE  TaskInv(t)' /\ Keeps(t) /\ Untouched(t)
<1>1. ~Whole(records'[t]) /\ records'[t] # Absent
    BY FileAssumption DEF Tears, Whole
<1>2. QED
    BY <1>1 DEF IInv, TaskInv, Keeps, Untouched, Exposed, chat

\* A step that moves one actor and touches one task keeps the invariant, if it
\* keeps what is known of these two and takes nothing from another worker.
LEMMA StepInv ==
    ASSUME IInv, TypeInv', NEW a \in Actor, NEW t \in Task,
           Moves(a), RoleInv(a)', HoldInv(a)',
           \A u \in Task \ {t} : Same(u),
           TaskInv(t)', Keeps(t),
           a \in Workers /\ Busy(a)' =>
             /\ actor'[a].task = t
             /\ \/ Busy(a) /\ actor[a].task = t
                \/ \A w \in Workers : Busy(w) => actor[w].task # t,
           Untouched(t) \/ (a \in Workers /\ Busy(a) /\ actor[a].task = t)
    PROVE  IInv'
<1>1. \A u \in Task : TaskInv(u)' /\ Keeps(u)
    BY SameKept DEF IInv
<1>2. \A b \in Actor : RoleInv(b)' /\ HoldInv(b)'
  <2> TAKE b \in Actor
  <2>1. CASE b = a
    BY <2>1
  <2>2. CASE b # a
    <3>1. actor'[b] = actor[b] /\ RoleInv(b) /\ HoldInv(b)
      BY <2>2 DEF Moves, IInv
    <3>2. b \in Workers /\ Busy(b) => Untouched(actor[b].task)
      <4> SUFFICES ASSUME b \in Workers, Busy(b)
                   PROVE  Untouched(actor[b].task)
        OBVIOUS
      <4>1. actor[b].task \in Task
        BY <3>1 DEF HoldInv
      <4>2. CASE actor[b].task # t
        BY <4>1, <4>2, SameKept DEF IInv
      <4>3. CASE actor[b].task = t
        BY <2>2, <4>3 DEF IInv, OwnTaskInv
      <4>4. QED
        BY <4>2, <4>3
    <3>3. QED
      BY <1>1, <3>1, <3>2, HoldKept
  <2>3. QED
    BY <2>1, <2>2
<1>3. OwnTaskInv'
  <2> SUFFICES ASSUME NEW v \in Workers, NEW w \in Workers, v # w, Busy(v)', Busy(w)'
               PROVE  actor'[v].task # actor'[w].task
    BY DEF OwnTaskInv
  <2>1. \A b \in Workers \ {a} : actor'[b] = actor[b] /\ (Busy(b)' <=> Busy(b))
    BY DEF Moves, Busy, Actor
  <2>2. CASE v # a /\ w # a
    BY <2>1, <2>2 DEF IInv, OwnTaskInv
  <2>3. \A b \in Workers : a \in Workers /\ Busy(a)' /\ b # a /\ Busy(b)
                             => actor'[a].task # actor[b].task
    BY DEF IInv, OwnTaskInv
  <2>4. QED
    BY <2>1, <2>2, <2>3
<1>4. QED
    BY <1>1, <1>2, <1>3 DEF IInv

\* A step of the gateway keeps the invariant, if it keeps what is known of its task.
LEMMA GatewayInv ==
    ASSUME IInv, TypeInv', NEW t \in Task,
           UNCHANGED actor,
           \A u \in Task \ {t} : Same(u),
           TaskInv(t)', Keeps(t), Untouched(t)
    PROVE  IInv'
<1>1. \A u \in Task : TaskInv(u)' /\ Keeps(u) /\ Untouched(u)
    BY SameKept DEF IInv
<1>2. \A b \in Actor : RoleInv(b)' /\ HoldInv(b)'
  <2> TAKE b \in Actor
  <2>1. actor'[b] = actor[b] /\ RoleInv(b) /\ HoldInv(b)
    BY DEF IInv
  <2>2. Busy(b) => actor[b].task \in Task
    BY <2>1 DEF HoldInv
  <2>3. QED
    BY <1>1, <2>1, <2>2, HoldKept
<1>3. OwnTaskInv'
    BY DEF IInv, OwnTaskInv, Busy
<1>4. QED
    BY <1>1, <1>2, <1>3 DEF IInv

-----------------------------------------------------------------------------
(* The gateway's steps. *)

\* The variables beside the queue and the actors.
SideTypes ==
    /\ runs \in [Task -> Nat]
    /\ face \in [Task -> Phase]
    /\ shown \subseteq Task
    /\ outcomes \in [Task -> SUBSET FINAL_STATUSES]
    /\ abandoned \subseteq Task

\* A step that writes well-formed values keeps the types.
LEMMA TypeKept ==
    ASSUME TypeInv, NEW t \in Task,
           Writes(t) \/ Tears(t) \/ UNCHANGED records,
           actor' \in [Actor -> Local],
           SideTypes'
    PROVE  TypeInv'
<1>1. records' \in [Task -> TaskRecord \cup {Absent, Torn}]
    BY QueueType DEF TypeInv, Writes, Tears
<1>2. Queue!TypeOK'
    BY <1>1 DEF Queue!TypeOK, Queue!TaskRecord, Queue!Status, Queue!Mode,
                Queue!DeliveryStatus, TaskRecord, Status, Mode, DeliveryStatus
<1>3. QED
    BY <1>2 DEF TypeInv, SideTypes

\* What does not change keeps its type.
LEMMA SideKept ==
    ASSUME IInv, UNCHANGED <<runs, chat, outcomes>>, abandoned' \subseteq Task
    PROVE  SideTypes'
    BY DEF IInv, TypeInv, SideTypes, chat

\* A step that writes only the record of t, moves nobody, and neither takes the
\* status of t back nor delivers it, keeps the invariant.
LEMMA GatewayWriteInv ==
    ASSUME IInv, NEW t \in Task, Writes(t) \/ Tears(t),
           UNCHANGED <<actor, runs, chat, outcomes, abandoned>>,
           TaskInv(t)', Keeps(t), Untouched(t)
    PROVE  IInv'
<1>1. TypeInv'
    BY TypeKept, SideKept DEF IInv, TypeInv
<1>2. \A u \in Task \ {t} : Same(u)
    BY DEF Same, Aside, Writes, Tears, Exposed, chat
<1>3. QED
    BY <1>1, <1>2, GatewayInv

\* A record is neither missing nor torn.
LEMMA RecordFacts ==
    ASSUME NEW r \in TaskRecord
    PROVE  Whole(r) /\ r # Absent
    BY FileAssumption DEF Whole

\* A submission is of a task that was never there (queue.py:19-38).
LEMMA SubmitInv ==
    ASSUME IInv, NEW t \in Task, NEW payload \in Payloads, Submit(t, payload)
    PROVE  IInv'
<1>1. UNCHANGED <<actor, runs, chat, outcomes, abandoned>>
    BY DEF Submit
<1>2. /\ records[t] = Absent
      /\ Writes(t)
      /\ records'[t].status \notin Ran
      /\ records'[t].mode = "write" => records'[t].status # "QUEUED"
      /\ records'[t].delivery_result = "none"
    BY EnqueueEffect DEF Submit, IInv
<1>3. runs[t] = 0 /\ outcomes[t] = {}
    BY <1>2 DEF IInv, TaskInv, TypeInv
<1>4. TaskInv(t)'
    BY <1>1, <1>2, <1>3, RecordFacts DEF IInv, TaskInv, Writes, Ran, FINAL_STATUSES, chat
<1>5. Keeps(t) /\ Untouched(t)
    BY <1>1, <1>2 DEF Keeps, Untouched, Whole
<1>6. QED
    BY <1>1, <1>2, <1>4, <1>5, GatewayWriteInv

\* An approval is of a task that has not run (queue.py:55-73).
LEMMA ApproveInv ==
    ASSUME IInv, NEW t \in Task, Approve(t)
    PROVE  IInv'
<1>1. UNCHANGED <<actor, runs, chat, outcomes, abandoned>>
    BY DEF Approve
<1>2. /\ Writes(t) /\ KeepsRest(t)
      /\ records[t].status = "APPROVAL_REQUIRED"
      /\ records'[t].status = "QUEUED"
      /\ records'[t].approved
      /\ records'[t].delivery_result = records[t].delivery_result
    BY ApproveEffect DEF Approve, IInv
<1>3. /\ Whole(records[t])
      /\ runs[t] = 0 /\ outcomes[t] = {}
      /\ records[t].delivery_result # "DELIVERED"
    BY <1>2, RecordFacts DEF IInv, TaskInv, TypeInv, KeepsRest, Ran, FINAL_STATUSES
<1>4. TaskInv(t)'
    BY <1>1, <1>2, <1>3, RecordFacts DEF IInv, TaskInv, Writes, FINAL_STATUSES, chat
<1>5. Keeps(t) /\ Untouched(t)
    BY <1>1, <1>2, <1>3, RecordFacts
    DEF Keeps, Untouched, Ran, FINAL_STATUSES, Writes, Exposed, chat
<1>6. QED
    BY <1>1, <1>2, <1>4, <1>5, GatewayWriteInv

\* What a step that leaves status, approval and delivery result alone keeps.
LEMMA QuietWrite ==
    ASSUME IInv, NEW t \in Task, Writes(t), KeepsRest(t),
           UNCHANGED <<runs, chat, outcomes>>,
           records'[t].status = records[t].status,
           records'[t].approved = records[t].approved,
           records'[t].delivery_result = records[t].delivery_result
    PROVE  TaskInv(t)' /\ Keeps(t) /\ Untouched(t)
<1>1. Whole(records[t]) /\ Whole(records'[t]) /\ records'[t] # Absent
    BY RecordFacts DEF KeepsRest, Writes
<1>2. TaskInv(t)
    BY DEF IInv
<1>3. TaskInv(t)'
    BY <1>1, <1>2 DEF TaskInv, KeepsRest, Exposed, chat
<1>4. QED
    BY <1>1, <1>3 DEF Keeps, Untouched, Exposed, chat

\* The card may be saved at any time (queue.py:125-132).
LEMMA SaveCardInv ==
    ASSUME IInv, NEW t \in Task, SaveCard(t)
    PROVE  IInv'
<1>1. UNCHANGED <<actor, runs, chat, outcomes, abandoned>>
    BY DEF SaveCard
<1>2. /\ Writes(t) /\ KeepsRest(t)
      /\ records'[t].status = records[t].status
      /\ records'[t].approved = records[t].approved
      /\ records'[t].delivery_result = records[t].delivery_result
    BY CardEffect DEF SaveCard, IInv
<1>3. QED
    BY <1>1, <1>2, QuietWrite, GatewayWriteInv DEF chat

\* The gateway dies in the middle of a write (artifacts.py:26).
LEMMA GatewayTearsInv ==
    ASSUME IInv, NEW t \in Task, GatewayTears(t)
    PROVE  IInv'
<1>1. UNCHANGED <<actor, runs, chat, outcomes, abandoned>> /\ Tears(t)
    BY TearEffect DEF GatewayTears, IInv
<1>2. QED
    BY <1>1, TearsKept, GatewayWriteInv DEF chat

-----------------------------------------------------------------------------
(* The steps of an actor. *)

\* A step of a that touches nothing but a itself.
LEMMA LocalStepInv ==
    ASSUME IInv, NEW a \in Actor, Moves(a), RoleInv(a)', HoldInv(a)',
           UNCHANGED <<records, runs, chat, outcomes>>, abandoned' \subseteq Task,
           a \in Workers /\ Busy(a)' => Busy(a) /\ actor'[a].task = actor[a].task
    PROVE  IInv'
<1>1. CASE Busy(a)
  <2>1. actor[a].task \in Task
    BY <1>1 DEF IInv, HoldInv
  <2>2. TypeInv'
    BY <2>1, TypeKept, SideKept DEF IInv, Moves
  <2>3. \A u \in Task : Same(u)
    BY DEF Same, Aside, Exposed, chat
  <2>4. QED
    BY <1>1, <2>1, <2>2, <2>3, SameKept, StepInv DEF IInv
<1>2. CASE ~Busy(a)
  <2>1. TypeInv'
    <3>1. UNCHANGED records
      OBVIOUS
    <3>2. QED
      BY <3>1 DEF IInv, TypeInv, Moves, Queue!TypeOK, chat
  <2>2. \A u \in Task : TaskInv(u)' /\ Keeps(u) /\ Untouched(u)
    BY SameKept DEF Same, Aside, IInv, Exposed, chat
  <2>3. \A b \in Actor \ {a} : RoleInv(b)' /\ HoldInv(b)'
    <3> TAKE b \in Actor \ {a}
    <3>1. actor'[b] = actor[b] /\ RoleInv(b) /\ HoldInv(b)
      BY DEF Moves, IInv
    <3>2. Busy(b) => actor[b].task \in Task
      BY <3>1 DEF HoldInv
    <3>3. QED
      BY <2>2, <3>1, <3>2, HoldKept
  <2>4. OwnTaskInv'
    BY <1>2 DEF IInv, OwnTaskInv, Moves, Busy, Actor
  <2>5. QED
    BY <2>1, <2>2, <2>3, <2>4 DEF IInv
<1>3. QED
    BY <1>1, <1>2

\* The end of a call, by itself, by an exception or by the death of its process.
LEMMA RestInv ==
    ASSUME IInv, NEW a \in Actor, Rest(a),
           UNCHANGED <<records, runs, chat, outcomes>>, abandoned' \subseteq Task
    PROVE  IInv'
<1>1. Moves(a) /\ ~Busy(a)' /\ RoleInv(a)'
    BY RestEffect DEF IInv
<1>2. HoldInv(a)'
    BY <1>1 DEF HoldInv
<1>3. QED
    BY <1>1, <1>2, LocalStepInv

\* What is known of an actor at work.
LEMMA BusyFacts ==
    ASSUME IInv, NEW a \in Actor, Busy(a)
    PROVE  /\ actor[a].task \in Task
           /\ records[actor[a].task] # Absent
           /\ RoleInv(a) /\ HoldInv(a) /\ TaskInv(actor[a].task)
    BY DEF IInv, HoldInv

\* A step of an actor at work that touches nothing but its own task.
LEMMA WorkInv ==
    ASSUME IInv, NEW a \in Actor, Busy(a),
           NEW t, t = actor[a].task,
           Moves(a), RoleInv(a)', HoldInv(a)',
           Busy(a)' => actor'[a].task = t,
           Writes(t) \/ Tears(t) \/ UNCHANGED records,
           SideTypes',
           \A u \in Task \ {t} : Aside(u),
           TaskInv(t)', Keeps(t),
           a \in Workers \/ Untouched(t)
    PROVE  IInv'
<1>1. t \in Task
    BY BusyFacts
<1>2. TypeInv'
    BY <1>1, TypeKept DEF IInv, Moves
<1>3. \A u \in Task \ {t} : Same(u)
    BY DEF Same, Aside, Writes, Tears
<1>4. QED
    BY <1>1, <1>2, <1>3, StepInv

\* The tool is called for a task there is (delivery.py:213-221).
LEMMA StartToolInv ==
    ASSUME IInv, NEW d \in Tools, NEW t \in Task, StartTool(d, t)
    PROVE  IInv'
<1> DEFINE l == [actor[d] EXCEPT !.pc = "select"]
           moved == [actor EXCEPT ![d] = l]
           m == [moved[d] EXCEPT !.task = t]
<1>1. d \in Actor /\ d \notin Workers
    BY ActorAssumption DEF Actor
<1>2. l \in Local /\ actor \in [Actor -> Local]
    BY <1>1 DEF IInv, TypeInv, Local
<1>3. moved \in [Actor -> Local] /\ moved[d] = l /\ \A b \in Actor \ {d} : moved[b] = actor[b]
    BY <1>1, <1>2
<1>4. m \in Local /\ m.pc = "select" /\ m.task = t /\ m.within = actor[d].within
    BY <1>1, <1>2, <1>3 DEF Local
<1>5. actor' = [moved EXCEPT ![d] = m] /\ UNCHANGED <<records, runs, chat, outcomes, abandoned>>
    BY DEF StartTool
<1> HIDE DEF moved, m
<1>6. Moves(d) /\ actor'[d] = m
    BY <1>1, <1>3, <1>4, <1>5 DEF Moves
<1>7. RoleInv(d)'
    BY <1>1, <1>4, <1>6 DEF IInv, RoleInv
<1>8. records[t] # Absent
    BY DEF StartTool, Undelivered, Whole
<1>9. HoldInv(d)'
    BY <1>1, <1>4, <1>5, <1>6, <1>8 DEF HoldInv
<1>10. QED
    BY <1>1, <1>5, <1>6, <1>7, <1>9, LocalStepInv DEF IInv, TypeInv

\* What the end of a call by an exception or a death leaves of it.
LEMMA EscapeEffect ==
    ASSUME IInv, NEW a \in Actor, actor[a].task \in Task, Escape(a)
    PROVE  /\ Rest(a) /\ Moves(a) /\ ~Busy(a)' /\ RoleInv(a)' /\ HoldInv(a)'
           /\ abandoned' \subseteq Task
<1>1. Rest(a) /\ (abandoned' = abandoned \cup {actor[a].task} \/ abandoned' = abandoned)
    BY DEF Escape, Abandon
<1>2. Moves(a) /\ ~Busy(a)' /\ RoleInv(a)'
    BY <1>1, RestEffect DEF IInv
<1>3. QED
    BY <1>1, <1>2 DEF HoldInv, IInv, TypeInv

\* An exception that nothing catches touches nothing but the call.
LEMMA EscapeInv ==
    ASSUME IInv, NEW a \in Actor, actor[a].task \in Task, Escape(a),
           UNCHANGED <<records, runs, chat, outcomes>>
    PROVE  IInv'
    BY EscapeEffect, RestInv

\* An exception is caught in the try block, by a worker, or ends the call.
LEMMA RaiseInv ==
    ASSUME IInv, NEW a \in Actor, Busy(a), Raise(a),
           UNCHANGED <<records, runs, chat, outcomes>>
    PROVE  IInv'
<1>1. actor[a].task \in Task /\ RoleInv(a) /\ HoldInv(a)
    BY BusyFacts
<1>2. CASE actor[a].within = "try" /\ Goto(a, "fail") /\ UNCHANGED abandoned
  <2>1. MovesTo(a, "fail")
    BY <1>2, GotoEffect DEF IInv, Pcs
  <2>2. a \in Workers
    BY <1>1, <1>2 DEF RoleInv
  <2>3. RoleInv(a)' /\ HoldInv(a)'
    BY <1>1, <2>1, <2>2 DEF MovesTo, RoleInv, HoldInv, Busy
  <2>4. QED
    BY <1>2, <2>1, <2>3, LocalStepInv DEF MovesTo, IInv, TypeInv
<1>3. CASE Escape(a)
    BY <1>1, <1>3, EscapeInv
<1>4. QED
    BY <1>2, <1>3 DEF Raise

\* A rewrite of a torn record raises, inside the try block or out of it.
LEMMA RewriteRaisesInv ==
    ASSUME IInv, NEW a \in Actor, RewriteRaises(a)
    PROVE  IInv'
<1>1. Busy(a) /\ UNCHANGED <<records, runs, chat, outcomes>>
    BY DEF RewriteRaises, Rewriting, Busy
<1>2. actor[a].task \in Task
    BY <1>1, BusyFacts
<1>3. QED
    BY <1>1, <1>2, RaiseInv, EscapeInv DEF RewriteRaises

\* The death of a worker or a tool call, between two steps or in a rewrite.
LEMMA CrashInv ==
    ASSUME IInv, NEW a \in Actor, Crash(a)
    PROVE  IInv'
<1>1. PICK t : t = actor[a].task
    OBVIOUS
<1>2. t \in Task /\ Escape(a) /\ UNCHANGED <<runs, chat, outcomes>>
    BY <1>1, LocalType DEF Crash, IInv
<1>3. CASE UNCHANGED records
    BY <1>1, <1>2, <1>3, EscapeInv
<1>4. CASE actor[a].pc \in Rewriting /\ Queue!Lose(t)
  <2>1. Busy(a)
    BY <1>4 DEF Rewriting, Busy
  <2>2. Tears(t)
    BY <1>2, <1>4, TearEffect DEF Queue!Lose, IInv
  <2>3. /\ Moves(a) /\ ~Busy(a)' /\ RoleInv(a)' /\ HoldInv(a)'
        /\ abandoned' \subseteq Task
    BY <1>1, <1>2, EscapeEffect
  <2>4. TaskInv(t)' /\ Keeps(t) /\ Untouched(t)
    BY <1>2, <2>2, TearsKept DEF chat
  <2>5. SideTypes'
    BY <1>2, <2>3, SideKept
  <2>6. \A u \in Task \ {t} : Aside(u)
    BY <1>2 DEF Aside, Exposed, chat
  <2>7. QED
    BY <1>1, <2>1, <2>2, <2>3, <2>4, <2>5, <2>6, WorkInv
<1>5. QED
    BY <1>1, <1>3, <1>4 DEF Crash

\* A worker dies while it claims.
LEMMA CrashInClaimInv ==
    ASSUME IInv, NEW w \in Workers, NEW t \in Task, CrashInClaim(w, t)
    PROVE  IInv'
<1>1. UNCHANGED <<actor, runs, chat, outcomes, abandoned>> /\ Tears(t)
    BY TearEffect DEF CrashInClaim, Queue!Lose, IInv
<1>2. QED
    BY <1>1, TearsKept, GatewayWriteInv DEF chat

-----------------------------------------------------------------------------
(* run_next_queue_task *)

\* A claim gives a worker a task that no other worker has, and that has not run
\* (scheduler.py:62-64).
LEMMA ClaimInv ==
    ASSUME IInv, NEW w \in Workers, NEW t \in Task, Claim(w, t)
    PROVE  IInv'
<1> DEFINE rest == AtRest("edit_running", "try")
           l == [[rest EXCEPT !.task = t] EXCEPT !.record = records'[t]]
<1>1. w \in Actor /\ UNCHANGED <<runs, chat, outcomes, abandoned>>
    BY DEF Actor, Claim
<1>2. /\ Writes(t) /\ KeepsRest(t)
      /\ records[t].status = "QUEUED"
      /\ records'[t].status = "RUNNING"
      /\ records'[t].approved = records[t].approved
      /\ records'[t].delivery_result = records[t].delivery_result
    BY ClaimEffect DEF Claim, IInv
<1>3. /\ Moves(w)
      /\ actor'[w].pc = "edit_running" /\ actor'[w].task = t /\ actor'[w].within = "try"
  <2>1. actor' = [actor EXCEPT ![w] = l]
    BY DEF Claim
  <2>2. rest \in Local /\ rest.pc = "edit_running" /\ rest.within = "try"
    BY DEF AtRest, Local, DeliveryStatus
  <2> HIDE DEF rest
  <2>3. l \in Local /\ l.pc = "edit_running" /\ l.task = t /\ l.within = "try"
    BY <1>2, <2>2 DEF Local, Writes
  <2> HIDE DEF l
  <2>4. QED
    BY <1>1, <2>1, <2>3, SetEffect DEF IInv
<1>4. Whole(records[t]) /\ Whole(records'[t]) /\ records'[t] # Absent
    BY <1>2, RecordFacts DEF Writes, KeepsRest
<1>5. runs[t] = 0 /\ outcomes[t] = {}
    BY <1>2, <1>4 DEF IInv, TaskInv, TypeInv, Ran, FINAL_STATUSES
<1>6. TaskInv(t)'
    BY <1>1, <1>2, <1>4, <1>5 DEF IInv, TaskInv, KeepsRest, FINAL_STATUSES, Ran, chat
<1>7. Keeps(t) /\ Untouched(t)
    BY <1>1, <1>2, <1>4 DEF Keeps, Untouched, Ran, FINAL_STATUSES, Exposed, chat
<1>8. RoleInv(w)' /\ HoldInv(w)'
    BY <1>1, <1>2, <1>3, <1>4, <1>5 DEF RoleInv, HoldInv, Ran
<1>9. \A v \in Workers : Busy(v) => actor[v].task # t
    BY <1>2, <1>4 DEF IInv, HoldInv, Actor, Ran, FINAL_STATUSES
<1>10. TypeInv'
  <2>1. SideTypes'
    BY <1>1, SideKept DEF IInv, TypeInv
  <2>2. QED
    BY <1>2, <1>3, <2>1, TypeKept DEF IInv, Moves
<1>11. \A u \in Task \ {t} : Same(u)
    BY <1>1, <1>2 DEF Same, Aside, Writes, Exposed, chat
<1>12. actor'[w].task = t
    BY <1>3
<1>13. QED
    BY <1>1, <1>3, <1>6, <1>7, <1>8, <1>9, <1>10, <1>11, <1>12, StepInv

\* The RUNNING edit of the card: nothing was final yet (scheduler.py:65, delivery.py:84-119).
LEMMA EditRunningInv ==
    ASSUME IInv, NEW w \in Workers, EditRunning(w)
    PROVE  IInv'
<1>0. PICK t : t = actor[w].task
    OBVIOUS
<1>1. w \in Actor /\ Busy(w) /\ UNCHANGED <<records, runs, shown, outcomes>>
    BY DEF Actor, EditRunning, At, Busy
<1>2. t \in Task /\ records[t] # Absent /\ RoleInv(w) /\ HoldInv(w) /\ TaskInv(t)
    BY <1>0, <1>1, BusyFacts
<1>3. (Whole(records[t]) => records[t].status = "RUNNING") /\ runs[t] = 0 /\ outcomes[t] = {}
    BY <1>0, <1>1, <1>2 DEF HoldInv, EditRunning, At
<1>4. CASE Goto(w, "run") /\ UNCHANGED <<face, abandoned>>
  <2>1. MovesTo(w, "run")
    BY <1>1, <1>4, GotoEffect DEF IInv, Pcs
  <2>2. RoleInv(w)' /\ HoldInv(w)'
    BY <1>0, <1>1, <1>2, <1>3, <2>1 DEF MovesTo, RoleInv, HoldInv
  <2>3. QED
    BY <1>1, <1>4, <2>1, <2>2, LocalStepInv DEF MovesTo, IInv, TypeInv, chat
<1>5. CASE /\ Goto(w, "mark_running")
           /\ face' = [face EXCEPT ![t] = "RUNNING"] \/ UNCHANGED face
           /\ UNCHANGED abandoned
  <2>1. MovesTo(w, "mark_running")
    BY <1>1, <1>5, GotoEffect DEF IInv, Pcs
  <2>2. RoleInv(w)' /\ HoldInv(w)'
    BY <1>0, <1>1, <1>2, <1>3, <2>1 DEF MovesTo, RoleInv, HoldInv
  <2>3. SideTypes'
    BY <1>1, <1>5 DEF IInv, TypeInv, SideTypes, Phase
  <2>4. /\ \A u \in Task \ {t} : Aside(u)
        /\ face'[t] \in {face[t], "RUNNING"}
    BY <1>1, <1>2, <1>5 DEF Aside, Exposed, IInv, TypeInv
  <2>5. actor'[w].task = t /\ Moves(w)
    BY <1>0, <2>1 DEF MovesTo
  <2>6. TaskInv(t)' /\ Keeps(t)
    BY <1>1, <1>2, <2>4 DEF TaskInv, Keeps, Exposed, FINAL_STATUSES
  <2>7. QED
    BY <1>0, <1>1, <2>2, <2>3, <2>4, <2>5, <2>6, WorkInv
<1>6. CASE Escape(w) /\ UNCHANGED face
    BY <1>0, <1>1, <1>2, <1>6, EscapeInv DEF chat
<1>7. QED
    BY <1>0, <1>4, <1>5, <1>6 DEF EditRunning

\* mark_card_update() of an actor leaves what the properties look at.
LEMMA MarkCardInv ==
    ASSUME IInv, NEW a \in Actor, Busy(a),
           Queue!MarkCardUpdate(actor[a].task),
           UNCHANGED <<runs, chat, outcomes, abandoned>>,
           Moves(a), actor'[a].task = actor[a].task,
           RoleInv(a)',
           /\ UNCHANGED <<runs, shown, outcomes>>
           /\ Whole(records[actor[a].task]) /\ records'[actor[a].task] # Absent
           /\ records'[actor[a].task].status = records[actor[a].task].status
           => HoldInv(a)'
    PROVE  IInv'
<1> DEFINE t == actor[a].task
<1>1. t \in Task
    BY BusyFacts
<1>2. /\ Writes(t) /\ KeepsRest(t)
      /\ records'[t].status = records[t].status
      /\ records'[t].approved = records[t].approved
      /\ records'[t].delivery_result = records[t].delivery_result
    BY <1>1, CardEffect DEF IInv
<1>3. TaskInv(t)' /\ Keeps(t) /\ Untouched(t)
    BY <1>1, <1>2, QuietWrite DEF chat
<1>4. HoldInv(a)'
    BY <1>1, <1>2, RecordFacts DEF Writes, KeepsRest, chat
<1>5. SideTypes'
    BY SideKept DEF IInv, TypeInv
<1>6. \A u \in Task : Aside(u)
    BY DEF Aside, Exposed, chat
<1>7. QED
    BY <1>2, <1>3, <1>4, <1>5, <1>6, WorkInv

\* The RUNNING edit is noted (delivery.py:110-118).
LEMMA MarkRunningInv ==
    ASSUME IInv, NEW w \in Workers, MarkRunning(w)
    PROVE  IInv'
<1> DEFINE t == actor[w].task
<1>1. /\ w \in Actor /\ Busy(w)
      /\ UNCHANGED <<runs, chat, outcomes, abandoned>>
      /\ Queue!MarkCardUpdate(t)
      /\ Goto(w, "run")
    BY DEF Actor, MarkRunning, At, Busy
<1>2. t \in Task /\ RoleInv(w) /\ HoldInv(w)
    BY <1>1, BusyFacts
<1>3. MovesTo(w, "run")
    BY <1>1, GotoEffect DEF IInv, Pcs
<1>4. RoleInv(w)'
    BY <1>2, <1>3, <1>1 DEF RoleInv, MovesTo
<1>5. ASSUME records'[t].status = records[t].status, Whole(records[t]),
             records'[t] # Absent
      PROVE  HoldInv(w)'
  <2>1. records[t].status = "RUNNING" /\ runs[t] = 0 /\ outcomes[t] = {}
    BY <1>1, <1>2, <1>5 DEF HoldInv, MarkRunning, At
  <2>2. QED
    BY <1>1, <1>2, <1>3, <1>5, <2>1 DEF HoldInv, MovesTo, Ran
<1>6. QED
    BY <1>1, <1>3, <1>4, <1>5, MarkCardInv DEF MovesTo

\* The run: the first of its task, as the worker is the only one that has it
\* (scheduler.py:67-84).
LEMMA RunInv ==
    ASSUME IInv, NEW w \in Workers, Run(w)
    PROVE  IInv'
<1>1. w \in Actor /\ Busy(w) /\ UNCHANGED <<records, chat, outcomes>>
    BY DEF Actor, Run, At, Busy
<1>2. PICK t : t = actor[w].task
    OBVIOUS
<1>3. t \in Task /\ records[t] # Absent /\ RoleInv(w) /\ HoldInv(w) /\ TaskInv(t)
    BY <1>1, <1>2, BusyFacts
<1>4. (Whole(records[t]) => records[t].status = "RUNNING") /\ runs[t] = 0 /\ outcomes[t] = {}
    BY <1>1, <1>2, <1>3 DEF HoldInv, Run, At
<1>5. CASE Raise(w) /\ UNCHANGED runs
    BY <1>1, <1>5, RaiseInv
<1>6. ASSUME runs' = [runs EXCEPT ![t] = @ + 1],
             Moves(w), RoleInv(w)', HoldInv(w)',
             Busy(w)' => actor'[w].task = t,
             abandoned' \subseteq Task
      PROVE  IInv'
  <2>1. /\ runs' \in [Task -> Nat]
        /\ runs'[t] = 1
        /\ \A u \in Task \ {t} : runs'[u] = runs[u]
    BY <1>3, <1>4, <1>6 DEF IInv, TypeInv
  <2>2. TaskInv(t)'
    BY <1>1, <1>3, <1>4, <2>1 DEF TaskInv, Exposed, Ran, FINAL_STATUSES, chat
  <2>3. Keeps(t)
    BY <1>1 DEF Keeps, Exposed, chat
  <2>4. SideTypes'
    BY <1>1, <1>6, <2>1 DEF IInv, TypeInv, SideTypes, chat
  <2>5. \A u \in Task \ {t} : Aside(u)
    BY <1>1, <2>1 DEF Aside, Exposed, chat
  <2>6. QED
    BY <1>1, <1>2, <1>6, <2>1, <2>2, <2>3, <2>4, <2>5, WorkInv
<1>7. CASE /\ runs' = [runs EXCEPT ![t] = @ + 1]
           /\ actor[w].within = "try" /\ Goto(w, "fail") /\ UNCHANGED abandoned
  <2>1. MovesTo(w, "fail")
    BY <1>1, <1>7, GotoEffect DEF IInv, Pcs
  <2>2. RoleInv(w)' /\ HoldInv(w)'
    BY <1>1, <1>2, <1>3, <2>1 DEF MovesTo, RoleInv, HoldInv
  <2>3. QED
    BY <1>2, <1>6, <1>7, <2>1, <2>2 DEF MovesTo, IInv, TypeInv
<1>8. CASE runs' = [runs EXCEPT ![t] = @ + 1] /\ Escape(w)
  <2>1. /\ Moves(w) /\ ~Busy(w)' /\ RoleInv(w)' /\ HoldInv(w)'
        /\ abandoned' \subseteq Task
    BY <1>1, <1>2, <1>3, <1>8, EscapeEffect
  <2>2. QED
    BY <1>6, <1>8, <2>1
<1>9. CASE /\ runs' = [runs EXCEPT ![t] = @ + 1]
           /\ \E outcome \in {"success", "failure"} : GotoWith(w, "complete", outcome)
           /\ UNCHANGED abandoned
  <2>1. MovesTo(w, "complete")
    BY <1>1, <1>9, GotoWithEffect DEF IInv, Pcs, Outcomes
  <2>2. runs'[t] = 1
    BY <1>3, <1>4, <1>9 DEF IInv, TypeInv
  <2>3. RoleInv(w)' /\ HoldInv(w)'
    BY <1>1, <1>2, <1>3, <1>4, <2>1, <2>2 DEF MovesTo, RoleInv, HoldInv
  <2>4. QED
    BY <1>2, <1>6, <1>9, <2>1, <2>3 DEF MovesTo, IInv, TypeInv
<1>10. QED
    BY <1>1, <1>2, <1>5, <1>7, <1>8, <1>9 DEF Run, Raise

\* complete() or fail(): a task is DONE only with the success of a run
\* (scheduler.py:85-99).
LEMMA SettleInv ==
    ASSUME IInv, NEW w \in Workers, Busy(w), NEW success \in BOOLEAN,
           NEW within \in {"try", "except"},
           success => runs[actor[w].task] = 1 /\ outcomes[actor[w].task] = {},
           Settle(w, success, within)
    PROVE  IInv'
<1>1. PICK t : t = actor[w].task
    OBVIOUS
<1>2. w \in Actor /\ UNCHANGED <<runs, chat, abandoned>>
    BY DEF Actor, Settle
<1>3. t \in Task /\ records[t] # Absent /\ TaskInv(t)
    BY <1>1, <1>2, BusyFacts
<1>4. /\ Writes(t) /\ KeepsRest(t)
      /\ records[t].status \in Ran
      /\ records'[t].status = IF success THEN "DONE" ELSE "FAILED"
      /\ records'[t].approved = records[t].approved
      /\ records'[t].delivery_result = records[t].delivery_result
    BY <1>1, <1>3, CompleteEffect DEF Settle, IInv
<1>5. /\ Whole(records[t]) /\ Whole(records'[t]) /\ records'[t] # Absent
      /\ records'[t].status \in FINAL_STATUSES
    BY <1>3, <1>4, RecordFacts DEF Writes, KeepsRest, FINAL_STATUSES
<1>12. /\ outcomes'[t] = outcomes[t] \cup {records'[t].status}
       /\ \A u \in Task \ {t} : outcomes'[u] = outcomes[u]
    BY <1>1, <1>3 DEF Settle, IInv, TypeInv
<1>6. TaskInv(t)'
  <2>1. /\ runs'[t] <= 1
        /\ face'[t] \in FINAL_STATUSES => face'[t] \in outcomes'[t]
        /\ "FAILED" \in outcomes'[t] => records'[t].status = "FAILED"
    BY <1>1, <1>2, <1>3, <1>4, <1>12 DEF TaskInv, chat
  <2>2. QED
    BY <1>1, <1>2, <1>3, <1>4, <1>5, <1>12, <2>1 DEF TaskInv, KeepsRest, Ran, Exposed, chat
<1>7. Keeps(t)
    BY <1>2, <1>4, <1>5, <1>12 DEF Keeps, Ran, Exposed, chat
<1>8. /\ Moves(w) /\ RoleInv(w)' /\ HoldInv(w)'
      /\ Busy(w)' => actor'[w].task = t
  <2>1. CASE actor' = [actor EXCEPT ![w] = Resting(w)]
    <3>1. Rest(w)
      BY <2>1 DEF Rest
    <3>2. QED
      BY <1>2, <3>1, RestEffect DEF IInv, HoldInv
  <2>2. CASE actor' = [actor EXCEPT ![w] = [AtRest("select", within) EXCEPT !.task = t]]
    <3> DEFINE rest == AtRest("select", within)
               l == [rest EXCEPT !.task = t]
    <3>1. rest \in Local /\ rest.pc = "select" /\ rest.within = within
      BY DEF AtRest, Local, DeliveryStatus
    <3> HIDE DEF rest
    <3>2. l \in Local /\ l.pc = "select" /\ l.within = within /\ l.task = t
      BY <1>3, <3>1 DEF Local
    <3>3. Moves(w) /\ actor'[w] = l
      BY <1>2, <2>2, <3>2, SetEffect DEF IInv, rest
    <3> HIDE DEF l
    <3>4. RoleInv(w)'
      BY <3>2, <3>3 DEF RoleInv
    <3>5. HoldInv(w)'
      BY <1>3, <1>5, <3>2, <3>3 DEF HoldInv, Ran
    <3>6. QED
      BY <3>2, <3>3, <3>4, <3>5
  <2>3. QED
    BY <1>1, <2>1, <2>2 DEF Settle
<1>9. SideTypes'
    BY <1>1, <1>2, <1>3, <1>5 DEF Settle, IInv, TypeInv, SideTypes, chat
<1>10. \A u \in Task \ {t} : Aside(u)
    BY <1>2, <1>12 DEF Aside, Exposed, chat
<1>11. QED
    BY <1>1, <1>2, <1>4, <1>6, <1>7, <1>8, <1>9, <1>10, WorkInv

\* complete() follows a run that returned (scheduler.py:85).
LEMMA CompleteInv ==
    ASSUME IInv, NEW w \in Workers, Complete(w)
    PROVE  IInv'
<1>1. w \in Actor /\ Busy(w)
    BY DEF Actor, Complete, At, Busy
<1>2. runs[actor[w].task] = 1 /\ outcomes[actor[w].task] = {}
    BY <1>1, BusyFacts DEF HoldInv, Complete, At
<1>3. (actor[w].outcome = "success") \in BOOLEAN
    OBVIOUS
<1>4. QED
    BY <1>1, <1>2, <1>3, SettleInv DEF Complete

\* fail() in the except clause (scheduler.py:92-93).
LEMMA FailInv ==
    ASSUME IInv, NEW w \in Workers, Fail(w)
    PROVE  IInv'
<1>1. Busy(w)
    BY DEF Fail, At, Busy
<1>2. QED
    BY <1>1, SettleInv DEF Fail

-----------------------------------------------------------------------------
(* deliver_task_result *)

\* After the delivery the worker goes on and the tool call is over.
LEMMA DeliveredEffect ==
    ASSUME IInv, NEW a \in Actor, Busy(a), Delivered(a)
    PROVE  /\ Moves(a) /\ RoleInv(a)'
           /\ Busy(a)' => /\ a \in Workers
                          /\ actor'[a].pc = "reread"
                          /\ actor'[a].task = actor[a].task
<1>1. CASE a \in Workers
  <2>1. MovesTo(a, "reread")
    BY <1>1, GotoEffect DEF Delivered, IInv, Pcs
  <2>2. RoleInv(a)'
    BY <1>1, <2>1 DEF IInv, RoleInv, MovesTo
  <2>3. QED
    BY <1>1, <2>1, <2>2 DEF MovesTo
<1>2. CASE a \notin Workers
    BY <1>2, RestEffect DEF Delivered, IInv
<1>3. QED
    BY <1>1, <1>2

\* The record that is delivered is final, and stays so (delivery.py:25-41).
LEMMA SelectInv ==
    ASSUME IInv, NEW a \in Actor, Select(a)
    PROVE  IInv'
<1>1. PICK t : t = actor[a].task
    OBVIOUS
<1>2. Busy(a) /\ UNCHANGED <<records, runs, chat, outcomes>>
    BY DEF Select, At, Busy
<1>3. t \in Task /\ records[t] # Absent /\ RoleInv(a) /\ HoldInv(a) /\ TaskInv(t)
    BY <1>1, <1>2, BusyFacts
<1>4. CASE Raise(a)
    BY <1>2, <1>4, RaiseInv
<1>5. CASE Delivered(a) /\ UNCHANGED abandoned
  <2>1. /\ Moves(a) /\ RoleInv(a)'
        /\ Busy(a)' => /\ a \in Workers
                       /\ actor'[a].pc = "reread"
                       /\ actor'[a].task = actor[a].task
    BY <1>2, <1>5, DeliveredEffect
  <2>2. HoldInv(a)'
    BY <1>1, <1>2, <1>3, <2>1 DEF HoldInv
  <2>3. QED
    BY <1>2, <1>5, <2>1, <2>2, LocalStepInv DEF IInv, TypeInv
<1>6. CASE /\ Whole(records[t])
           /\ records[t].status \in FINAL_STATUSES
           /\ actor' = [actor EXCEPT
                 ![a].record = records[t],
                 ![a].pc = IF records[t].target THEN "edit" ELSE "mark",
                 ![a].outcome = IF records[t].target THEN "none" ELSE "NO_TARGET"]
           /\ UNCHANGED abandoned
  <2> DEFINE pc == IF records[t].target THEN "edit" ELSE "mark"
             outcome == IF records[t].target THEN "none" ELSE "NO_TARGET"
             m1 == [actor EXCEPT ![a] = [actor[a] EXCEPT !.record = records[t]]]
             m2 == [m1 EXCEPT ![a] = [m1[a] EXCEPT !.pc = pc]]
             m3 == [m2[a] EXCEPT !.outcome = outcome]
  <2>0. records[t] \in TaskRecord
    BY <1>3, <1>6, WholeType DEF IInv, Whole, Queue!Whole
  <2>1. actor' = [m2 EXCEPT ![a] = m3]
    BY <1>6
  <2>2. /\ m1 \in [Actor -> Local] /\ \A b \in Actor \ {a} : m1[b] = actor[b]
        /\ m1[a].record = records[t] /\ m1[a].task = t /\ m1[a].within = actor[a].within
    BY <1>1, <1>3, <2>0, LocalType DEF IInv, Local
  <2> HIDE DEF m1
  <2>3. pc \in {"edit", "mark"}
    OBVIOUS
  <2> HIDE DEF pc
  <2>4. /\ m2 \in [Actor -> Local] /\ \A b \in Actor \ {a} : m2[b] = actor[b]
        /\ m2[a].record = records[t] /\ m2[a].task = t /\ m2[a].within = actor[a].within
        /\ m2[a].pc = pc
    BY <2>2, <2>3 DEF Local
  <2> HIDE DEF m2
  <2>5. outcome \in {"none", "NO_TARGET"} /\ (pc = "mark" => outcome = "NO_TARGET")
    BY DEF pc
  <2> HIDE DEF outcome
  <2>6. /\ m3 \in Local /\ m3.record = records[t] /\ m3.task = t /\ m3.pc = pc
        /\ m3.within = actor[a].within /\ m3.outcome = outcome
    BY <2>4, <2>5 DEF Local, DeliveryStatus
  <2> HIDE DEF m3
  <2>7. Moves(a) /\ actor'[a] = m3
    BY <2>1, <2>4, <2>6 DEF Moves
  <2>8. RoleInv(a)'
    BY <1>2, <1>3, <2>3, <2>6, <2>7 DEF RoleInv
  <2>9. HoldInv(a)'
    BY <1>1, <1>2, <1>3, <1>6, <2>0, <2>3, <2>5, <2>6, <2>7
    DEF HoldInv, TaskInv, DeliveryResults, DeliveryStatus
  <2>10. QED
    BY <1>1, <1>2, <1>6, <2>6, <2>7, <2>8, <2>9, LocalStepInv DEF IInv, TypeInv
<1>7. QED
    BY <1>1, <1>4, <1>5, <1>6 DEF Select

\* A move inside the delivery, to any step before the mark.
LEMMA DeliveryMoveInv ==
    ASSUME IInv, NEW a \in Actor, actor[a].pc \in {"edit", "mark_edit", "send", "tool_send"},
           NEW pc \in {"send", "tool_send"}, Goto(a, pc),
           UNCHANGED <<records, runs, chat, outcomes, abandoned>>
    PROVE  IInv'
<1>1. Busy(a)
    BY DEF Busy
<1>2. MovesTo(a, pc)
    BY GotoEffect DEF IInv, Pcs
<1>3. RoleInv(a)' /\ HoldInv(a)'
    BY <1>1, <1>2, BusyFacts DEF RoleInv, HoldInv, MovesTo
<1>4. QED
    BY <1>1, <1>2, <1>3, LocalStepInv DEF MovesTo, IInv, TypeInv

\* The final edit shows the status the queue has, or one it had (delivery.py:48-58).
LEMMA EditInv ==
    ASSUME IInv, NEW a \in Actor, Edit(a)
    PROVE  IInv'
<1>1. PICK t : t = actor[a].task
    OBVIOUS
<1>2. Busy(a) /\ At(a, "edit") /\ UNCHANGED <<records, runs, outcomes>>
    BY DEF Edit, At, Busy
<1>3. /\ t \in Task /\ records[t] # Absent
      /\ RoleInv(a) /\ HoldInv(a) /\ TaskInv(t)
      /\ Whole(records[t]) => records[t].status \in FINAL_STATUSES
      /\ FinalPhase(actor[a].record) \in FINAL_STATUSES \cap outcomes[t]
    BY <1>1, <1>2, BusyFacts DEF HoldInv, At, FinalPhase
<1>4. CASE Goto(a, "send") /\ UNCHANGED <<chat, abandoned>>
    BY <1>2, <1>4, DeliveryMoveInv DEF At
<1>5. CASE UNCHANGED chat /\ Raise(a)
    BY <1>2, <1>5, RaiseInv
<1>6. CASE /\ face' = [face EXCEPT ![t] = FinalPhase(actor[a].record)]
           /\ shown' = shown \cup {t}
           /\ GotoWith(a, "mark_edit", "DELIVERED")
           /\ UNCHANGED abandoned
  <2>1. MovesTo(a, "mark_edit")
    BY <1>6, GotoWithEffect DEF IInv, Pcs, Outcomes, DeliveryStatus
  <2>2. /\ Exposed(t)' /\ face'[t] = FinalPhase(actor[a].record)
        /\ \A u \in Task \ {t} : Aside(u)
    BY <1>2, <1>3, <1>6 DEF Aside, Exposed, IInv, TypeInv
  <2>3. TaskInv(t)' /\ Keeps(t) /\ Untouched(t)
    BY <1>2, <1>3, <2>2 DEF TaskInv, Keeps, Untouched
  <2>4. RoleInv(a)' /\ HoldInv(a)'
    BY <1>1, <1>2, <1>3, <2>1, <2>2 DEF RoleInv, HoldInv, MovesTo, At
  <2>5. SideTypes'
    BY <1>2, <1>3, <1>6 DEF IInv, TypeInv, SideTypes, Phase
  <2>6. QED
    BY <1>1, <1>2, <2>1, <2>2, <2>3, <2>4, <2>5, WorkInv DEF MovesTo
<1>7. CASE UNCHANGED chat /\ GotoWith(a, "mark_edit", "none") /\ UNCHANGED abandoned
  <2>1. MovesTo(a, "mark_edit") /\ actor'[a].outcome = "none"
    BY <1>7, GotoWithEffect DEF IInv, Pcs, Outcomes, DeliveryStatus
  <2>2. RoleInv(a)' /\ HoldInv(a)'
    BY <1>1, <1>2, <1>3, <1>7, <2>1 DEF RoleInv, HoldInv, MovesTo, At
  <2>3. QED
    BY <1>2, <1>7, <2>1, <2>2, LocalStepInv DEF MovesTo, IInv, TypeInv
<1>8. QED
    BY <1>1, <1>4, <1>5, <1>6, <1>7 DEF Edit

\* The final edit is noted; only one that succeeded counts (delivery.py:48-58).
LEMMA MarkEditInv ==
    ASSUME IInv, NEW a \in Actor, MarkEdit(a)
    PROVE  IInv'
<1> DEFINE t == actor[a].task
           pc == IF actor[a].outcome = "DELIVERED" THEN "mark" ELSE "send"
<1>1. /\ Busy(a) /\ actor[a].pc = "mark_edit"
      /\ UNCHANGED <<runs, chat, outcomes, abandoned>>
      /\ Queue!MarkCardUpdate(t)
      /\ Goto(a, pc)
    BY DEF MarkEdit, At, Busy
<1>2. t \in Task /\ RoleInv(a) /\ HoldInv(a)
    BY <1>1, BusyFacts
<1>3. MovesTo(a, pc) /\ actor'[a].outcome = actor[a].outcome
    BY <1>1, GotoEffect DEF IInv, Pcs
<1>4. RoleInv(a)'
    BY <1>1, <1>2, <1>3 DEF RoleInv, MovesTo
<1>5. ASSUME records'[t].status = records[t].status, Whole(records[t]),
             records'[t] # Absent
      PROVE  HoldInv(a)'
  <2>1. actor'[a].pc = "mark" => actor'[a].outcome = "DELIVERED"
    BY <1>3 DEF MovesTo
  <2>2. QED
    BY <1>1, <1>2, <1>3, <1>5, <2>1 DEF HoldInv, MovesTo, Exposed, DeliveryResults,
                                        DeliveryStatus, chat
<1>6. QED
    BY <1>1, <1>3, <1>4, <1>5, MarkCardInv DEF MovesTo

\* The text is in the chat before the delivery is marked (delivery.py:60-77).
LEMMA SendTextInv ==
    ASSUME IInv, NEW a \in Actor, actor[a].pc \in {"send", "tool_send"}, SendText(a),
           UNCHANGED <<records, runs, face, outcomes, abandoned>>
    PROVE  IInv'
<1>1. PICK t : t = actor[a].task
    OBVIOUS
<1>2. Busy(a)
    BY DEF Busy
<1>3. t \in Task /\ RoleInv(a) /\ HoldInv(a) /\ TaskInv(t)
    BY <1>1, <1>2, BusyFacts
<1>4. MovesTo(a, "mark") /\ actor'[a].outcome = "DELIVERED"
    BY GotoWithEffect DEF SendText, IInv, Pcs, Outcomes, DeliveryStatus
<1>5. /\ Exposed(t)'
      /\ \A u \in Task \ {t} : Aside(u)
    BY <1>1, <1>3 DEF SendText, Aside, Exposed
<1>6. TaskInv(t)' /\ Keeps(t) /\ Untouched(t)
    BY <1>3, <1>5 DEF TaskInv, Keeps, Untouched
<1>7. RoleInv(a)' /\ HoldInv(a)'
    BY <1>1, <1>2, <1>3, <1>4, <1>5
    DEF RoleInv, HoldInv, MovesTo, DeliveryResults, DeliveryStatus
<1>8. SideTypes'
    BY <1>1, <1>3 DEF SendText, IInv, TypeInv, SideTypes
<1>9. QED
    BY <1>1, <1>2, <1>4, <1>5, <1>6, <1>7, <1>8, WorkInv DEF MovesTo

\* What is sent, or not, by the adapter or the tool (delivery.py:60-75).
LEMMA SendInv ==
    ASSUME IInv, NEW a \in Actor, Send(a) \/ ToolSend(a)
    PROVE  IInv'
<1>1. /\ actor[a].pc \in {"send", "tool_send"} /\ Busy(a)
      /\ UNCHANGED <<records, runs, face, outcomes>>
    BY DEF Send, ToolSend, At, Busy
<1>2. CASE SendText(a) /\ UNCHANGED abandoned
    BY <1>1, <1>2, SendTextInv
<1>3. CASE Goto(a, "tool_send") /\ UNCHANGED <<shown, abandoned>>
    BY <1>1, <1>3, DeliveryMoveInv DEF chat
<1>4. CASE Raise(a) /\ UNCHANGED shown
    BY <1>1, <1>4, RaiseInv DEF chat
<1>5. CASE GotoWith(a, "mark", "DELIVERY_FAILED") /\ UNCHANGED <<shown, abandoned>>
  <2>1. MovesTo(a, "mark") /\ actor'[a].outcome = "DELIVERY_FAILED"
    BY <1>5, GotoWithEffect DEF IInv, Pcs, Outcomes, DeliveryStatus
  <2>2. RoleInv(a)' /\ HoldInv(a)'
    BY <1>1, <1>5, <2>1, BusyFacts
    DEF RoleInv, HoldInv, MovesTo, DeliveryResults, DeliveryStatus
  <2>3. QED
    BY <1>1, <1>5, <2>1, <2>2, LocalStepInv DEF MovesTo, IInv, TypeInv, chat
<1>6. QED
    BY <1>1, <1>2, <1>3, <1>4, <1>5 DEF Send, ToolSend

\* What is marked as delivered was shown (delivery.py:54-58, 75-77).
LEMMA MarkInv ==
    ASSUME IInv, NEW a \in Actor, Mark(a)
    PROVE  IInv'
<1>1. PICK t : t = actor[a].task
    OBVIOUS
<1>2. Busy(a) /\ actor[a].pc = "mark" /\ UNCHANGED <<runs, chat, outcomes, abandoned>>
    BY DEF Mark, At, Busy
<1>3. t \in Task /\ RoleInv(a) /\ HoldInv(a) /\ TaskInv(t)
    BY <1>1, <1>2, BusyFacts
<1>4. /\ actor[a].outcome \in DeliveryResults
      /\ actor[a].outcome = "DELIVERED" => Exposed(t)
    BY <1>1, <1>2, <1>3 DEF HoldInv
<1>5. /\ Writes(t) /\ KeepsRest(t)
      /\ records[t].status \in FINAL_STATUSES
      /\ records'[t].status = records[t].status
      /\ records'[t].approved = records[t].approved
      /\ records'[t].delivery_result = actor[a].outcome
    BY <1>1, <1>3, <1>4, DeliveryEffect DEF Mark, IInv
<1>6. Whole(records[t]) /\ Whole(records'[t]) /\ records'[t] # Absent
    BY <1>3, <1>5, RecordFacts DEF Writes, KeepsRest
<1>7. TaskInv(t)' /\ Keeps(t) /\ Untouched(t)
    BY <1>2, <1>3, <1>4, <1>5, <1>6 DEF TaskInv, Keeps, Untouched, Exposed, KeepsRest, chat
<1>8. /\ Moves(a) /\ RoleInv(a)'
      /\ Busy(a)' => /\ a \in Workers
                     /\ actor'[a].pc = "reread"
                     /\ actor'[a].task = actor[a].task
    BY <1>2, DeliveredEffect DEF Mark
<1>9. HoldInv(a)'
    BY <1>1, <1>3, <1>5, <1>6, <1>8 DEF HoldInv, Ran
<1>10. SideTypes'
    BY <1>2, SideKept DEF IInv, TypeInv
<1>11. \A u \in Task : Aside(u)
    BY <1>2 DEF Aside, Exposed, chat
<1>12. QED
    BY <1>1, <1>2, <1>5, <1>7, <1>8, <1>9, <1>10, <1>11, WorkInv

\* The worker's last get() (scheduler.py:118-120).
LEMMA RereadInv ==
    ASSUME IInv, NEW w \in Workers, Reread(w)
    PROVE  IInv'
<1>1. w \in Actor /\ Busy(w) /\ UNCHANGED <<records, runs, chat, outcomes>>
    BY DEF Actor, Reread, At, Busy
<1>2. CASE Rest(w) /\ UNCHANGED abandoned
    BY <1>1, <1>2, RestInv DEF IInv, TypeInv
<1>3. CASE Raise(w)
    BY <1>1, <1>3, RaiseInv
<1>4. QED
    BY <1>2, <1>3 DEF Reread

-----------------------------------------------------------------------------
(* The invariant is inductive. *)

\* Before anything happens nobody knows anything.
LEMMA InitInv ==
    ASSUME Init
    PROVE  IInv
<1>1. \A a \in Actor : /\ ~Busy(a) /\ RoleInv(a) /\ HoldInv(a)
                       /\ actor[a] \in Local
  <2> TAKE a \in Actor
  <2>1. CASE a \in Workers
    BY <2>1 DEF Init, Actor, AtRest, Busy, RoleInv, HoldInv, Local, DeliveryStatus
  <2>2. CASE a \notin Workers
    BY <2>2 DEF Init, Actor, AtRest, Busy, RoleInv, HoldInv, Local, DeliveryStatus
  <2>3. QED
    BY <2>1, <2>2
<1>2. records = [t \in Task |-> Absent]
    BY DEF Init, Queue!Init
<1>3. TypeInv
  <2>1. Queue!TypeOK
    BY <1>2, QueueType
  <2>2. actor \in [Actor -> Local]
    BY <1>1 DEF Init
  <2>3. QED
    BY <2>1, <2>2 DEF Init, TypeInv, Phase
<1>4. \A t \in Task : TaskInv(t)
  <2> TAKE t \in Task
  <2>1. records[t] = Absent /\ runs[t] = 0 /\ outcomes[t] = {} /\ face[t] = "none"
    BY <1>2 DEF Init
  <2>2. QED
    BY <2>1 DEF TaskInv, Whole, FINAL_STATUSES
<1>5. OwnTaskInv
    BY <1>1 DEF OwnTaskInv, Actor
<1>6. QED
    BY <1>1, <1>3, <1>4, <1>5 DEF IInv

\* Every step keeps the invariant.
LEMMA InvStep ==
    ASSUME IInv, [Next]_vars
    PROVE  IInv'
<1>1. CASE UNCHANGED vars
  <2>1. TypeInv'
    BY <1>1 DEF IInv, TypeInv, Queue!TypeOK, vars, chat
  <2>2. \A t \in Task : Same(t)
    BY <1>1 DEF Same, Aside, Exposed, vars, chat
  <2>3. \A t \in Task : TaskInv(t)' /\ Keeps(t) /\ Untouched(t)
    BY <2>2, SameKept DEF IInv
  <2>4. \A a \in Actor : RoleInv(a)' /\ HoldInv(a)'
    <3> TAKE a \in Actor
    <3>1. RoleInv(a) /\ HoldInv(a) /\ actor'[a] = actor[a]
      BY <1>1 DEF IInv, vars
    <3>2. Busy(a) => actor[a].task \in Task
      BY <3>1 DEF HoldInv
    <3>3. QED
      BY <2>3, <3>1, <3>2, HoldKept
  <2>5. OwnTaskInv'
    BY <1>1 DEF IInv, OwnTaskInv, Busy, vars
  <2>6. QED
    BY <2>1, <2>3, <2>4, <2>5 DEF IInv
<1>2. ASSUME NEW t \in Task, Gateway(t)
      PROVE  IInv'
    BY <1>2, SubmitInv, ApproveInv, SaveCardInv, GatewayTearsInv DEF Gateway
<1>3. ASSUME NEW a \in Actor, Deliver(a)
      PROVE  IInv'
    BY <1>3, SelectInv, EditInv, MarkEditInv, SendInv, MarkInv, RewriteRaisesInv DEF Deliver
<1>4. ASSUME NEW w \in Workers, WorkerStep(w)
      PROVE  IInv'
  <2>1. w \in Actor
    BY DEF Actor
  <2>2. QED
    BY <1>3, <1>4, <2>1, ClaimInv, EditRunningInv, MarkRunningInv, RunInv, CompleteInv,
       FailInv, RereadInv DEF WorkerStep
<1>5. ASSUME NEW d \in Tools, Deliver(d) \/ \E t \in Task : StartTool(d, t)
      PROVE  IInv'
  <2>1. d \in Actor
    BY DEF Actor
  <2>2. QED
    BY <1>3, <1>5, <2>1, StartToolInv
<1>6. ASSUME NEW a \in Actor, Death(a)
      PROVE  IInv'
    BY <1>6, CrashInv, CrashInClaimInv DEF Death
<1>7. QED
    BY <1>1, <1>2, <1>4, <1>5, <1>6 DEF Next

\* The invariant holds in every state of every behaviour.
LEMMA Invariant == Spec => []IInv
<1>1. Init => IInv
    BY InitInv
<1>2. IInv /\ [Next]_vars => IInv'
    BY InvStep
<1>3. QED
    BY <1>1, <1>2, PTL DEF Spec

\* The actors of Worker show nothing of an approval.
Faces == [Task -> {"none", "RUNNING"} \cup FINAL_STATUSES]

LEMMA FaceStep ==
    ASSUME IInv, face \in Faces, [Next]_vars
    PROVE  face' \in Faces
<1>1. CASE UNCHANGED chat
    BY <1>1 DEF chat
<1>2. CASE UNCHANGED face
    BY <1>2
<1>3. ASSUME NEW w \in Workers, EditRunning(w)
      PROVE  face' \in Faces
    BY <1>3 DEF EditRunning, Faces
<1>4. ASSUME NEW a \in Actor, Edit(a)
      PROVE  face' \in Faces
  <2>1. Busy(a) /\ At(a, "edit")
    BY <1>4 DEF Edit, At, Busy
  <2>2. FinalPhase(actor[a].record) \in FINAL_STATUSES
    BY <2>1, BusyFacts DEF HoldInv, At, FinalPhase
  <2>3. QED
    BY <1>4, <2>2 DEF Edit, Faces, chat
<1>5. CASE UNCHANGED vars
    BY <1>5 DEF vars, chat
<1>6. QED
    BY <1>1, <1>2, <1>3, <1>4, <1>5
    DEF Next, Gateway, Submit, Approve, SaveCard, GatewayTears, WorkerStep, Claim,
        MarkRunning, Run, Complete, Fail, Settle, Reread, Deliver, Select, MarkEdit, Send,
        ToolSend, Mark, RewriteRaises, StartTool, Death, Crash, CrashInClaim, Actor

\* A final status on the card is the one the queue has, whatever late edit of a
\* delivery, exception or death comes between; the exception is the DONE that
\* fail() has taken back (delivery.py:48-53, scheduler.py:85-99).
LEMMA CardFacts == IInv => CardAgrees
<1> SUFFICES ASSUME IInv, NEW t \in Task, Whole(records[t]), face[t] \in FINAL_STATUSES,
                    face[t] # records[t].status
             PROVE  face[t] = "DONE" /\ TakenBack(t)
    BY DEF CardAgrees
<1>1. /\ face[t] \in outcomes[t]
      /\ records[t].status \in FINAL_STATUSES \cap outcomes[t]
      /\ "FAILED" \in outcomes[t] => records[t].status = "FAILED"
      /\ outcomes[t] \subseteq FINAL_STATUSES
    BY DEF IInv, TaskInv, TypeInv
<1>2. QED
    BY <1>1 DEF TakenBack, FINAL_STATUSES

\* A result that is marked as delivered has been shown (delivery.py:48-77).
LEMMA ShownFacts == IInv => DeliveredWasShown
    BY DEF IInv, TaskInv, Exposed, DeliveredWasShown

-----------------------------------------------------------------------------
(* What a step of an actor does to a task, for those who watch it. *)

ActorStep(a) ==
    \/ a \in Workers /\ WorkerStep(a)
    \/ Deliver(a)
    \/ a \in Tools /\ \E t \in Task : StartTool(a, t)
    \/ Death(a)

\* Of a record only the delivery and the card are noted, or it goes on from QUEUED;
\* or it is torn.
Advances(u) ==
    \/ records'[u] = records[u]
    \/ records'[u] = Torn /\ records[u] # Absent
    \/ /\ records[u] \in TaskRecord /\ records'[u] \in TaskRecord
       /\ records'[u].mode = records[u].mode
       /\ records'[u].approved = records[u].approved
       /\ \/ records'[u].status = records[u].status
          \/ records[u].status \in {"QUEUED"} \cup Ran /\ records'[u].status \in Ran

\* A worker has claimed u and is at it.
Taken(u) == \E w \in Workers : Busy(w) /\ actor[w].task = u

\* claim_next() finds u.
Waiting(u) == Whole(records[u]) /\ records[u].status = "QUEUED"

\* A rewrite of the record of one task advances it.
LEMMA WriteAdvances ==
    ASSUME NEW t \in Task, Writes(t), KeepsRest(t),
           records'[t].approved = records[t].approved,
           \/ records'[t].status = records[t].status
           \/ records[t].status \in {"QUEUED"} \cup Ran /\ records'[t].status \in Ran
    PROVE  \A u \in Task : Advances(u)
    BY DEF Writes, KeepsRest, Advances

\* So does a death in a rewrite.
LEMMA TearsAdvance ==
    ASSUME NEW t \in Task, Tears(t), records[t] # Absent
    PROVE  \A u \in Task : Advances(u)
    BY DEF Tears, Advances

\* Every step of an actor advances the records (queue.py:93-141, artifacts.py:26).
LEMMA RecordsAdvance ==
    ASSUME IInv, NEW a \in Actor, ActorStep(a)
    PROVE  \A u \in Task : Advances(u)
<1>1. PICK t : t = actor[a].task
    OBVIOUS
<1>2. Busy(a) => t \in Task /\ records[t] # Absent /\ HoldInv(a)
    BY <1>1, BusyFacts
<1>3. CASE UNCHANGED records
    BY <1>3 DEF Advances
<1>4. ASSUME NEW u \in Task, Claim(a, u)
      PROVE  \A v \in Task : Advances(v)
    BY <1>4, ClaimEffect, WriteAdvances DEF Claim, IInv, Ran
<1>5. CASE MarkRunning(a) \/ MarkEdit(a)
  <2>1. t \in Task /\ Queue!MarkCardUpdate(t)
    BY <1>1, <1>2, <1>5 DEF MarkRunning, MarkEdit, At, Busy
  <2>2. QED
    BY <2>1, CardEffect, WriteAdvances DEF IInv
<1>6. CASE Complete(a) \/ Fail(a)
  <2>1. t \in Task /\ \E success \in BOOLEAN : Queue!Complete(t, success)
    BY <1>1, <1>2, <1>6 DEF Complete, Fail, Settle, At, Busy
  <2>2. QED
    BY <2>1, CompleteEffect, WriteAdvances DEF IInv, Ran, FINAL_STATUSES
<1>7. CASE Mark(a)
  <2>1. /\ t \in Task /\ Queue!MarkDelivery(t, actor[a].outcome)
        /\ actor[a].outcome \in DeliveryResults
    BY <1>1, <1>2, <1>7 DEF Mark, At, Busy, HoldInv
  <2>2. QED
    BY <2>1, DeliveryEffect, WriteAdvances DEF IInv
<1>8. CASE actor[a].pc \in Rewriting /\ Queue!Lose(t)
  <2>1. t \in Task /\ records[t] # Absent /\ Tears(t)
    BY <1>2, <1>8, TearEffect DEF Rewriting, Busy, Queue!Lose, IInv
  <2>2. QED
    BY <2>1, TearsAdvance
<1>9. ASSUME NEW u \in Task, CrashInClaim(a, u)
      PROVE  \A v \in Task : Advances(v)
  <2>1. records[u] # Absent /\ Tears(u)
    BY <1>9, TearEffect DEF CrashInClaim, Queue!Lose, IInv, Claimable, Whole
  <2>2. QED
    BY <2>1, TearsAdvance
<1>10. QED
    BY <1>1, <1>3, <1>4, <1>5, <1>6, <1>7, <1>8, <1>9
    DEF ActorStep, WorkerStep, Deliver, EditRunning, Run, Reread, Select, Edit, Send,
        ToolSend, RewriteRaises, StartTool, Death, Crash

\* Where a step takes a worker: on with its task, or to rest.
Stays(a) ==
    /\ \A b \in Actor \ {a} : actor'[b] = actor[b]
    /\ Busy(a)' => Busy(a) /\ actor'[a].task = actor[a].task

LEMMA StaysAfter ==
    ASSUME IInv, NEW a \in Actor, Busy(a),
           \/ \E pc \in Pcs : Goto(a, pc)
           \/ \E pc \in Pcs, outcome \in Outcomes : GotoWith(a, pc, outcome)
           \/ Rest(a)
           \/ Escape(a)
           \/ Raise(a)
           \/ Delivered(a)
    PROVE  Stays(a)
<1>1. ASSUME NEW pc \in Pcs, Goto(a, pc)
      PROVE  Stays(a)
    BY <1>1, GotoEffect DEF Stays, MovesTo, Moves, IInv
<1>2. ASSUME NEW pc \in Pcs, NEW outcome \in Outcomes, GotoWith(a, pc, outcome)
      PROVE  Stays(a)
    BY <1>2, GotoWithEffect DEF Stays, MovesTo, Moves, IInv
<1>3. CASE Rest(a)
    BY <1>3, RestEffect DEF Stays, Moves, IInv
<1>4. QED
    BY <1>1, <1>2, <1>3 DEF Escape, Raise, Delivered, Pcs

\* A step takes a worker to no new task but by a claim.
LEMMA WorkerStays ==
    ASSUME IInv, NEW a \in Workers, ActorStep(a),
           ~ \E t \in Task : Claim(a, t)
    PROVE  Stays(a)
<1>1. a \in Actor /\ a \notin Tools
    BY ActorAssumption DEF Actor
<1>2. CASE UNCHANGED actor
    BY <1>2 DEF Stays, Busy
<1>3. CASE Busy(a) /\ (EditRunning(a) \/ MarkRunning(a) \/ Run(a) \/ Reread(a))
    BY <1>1, <1>3, StaysAfter DEF EditRunning, MarkRunning, Run, Reread, Pcs, Outcomes
<1>4. CASE Busy(a) /\ (Edit(a) \/ MarkEdit(a) \/ Send(a) \/ ToolSend(a) \/ Mark(a)
                        \/ RewriteRaises(a) \/ Crash(a))
    BY <1>1, <1>4, StaysAfter
    DEF Edit, MarkEdit, Send, SendText, ToolSend, Mark, RewriteRaises, Crash, Pcs, Outcomes,
        DeliveryStatus
<1>5. ASSUME Busy(a), NEW success \in BOOLEAN, NEW within \in {"try", "except"},
             Settle(a, success, within)
      PROVE  Stays(a)
  <2>1. CASE Rest(a)
    BY <1>1, <1>5, <2>1, StaysAfter
  <2>2. CASE actor' = [actor EXCEPT ![a] = [AtRest("select", within) EXCEPT
                                              !.task = actor[a].task]]
    BY <1>1, <1>5, <2>2 DEF Stays, IInv, TypeInv, AtRest
  <2>3. QED
    BY <1>5, <2>1, <2>2 DEF Settle, Rest
<1>6. CASE Busy(a) /\ Select(a)
  <2>1. CASE Raise(a) \/ Delivered(a)
    BY <1>1, <1>6, <2>1, StaysAfter
  <2>2. CASE \E r, pc, outcome : actor' = [actor EXCEPT ![a].record = r, ![a].pc = pc,
                                                         ![a].outcome = outcome]
    BY <1>1, <1>6, <2>2 DEF Stays, IInv, TypeInv, Local
  <2>3. QED
    BY <1>6, <2>1, <2>2 DEF Select
<1>7. CASE ~Busy(a)
  <2>1. actor[a].pc = "idle"
    BY <1>1, <1>7 DEF Busy, IInv, RoleInv
  <2>2. UNCHANGED actor \/ Rest(a)
    BY <1>1, <2>1
    DEF ActorStep, WorkerStep, Deliver, EditRunning, MarkRunning, Run, Complete, Fail, Reread,
        Select, Edit, MarkEdit, Send, ToolSend, Mark, RewriteRaises, Rewriting, Death, Crash,
        CrashInClaim, Escape, At
  <2>3. QED
    BY <1>1, <1>2, <2>2, RestEffect DEF Stays, Moves, IInv
<1>8. CASE Busy(a) /\ (Complete(a) \/ Fail(a))
    BY <1>5, <1>8 DEF Complete, Fail
<1>9. QED
    BY <1>1, <1>2, <1>3, <1>4, <1>6, <1>7, <1>8
    DEF ActorStep, WorkerStep, Deliver, Death, CrashInClaim

\* A step of an actor moves no other.
LEMMA OthersStay ==
    ASSUME IInv, NEW a \in Actor, ActorStep(a)
    PROVE  \A b \in Actor \ {a} : actor'[b] = actor[b]
<1>1. CASE EditRunning(a) \/ MarkRunning(a) \/ Run(a) \/ Reread(a)
    BY <1>1 DEF IInv, TypeInv, EditRunning, MarkRunning, Run, Reread, Goto, GotoWith, Rest,
                Raise, Escape
<1>2. CASE Complete(a) \/ Fail(a) \/ \E t \in Task : Claim(a, t) \/ StartTool(a, t)
    BY <1>2 DEF IInv, TypeInv, Complete, Fail, Settle, Claim, StartTool
<1>3. CASE Deliver(a)
    BY <1>3 DEF IInv, TypeInv, Deliver, Select, Edit, MarkEdit, Send, SendText, ToolSend,
                Mark, RewriteRaises, Delivered, Goto, GotoWith, Rest, Raise, Escape
<1>4. CASE Death(a)
    BY <1>4 DEF IInv, TypeInv, Death, Crash, CrashInClaim, Escape, Rest
<1>5. QED
    BY <1>1, <1>2, <1>3, <1>4 DEF ActorStep, WorkerStep

\* A task that no worker is at, and that none can claim, is not taken and not run
\* (scheduler.py:62, 84).
LEMMA UntakenStays ==
    ASSUME IInv, NEW a \in Actor, ActorStep(a),
           NEW u \in Task, ~Taken(u), ~Waiting(u)
    PROVE  ~Taken(u)' /\ runs'[u] = runs[u]
<1>1. \A w \in Workers : Busy(w)' => actor'[w].task # u
  <2> TAKE w \in Workers
  <2>1. CASE w # a
    BY <2>1, OthersStay DEF Actor, Taken, Busy
  <2>2. CASE w = a /\ Stays(a)
    BY <2>2 DEF Stays, Taken
  <2>3. ASSUME w = a, NEW t \in Task, Claim(a, t)
        PROVE  actor'[w].task # u
    <3>1. t # u
      BY <2>3, ClaimEffect, RecordFacts DEF Claim, IInv, Waiting, KeepsRest
    <3>2. actor'[w].task = t
      BY <2>3 DEF Claim, IInv, TypeInv, AtRest, Actor
    <3>3. QED
      BY <3>1, <3>2
  <2>4. QED
    BY <2>1, <2>2, <2>3, WorkerStays
<1>2. runs'[u] = runs[u]
  <2>1. CASE a \in Workers /\ Run(a)
    <3>1. Busy(a) /\ actor[a].task # u
      BY <2>1 DEF Run, At, Busy, Taken
    <3>2. QED
      BY <2>1, <3>1 DEF Run, IInv, TypeInv
  <2>2. CASE UNCHANGED runs
    BY <2>2
  <2>3. QED
    BY <2>1, <2>2
    DEF ActorStep, WorkerStep, Deliver, Claim, EditRunning, MarkRunning, Complete, Fail,
        Settle, Reread, Select, Edit, MarkEdit, Send, ToolSend, Mark, RewriteRaises,
        StartTool, Death, Crash, CrashInClaim
<1>3. QED
    BY <1>1, <1>2 DEF Taken

\* Actors show RUNNING and final statuses only (delivery.py:48-53, 103-109).
LEMMA ActorShows ==
    ASSUME IInv, NEW a \in Actor, ActorStep(a), NEW u \in Task
    PROVE  face'[u] \in {face[u], "RUNNING"} \cup FINAL_STATUSES
<1>1. CASE EditRunning(a)
    BY <1>1 DEF EditRunning, IInv, TypeInv
<1>2. CASE Edit(a)
  <2>1. FinalPhase(actor[a].record) \in FINAL_STATUSES
    BY <1>2, BusyFacts DEF Edit, HoldInv, At, Busy, FinalPhase
  <2>2. QED
    BY <1>2, <2>1 DEF Edit, IInv, TypeInv, chat
<1>3. CASE UNCHANGED face
    BY <1>3
<1>4. QED
    BY <1>1, <1>2, <1>3
    DEF ActorStep, WorkerStep, Deliver, Claim, MarkRunning, Run, Complete, Fail, Settle, chat,
        Reread, Select, MarkEdit, Send, ToolSend, Mark, RewriteRaises, StartTool, Death, Crash,
        CrashInClaim

\* A step of an actor keeps the invariant.
LEMMA ActorStepInv ==
    ASSUME IInv, NEW a \in Actor, ActorStep(a)
    PROVE  IInv'
<1>1. Next \/ UNCHANGED vars
    BY DEF ActorStep, WorkerStep, Next, Actor
<1>2. QED
    BY <1>1, InvStep

\* So does an edit of the card that shows no result (feishu_router.py:646).
LEMMA FaceInv ==
    ASSUME IInv, UNCHANGED <<records, actor, runs, shown, outcomes, abandoned>>,
           face' \in [Task -> Phase],
           \A u \in Task : face'[u] = face[u] \/ face'[u] \notin FINAL_STATUSES
    PROVE  IInv'
<1>1. TypeInv'
    BY DEF IInv, TypeInv, Queue!TypeOK
<1>2. \A a \in Actor : RoleInv(a)' /\ HoldInv(a)'
    BY DEF IInv, RoleInv, HoldInv, Busy, Exposed
<1>3. \A u \in Task : TaskInv(u)'
    BY DEF IInv, TaskInv, Exposed
<1>4. QED
    BY <1>1, <1>2, <1>3 DEF IInv, OwnTaskInv, Busy

-----------------------------------------------------------------------------
(* The theorems. *)

\* Queue, actors and chat keep to the values the code can give them.
THEOREM TypeCorrect == Spec => []TypeOK
<1>1. Init => TypeOK
    BY InitInv DEF IInv, TypeInv, TypeOK, Init
<1>2. IInv /\ IInv' /\ TypeOK /\ [Next]_vars => TypeOK'
    BY FaceStep DEF IInv, TypeInv, TypeOK, Faces
<1>3. QED
    BY <1>1, <1>2, Invariant, PTL DEF Spec

\* No task is run twice, however many workers there are and whatever raises or
\* dies (scheduler.py:62, 92-99).
THEOREM RunsOnce == Spec => []RunOnce
<1>1. IInv => RunOnce
    BY DEF IInv, TaskInv, RunOnce
<1>2. QED
    BY <1>1, Invariant, PTL

\* A task is DONE only after its one run, and a write task was approved before
\* (scheduler.py:67-93).
THEOREM DoneTasksWereRun == Spec => []DoneWasRun
<1>1. IInv => DoneWasRun
  <2> SUFFICES ASSUME IInv, NEW t \in Task, Whole(records[t])
               PROVE  /\ records[t].status = "DONE" => runs[t] = 1
                      /\ runs[t] > 0 /\ records[t].mode = "write" => records[t].approved
    BY DEF DoneWasRun
  <2>1. QED
    BY DEF IInv, TaskInv
<1>2. QED
    BY <1>1, Invariant, PTL

\* DELIVERED in the queue means that the chat was shown the result at least once,
\* by an edit of the card or by a text, whatever raises or dies afterwards
\* (delivery.py:48-77).  It does not say what the card shows later:
\* ApprovalCardsProofs proves the same beside the handlers, whose edits may cover it.
THEOREM DeliveriesWereShown == Spec => []DeliveredWasShown
<1>1. IInv => DeliveredWasShown
    BY ShownFacts
<1>2. QED
    BY <1>1, Invariant, PTL
=============================================================================
