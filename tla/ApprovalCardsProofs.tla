-------------------------- MODULE ApprovalCardsProofs --------------------------
(***************************************************************************)
(* Proofs about ApprovalCards, for every number of workers, tool calls,    *)
(* tasks, people and commands, with every fault.  What is known of the     *)
(* workers, the tool calls and the queue beside the gateway is the         *)
(* invariant of WorkerProofs; this module shows that the gateway keeps it, *)
(* and adds what is known of decisions, replies and clicks.                *)
(***************************************************************************)
EXTENDS ApprovalCards, TLAPS

Work == INSTANCE WorkerProofs

\* The queue has approved, or rejected, t.
Approved(t) ==
    /\ records[t] \in TaskRecord
    /\ records[t].approved
    /\ records[t].status \in {"QUEUED"} \cup Ran

Rejected(t) == records[t] \in TaskRecord /\ records[t].status = "REJECTED"

\* The decision stands in the queue, or its record is torn.
Stands(t, action) ==
    \/ records[t] = Torn
    \/ IF action = "approve" THEN Approved(t) ELSE Rejected(t)

\* A write task that asked for approval has got past it.
Decided(t) ==
    /\ records[t] \in TaskRecord
    /\ records[t].mode = "write"
    /\ records[t].status \notin {"BLOCKED", "APPROVAL_REQUIRED"}

CommandType ==
    [task : Task \cup {0}, user : Users \cup {"nobody"}, action : Action,
     clicked : BOOLEAN, callback : BOOLEAN, handle : BOOLEAN, edit : BOOLEAN]

GatewayTypes ==
    /\ sending \in [Task -> {"none", "sending", "sent", "over"}]
    /\ command \in [Commands -> CommandType]
    /\ deciders \in [Task -> SUBSET (Users \cup {"approve_agent_task"})]
    /\ told \in [Task -> SUBSET {"approved", "rejected"}]

\* What a command still has to do is about a task, and agrees with what the queue
\* has decided.
CommandInv(c) ==
    LET k == command[c]
    IN  /\ k.callback \/ k.handle \/ k.edit => k.task \in Task /\ k.user \in Users
        /\ k.callback => k.clicked
        /\ k.edit => Stands(k.task, k.action)

\* Nobody runs t, or will.
NeverRun(t) == runs[t] = 0 /\ ~Work!Taken(t)

\* What is known of a task: who has decided it, what was said of it and what its
\* card shows.
TaskInv(t) ==
    /\ "approved" \in told[t] => Stands(t, "approve")
    /\ "rejected" \in told[t] =>
        Stands(t, "reject") /\ NeverRun(t) /\ deciders[t] # {}
    /\ told[t] # {"approved", "rejected"}
    /\ Decided(t) => deciders[t] # {}
    /\ AllowedUsers # {} => deciders[t] \cap Users \subseteq AllowedUsers
    /\ face[t] = "approved" => Stands(t, "approve") \/ Clicked(t, "approve")
    /\ face[t] = "rejected" => Stands(t, "reject") \/ Clicked(t, "reject")

IInv ==
    /\ Work!IInv
    /\ GatewayTypes
    /\ \A c \in Commands : CommandInv(c)
    /\ \A t \in Task : TaskInv(t)

-----------------------------------------------------------------------------
(* The names of WorkerProofs. *)

LEMMA SameNames ==
    /\ Work!TaskRecord = TaskRecord
    /\ Work!Ran = Ran
    /\ Work!FINAL_STATUSES = FINAL_STATUSES
    /\ Work!Phase = Face
    /\ Work!Actor = Workers \cup Tools
    BY DEF Work!TaskRecord, Work!Status, Work!Mode, Work!DeliveryStatus, Work!Ran,
           Work!FINAL_STATUSES, Work!Phase, Work!Actor, TaskRecord, Status, Mode,
           DeliveryStatus, Ran, FINAL_STATUSES, Face

\* What WorkerProofs assumes of its constants.
LEMMA WorkAssumptions ==
    /\ Task \subseteq Nat
    /\ Absent # Torn /\ Absent \notin Work!TaskRecord /\ Torn \notin Work!TaskRecord
    /\ Workers \cap Tools = {}
    /\ Payloads \subseteq Work!Payload
    /\ 0 \notin Task
    /\ Faults \subseteq {"edit_raises", "send_raises", "torn_get", "crash"}
    BY SameNames, TaskAssumption, FileAssumption, ActorAssumption, PayloadAssumption,
       NoTaskAssumption, FaultAssumption
    DEF Work!Payload, Work!Mode, Payload, Mode

\* The bound on what the chat sends.
LEMMA SameRequests == Background!Requests = Work!Requests
    BY DEF Background!Requests, Work!Requests, Background!Cardinality, Work!Cardinality

\* The steps of a worker or a tool call.
LEMMA SameSteps ==
    ASSUME NEW a
    PROVE  /\ Background!WorkerStep(a) => Work!WorkerStep(a)
           /\ Background!Deliver(a) => Work!Deliver(a)
           /\ \A t \in Task : Background!StartTool(a, t) => Work!StartTool(a, t)
           /\ Background!Death(a) => Work!Death(a)
<1> USE DEF Background!chat, Work!chat, Background!At, Work!At, Background!Goto,
            Work!Goto, Background!GotoWith, Work!GotoWith, Background!Rest, Work!Rest,
            Background!Resting, Work!Resting, Background!AtRest, Work!AtRest,
            Background!Escape, Work!Escape, Background!Abandon, Work!Abandon,
            Background!Raise, Work!Raise, Background!Delivered, Work!Delivered,
            Background!GetRaises, Work!GetRaises, Background!GatewayRewrites,
            Work!GatewayRewrites, Background!CardUnsaved, Work!CardUnsaved,
            Background!AwaitingApproval, Work!AwaitingApproval, Background!Rewrites,
            Work!Rewrites, Background!Rewriting, Work!Rewriting, Background!Claimable,
            Work!Claimable, Background!Whole, Work!Whole, Background!Actor, Work!Actor,
            Background!FINAL_STATUSES, Work!FINAL_STATUSES, Background!HasDelivery,
            Work!HasDelivery
<1>1. \A t \in Task : Background!Claim(a, t) => Work!Claim(a, t)
    BY DEF Background!Claim, Work!Claim, Background!Queue!ClaimNext,
           Work!Queue!ClaimNext, Background!Queue!Claimable, Work!Queue!Claimable,
           Background!Queue!ClaimedRecord, Work!Queue!ClaimedRecord,
           Background!Queue!Put, Work!Queue!Put, Background!Queue!Whole,
           Work!Queue!Whole
<1>2. Background!EditRunning(a) => Work!EditRunning(a)
    BY DEF Background!EditRunning, Work!EditRunning
<1>3. Background!MarkRunning(a) => Work!MarkRunning(a)
    BY DEF Background!MarkRunning, Work!MarkRunning, Background!Queue!MarkCardUpdate,
           Work!Queue!MarkCardUpdate, Background!Queue!CardUpdateRecord,
           Work!Queue!CardUpdateRecord, Background!Queue!Put, Work!Queue!Put,
           Background!Queue!Whole, Work!Queue!Whole
<1>4. Background!Run(a) => Work!Run(a)
    BY DEF Background!Run, Work!Run
<1>5. Background!Complete(a) => Work!Complete(a)
    BY DEF Background!Complete, Work!Complete, Background!Settle, Work!Settle,
           Background!Queue!Complete, Work!Queue!Complete,
           Background!Queue!CompletedRecord, Work!Queue!CompletedRecord,
           Background!Queue!Ran, Work!Queue!Ran, Background!Queue!FINAL_STATUSES,
           Work!Queue!FINAL_STATUSES, Background!Queue!Put, Work!Queue!Put,
           Background!Queue!Whole, Work!Queue!Whole
<1>6. Background!Fail(a) => Work!Fail(a)
    BY DEF Background!Fail, Work!Fail, Background!Settle, Work!Settle,
           Background!Queue!Complete, Work!Queue!Complete,
           Background!Queue!CompletedRecord, Work!Queue!CompletedRecord,
           Background!Queue!Ran, Work!Queue!Ran, Background!Queue!FINAL_STATUSES,
           Work!Queue!FINAL_STATUSES, Background!Queue!Put, Work!Queue!Put,
           Background!Queue!Whole, Work!Queue!Whole
<1>7. Background!Reread(a) => Work!Reread(a)
    BY DEF Background!Reread, Work!Reread
<1>8. Background!Select(a) => Work!Select(a)
    BY DEF Background!Select, Work!Select
<1>9. Background!Edit(a) => Work!Edit(a)
    BY DEF Background!Edit, Work!Edit, Background!FinalPhase, Work!FinalPhase
<1>10. Background!MarkEdit(a) => Work!MarkEdit(a)
    BY DEF Background!MarkEdit, Work!MarkEdit, Background!Queue!MarkCardUpdate,
           Work!Queue!MarkCardUpdate, Background!Queue!CardUpdateRecord,
           Work!Queue!CardUpdateRecord, Background!Queue!Put, Work!Queue!Put,
           Background!Queue!Whole, Work!Queue!Whole
<1>11. Background!Send(a) => Work!Send(a)
    BY DEF Background!Send, Work!Send, Background!SendText, Work!SendText
<1>12. Background!ToolSend(a) => Work!ToolSend(a)
    BY DEF Background!ToolSend, Work!ToolSend, Background!SendText, Work!SendText
<1>13. Background!Mark(a) => Work!Mark(a)
    BY DEF Background!Mark, Work!Mark, Background!Queue!MarkDelivery,
           Work!Queue!MarkDelivery, Background!Queue!DeliveryMarkedRecord,
           Work!Queue!DeliveryMarkedRecord, Background!Queue!FINAL_STATUSES,
           Work!Queue!FINAL_STATUSES, Background!Queue!Put, Work!Queue!Put,
           Background!Queue!Whole, Work!Queue!Whole
<1>14. Background!RewriteRaises(a) => Work!RewriteRaises(a)
    BY DEF Background!RewriteRaises, Work!RewriteRaises
<1>15. ASSUME NEW t \in Task, Background!StartTool(a, t)
       PROVE  Work!StartTool(a, t)
  <2>1. \A u : Background!Undelivered(u) <=> Work!Undelivered(u)
    BY DEF Background!Undelivered, Work!Undelivered
  <2>2. QED
    BY <1>15, <2>1, SameRequests DEF Background!StartTool, Work!StartTool
<1>16. Background!Crash(a) => Work!Crash(a)
    BY DEF Background!Crash, Work!Crash, Background!Queue!Lose, Work!Queue!Lose,
           Background!Queue!Put, Work!Queue!Put, Background!Queue!Whole,
           Work!Queue!Whole
<1>17. \A t \in Task : Background!CrashInClaim(a, t) => Work!CrashInClaim(a, t)
    BY DEF Background!CrashInClaim, Work!CrashInClaim, Background!Queue!Lose,
           Work!Queue!Lose, Background!Queue!Put, Work!Queue!Put,
           Background!Queue!Whole, Work!Queue!Whole
<1>18. Background!Deliver(a) => Work!Deliver(a)
    BY <1>8, <1>9, <1>10, <1>11, <1>12, <1>13, <1>14 DEF Background!Deliver, Work!Deliver
<1>19. Background!WorkerStep(a) => Work!WorkerStep(a)
    BY <1>1, <1>2, <1>3, <1>4, <1>5, <1>6, <1>7, <1>18
    DEF Background!WorkerStep, Work!WorkerStep
<1>20. QED
    BY <1>15, <1>16, <1>17, <1>18, <1>19 DEF Background!Death, Work!Death

\* The gateway's calls of the queue.
LEMMA SameGateway ==
    ASSUME NEW t \in Task
    PROVE  /\ \A payload : Background!Submit(t, payload) => Work!Submit(t, payload)
           /\ Background!Approve(t) => Work!Approve(t)
           /\ Background!SaveCard(t) => Work!SaveCard(t)
           /\ Background!GatewayTears(t) => Work!GatewayTears(t)
<1> USE DEF Background!chat, Work!chat, Background!Queue!Put, Work!Queue!Put,
            Background!Queue!Whole, Work!Queue!Whole, Background!CardUnsaved,
            Work!CardUnsaved, Background!Whole, Work!Whole
<1>1. ASSUME NEW payload, Background!Submit(t, payload)
      PROVE  Work!Submit(t, payload)
    BY <1>1, SameRequests
    DEF Background!Submit, Work!Submit, Background!Queue!Enqueue, Work!Queue!Enqueue,
        Background!Queue!EnqueuedRecord, Work!Queue!EnqueuedRecord,
        Background!Queue!EnqueuedStatus, Work!Queue!EnqueuedStatus
<1>2. Background!Approve(t) => Work!Approve(t)
    BY DEF Background!Approve, Work!Approve, Background!Queue!Approve, Work!Queue!Approve,
           Background!Queue!AwaitingApproval, Work!Queue!AwaitingApproval,
           Background!Queue!ApprovedRecord, Work!Queue!ApprovedRecord
<1>3. Background!SaveCard(t) => Work!SaveCard(t)
    BY DEF Background!SaveCard, Work!SaveCard, Background!Queue!MarkApprovalCard,
           Work!Queue!MarkApprovalCard, Background!Queue!ApprovalCardRecord,
           Work!Queue!ApprovalCardRecord
<1>4. Background!GatewayTears(t) => Work!GatewayTears(t)
    BY SameRequests
    DEF Background!GatewayTears, Work!GatewayTears, Background!GatewayRewrites,
        Work!GatewayRewrites, Background!AwaitingApproval, Work!AwaitingApproval
<1>5. QED
    BY <1>1, <1>2, <1>3, <1>4

-----------------------------------------------------------------------------
(* What a step leaves. *)

\* What the queue has decided of u stands, or its record is torn.
StandsStill(u) == \A action \in Action : Stands(u, action) => Stands(u, action)'

\* Clicks are not forgotten.
ClicksStay ==
    \A c \in Commands : command[c].clicked =>
        /\ command'[c].clicked
        /\ command'[c].task = command[c].task
        /\ command'[c].action = command[c].action
        /\ command'[c].user = command[c].user

\* A step that decides nothing of u and says nothing of it but what stands.
Goes(u) ==
    /\ StandsStill(u)
    /\ Decided(u)' => Decided(u)
    /\ told'[u] = told[u]
    /\ deciders'[u] = deciders[u]
    /\ "rejected" \in told[u] /\ NeverRun(u) => NeverRun(u)'
    /\ face'[u] = "approved" =>
        face[u] = "approved" \/ Stands(u, "approve")' \/ Clicked(u, "approve")'
    /\ face'[u] = "rejected" =>
        face[u] = "rejected" \/ Stands(u, "reject")' \/ Clicked(u, "reject")'

LEMMA ClickStays ==
    ASSUME ClicksStay, NEW t, NEW action, Clicked(t, action)
    PROVE  Clicked(t, action)'
    BY DEF ClicksStay, Clicked, approval_action_allowed

LEMMA TaskKept ==
    ASSUME NEW u \in Task, TaskInv(u), Goes(u), ClicksStay
    PROVE  TaskInv(u)'
<1>1. "approve" \in Action /\ "reject" \in Action
    BY DEF Action
<1>2. /\ "approved" \in told'[u] => Stands(u, "approve")'
      /\ "rejected" \in told'[u] =>
            Stands(u, "reject")' /\ NeverRun(u)' /\ deciders'[u] # {}
      /\ told'[u] # {"approved", "rejected"}
    BY <1>1 DEF TaskInv, Goes, StandsStill
<1>3. /\ Decided(u)' => deciders'[u] # {}
      /\ AllowedUsers # {} => deciders'[u] \cap Users \subseteq AllowedUsers
    BY DEF TaskInv, Goes
<1>4. /\ face'[u] = "approved" => Stands(u, "approve")' \/ Clicked(u, "approve")'
      /\ face'[u] = "rejected" => Stands(u, "reject")' \/ Clicked(u, "reject")'
    BY <1>1, ClickStays DEF TaskInv, Goes, StandsStill
<1>5. QED
    BY <1>2, <1>3, <1>4 DEF TaskInv

\* What does not change goes on.
LEMMA Undisturbed ==
    ASSUME NEW u \in Task, UNCHANGED <<actor, runs>>,
           records'[u] = records[u], face'[u] = face[u],
           told'[u] = told[u], deciders'[u] = deciders[u]
    PROVE  Goes(u)
    BY DEF Goes, StandsStill, Stands, Approved, Rejected, Decided, NeverRun, Work!Taken,
           Work!Busy

\* What a command still has to do stays right.
LEMMA CommandKept ==
    ASSUME NEW c \in Commands, CommandInv(c), GatewayTypes, \A u \in Task : StandsStill(u),
           command'[c] = command[c] \/ command'[c] = [command[c] EXCEPT !.edit = FALSE]
    PROVE  CommandInv(c)'
<1>1. command[c] \in CommandType
    BY DEF GatewayTypes
<1>2. /\ command'[c].task = command[c].task /\ command'[c].user = command[c].user
      /\ command'[c].action = command[c].action /\ command'[c].clicked = command[c].clicked
      /\ command'[c].callback = command[c].callback
      /\ command'[c].handle = command[c].handle
      /\ command'[c].edit => command[c].edit
      /\ command[c].action \in Action
    BY <1>1 DEF CommandType
<1>3. CASE command'[c].edit
    BY <1>2, <1>3 DEF CommandInv, StandsStill
<1>4. CASE ~command'[c].edit
    BY <1>2, <1>4 DEF CommandInv
<1>5. QED
    BY <1>3, <1>4

\* The records of the queue that are advanced keep what was decided (queue.py:93-141).
LEMMA AdvanceFacts ==
    ASSUME NEW u \in Task, Work!Advances(u)
    PROVE  StandsStill(u) /\ (Decided(u)' => Decided(u))
<1>1. CASE records'[u] = records[u]
    BY <1>1 DEF StandsStill, Stands, Approved, Rejected, Decided
<1>2. CASE records'[u] = Torn
    BY <1>2, FileAssumption DEF StandsStill, Stands, Decided
<1>3. CASE /\ records[u] \in TaskRecord /\ records'[u] \in TaskRecord
           /\ records'[u].mode = records[u].mode
           /\ records'[u].approved = records[u].approved
           /\ \/ records'[u].status = records[u].status
              \/ records[u].status \in {"QUEUED"} \cup Ran /\ records'[u].status \in Ran
    BY <1>3, FileAssumption
    DEF StandsStill, Stands, Approved, Rejected, Decided, Ran, FINAL_STATUSES
<1>4. QED
    BY <1>1, <1>2, <1>3, SameNames DEF Work!Advances

\* The actors decide nothing, and the gateway waits.
LEMMA ActorKeeps ==
    ASSUME IInv, NEW a \in Workers \cup Tools, Work!ActorStep(a), UNCHANGED gateway
    PROVE  IInv'
<1>1. a \in Work!Actor /\ Work!IInv
    BY SameNames DEF IInv
<1>2. Work!IInv'
    BY <1>1, Work!ActorStepInv, WorkAssumptions DEF Work!ActorStepInv
<1>3. \A u \in Task : StandsStill(u) /\ (Decided(u)' => Decided(u))
    BY <1>1, Work!RecordsAdvance, WorkAssumptions, AdvanceFacts DEF Work!RecordsAdvance
<1>4. ASSUME NEW u \in Task, "rejected" \in told[u], NeverRun(u)
      PROVE  NeverRun(u)'
  <2>1. Stands(u, "reject")
    BY <1>4 DEF IInv, TaskInv
  <2>2. ~Work!Waiting(u)
    BY <2>1, FileAssumption DEF Stands, Rejected, Work!Waiting, Work!Whole
  <2>3. ~Work!Taken(u)' /\ runs'[u] = runs[u]
    BY <1>1, <1>4, <2>2, Work!UntakenStays, WorkAssumptions
    DEF Work!UntakenStays, NeverRun
  <2>4. QED
    BY <1>4, <2>3 DEF NeverRun
<1>5. \A u \in Task : face'[u] \in {face[u], "RUNNING"} \cup FINAL_STATUSES
    BY <1>1, Work!ActorShows, WorkAssumptions, SameNames DEF Work!ActorShows
<1>6. \A u \in Task : Goes(u)
    BY <1>3, <1>4, <1>5 DEF Goes, gateway, FINAL_STATUSES
<1>7. ClicksStay
    BY DEF ClicksStay, gateway
<1>8. \A c \in Commands : CommandInv(c)'
    BY <1>3, CommandKept DEF IInv, gateway
<1>9. GatewayTypes'
    BY DEF IInv, GatewayTypes, gateway
<1>10. QED
    BY <1>2, <1>6, <1>7, <1>8, <1>9, TaskKept DEF IInv

-----------------------------------------------------------------------------
(* What the gateway's steps have in common. *)

\* A step that writes no record keeps the invariant, if what it shows and leaves to
\* do agrees with the queue.
LEMMA FaceKeeps ==
    ASSUME IInv, UNCHANGED <<notCard, deciders, told>>,
           face' \in [Task -> Face],
           \A u \in Task : face'[u] = face[u] \/ face'[u] \notin FINAL_STATUSES,
           \A u \in Task :
             /\ face'[u] = "approved" =>
                  face[u] = "approved" \/ Stands(u, "approve")' \/ Clicked(u, "approve")'
             /\ face'[u] = "rejected" =>
                  face[u] = "rejected" \/ Stands(u, "reject")' \/ Clicked(u, "reject")',
           GatewayTypes', ClicksStay,
           \A c \in Commands : CommandInv(c)'
    PROVE  IInv'
<1>1. Work!IInv'
    BY Work!FaceInv, WorkAssumptions, SameNames DEF Work!FaceInv, IInv, notCard
<1>2. \A u \in Task : Goes(u)
    BY DEF Goes, StandsStill, Stands, Approved, Rejected, Decided, NeverRun, Work!Taken,
           Work!Busy, notCard
<1>3. QED
    BY <1>1, <1>2, TaskKept DEF IInv

\* The face of the card is one of Face.
LEMMA FaceType ==
    ASSUME IInv
    PROVE  face \in [Task -> Face]
    BY SameNames DEF IInv, Work!IInv, Work!TypeInv

\* A step of the gateway that only starts, ends or loses something to do.
LEMMA QuietKeeps ==
    ASSUME IInv, UNCHANGED <<background, deciders, told>>, GatewayTypes', ClicksStay,
           \A c \in Commands : CommandInv(c)'
    PROVE  IInv'
<1>1. UNCHANGED <<notCard, deciders, told, face>>
    BY DEF background, notCard
<1>2. QED
    BY <1>1, FaceKeeps, FaceType

\* A step that writes or tears one record, and decides nothing.
LEMMA WriteKeeps ==
    ASSUME IInv, Work!IInv', NEW t \in Task, Work!Writes(t) \/ Work!Tears(t),
           StandsStill(t), Decided(t)' => Decided(t),
           UNCHANGED <<actor, runs, face, command, deciders, told>>, GatewayTypes'
    PROVE  IInv'
<1>1. \A u \in Task \ {t} : records'[u] = records[u]
    BY DEF Work!Writes, Work!Tears
<1>2. \A u \in Task : Goes(u)
  <2>1. Goes(t)
    BY DEF Goes, NeverRun, Work!Taken, Work!Busy
  <2>2. \A u \in Task \ {t} : Goes(u)
    BY <1>1, Undisturbed
  <2>3. QED
    BY <2>1, <2>2
<1>3. ClicksStay
    BY DEF ClicksStay
<1>4. \A c \in Commands : CommandInv(c)'
    BY <1>2, CommandKept DEF Goes, IInv
<1>5. QED
    BY <1>2, <1>3, <1>4, TaskKept DEF IInv

\* What is done to one command leaves the others to do what they did.
LEMMA OneCommand ==
    ASSUME IInv, NEW c \in Commands, NEW k \in CommandType,
           command' = [command EXCEPT ![c] = k],
           command[c].clicked =>
             k.clicked /\ k.task = command[c].task /\ k.action = command[c].action
             /\ k.user = command[c].user
    PROVE  /\ command' \in [Commands -> CommandType]
           /\ command'[c] = k
           /\ \A d \in Commands \ {c} : command'[d] = command[d]
           /\ ClicksStay
<1>1. /\ command' \in [Commands -> CommandType]
      /\ command'[c] = k
      /\ \A d \in Commands \ {c} : command'[d] = command[d]
    BY DEF IInv, GatewayTypes
<1>2. QED
    BY <1>1 DEF ClicksStay

-----------------------------------------------------------------------------
(* The card is sent and saved, or not. *)

\* A new task has no decision, and nobody was told of one (feishu_router.py:311-341).
LEMMA DispatchKeeps ==
    ASSUME IInv, NEW t \in Task, NEW payload \in Payloads, Dispatch(t, payload)
    PROVE  IInv'
<1>1. Work!Submit(t, payload) /\ Work!IInv
    BY SameGateway DEF Dispatch, IInv
<1>2. Work!IInv'
    BY <1>1, Work!SubmitInv, WorkAssumptions DEF Work!SubmitInv
<1>3. /\ records[t] = Absent /\ Work!Writes(t)
      /\ records'[t].status \notin Ran
      /\ records'[t].mode = "write" => records'[t].status # "QUEUED"
    BY <1>1, Work!EnqueueEffect, WorkAssumptions, SameNames
    DEF Work!EnqueueEffect, Work!Submit, Work!IInv
<1>4. records'[t].mode = "write" => records'[t].status \in {"BLOCKED", "APPROVAL_REQUIRED"}
  <2> DEFINE new == EnqueuedRecord(t, payload)
  <2>1. records' = [records EXCEPT ![t] = new]
    BY DEF Dispatch, Background!Submit, Background!Queue!Enqueue, Background!Queue!Put,
           Background!Queue!EnqueuedRecord, Background!Queue!EnqueuedStatus,
           EnqueuedRecord, EnqueuedStatus
  <2>2. new.mode = "write" => new.status \in {"BLOCKED", "APPROVAL_REQUIRED"}
    BY DEF EnqueuedRecord, EnqueuedStatus
  <2>3. records \in [Task -> Work!TaskRecord \cup {Absent, Torn}]
    BY Work!QueueType, WorkAssumptions DEF Work!QueueType, IInv, Work!IInv, Work!TypeInv
  <2>4. QED
    BY <2>1, <2>2, <2>3
<1>5. StandsStill(t) /\ ~Decided(t)'
    BY <1>3, <1>4, FileAssumption DEF StandsStill, Stands, Approved, Rejected, Decided
<1>6. UNCHANGED <<actor, runs, face, command, deciders, told>>
    BY DEF Dispatch, Background!Submit, Background!chat
<1>7. GatewayTypes'
    BY <1>6 DEF IInv, GatewayTypes, Dispatch
<1>8. QED
    BY <1>2, <1>3, <1>5, <1>6, <1>7, WriteKeeps

\* The new card asks; it tells nothing (feishu_router.py:375-391).
LEMMA ShowCardKeeps ==
    ASSUME IInv, NEW t \in Task, ShowCard(t)
    PROVE  IInv'
<1>1. /\ face' \in [Task -> Face]
      /\ \A u \in Task : face'[u] \in {face[u], "approval"}
    BY FaceType DEF ShowCard, Face
<1>2. GatewayTypes' /\ ClicksStay /\ UNCHANGED <<notCard, command, deciders, told>>
    BY DEF ShowCard, IInv, GatewayTypes, ClicksStay
<1>3. \A c \in Commands : CommandInv(c)'
    BY <1>2, CommandKept
    DEF IInv, StandsStill, Stands, Approved, Rejected, notCard
<1>4. QED
    BY <1>1, <1>2, <1>3, FaceKeeps DEF FINAL_STATUSES

\* The card is saved at any time (feishu_router.py:392, queue.py:125-132).
LEMMA SaveCardKeeps ==
    ASSUME IInv, NEW t \in Task, SaveCard(t)
    PROVE  IInv'
<1>1. Work!SaveCard(t) /\ Work!IInv
    BY SameGateway DEF SaveCard, IInv
<1>2. Work!IInv'
    BY <1>1, Work!SaveCardInv, WorkAssumptions DEF Work!SaveCardInv
<1>3. /\ Work!Writes(t) /\ Work!KeepsRest(t)
      /\ records'[t].status = records[t].status
      /\ records'[t].approved = records[t].approved
    BY <1>1, Work!CardEffect, WorkAssumptions DEF Work!CardEffect, Work!SaveCard, Work!IInv
<1>4. Work!Advances(t)
    BY <1>3 DEF Work!Advances, Work!Writes, Work!KeepsRest
<1>5. UNCHANGED <<actor, runs, face, command, deciders, told>>
    BY DEF SaveCard, Background!SaveCard, Background!chat
<1>6. GatewayTypes'
    BY <1>5 DEF IInv, GatewayTypes, SaveCard
<1>7. QED
    BY <1>2, <1>3, <1>4, <1>5, <1>6, AdvanceFacts, WriteKeeps

\* A command that is left as it is, or loses its edit, is right still.
LEMMA CommandsLeft ==
    ASSUME IInv, UNCHANGED records,
           \A c \in Commands : \/ command'[c] = command[c]
                               \/ command'[c] = [command[c] EXCEPT !.edit = FALSE]
    PROVE  ClicksStay /\ \A c \in Commands : CommandInv(c)'
<1>1. \A u \in Task : StandsStill(u)
    BY DEF StandsStill, Stands, Approved, Rejected
<1>2. \A c \in Commands : command[c] \in CommandType
    BY DEF IInv, GatewayTypes
<1>3. ClicksStay
    BY <1>2 DEF ClicksStay, CommandType
<1>4. QED
    BY <1>1, <1>3, CommandKept DEF IInv

\* A send that fails leaves the card without an id (feishu_router.py:393-400).
LEMMA LoseCardKeeps ==
    ASSUME IInv, NEW t \in Task, LoseCard(t)
    PROVE  IInv'
<1>1. GatewayTypes' /\ UNCHANGED <<background, command, deciders, told>>
    BY DEF LoseCard, IInv, GatewayTypes
<1>2. QED
    BY <1>1, CommandsLeft, QuietKeeps DEF background

\* The gateway dies between two handlers.
LEMMA GatewayDiesKeeps ==
    ASSUME IInv, GatewayDies
    PROVE  IInv'
<1>1. UNCHANGED <<background, deciders, told>>
    BY DEF GatewayDies
<1>2. \A c \in Commands : command'[c] = [command[c] EXCEPT !.edit = FALSE]
    BY DEF GatewayDies
<1>3. GatewayTypes'
  <2>1. command' \in [Commands -> CommandType]
    <3>1. \A c \in Commands : command[c] \in CommandType
      BY DEF IInv, GatewayTypes
    <3>2. \A k \in CommandType : [k EXCEPT !.edit = FALSE] \in CommandType
      BY DEF CommandType
    <3>3. QED
      BY <3>1, <3>2 DEF GatewayDies
  <2>2. sending' \in [Task -> {"none", "sending", "sent", "over"}]
    BY DEF GatewayDies
  <2>3. QED
    BY <1>1, <2>1, <2>2 DEF IInv, GatewayTypes
<1>4. QED
    BY <1>1, <1>2, <1>3, CommandsLeft, QuietKeeps DEF background

\* The gateway dies in the middle of a write (artifacts.py:26).
LEMMA TearRecordKeeps ==
    ASSUME IInv, NEW t \in Task, TearRecord(t)
    PROVE  IInv'
<1>1. Work!GatewayTears(t) /\ Work!IInv
    BY SameGateway DEF TearRecord, IInv
<1>2. Work!IInv'
    BY <1>1, Work!GatewayTearsInv, WorkAssumptions DEF Work!GatewayTearsInv
<1>3. Work!Tears(t)
    BY <1>1, Work!TearEffect, WorkAssumptions
    DEF Work!TearEffect, Work!GatewayTears, Work!IInv
<1>4. StandsStill(t) /\ ~Decided(t)'
    BY <1>3, FileAssumption DEF Work!Tears, StandsStill, Stands, Decided
<1>5. UNCHANGED <<actor, runs, face>> /\ UNCHANGED gateway
    BY DEF TearRecord, Background!GatewayTears, Background!chat
<1>6. GatewayTypes'
    BY <1>5 DEF IInv, GatewayTypes, gateway
<1>7. QED
    BY <1>2, <1>3, <1>4, <1>5, <1>6, WriteKeeps DEF gateway

-----------------------------------------------------------------------------
(* Commands and clicks. *)

\* A new command has its callback only from a click, and no edit yet.
LEMMA IssueKeeps ==
    ASSUME IInv, NEW c \in Commands, NEW t \in Task, NEW user \in Users,
           NEW action \in Action, NEW clicked \in BOOLEAN,
           Issue(c, t, user, action, clicked)
    PROVE  IInv'
<1> DEFINE k == [task |-> t, user |-> user, action |-> action, clicked |-> clicked,
                 callback |-> clicked, handle |-> TRUE, edit |-> FALSE]
<1>1. /\ k \in CommandType /\ k.task = t /\ k.user = user /\ k.clicked = clicked
      /\ k.callback = clicked /\ k.edit = FALSE
    BY DEF CommandType
<1>2. /\ command' = [command EXCEPT ![c] = k]
      /\ command[c].clicked = FALSE
      /\ UNCHANGED <<background, sending, deciders, told>>
    BY DEF Issue, NoCommand
<1> HIDE DEF k
<1>3. /\ command' \in [Commands -> CommandType] /\ command'[c] = k
      /\ \A d \in Commands \ {c} : command'[d] = command[d]
      /\ ClicksStay
    BY <1>1, <1>2, OneCommand
<1>4. CommandInv(c)'
    BY <1>1, <1>3 DEF CommandInv
<1>5. \A d \in Commands \ {c} : CommandInv(d)'
  <2>1. \A u \in Task : StandsStill(u)
    BY <1>2 DEF StandsStill, Stands, Approved, Rejected, background
  <2>2. QED
    BY <1>3, <2>1, CommandKept DEF IInv
<1>6. GatewayTypes'
    BY <1>2, <1>3 DEF IInv, GatewayTypes
<1>7. QED
    BY <1>2, <1>3, <1>4, <1>5, <1>6, QuietKeeps

\* What a step does to one command only.
LEMMA CommandStep ==
    ASSUME IInv, UNCHANGED records, NEW c \in Commands, NEW k \in CommandType,
           command' = [command EXCEPT ![c] = k],
           k.task = command[c].task, k.user = command[c].user,
           k.action = command[c].action, k.clicked = command[c].clicked,
           k.callback => command[c].callback,
           k.handle => command[c].handle,
           k.edit => command[c].edit
    PROVE  /\ command' \in [Commands -> CommandType] /\ ClicksStay
           /\ \A d \in Commands : CommandInv(d)'
<1>1. /\ command' \in [Commands -> CommandType] /\ command'[c] = k
      /\ \A d \in Commands \ {c} : command'[d] = command[d]
      /\ ClicksStay
    BY OneCommand
<1>2. \A u \in Task : StandsStill(u)
    BY DEF StandsStill, Stands, Approved, Rejected
<1>3. \A d \in Commands \ {c} : CommandInv(d)'
    BY <1>1, <1>2, CommandKept DEF IInv
<1>4. CommandInv(c)'
  <2>1. CommandInv(c) /\ k.action \in Action
    BY DEF IInv, CommandType
  <2>2. CASE k.edit
    BY <1>1, <1>2, <2>1, <2>2 DEF CommandInv, StandsStill
  <2>3. CASE ~k.edit
    BY <1>1, <2>1, <2>3 DEF CommandInv
  <2>4. QED
    BY <2>2, <2>3
<1>5. QED
    BY <1>1, <1>3, <1>4

\* The callback shows the action that somebody has clicked (feishu_router.py:35-60).
LEMMA CardCallbackKeeps ==
    ASSUME IInv, NEW c \in Commands, CardCallback(c)
    PROVE  IInv'
<1>1. PICK t : t = command[c].task
    OBVIOUS
<1> DEFINE k == [command[c] EXCEPT !.callback = FALSE]
           shows == IF approval_action_allowed(command[c].user)
                    THEN Verdict(command[c].action) ELSE "denied"
<1>2. command[c] \in CommandType /\ CommandInv(c)
    BY DEF IInv, GatewayTypes
<1>3. /\ k \in CommandType /\ k.task = t /\ k.user = command[c].user
      /\ k.action = command[c].action /\ k.clicked = command[c].clicked
      /\ k.callback = FALSE /\ k.handle = command[c].handle /\ k.edit = command[c].edit
    BY <1>1, <1>2 DEF CommandType
<1>4. /\ command' = [command EXCEPT ![c] = k]
      /\ face' = [face EXCEPT ![t] = shows]
      /\ UNCHANGED <<notCard, sending, deciders, told>>
    BY <1>1 DEF CardCallback
<1> HIDE DEF k
<1>5. /\ command' \in [Commands -> CommandType] /\ ClicksStay
      /\ \A d \in Commands : CommandInv(d)'
    BY <1>1, <1>3, <1>4, CommandStep DEF notCard
<1>6. /\ command[c].clicked /\ t \in Task
      /\ command[c].action \in Action
    BY <1>1, <1>2 DEF CardCallback, CommandInv, CommandType
<1>7. /\ shows \in {"approved", "rejected", "denied"}
      /\ shows = "approved" => Clicked(t, "approve")
      /\ shows = "rejected" => Clicked(t, "reject")
    BY <1>1, <1>6 DEF Verdict, Action, Clicked
<1> HIDE DEF shows
<1>8. /\ face' \in [Task -> Face]
      /\ face'[t] = shows
      /\ \A u \in Task \ {t} : face'[u] = face[u]
    BY <1>4, <1>6, <1>7, FaceType DEF Face
<1>9. /\ shows = "approved" => Clicked(t, "approve")'
      /\ shows = "rejected" => Clicked(t, "reject")'
    BY <1>5, <1>7, ClickStays
<1>10. GatewayTypes'
    BY <1>4, <1>5 DEF IInv, GatewayTypes
<1>11. \A u \in Task : face'[u] = face[u] \/ face'[u] \notin FINAL_STATUSES
    BY <1>7, <1>8 DEF FINAL_STATUSES
<1>12. \A u \in Task :
         /\ face'[u] = "approved" =>
              face[u] = "approved" \/ Stands(u, "approve")' \/ Clicked(u, "approve")'
         /\ face'[u] = "rejected" =>
              face[u] = "rejected" \/ Stands(u, "reject")' \/ Clicked(u, "reject")'
    BY <1>8, <1>9
<1>13. QED
    BY <1>4, <1>5, <1>8, <1>10, <1>11, <1>12, FaceKeeps

\* The edit a handler has started shows what the queue has decided
\* (feishu_router.py:632-663).
LEMMA EditCardKeeps ==
    ASSUME IInv, NEW c \in Commands, EditCard(c)
    PROVE  IInv'
<1>1. PICK t : t = command[c].task
    OBVIOUS
<1> DEFINE k == [command[c] EXCEPT !.edit = FALSE]
           shows == Verdict(command[c].action)
<1>2. command[c] \in CommandType /\ CommandInv(c)
    BY DEF IInv, GatewayTypes
<1>3. /\ k \in CommandType /\ k.task = t /\ k.user = command[c].user
      /\ k.action = command[c].action /\ k.clicked = command[c].clicked
      /\ k.callback = command[c].callback /\ k.handle = command[c].handle
      /\ k.edit = FALSE
    BY <1>1, <1>2 DEF CommandType
<1>4. /\ command' = [command EXCEPT ![c] = k]
      /\ face' = [face EXCEPT ![t] = shows] \/ UNCHANGED face
      /\ UNCHANGED <<notCard, sending, deciders, told>>
    BY <1>1 DEF EditCard
<1> HIDE DEF k
<1>5. /\ command' \in [Commands -> CommandType] /\ ClicksStay
      /\ \A d \in Commands : CommandInv(d)'
    BY <1>1, <1>3, <1>4, CommandStep DEF notCard
<1>6. /\ t \in Task /\ command[c].action \in Action
      /\ Stands(t, command[c].action)
    BY <1>1, <1>2 DEF EditCard, CommandInv, CommandType
<1>7. /\ shows \in {"approved", "rejected"}
      /\ shows = "approved" => Stands(t, "approve")
      /\ shows = "rejected" => Stands(t, "reject")
    BY <1>6 DEF Verdict, Action
<1> HIDE DEF shows
<1>8. /\ face' \in [Task -> Face]
      /\ face'[t] \in {face[t], shows}
      /\ \A u \in Task \ {t} : face'[u] = face[u]
    BY <1>4, <1>6, <1>7, FaceType DEF Face
<1>9. /\ shows = "approved" => Stands(t, "approve")'
      /\ shows = "rejected" => Stands(t, "reject")'
    BY <1>4, <1>7 DEF Stands, Approved, Rejected, notCard
<1>10. GatewayTypes'
    BY <1>4, <1>5 DEF IInv, GatewayTypes
<1>11. \A u \in Task : face'[u] = face[u] \/ face'[u] \notin FINAL_STATUSES
    BY <1>7, <1>8 DEF FINAL_STATUSES
<1>12. \A u \in Task :
         /\ face'[u] = "approved" =>
              face[u] = "approved" \/ Stands(u, "approve")' \/ Clicked(u, "approve")'
         /\ face'[u] = "rejected" =>
              face[u] = "rejected" \/ Stands(u, "reject")' \/ Clicked(u, "reject")'
    BY <1>8, <1>9
<1>13. QED
    BY <1>4, <1>5, <1>8, <1>10, <1>11, <1>12, FaceKeeps

\* A refusal changes nothing but the command (feishu_router.py:173-208).
LEMMA RefuseKeeps ==
    ASSUME IInv, NEW c \in Commands, Refuse(c)
    PROVE  IInv'
<1> DEFINE k == [command[c] EXCEPT !.handle = FALSE]
<1>1. command[c] \in CommandType
    BY DEF IInv, GatewayTypes
<1>2. /\ k \in CommandType /\ k.task = command[c].task /\ k.user = command[c].user
      /\ k.action = command[c].action /\ k.clicked = command[c].clicked
      /\ k.callback = command[c].callback /\ k.handle = FALSE
      /\ k.edit = command[c].edit
    BY <1>1 DEF CommandType
<1>3. /\ command' = [command EXCEPT ![c] = k]
      /\ UNCHANGED <<background, sending, deciders, told>>
    BY DEF Refuse
<1> HIDE DEF k
<1>4. /\ command' \in [Commands -> CommandType] /\ ClicksStay
      /\ \A d \in Commands : CommandInv(d)'
    BY <1>2, <1>3, CommandStep DEF background
<1>5. GatewayTypes'
    BY <1>3, <1>4 DEF IInv, GatewayTypes
<1>6. QED
    BY <1>3, <1>4, <1>5, QuietKeeps

-----------------------------------------------------------------------------
(* Decisions. *)

\* Of a task that waits for approval nobody was told anything, and nobody runs it.
LEMMA Undecided ==
    ASSUME IInv, NEW t \in Task,
           records[t] \in TaskRecord, records[t].status = "APPROVAL_REQUIRED"
    PROVE  /\ told[t] = {}
           /\ \A action \in Action : ~Stands(t, action)
           /\ NeverRun(t)
<1>1. \A action \in Action : ~Stands(t, action)
    BY FileAssumption DEF Stands, Approved, Rejected, Ran, FINAL_STATUSES
<1>2. told[t] = {}
    BY <1>1 DEF IInv, TaskInv, GatewayTypes, Action
<1>3. Work!Whole(records[t])
    BY FileAssumption DEF Work!Whole
<1>4. runs[t] = 0
    BY <1>3, SameNames
    DEF IInv, Work!IInv, Work!TaskInv, Work!TypeInv, Ran, FINAL_STATUSES
<1>5. ~Work!Taken(t)
    BY <1>3, SameNames
    DEF IInv, Work!IInv, Work!HoldInv, Work!Taken, Ran, FINAL_STATUSES
<1>6. QED
    BY <1>1, <1>2, <1>4, <1>5 DEF NeverRun

\* A decision that the queue takes stands, whoever is told of it.
LEMMA DecisionKeeps ==
    ASSUME IInv, Work!IInv', NEW t \in Task, Work!Writes(t),
           records[t] \in TaskRecord, records[t].status = "APPROVAL_REQUIRED",
           NEW action \in Action, Stands(t, action)',
           UNCHANGED <<actor, runs, face>>,
           NEW who \in Users \cup {"approve_agent_task"},
           deciders' = [deciders EXCEPT ![t] = @ \cup {who}],
           AllowedUsers # {} /\ who \in Users => who \in AllowedUsers,
           \/ told' = [told EXCEPT ![t] = @ \cup {Verdict(action)}]
           \/ UNCHANGED told,
           GatewayTypes', ClicksStay, \A c \in Commands : CommandInv(c)'
    PROVE  IInv'
<1>1. /\ told[t] = {}
      /\ \A other \in Action : ~Stands(t, other)
      /\ NeverRun(t)
    BY Undecided
<1>2. /\ deciders'[t] = deciders[t] \cup {who}
      /\ told'[t] \in {{}, {Verdict(action)}}
      /\ \A u \in Task \ {t} : told'[u] = told[u] /\ deciders'[u] = deciders[u]
    BY <1>1 DEF IInv, GatewayTypes
<1>3. TaskInv(t)'
  <2>1. NeverRun(t)'
    BY <1>1 DEF NeverRun, Work!Taken, Work!Busy
  <2>2. Verdict(action) = "approved" => action = "approve"
    BY DEF Verdict
  <2>3. Verdict(action) = "rejected" => action = "reject"
    BY DEF Verdict, Action
  <2>4. /\ "approved" \in told'[t] => Stands(t, "approve")'
        /\ "rejected" \in told'[t] => Stands(t, "reject")'
    BY <1>2, <2>2, <2>3
  <2>5. told'[t] # {"approved", "rejected"}
    BY <1>2
  <2>6. /\ deciders'[t] # {}
        /\ AllowedUsers # {} => deciders'[t] \cap Users \subseteq AllowedUsers
    BY <1>2 DEF IInv, TaskInv
  <2>7. /\ face'[t] = "approved" => Clicked(t, "approve")'
        /\ face'[t] = "rejected" => Clicked(t, "reject")'
    BY <1>1, ClickStays DEF IInv, TaskInv, Action
  <2>8. QED
    BY <2>1, <2>4, <2>5, <2>6, <2>7 DEF TaskInv
<1>4. \A u \in Task \ {t} : TaskInv(u)'
    BY <1>2, Undisturbed, TaskKept DEF Work!Writes, IInv
<1>5. QED
    BY <1>3, <1>4 DEF IInv

\* approve() as the actors know it (queue.py:55-73).
LEMMA ApproveFacts ==
    ASSUME IInv, NEW t \in Task, Work!Approve(t)
    PROVE  /\ Work!IInv' /\ Work!Writes(t)
           /\ records[t] \in TaskRecord /\ records[t].status = "APPROVAL_REQUIRED"
           /\ Stands(t, "approve")'
           /\ UNCHANGED <<actor, runs, face>>
<1>1. Work!IInv' /\ UNCHANGED <<actor, runs, face>>
    BY Work!ApproveInv, WorkAssumptions DEF Work!ApproveInv, IInv, Work!Approve, Work!chat
<1>2. /\ Work!Writes(t) /\ Work!KeepsRest(t)
      /\ records[t].status = "APPROVAL_REQUIRED"
      /\ records'[t].status = "QUEUED"
      /\ records'[t].approved
    BY Work!ApproveEffect, WorkAssumptions
    DEF Work!ApproveEffect, Work!Approve, IInv, Work!IInv
<1>3. QED
    BY <1>1, <1>2, SameNames DEF Work!Writes, Work!KeepsRest, Stands, Approved

\* reject(), which no actor takes for a task of its own (queue.py:75-91).
LEMMA RejectFacts ==
    ASSUME IInv, NEW t \in Task, Queue!Reject(t),
           UNCHANGED <<actor, runs, face, shown, outcomes, abandoned>>
    PROVE  /\ Work!IInv' /\ Work!Writes(t)
           /\ records[t] \in TaskRecord /\ records[t].status = "APPROVAL_REQUIRED"
           /\ Stands(t, "reject")'
<1> DEFINE new == RejectedRecord(records[t])
<1>1. records \in [Task -> TaskRecord \cup {Absent, Torn}]
    BY Work!QueueType, WorkAssumptions, SameNames
    DEF Work!QueueType, IInv, Work!IInv, Work!TypeInv
<1>2. /\ records[t] \in TaskRecord
      /\ records[t].status = "APPROVAL_REQUIRED"
      /\ records' = [records EXCEPT ![t] = new]
    BY <1>1 DEF Queue!Reject, Queue!Put, Queue!AwaitingApproval, Queue!Whole,
                Queue!RejectedRecord, RejectedRecord
<1>3. /\ new \in TaskRecord
      /\ new.status = "REJECTED"
      /\ new.mode = records[t].mode
      /\ new.delivery_result = records[t].delivery_result
    BY <1>2 DEF RejectedRecord, TaskRecord, Status
<1>4. records'[t] = new /\ Work!Writes(t)
    BY <1>1, <1>2, <1>3, SameNames DEF Work!Writes
<1>5. Work!Whole(records[t]) /\ Work!Whole(records'[t]) /\ records'[t] # Absent
    BY <1>2, <1>3, <1>4, FileAssumption DEF Work!Whole
<1>6. Work!TaskInv(t)
    BY DEF IInv, Work!IInv
<1>7. outcomes[t] = {} /\ records[t].delivery_result # "DELIVERED" /\ runs[t] = 0
    BY <1>2, <1>5, <1>6, SameNames
    DEF Work!TaskInv, IInv, Work!IInv, Work!TypeInv, Ran, FINAL_STATUSES
<1>8. /\ UNCHANGED Work!chat
      /\ Work!TaskInv(t)' /\ Work!Keeps(t) /\ Work!Untouched(t)
  <2>1. UNCHANGED Work!chat /\ (Work!Exposed(t)' <=> Work!Exposed(t))
    BY DEF Work!chat, Work!Exposed
  <2>2. Work!TaskInv(t)'
    BY <1>3, <1>4, <1>5, <1>6, <1>7, <2>1, SameNames
    DEF Work!TaskInv, Ran, FINAL_STATUSES
  <2>3. Work!Keeps(t) /\ Work!Untouched(t)
    BY <1>2, <1>3, <1>4, <1>5, <2>1, SameNames
    DEF Work!Keeps, Work!Untouched, Ran, FINAL_STATUSES
  <2>4. QED
    BY <2>1, <2>2, <2>3
<1>9. Work!IInv'
    BY <1>4, <1>8, Work!GatewayWriteInv, WorkAssumptions DEF Work!GatewayWriteInv, IInv
<1>10. QED
    BY <1>2, <1>3, <1>4, <1>9 DEF Stands, Rejected

\* The agent's tool approves without a reply (tools.py, approve_agent_task).
LEMMA ToolApproveKeeps ==
    ASSUME IInv, NEW t \in Task, ToolApprove(t)
    PROVE  IInv'
<1>1. Work!Approve(t)
    BY SameGateway DEF ToolApprove
<1>2. /\ Work!IInv' /\ Work!Writes(t)
      /\ records[t] \in TaskRecord /\ records[t].status = "APPROVAL_REQUIRED"
      /\ Stands(t, "approve")'
      /\ UNCHANGED <<actor, runs, face>>
    BY <1>1, ApproveFacts
<1>3. /\ deciders' = [deciders EXCEPT ![t] = @ \cup {"approve_agent_task"}]
      /\ UNCHANGED <<sending, command, told>>
    BY DEF ToolApprove
<1>4. \A u \in Task : StandsStill(u)
    BY <1>2, Undecided DEF Work!Writes, StandsStill, Stands, Approved, Rejected
<1>5. ClicksStay /\ \A c \in Commands : CommandInv(c)'
    BY <1>3, <1>4, CommandKept DEF ClicksStay, IInv
<1>6. GatewayTypes'
    BY <1>3 DEF IInv, GatewayTypes
<1>7. "approve" \in Action /\ "approve_agent_task" \notin Users
    BY UserAssumption DEF Action
<1>8. QED
    BY <1>2, <1>3, <1>5, <1>6, <1>7, DecisionKeeps

\* What a reply leaves of its command (feishu_router.py:209-220, 613-630).
LEMMA ConfirmEffect ==
    ASSUME IInv, NEW c \in Commands, command[c].handle, Confirm(c),
           NEW t, t = command[c].task, NEW action, action = command[c].action,
           records'[t] \in TaskRecord,
           \A u \in Task : StandsStill(u),
           Stands(t, action)'
    PROVE  /\ told' = [told EXCEPT ![t] = @ \cup {Verdict(action)}]
           /\ command' \in [Commands -> CommandType]
           /\ told' \in [Task -> SUBSET {"approved", "rejected"}]
           /\ UNCHANGED sending
           /\ ClicksStay
           /\ \A d \in Commands : CommandInv(d)'
<1> DEFINE k1 == [command[c] EXCEPT !.handle = FALSE]
           k == [k1 EXCEPT !.edit = records'[t].approval_card]
<1>1. command[c] \in CommandType /\ CommandInv(c)
    BY DEF IInv, GatewayTypes
<1>2. t \in Task /\ command[c].user \in Users /\ action \in Action
    BY <1>1 DEF CommandInv, CommandType
<1>3. /\ k1 \in CommandType /\ k1.task = t /\ k1.user = command[c].user
      /\ k1.action = action /\ k1.clicked = command[c].clicked
      /\ k1.callback = command[c].callback /\ k1.handle = FALSE
    BY <1>1 DEF CommandType
<1>4. records'[t].approval_card \in BOOLEAN
    BY DEF TaskRecord
<1>5. command' = [command EXCEPT ![c] = k]
    BY DEF Confirm
<1> HIDE DEF k1
<1>6. /\ k \in CommandType /\ k.task = t /\ k.user = command[c].user
      /\ k.action = action /\ k.clicked = command[c].clicked
      /\ k.callback = command[c].callback /\ k.handle = FALSE
    BY <1>3, <1>4 DEF CommandType
<1> HIDE DEF k
<1>7. /\ command' \in [Commands -> CommandType] /\ command'[c] = k
      /\ \A d \in Commands \ {c} : command'[d] = command[d]
      /\ ClicksStay
    BY <1>5, <1>6, OneCommand
<1>8. CommandInv(c)'
    BY <1>1, <1>2, <1>6, <1>7 DEF CommandInv, Stands, Approved, Rejected
<1>9. \A d \in Commands \ {c} : CommandInv(d)'
    BY <1>7, CommandKept DEF IInv
<1>10. told' = [told EXCEPT ![t] = @ \cup {Verdict(action)}] /\ UNCHANGED sending
    BY DEF Confirm
<1>11. told' \in [Task -> SUBSET {"approved", "rejected"}]
    BY <1>2, <1>10 DEF IInv, GatewayTypes, Verdict
<1>12. QED
    BY <1>7, <1>8, <1>9, <1>10, <1>11

\* The queue decides of one task, which was undecided.
LEMMA OthersStand ==
    ASSUME IInv, NEW t \in Task, Work!Writes(t),
           records[t] \in TaskRecord, records[t].status = "APPROVAL_REQUIRED",
           NEW u \in Task
    PROVE  StandsStill(u)
<1>1. CASE u = t
    BY <1>1, Undecided DEF StandsStill
<1>2. CASE u # t
    BY <1>2 DEF Work!Writes, StandsStill, Stands, Approved, Rejected
<1>3. QED
    BY <1>1, <1>2

\* A decision that the queue takes (feishu_router.py:173-220).
LEMMA DecideKeeps ==
    ASSUME IInv, NEW c \in Commands, Decide(c)
    PROVE  IInv'
<1>1. PICK t, action, who : /\ t = command[c].task /\ action = command[c].action
                            /\ who = command[c].user
    OBVIOUS
<1>2. /\ command[c].handle /\ approval_action_allowed(who) /\ Confirm(c)
      /\ deciders' = [deciders EXCEPT ![t] = @ \cup {who}]
      /\ UNCHANGED <<actor, runs, face, shown, outcomes, abandoned>>
      /\ \/ action = "approve" /\ Queue!Approve(t)
         \/ action = "reject" /\ Queue!Reject(t)
    BY <1>1 DEF Decide
<1>3. t \in Task /\ who \in Users /\ action \in Action
  <2>1. command[c] \in CommandType /\ CommandInv(c)
    BY DEF IInv, GatewayTypes
  <2>2. QED
    BY <1>1, <1>2, <2>1 DEF CommandInv, CommandType
<1>4. /\ Work!IInv' /\ Work!Writes(t)
      /\ records[t] \in TaskRecord /\ records[t].status = "APPROVAL_REQUIRED"
      /\ Stands(t, action)'
  <2>1. CASE action = "approve" /\ Queue!Approve(t)
    <3>1. Work!Approve(t)
      BY <1>2, <2>1
      DEF Work!Approve, Work!chat, Queue!Approve, Work!Queue!Approve,
          Queue!AwaitingApproval, Work!Queue!AwaitingApproval, Queue!ApprovedRecord,
          Work!Queue!ApprovedRecord, Queue!Put, Work!Queue!Put, Queue!Whole,
          Work!Queue!Whole
    <3>2. QED
      BY <1>3, <2>1, <3>1, ApproveFacts
  <2>2. CASE action = "reject" /\ Queue!Reject(t)
    BY <1>2, <1>3, <2>2, RejectFacts
  <2>3. QED
    BY <1>2, <2>1, <2>2
<1>5. records'[t] \in TaskRecord
    BY <1>4, SameNames DEF Work!Writes
<1>6. \A u \in Task : StandsStill(u)
    BY <1>3, <1>4, OthersStand
<1>7. /\ told' = [told EXCEPT ![t] = @ \cup {Verdict(action)}]
      /\ command' \in [Commands -> CommandType]
      /\ told' \in [Task -> SUBSET {"approved", "rejected"}]
      /\ UNCHANGED sending
      /\ ClicksStay
      /\ \A d \in Commands : CommandInv(d)'
  <2>1. /\ t = command[c].task /\ action = command[c].action
        /\ command[c].handle /\ Confirm(c) /\ Stands(t, action)'
    BY <1>1, <1>2, <1>4
  <2>2. QED
    BY <1>5, <1>6, <2>1, ConfirmEffect
<1>8. deciders' \in [Task -> SUBSET (Users \cup {"approve_agent_task"})]
    BY <1>2, <1>3 DEF IInv, GatewayTypes
<1>9. GatewayTypes'
    BY <1>7, <1>8 DEF IInv, GatewayTypes
<1>10. AllowedUsers # {} /\ who \in Users => who \in AllowedUsers
    BY <1>2 DEF approval_action_allowed
<1>11. UNCHANGED <<actor, runs, face>> /\ who \in Users \cup {"approve_agent_task"}
    BY <1>2, <1>3
<1>12. QED
    BY <1>2, <1>3, <1>4, <1>7, <1>9, <1>10, <1>11, DecisionKeeps

\* A second approval of a task that waits in the queue (queue.py:58-62).
LEMMA ApproveAgainKeeps ==
    ASSUME IInv, NEW c \in Commands, ApproveAgain(c)
    PROVE  IInv'
<1>1. PICK t : t = command[c].task
    OBVIOUS
<1>2. /\ command[c].handle /\ command[c].action = "approve" /\ Confirm(c)
      /\ Whole(records[t]) /\ AlreadyApproved(records[t])
      /\ UNCHANGED <<background, deciders>>
    BY <1>1 DEF ApproveAgain
<1>3. t \in Task /\ "approve" \in Action
    BY <1>1, <1>2 DEF IInv, GatewayTypes, CommandInv, CommandType
<1>4. Approved(t)
  <2>1. records[t] \in TaskRecord
    BY <1>2, <1>3, Work!QueueType, WorkAssumptions, SameNames
    DEF Work!QueueType, IInv, Work!IInv, Work!TypeInv, Whole
  <2>2. QED
    BY <1>2, <2>1 DEF Approved, AlreadyApproved
<1>5. UNCHANGED <<records, actor, runs, face, notCard>>
    BY <1>2 DEF background, notCard
<1>6. Stands(t, "approve")' /\ \A u \in Task : StandsStill(u)
    BY <1>4, <1>5 DEF Stands, StandsStill, Approved, Rejected
<1>7. /\ told' = [told EXCEPT ![t] = @ \cup {Verdict("approve")}]
      /\ command' \in [Commands -> CommandType]
      /\ told' \in [Task -> SUBSET {"approved", "rejected"}]
      /\ UNCHANGED sending
      /\ ClicksStay
      /\ \A d \in Commands : CommandInv(d)'
  <2>1. records'[t] \in TaskRecord
    BY <1>4, <1>5 DEF Approved
  <2>2. QED
    BY <1>1, <1>2, <1>6, <2>1, ConfirmEffect
<1>8. GatewayTypes'
    BY <1>2, <1>7 DEF IInv, GatewayTypes
<1>9. Work!IInv'
    BY <1>5, Work!FaceInv, WorkAssumptions, SameNames, FaceType
    DEF Work!FaceInv, IInv, notCard
<1>10. \A u \in Task \ {t} : TaskInv(u)'
  <2>1. \A u \in Task \ {t} : told'[u] = told[u]
    BY <1>7 DEF IInv, GatewayTypes
  <2>2. QED
    BY <1>2, <1>5, <1>7, <2>1, Undisturbed, TaskKept DEF IInv
<1>11. TaskInv(t)'
  <2>1. "rejected" \notin told[t]
    BY <1>3, <1>4, FileAssumption
    DEF IInv, TaskInv, Stands, Approved, Rejected, Ran, FINAL_STATUSES
  <2>2. told'[t] = told[t] \cup {"approved"}
    BY <1>3, <1>7 DEF IInv, GatewayTypes, Verdict
  <2>3. "rejected" \notin told'[t]
    BY <2>1, <2>2
  <2>4. Decided(t)' => deciders'[t] # {}
    BY <1>2, <1>3, <1>5 DEF IInv, TaskInv, Decided
  <2>5. AllowedUsers # {} => deciders'[t] \cap Users \subseteq AllowedUsers
    BY <1>2, <1>3 DEF IInv, TaskInv
  <2>6. ~Stands(t, "reject")
    BY <1>4, FileAssumption DEF Stands, Approved, Rejected, Ran, FINAL_STATUSES
  <2>7. face'[t] = "rejected" => Clicked(t, "reject")'
    BY <1>3, <1>5, <1>7, <2>6, ClickStays DEF IInv, TaskInv
  <2>8. QED
    BY <1>6, <2>3, <2>4, <2>5, <2>7 DEF TaskInv
<1>12. QED
    BY <1>7, <1>8, <1>9, <1>10, <1>11 DEF IInv

-----------------------------------------------------------------------------
\* Every step of the gateway keeps the invariant.
LEMMA GatewayStepKeeps ==
    ASSUME IInv, GatewayStep
    PROVE  IInv'
<1>1. ASSUME NEW t \in Task, NEW payload \in Payloads, Dispatch(t, payload)
      PROVE  IInv'
    BY <1>1, DispatchKeeps
<1>2. ASSUME NEW t \in Task,
             ShowCard(t) \/ SaveCard(t) \/ LoseCard(t) \/ ToolApprove(t)
      PROVE  IInv'
    BY <1>2, ShowCardKeeps, SaveCardKeeps, LoseCardKeeps, ToolApproveKeeps
<1>3. ASSUME NEW c \in Commands, NEW t \in Task, NEW user \in Users,
             NEW action \in Action,
             Type(c, t, user, action) \/ Click(c, t, user, action)
      PROVE  IInv'
  <2>1. CASE Type(c, t, user, action)
    BY <2>1, IssueKeeps DEF Type
  <2>2. CASE Click(c, t, user, action)
    BY <2>2, IssueKeeps DEF Click
  <2>3. QED
    BY <1>3, <2>1, <2>2
<1>4. ASSUME NEW c \in Commands,
             \/ CardCallback(c)
             \/ Decide(c)
             \/ ApproveAgain(c)
             \/ Refuse(c)
             \/ EditCard(c)
      PROVE  IInv'
    BY <1>4, CardCallbackKeeps, DecideKeeps, ApproveAgainKeeps, RefuseKeeps, EditCardKeeps
<1>5. QED
    BY <1>1, <1>2, <1>3, <1>4 DEF GatewayStep

\* So do the workers, the calls of deliver_agent_task_result and the deaths.
LEMMA ActorStepsKeep ==
    ASSUME IInv,
           \/ \E w \in Workers : WorkerStep(w)
           \/ \E d \in Tools : ToolStep(d)
    PROVE  IInv'
<1>1. ASSUME NEW w \in Workers, WorkerStep(w)
      PROVE  IInv'
  <2>1. Work!ActorStep(w) /\ UNCHANGED gateway
    BY <1>1, SameSteps DEF WorkerStep, Work!ActorStep
  <2>2. QED
    BY <2>1, ActorKeeps
<1>2. ASSUME NEW d \in Tools, ToolStep(d)
      PROVE  IInv'
  <2>1. CASE \E t \in Task : StartTool(d, t)
    <3>1. Work!ActorStep(d) /\ UNCHANGED gateway
      BY <2>1, SameSteps DEF StartTool, Work!ActorStep
    <3>2. QED
      BY <3>1, ActorKeeps
  <2>2. CASE Background!Deliver(d) /\ UNCHANGED gateway
    <3>1. Work!ActorStep(d)
      BY <2>2, SameSteps DEF Work!ActorStep
    <3>2. QED
      BY <2>2, <3>1, ActorKeeps
  <2>3. QED
    BY <1>2, <2>1, <2>2 DEF ToolStep
<1>3. QED
    BY <1>1, <1>2

LEMMA DeathKeeps ==
    ASSUME IInv, Death
    PROVE  IInv'
<1>1. ASSUME NEW a \in Workers \cup Tools, Background!Death(a), UNCHANGED gateway
      PROVE  IInv'
  <2>1. Work!ActorStep(a)
    BY <1>1, SameSteps DEF Work!ActorStep
  <2>2. QED
    BY <1>1, <2>1, ActorKeeps
<1>2. QED
    BY <1>1, TearRecordKeeps, GatewayDiesKeeps DEF Death

LEMMA StutterKeeps ==
    ASSUME IInv, UNCHANGED vars
    PROVE  IInv'
<1>1. UNCHANGED <<background, records, sending, command, deciders, told>>
    BY DEF vars, background, gateway
<1>2. GatewayTypes'
    BY <1>1 DEF IInv, GatewayTypes
<1>3. QED
    BY <1>1, <1>2, CommandsLeft, QuietKeeps

\* The gateway starts with an empty queue and idle workers.
LEMMA InitInv ==
    ASSUME Init
    PROVE  IInv
<1>1. Work!IInv
  <2>1. Work!Init
    BY DEF Init, Background!Init, Work!Init, Background!Queue!Init, Work!Queue!Init,
           Background!Resting, Work!Resting, Background!Actor, Work!Actor,
           Background!AtRest, Work!AtRest
  <2>2. QED
    BY <2>1, Work!InitInv, WorkAssumptions DEF Work!InitInv
<1>2. \A c \in Commands : command[c] = NoCommand
    BY DEF Init
<1>3. /\ records = [t \in Task |-> Absent] /\ face = [t \in Task |-> "none"]
      /\ told = [t \in Task |-> {}] /\ deciders = [t \in Task |-> {}]
    BY DEF Init, Background!Init, Background!Queue!Init
<1>4. GatewayTypes
  <2>1. NoCommand \in CommandType
    BY DEF NoCommand, CommandType, Action
  <2>2. QED
    BY <2>1 DEF Init, GatewayTypes
<1>5. \A c \in Commands : CommandInv(c)
    BY <1>2 DEF CommandInv, NoCommand
<1>6. ASSUME NEW t \in Task
      PROVE  TaskInv(t)
  <2>1. records[t] = Absent /\ face[t] = "none" /\ told[t] = {} /\ deciders[t] = {}
    BY <1>3
  <2>2. ~Decided(t)
    BY <2>1, FileAssumption DEF Decided
  <2>3. told[t] # {"approved", "rejected"}
    BY <2>1
  <2>4. QED
    BY <2>1, <2>2, <2>3 DEF TaskInv
<1>7. QED
    BY <1>1, <1>4, <1>5, <1>6 DEF IInv

\* The invariant holds of every state the gateway, the workers and the calls can reach.
LEMMA Invariant == Spec => []IInv
<1>1. Init => IInv
    BY InitInv
<1>2. IInv /\ [Next]_vars => IInv'
    BY GatewayStepKeeps, ActorStepsKeep, DeathKeeps, StutterKeeps DEF Next
<1>3. QED
    BY <1>1, <1>2, PTL DEF Spec

-----------------------------------------------------------------------------
(* The theorems. *)

\* The state of the gateway and of its commands has its type.
THEOREM TypeCorrect == Spec => []TypeOK
<1>1. IInv => TypeOK
  <2> SUFFICES ASSUME IInv PROVE TypeOK
    OBVIOUS
  <2>1. Queue!TypeOK
    BY SameNames
    DEF IInv, Work!IInv, Work!TypeInv, Queue!TypeOK, Work!Queue!TypeOK,
        Queue!TaskRecord, Work!Queue!TaskRecord, Queue!Status, Work!Queue!Status,
        Queue!Mode, Work!Queue!Mode, Queue!DeliveryStatus, Work!Queue!DeliveryStatus
  <2>2. QED
    BY <2>1, FaceType DEF IInv, GatewayTypes, CommandType, TypeOK
<1>2. QED
    BY <1>1, Invariant, PTL

\* A write task leaves APPROVAL_REQUIRED only by somebody who may decide, or by the tool
\* (feishu_router.py:173-198, 598-610).
THEOREM AllowedPeopleDecide == Spec => []DecidedByAllowed
<1>1. IInv => DecidedByAllowed
  <2> SUFFICES ASSUME IInv, NEW t \in Task, Whole(records[t]), records[t].mode = "write",
                      records[t].status \notin {"BLOCKED", "APPROVAL_REQUIRED"}
               PROVE  /\ deciders[t] # {}
                      /\ AllowedUsers # {} => deciders[t] \cap Users \subseteq AllowedUsers
    BY DEF DecidedByAllowed
  <2>1. records[t] \in TaskRecord
    BY Work!QueueType, WorkAssumptions, SameNames
    DEF Work!QueueType, IInv, Work!IInv, Work!TypeInv, Whole
  <2>2. QED
    BY <2>1 DEF IInv, TaskInv, Decided
<1>2. QED
    BY <1>1, Invariant, PTL

\* People who decide a task at the same time are never told that both decisions stand:
\* a record is never both approved and rejected (queue.py:60-63, 78-79).
THEOREM OneDecisionStands == Spec => []OneVerdict
<1>1. IInv => OneVerdict
    BY Zenon DEF IInv, TaskInv, OneVerdict
<1>2. QED
    BY <1>1, Invariant, PTL

\* A task whose rejection was confirmed is never run, whatever the workers, the calls,
\* the other commands and the deaths do (queue.py:75-91).
THEOREM RejectedStaysUnrun == Spec => []RejectedNeverRuns
<1>1. IInv => RejectedNeverRuns
    BY DEF IInv, TaskInv, NeverRun, RejectedNeverRuns
<1>2. QED
    BY <1>1, Invariant, PTL

\* The card shows a decision only if the queue has taken it, or in answer to a click, or
\* its record is torn (feishu_router.py:24-54, 613-663).
THEOREM CardsTellTheDecision == Spec => []CardTellsTheDecision
<1>1. IInv => CardTellsTheDecision
  <2> SUFFICES ASSUME IInv, NEW t \in Task, Whole(records[t])
               PROVE  /\ face[t] = "rejected" =>
                            records[t].status = "REJECTED" \/ Clicked(t, "reject")
                      /\ face[t] = "approved" =>
                            \/ records[t].approved /\ records[t].status \in {"QUEUED"} \cup Ran
                            \/ Clicked(t, "approve")
    BY DEF CardTellsTheDecision
  <2>1. TaskInv(t) /\ records[t] # Torn
    BY DEF IInv, Whole
  <2>2. QED
    BY <2>1 DEF TaskInv, Stands, Approved, Rejected
<1>2. QED
    BY <1>1, Invariant, PTL

\* A final status the card shows is the one the queue has, with workers, calls of
\* deliver_agent_task_result, torn reads, deaths, handlers and clicks in any order; the
\* one exception is the DONE of a task that fail() has taken back afterwards
\* (delivery.py:48-53, scheduler.py:85-99, feishu_router.py:632-663).
THEOREM CardsAgreeWithTheQueue == Spec => []CardAgrees
<1>1. IInv => CardAgrees
  <2> SUFFICES ASSUME IInv PROVE Background!CardAgrees
    BY DEF CardAgrees
  <2>1. Work!CardAgrees
    BY Work!CardFacts, WorkAssumptions DEF Work!CardFacts, IInv
  <2>2. QED
    BY <2>1
    DEF Background!CardAgrees, Work!CardAgrees, Background!TakenBack, Work!TakenBack,
        Background!FINAL_STATUSES, Work!FINAL_STATUSES, Background!Whole, Work!Whole
<1>2. QED
    BY <1>1, Invariant, PTL

\* A result that the queue calls DELIVERED was shown in the chat at least once, also
\* when handlers and clicks edit the same card before and after (delivery.py:48-77,
\* feishu_router.py:646).
THEOREM DeliveriesWereShown == Spec => []DeliveredWasShown
<1>1. IInv => DeliveredWasShown
  <2> SUFFICES ASSUME IInv PROVE Background!DeliveredWasShown
    BY DEF DeliveredWasShown
  <2>1. Work!DeliveredWasShown
    BY Work!ShownFacts, WorkAssumptions DEF Work!ShownFacts, IInv
  <2>2. QED
    BY <2>1
    DEF Background!DeliveredWasShown, Work!DeliveredWasShown, Background!Whole, Work!Whole
<1>2. QED
    BY <1>1, Invariant, PTL

=============================================================================
