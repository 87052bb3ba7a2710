----------------------------- MODULE ApprovalCards -----------------------------
(***************************************************************************)
(* The gateway's side of an approval (feishu_router.py, and the hooks of   *)
(* __init__.py): the interactive card of a write task, the chat commands   *)
(* and the button clicks that decide it, and the replies.  The workers and *)
(* delivery calls of Worker.tla run beside it and edit the same card, with *)
(* all their faults.                                                       *)
(*                                                                         *)
(* A handler of the chat's event loop runs to its end, so it is one step;  *)
(* what it leaves to loop.create_task happens later, in any order.  A      *)
(* click reaches the plugin twice: as the card callback, whose answer      *)
(* replaces the card, and as a /card command, which goes to the queue.     *)
(* Hermes makes both from one click; nothing in the plugin orders them.    *)
(*                                                                         *)
(* "status" commands and commands without a task id change nothing and are *)
(* left out.  The allow-lists of users and of chats are one predicate.     *)
(***************************************************************************)
EXTENDS TaskRecords, FiniteSets

CONSTANTS
    Workers, Tools, Payloads, Faults, MaxCardUpdates, MaxRequests,  \* as in Worker
    Users,              \* people of the chat
    AllowedUsers,       \* approval_allowed_user_ids; empty admits everybody
    Commands            \* decisions people send, one each; MaxRequests counts them

ASSUME UserAssumption ==
    AllowedUsers \subseteq Users /\ "approve_agent_task" \notin Users

ASSUME PayloadAssumption == Payloads \subseteq Payload

ASSUME NoTaskAssumption == 0 \notin Task     \* 0 stands for "no task"

ASSUME ActorAssumption == Workers \cap Tools = {}

ASSUME FaultAssumption ==
    Faults \subseteq {"edit_raises", "send_raises", "torn_get", "crash"}

VARIABLES
    records, actor, runs, face, shown, outcomes, abandoned,     \* as in Worker
    sending,    \* how far _send_interactive_card of each task has come
    command,    \* what is left to do for each command
    deciders,   \* deciders[t]: who changed the approval of t
    told        \* told[t]: the decisions on t that replies have confirmed

background == <<records, actor, runs, face, shown, outcomes, abandoned>>
notCard == <<records, actor, runs, shown, outcomes, abandoned>>
gateway == <<sending, command, deciders, told>>
vars == <<background, gateway>>

Background == INSTANCE Worker
Queue == INSTANCE TaskQueue WITH
            DeliveryResults <- DeliveryStatus \ {"none"}

Action == {"approve", "reject"}

\* Seeded fault: the card shows the name of the action.
ActionName(action) == action

\* The phase _build_resolved_approval_card shows.
Verdict(action) == IF action = "approve" THEN "approved" ELSE "rejected"

\* callback, handle, edit: the card callback, the command handler, and the card
\* edit the handler started, are still to come.
NoCommand == [task |-> 0, user |-> "nobody", action |-> "approve",
              clicked |-> FALSE, callback |-> FALSE, handle |-> FALSE,
              edit |-> FALSE]

Face == {"none", "approval", "approved", "rejected", "denied", "RUNNING"}
            \cup FINAL_STATUSES

TypeOK ==
    /\ Queue!TypeOK
    /\ face \in [Task -> Face]
    /\ sending \in [Task -> {"none", "sending", "sent", "over"}]
    /\ command \in [Commands ->
            [task : Task \cup {0}, user : Users \cup {"nobody"}, action : Action,
             clicked : BOOLEAN, callback : BOOLEAN, handle : BOOLEAN, edit : BOOLEAN]]
    /\ deciders \in [Task -> SUBSET (Users \cup {"approve_agent_task"})]
    /\ told \in [Task -> SUBSET {"approved", "rejected"}]

Init ==
    /\ Background!Init
    /\ sending = [t \in Task |-> "none"]
    /\ command = [c \in Commands |-> NoCommand]
    /\ deciders = [t \in Task |-> {}]
    /\ told = [t \in Task |-> {}]

-----------------------------------------------------------------------------
(* Submission and the card. *)

\* handle_pre_gateway_dispatch: a task that asks for approval gets a card if the
\* adapter can send one, and a text acknowledgement otherwise.
Dispatch(t, payload) ==
    /\ Background!Submit(t, payload)
    /\ \/ /\ records'[t].status = "APPROVAL_REQUIRED"
          /\ payload.target
          /\ sending' = [sending EXCEPT ![t] = "sending"]
       \/ UNCHANGED sending
    /\ UNCHANGED <<command, deciders, told>>

\* The chat shows the card before the await in _send_interactive_card returns.
ShowCard(t) ==
    /\ sending[t] = "sending"
    /\ sending' = [sending EXCEPT ![t] = "sent"]
    /\ face' = [face EXCEPT ![t] = "approval"]
    /\ UNCHANGED <<notCard, command, deciders, told>>

\* The await returns: with a message id, which is saved ...
SaveCard(t) ==
    /\ sending[t] = "sent"
    /\ sending' = [sending EXCEPT ![t] = "over"]
    /\ Background!SaveCard(t)
    /\ UNCHANGED <<command, deciders, told>>

\* ... or without one, or by an exception, of mark_approval_card() too.
LoseCard(t) ==
    /\ sending[t] \in {"sending", "sent"}
    /\ sending' = [sending EXCEPT ![t] = "over"]
    /\ UNCHANGED <<background, command, deciders, told>>

-----------------------------------------------------------------------------
(* Commands and clicks. *)

Requests ==
    Background!Requests + Cardinality({c \in Commands : command[c] # NoCommand})

Issue(c, t, user, action, clicked) ==
    /\ Requests < MaxRequests
    /\ command[c] = NoCommand
    /\ command' = [command EXCEPT ![c] =
                    [task |-> t, user |-> user, action |-> action,
                     clicked |-> clicked, callback |-> clicked, handle |-> TRUE,
                     edit |-> FALSE]]
    /\ UNCHANGED <<background, sending, deciders, told>>

Type(c, t, user, action) ==
    /\ records[t] # Absent
    /\ Issue(c, t, user, action, FALSE)

\* Only the approval card has buttons.
Click(c, t, user, action) ==
    /\ face[t] = "approval"
    /\ Issue(c, t, user, action, TRUE)

approval_action_allowed(user) == AllowedUsers = {} \/ user \in AllowedUsers

\* build_card_action_callback_response does not ask the queue.
CardCallback(c) ==
    LET k == command[c]
    IN  /\ k.callback
        /\ command' = [command EXCEPT ![c].callback = FALSE]
        /\ face' = [face EXCEPT ![k.task] =
                        IF approval_action_allowed(k.user)
                        THEN Verdict(k.action) ELSE "denied"]
        /\ UNCHANGED <<notCard, sending, deciders, told>>

\* The reply, and an edit of the card if the record that approve() or reject()
\* returned has one.
Confirm(c) ==
    LET k == command[c]
    IN  /\ told' = [told EXCEPT ![k.task] = @ \cup {Verdict(k.action)}]
        /\ command' = [command EXCEPT ![c] = [@ EXCEPT
                            !.handle = FALSE, !.edit = records'[k.task].approval_card]]
        /\ UNCHANGED sending

\* Seeded fault: the handler does not ask whether the operator may decide.
DecideUnchecked(c) ==
    LET k == command[c]
        t == k.task
    IN  /\ k.handle
        /\ \/ k.action = "approve" /\ Queue!Approve(t)
           \/ k.action = "reject" /\ Queue!Reject(t)
        /\ deciders' = [deciders EXCEPT ![t] = @ \cup {k.user}]
        /\ Confirm(c)
        /\ UNCHANGED <<actor, runs, face, shown, outcomes, abandoned>>

Decide(c) ==
    LET k == command[c]
        t == k.task
    IN  /\ k.handle
        /\ approval_action_allowed(k.user)
        /\ \/ k.action = "approve" /\ Queue!Approve(t)
           \/ k.action = "reject" /\ Queue!Reject(t)
        /\ deciders' = [deciders EXCEPT ![t] = @ \cup {k.user}]
        /\ Confirm(c)
        /\ UNCHANGED <<actor, runs, face, shown, outcomes, abandoned>>

\* approve() returns a task that is already approved and queued as it is.
ApproveAgain(c) ==
    LET k == command[c]
    IN  /\ k.handle
        /\ approval_action_allowed(k.user)
        /\ k.action = "approve"
        /\ Whole(records[k.task])
        /\ AlreadyApproved(records[k.task])
        /\ UNCHANGED <<background, deciders>>
        /\ Confirm(c)

\* Seeded fault: the handler goes on after the queue has refused.
RefuseGoesOn(c) ==
    LET k == command[c]
    IN  /\ k.handle
        /\ approval_action_allowed(k.user)
        /\ Whole(records[k.task])
        /\ ~AwaitingApproval(records[k.task])
        /\ UNCHANGED <<background, deciders>>
        /\ Confirm(c)

\* The operator may not decide, or the queue refuses or cannot read the record:
\* an error reply only.
Refuse(c) ==
    LET k == command[c]
        r == records[k.task]
    IN  /\ k.handle
        /\ \/ ~approval_action_allowed(k.user)
           \/ Whole(r) => /\ ~AwaitingApproval(r)
                          /\ k.action = "approve" => ~AlreadyApproved(r)
        /\ command' = [command EXCEPT ![c].handle = FALSE]
        /\ UNCHANGED <<background, sending, deciders, told>>

\* The edit that _update_approval_card_state started reaches the chat, or fails.
EditCard(c) ==
    LET k == command[c]
    IN  /\ k.edit
        /\ command' = [command EXCEPT ![c].edit = FALSE]
        /\ \/ face' = [face EXCEPT ![k.task] = Verdict(k.action)]
           \/ UNCHANGED face
        /\ UNCHANGED <<notCard, sending, deciders, told>>

\* The agent tool approve_agent_task calls the queue directly.
ToolApprove(t) ==
    /\ Background!Approve(t)
    /\ deciders' = [deciders EXCEPT ![t] = @ \cup {"approve_agent_task"}]
    /\ UNCHANGED <<sending, command, told>>

-----------------------------------------------------------------------------
(* Deaths. *)

\* The process that writes the record of t dies in the middle: the gateway or the
\* agent that called approve_agent_task.
TearRecord(t) ==
    /\ \/ records[t] = Absent
       \/ Whole(records[t]) /\ AwaitingApproval(records[t])
       \/ sending[t] = "sent"
    /\ Background!GatewayTears(t)
    /\ UNCHANGED gateway

\* The gateway dies between two handlers.  The card sends and edits it had started
\* are lost; commands the chat still holds come to the next gateway.
GatewayDies ==
    /\ "crash" \in Faults
    /\ sending' = [t \in Task |-> IF sending[t] = "none" THEN "none" ELSE "over"]
    /\ command' = [c \in Commands |-> [command[c] EXCEPT !.edit = FALSE]]
    /\ UNCHANGED <<background, deciders, told>>

-----------------------------------------------------------------------------

GatewayStep ==
    \/ \E t \in Task :
        \/ \E payload \in Payloads : Dispatch(t, payload)
        \/ ShowCard(t)
        \/ SaveCard(t)
        \/ LoseCard(t)
        \/ ToolApprove(t)
    \/ \E c \in Commands :
        \/ \E t \in Task, user \in Users, action \in Action :
            Type(c, t, user, action) \/ Click(c, t, user, action)
        \/ CardCallback(c)
        \/ Decide(c)
        \/ ApproveAgain(c)
        \/ Refuse(c)
        \/ EditCard(c)

WorkerStep(w) == Background!WorkerStep(w) /\ UNCHANGED gateway

\* A call of deliver_agent_task_result.
StartTool(d, t) ==
    /\ Requests < MaxRequests
    /\ Background!StartTool(d, t)
    /\ UNCHANGED gateway

ToolStep(d) ==
    \/ \E t \in Task : StartTool(d, t)
    \/ Background!Deliver(d) /\ UNCHANGED gateway

Death ==
    \/ \E t \in Task : TearRecord(t)
    \/ GatewayDies
    \/ \E a \in Workers \cup Tools : Background!Death(a) /\ UNCHANGED gateway

Next ==
    \/ GatewayStep
    \/ \E w \in Workers : WorkerStep(w)
    \/ \E d \in Tools : ToolStep(d)
    \/ Death

Spec == Init /\ [][Next]_vars

-----------------------------------------------------------------------------
(* Properties. *)

\* Somebody who may decide has clicked this action on the card of t.
Clicked(t, action) ==
    \E c \in Commands :
        /\ command[c].clicked
        /\ command[c].task = t
        /\ command[c].action = action
        /\ approval_action_allowed(command[c].user)

\* A write task leaves APPROVAL_REQUIRED only by somebody who may decide, or by
\* the tool, however clicks, callbacks, commands and saves are interleaved
\* (feishu_router.py:173-198, 598-610).
DecidedByAllowed ==
    \A t \in Task :
        /\ Whole(records[t])
        /\ records[t].mode = "write"
        /\ records[t].status \notin {"BLOCKED", "APPROVAL_REQUIRED"}
        => /\ deciders[t] # {}
           /\ AllowedUsers # {} => deciders[t] \cap Users \subseteq AllowedUsers

\* People who decide the same task at the same time are never told that both
\* decisions stand (feishu_router.py:209-220, queue.py:60-63, 78-79).
OneVerdict == \A t \in Task : told[t] # {"approved", "rejected"}

\* A task whose rejection was confirmed is never run, also when a worker, a
\* second command or a late card save writes its record (queue.py:75-91).
RejectedNeverRuns ==
    \A t \in Task : "rejected" \in told[t] => runs[t] = 0 /\ deciders[t] # {}

\* "This task will not run."  "The background worker will run it on the next
\* scheduler tick."  The card says so only of tasks for which the queue has
\* decided it, or in answer to a click, which does not ask the queue: the edits
\* that handlers start never show a decision the queue refused.  A record torn by
\* a death has no decision.
CardTellsTheDecision ==
    \A t \in Task : Whole(records[t]) =>
        /\ face[t] = "rejected" =>
              records[t].status = "REJECTED" \/ Clicked(t, "reject")
        /\ face[t] = "approved" =>
              \/ records[t].approved /\ records[t].status \in {"QUEUED"} \cup Ran
              \/ Clicked(t, "approve")

\* A final status the card shows is the one the queue has, whoever edits it: the
\* worker or a delivery call from the record it has read, a handler or a click.
\* The one exception is the DONE of a task that fail() has taken back afterwards
\* (delivery.py:48-53, scheduler.py:85-99, feishu_router.py:632-663).
CardAgrees == Background!CardAgrees

\* What the queue calls DELIVERED was shown in the chat at least once, with every
\* fault of the deliveries; the handlers' late edits may cover it afterwards
\* (delivery.py:48-77, feishu_router.py:646).
DeliveredWasShown == Background!DeliveredWasShown

-----------------------------------------------------------------------------
(* What the code's own texts and the documentation say and the code does not *)
(* keep: each has a counterexample, see the README.                          *)

\* "This task will not run."  A task whose card says so was never run.
WillNotRun == \A t \in Task : face[t] = "rejected" => runs[t] = 0

\* "The same card moves through RUNNING to DONE."
CardMovesOn ==
    [][\A t \in Task : face[t] \in {"RUNNING"} \cup FINAL_STATUSES
                        => face'[t] \in {"RUNNING"} \cup FINAL_STATUSES]_vars
=============================================================================
