-------------------------------- MODULE Requests --------------------------------
(***************************************************************************)
(* What the gateway decides about a request from the request alone:        *)
(* command_parser.py, verify_templates.py, risk_policy.py, policy.py,      *)
(* channel_boundary.py, the argument checks of create_agent_task and the   *)
(* envelope of adapter_projection_service.py.                              *)
(*                                                                         *)
(* Abstracted: a text is the class these functions put it into.  A list of *)
(* commands or paths is its worst member.  Surrounding blanks are gone.    *)
(***************************************************************************)
EXTENDS Naturals

\* "absent" is an option that is not there; "Write" stands for any such case.
ModeText == {"absent", "", "read", "write", "Write", "other"}

RunnerText == {"", "codex", "Codex", "other"}

\* Text the risk policy forbids in a write task, and text it does not.
PromptText == {"", "plain", "forbidden"}

\* "unsafe": a file: template whose path leaves the tree.
VerifyText == {"none", "allowed", "disallowed", "unsafe"}

\* Within the tree; in .git and the like, with / or with \ ; absolute or with "..".
AllowText == {"none", "inside", "governed", "backslashed", "outside"}

\* A Git work tree; a directory without .git; what resolve_target never takes:
\* no name or two, unknown, relative, sensitive, outside the roots, not a directory.
TargetText == {"checkout", "plain", "refused"}

Request ==
    [runner : RunnerText, mode : ModeText, prompt : PromptText,
     verify : VerifyText, allow : AllowText, target : TargetText]

Lower(text) ==
    IF text = "Write" THEN "write" ELSE IF text = "Codex" THEN "codex" ELSE text

EnabledRunner(r) == Lower(r.runner) = "codex"

-----------------------------------------------------------------------------
(* Submission. *)

\* parse_agent_command and expand_verify_templates raise for anything else.
CommandAccepted(r) == EnabledRunner(r) /\ r.prompt # "" /\ r.verify # "unsafe"

\* The mode is passed on as it was written.
Command(r) ==
    [r EXCEPT !.runner = Lower(@), !.mode = IF @ = "absent" THEN "read" ELSE @]

\* normalize_adapter_message_envelope leaves the templates as they are.
EnvelopeAccepted(r) ==
    EnabledRunner(r) /\ r.prompt # "" /\ Lower(r.mode) \in {"read", "write"}

Envelope(r) == [r EXCEPT !.runner = Lower(@), !.mode = Lower(@)]

\* assess_task_risk, without the level that is only displayed.
Risk(r) ==
    LET write == Lower(r.mode) \notin {"", "read"}
    IN  [approval_required |-> write,
         blocked |-> write /\ (r.prompt = "forbidden" \/ r.allow = "governed")]

\* An adapter submits no risk.
NoRisk == [approval_required |-> FALSE, blocked |-> FALSE]

-----------------------------------------------------------------------------
(* The place an answer goes to. *)

ChannelText == {"feishu", "lark", "other"}

ChatText == {"none", "blank", "chat"}

EnabledChannel(channel) == channel \in {"feishu", "lark"}

NoDelivery == [channel |-> "other", chat |-> "none"]

\* delivery_target_from_event: any chat id that is not empty.
DeliveryTarget(channel, chat) ==
    IF chat = "none" THEN NoDelivery ELSE [channel |-> channel, chat |-> chat]

\* Seeded fault: only the channel that was there first is read back.
ReadableFeishu(delivery) == delivery.channel = "feishu" /\ delivery.chat = "chat"

\* delivery_target_from_queue
Readable(delivery) == EnabledChannel(delivery.channel) /\ delivery.chat = "chat"

-----------------------------------------------------------------------------
(* Execution: the worker's and the tool's arguments, and create_agent_task. *)

Arguments(r) == [r EXCEPT !.mode = IF @ \in {"", "absent"} THEN "read" ELSE @]

\* Seeded fault: the case of the mode is forgiven.
ResolvedAnyCase(r) ==
    /\ Lower(r.mode) \in {"read", "write"}
    /\ r.target = "checkout" \/ (r.target = "plain" /\ Lower(r.mode) = "read")

\* resolve_target
Resolved(r) ==
    /\ r.mode \in {"read", "write"}
    /\ r.target = "checkout" \/ (r.target = "plain" /\ r.mode = "read")

ArgumentsAccepted(r) ==
    /\ CommandAccepted(r)
    /\ r.allow # "outside"
    /\ r.mode # "write" => r.verify = "none" /\ r.allow = "none"
    /\ Resolved(r)

\* Seeded fault: the paths are judged as they were written.
AsWritten(r) == r

\* _sanitize_allowed_paths turns every \ into / .
Sanitized(r) == [r EXCEPT !.allow = IF @ = "backslashed" THEN "governed" ELSE @]

\* CodexCliRunner.build_command
Sandbox(r) == IF r.mode = "read" THEN "read-only" ELSE "workspace-write"
=============================================================================
