----------------------------- MODULE MCRequestPath -----------------------------
(* RequestPath with the messages that can be told apart, for TLC. *)
EXTENDS RequestPath

From(entry, head, channel, chat, request) ==
    [entry |-> entry, head |-> head, channel |-> channel, chat |-> chat, request |-> request]

Plain == [runner |-> "codex", mode |-> "read", prompt |-> "plain", verify |-> "none",
          allow |-> "none", target |-> "checkout"]

\* Every request to an enabled runner, on every way in.
\* Then every message that is ignored, misspelled or has nowhere to answer to.
MCMessages ==
    {From(entry, "agent", "feishu", "chat", r) :
        entry \in Entry, r \in {q \in Request : q.runner = "codex"}}
    \cup {From("chat", head, channel, chat, Plain) :
            head \in Head, channel \in ChannelText, chat \in ChatText}
    \cup {From(entry, "agent", "lark", "none", [Plain EXCEPT !.runner = runner]) :
            entry \in Entry, runner \in RunnerText}
    \cup {From("command_tool", "talk", "feishu", "none", Plain)}
=============================================================================
