---------------------------- MODULE MCAgentLoop ----------------------------
(* Small agent sessions: one or two turns of a few iterations. *)
EXTENDS AgentLoop

AllUsers == [u \in Users |-> "user"]
(* One of the messages is pushed with the role of a tool. *)
OneTool == [AllUsers EXCEPT ![CHOOSE u \in Users : TRUE] = "tool"]

FreshBoot == {<<>>}
ResumedBoot ==
    {<<Message("user"), AssistantMessage(<<1>>), ToolMessage(1), AssistantMessage(<<>>)>>}

(* One history is the tail of a compaction, which no prompt leads. *)
MixedBoot == ResumedBoot \cup {<<Message("nudge"), AssistantMessage(<<>>)>>}
=============================================================================
