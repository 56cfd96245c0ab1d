------------------------------ MODULE AgentLoop ------------------------------
(***************************************************************************)
(* overloop, the agent process: boot and the outer turn loop               *)
(* (loop/src/main.rs, run) and one turn (loop/src/agentic_loop.rs, run).   *)
(* The process is one thread; it meets the outside at stdin, stdout, the   *)
(* LLM and its tools, whose answers are the nondeterministic choices here. *)
(* Sizes are data: whether the context is over the threshold, and whether  *)
(* the turn timed out, may come out either way each time they are tested.  *)
(***************************************************************************)
EXTENDS AcpClient, Compaction

CONSTANTS RoleOf,          \* the role of each message pushed
          BootHistories,   \* what BootProvider::initialize may return as messages
          MaxIterations,   \* LoopConfig.max_iterations
          WindDownIters,   \* WIND_DOWN_ITERS
          SilenceLimit,    \* silent iterations before a nudge
          MaxCompactions,  \* LoopConfig.max_compactions
          KeepRecent,      \* LoopConfig.compaction_keep_recent
          MaxCalls         \* bound: tool calls in one response

ASSUME RoleAssumption == RoleOf \in [Users -> {"system", "user", "assistant", "tool"}]

ASSUME LoopAssumption ==
    /\ MaxIterations \in Nat \ {0}
    /\ {WindDownIters, SilenceLimit, MaxCompactions, KeepRecent, MaxCalls} \subseteq Nat

(* The operator's store is outside this code, and the agent takes the      *)
(* history as it comes: one the LLM accepted, led by a summary if the      *)
(* operator kept one (docs/design/context-management.md 118-121), or by    *)
(* whatever the tail it was sent began with.                               *)
ASSUME BootAssumption ==
    \A boot \in BootHistories :
        /\ boot \in Seq(WellFormed(Nat))
        /\ ValidHistory(boot)
        /\ \A i \in 2..Len(boot) : boot[i].kind # "summary"

VARIABLES
    pc,           \* where the process is
    messages,     \* the working context
    iteration, silent, compactions,   \* counters of the turn
    resp,         \* the response being handled: calls, finish, content
    todo,         \* tool calls of it still to run
    ended,        \* history: turn/end was emitted for the last turn
    canonical     \* history: the messages of the last context/compacted

turnVars == <<iteration, silent, compactions>>
noteVars == <<ended, canonical>>
loopVars == <<pc, messages, turnVars, resp, todo, noteVars>>
vars == <<acpVars, loopVars>>

(* Positions where the process is about to send, or waits in, a request. *)
RequestPC == {"tools_list", "initialize", "quota_check", "quota_update", "tools_call"}
InTurn == {"check", "quota_check", "compact", "scaffold", "llm", "quota_update",
           "absorb", "tools", "tools_call", "turn_end"}

Finishes == {"stop", "tool_calls", "length", "content_filter"}
(* With tool calls in it, a response's content and finish reason play no   *)
(* role; its calls are numbered, the same way in every response.           *)
Responses ==
    {r \in [calls : {[i \in 1..n |-> i] : n \in 0..MaxCalls},
            finish : Finishes, content : BOOLEAN, usage : BOOLEAN] :
        r.calls # <<>> => r.finish = "tool_calls" /\ r.content}
NoResponse == [calls |-> <<>>, finish |-> "stop", content |-> FALSE, usage |-> FALSE]

Init ==
    /\ AcpInit
    /\ pc = "tools_list"
    /\ messages = <<>>
    /\ iteration = 0 /\ silent = 0 /\ compactions = 0
    /\ resp = NoResponse
    /\ todo = <<>>
    /\ ended = FALSE /\ canonical = <<>>

-----------------------------------------------------------------------------
(* Requests *)

Request ==
    /\ pc \in RequestPC
    /\ SendRequest
    /\ UNCHANGED loopVars

AwaitResponse ==
    /\ pc \in RequestPC
    /\ BufferNotification \/ ReadResponse
    /\ UNCHANGED loopVars

-----------------------------------------------------------------------------
(* Boot and the outer loop *)

(* tools/list: a failure is only logged.  The process exits when it cannot *)
(* enter its workspace.                                                    *)
ToolsListed ==
    /\ pc = "tools_list"
    /\ Returned(Values)
    /\ pc' \in {"initialize", "exit"}
    /\ UNCHANGED <<messages, turnVars, resp, todo, noteVars>>

(* The system prompt is prepended unless a system message comes first. *)
WithPrompt(history) ==
    IF history # <<>> /\ Head(history).kind \in SystemRole
    THEN history
    ELSE <<Message("system")>> \o history

(* initialize, or the process exits with its error. *)
Initialized ==
    /\ pc = "initialize"
    /\ \/ /\ Returned({"yes", "no"})
          /\ \E history \in BootHistories : messages' = WithPrompt(history)
          /\ pc' = "next_push"
       \/ /\ Returned({"error"})
          /\ pc' = "exit"
          /\ UNCHANGED messages
    /\ UNCHANGED <<turnVars, resp, todo, noteVars>>

(* session_message_to_llm_message: the role is the one pushed, and there   *)
(* are no tool calls and no tool_call_id, whatever the role.               *)
PushedMessage(p) == Message(IF RoleOf[p] = "tool" THEN "stray" ELSE RoleOf[p])

(* next_push returns a message: append it and start a turn. *)
StartTurn(p) ==
    /\ pc = "next_push"
    /\ RecvNotification(p)
    /\ messages' = Append(messages, PushedMessage(p))
    /\ iteration' = 0 /\ silent' = 0 /\ compactions' = 0
    /\ ended' = FALSE
    /\ pc' = "check"
    /\ UNCHANGED <<resp, todo, canonical>>

(* A cancel ends the session; so does a message that does not parse. *)
Leave(p) ==
    /\ pc = "next_push"
    /\ RecvNotification(p)
    /\ pc' = "exit"
    /\ UNCHANGED <<messages, turnVars, resp, todo, noteVars>>

ReadFails ==
    /\ pc = "next_push"
    /\ RecvFails
    /\ pc' = "exit"
    /\ UNCHANGED <<messages, turnVars, resp, todo, noteVars>>

-----------------------------------------------------------------------------
(* One turn *)

(* A stream_text_delta(..)? followed by break: run() goes on to turn/end,  *)
(* or returns the error and skips it.                                      *)
BreakWithNotice == pc' = IF stdout THEN "turn_end" ELSE "next_push"

CheckOffByOne ==
    /\ pc = "check"
    /\ \/ /\ iteration > MaxIterations
          /\ pc' = "turn_end"
       \/ /\ iteration <= MaxIterations
          /\ pc' = "quota_check"
    /\ UNCHANGED <<acpVars, messages, turnVars, resp, todo, noteVars>>

(* The head of the for loop, and the timeout. *)
Check ==
    /\ pc = "check"
    /\ \/ /\ iteration = MaxIterations
          /\ pc' = "turn_end"
       \/ /\ iteration < MaxIterations
          /\ BreakWithNotice
       \/ /\ iteration < MaxIterations
          /\ pc' = "quota_check"
    /\ UNCHANGED <<acpVars, messages, turnVars, resp, todo, noteVars>>

(* An error of the quota check counts as "allowed". *)
QuotaChecked ==
    /\ pc = "quota_check"
    /\ \/ Returned({"yes", "error"}) /\ pc' = "compact"
       \/ Returned({"no"}) /\ BreakWithNotice
    /\ UNCHANGED <<messages, turnVars, resp, todo, noteVars>>

(* Under the threshold, at the cap, or nothing that can be compacted. *)
SkipCompaction ==
    /\ pc = "compact"
    /\ pc' = "scaffold"
    /\ UNCHANGED <<acpVars, messages, turnVars, resp, todo, noteVars>>

(* Compact: the operator is told and the round counted unless the summary  *)
(* that the LLM wrote is the empty string.                                 *)
Compact(summary) ==
    LET split == SplitPoint(messages, KeepRecent) IN
    /\ pc = "compact"
    /\ compactions < MaxCompactions
    /\ split # 0
    /\ messages' = Rebuilt(messages, split)
    /\ \/ /\ summary = "text"
          /\ compactions' = compactions + 1
          /\ canonical' = IF stdout THEN Recent(messages, split) ELSE canonical
       \/ /\ summary = "empty"
          /\ UNCHANGED <<compactions, canonical>>
    /\ pc' = "scaffold"
    /\ UNCHANGED <<acpVars, iteration, silent, resp, todo, ended>>

(* The summarising call fails: `?` returns from run(), without turn/end. *)
CompactFails ==
    /\ pc = "compact"
    /\ compactions < MaxCompactions
    /\ SplitPoint(messages, KeepRecent) # 0
    /\ pc' = "next_push"
    /\ UNCHANGED <<acpVars, messages, turnVars, resp, todo, noteVars>>

(* The wind-down warning and the silence nudge. *)
Scaffold ==
    /\ pc = "scaffold"
    /\ messages' = messages
          \o (IF MaxIterations - iteration = WindDownIters THEN <<Message("wind_down")>> ELSE <<>>)
          \o (IF silent >= SilenceLimit THEN <<Message("nudge")>> ELSE <<>>)
    /\ silent' = IF silent >= SilenceLimit THEN 0 ELSE silent
    /\ pc' = "llm"
    /\ UNCHANGED <<acpVars, iteration, compactions, resp, todo, noteVars>>

(* stream_completion; text deltas are forwarded, their errors ignored. *)
LlmFails ==
    /\ pc = "llm"
    /\ BreakWithNotice
    /\ UNCHANGED <<acpVars, messages, turnVars, resp, todo, noteVars>>

LlmAnswers(r) ==
    /\ pc = "llm"
    /\ resp' = r
    /\ pc' = IF r.usage THEN "quota_update" ELSE "absorb"
    /\ UNCHANGED <<acpVars, messages, turnVars, todo, noteVars>>

(* quota/update: its result is ignored. *)
QuotaUpdated ==
    /\ pc = "quota_update"
    /\ Returned(Values)
    /\ pc' = "absorb"
    /\ UNCHANGED <<messages, turnVars, resp, todo, noteVars>>

(* Track silence, append the response, then run its tool calls or act on   *)
(* the finish reason (a missing one counts as "stop").                     *)
Absorb ==
    /\ pc = "absorb"
    /\ silent' = IF resp.content \/ resp.calls # <<>> THEN 0 ELSE silent + 1
    /\ messages' = Append(messages, AssistantMessage(resp.calls))
    /\ todo' = resp.calls
    /\ resp' = NoResponse
    /\ \/ /\ resp.calls # <<>>
          /\ pc' = "tools"
          /\ UNCHANGED iteration
       \/ /\ resp.calls = <<>> /\ resp.finish = "stop"
          /\ pc' = "turn_end"
          /\ UNCHANGED iteration
       \/ /\ resp.calls = <<>> /\ resp.finish \in {"length", "content_filter"}
          /\ BreakWithNotice
          /\ UNCHANGED iteration
       \/ /\ resp.calls = <<>> /\ resp.finish = "tool_calls"
          /\ pc' = "check"
          /\ iteration' = iteration + 1
    /\ UNCHANGED <<acpVars, compactions, noteVars>>

AppendResultNoCount ==
    /\ messages' = Append(messages, ToolMessage(Head(todo)))
    /\ todo' = Tail(todo)
    /\ pc' = IF Len(todo) = 1 THEN "check" ELSE "tools"
    /\ UNCHANGED iteration

(* The result of the current call goes into the context; then the next. *)
AppendResult ==
    /\ messages' = Append(messages, ToolMessage(Head(todo)))
    /\ todo' = Tail(todo)
    /\ pc' = IF Len(todo) = 1 THEN "check" ELSE "tools"
    /\ iteration' = IF Len(todo) = 1 THEN iteration + 1 ELSE iteration

(* parse_tool_arguments fails: its message is the result of the call. *)
RejectArguments ==
    /\ pc = "tools"
    /\ AppendResult
    /\ UNCHANGED <<acpVars, silent, compactions, resp, noteVars>>

(* A builtin or an MCP tool, whose error is a result too: no round trip. *)
RunLocalTool ==
    /\ pc = "tools"
    /\ AppendResult
    /\ UNCHANGED <<acpVars, silent, compactions, resp, noteVars>>

(* An operator's tool goes through tools/call. *)
CallAcpTool ==
    /\ pc = "tools"
    /\ pc' = "tools_call"
    /\ UNCHANGED <<acpVars, messages, turnVars, resp, todo, noteVars>>

(* Its error becomes a tool result like any other. *)
AcpToolReturned ==
    /\ pc = "tools_call"
    /\ Returned(Values)
    /\ AppendResult
    /\ UNCHANGED <<silent, compactions, resp, noteVars>>

(* turn/end; a failed write is only logged. *)
TurnEnd ==
    /\ pc = "turn_end"
    /\ ended' = stdout
    /\ pc' = "next_push"
    /\ UNCHANGED <<acpVars, messages, turnVars, resp, todo, canonical>>

-----------------------------------------------------------------------------
Agent ==
    \/ Request \/ AwaitResponse
    \/ ToolsListed \/ Initialized
    \/ \E p \in Users : StartTurn(p)
    \/ \E p \in BadUsers \cup Cancels : Leave(p)
    \/ ReadFails
    \/ Check \/ QuotaChecked
    \/ SkipCompaction \/ CompactFails \/ \E s \in {"text", "empty"} : Compact(s)
    \/ Scaffold
    \/ LlmFails \/ \E r \in Responses : LlmAnswers(r)
    \/ QuotaUpdated \/ Absorb
    \/ RejectArguments \/ RunLocalTool \/ CallAcpTool \/ AcpToolReturned
    \/ TurnEnd

Broker == \E v \in Values : PeerAnswers(v)

Next ==
    \/ Agent
    \/ (\/ Broker
        \/ \E p \in Pushes : PeerPushes(p)
        \/ CloseStdin
        \/ BreakStdout) /\ UNCHANGED loopVars

(* The process runs, LLM and tools return (they have timeouts of their     *)
(* own), and the broker answers every request it receives.                 *)
Spec == Init /\ [][Next]_vars
FairSpec == Spec /\ WF_vars(Agent) /\ WF_vars(Broker /\ UNCHANGED loopVars)

-----------------------------------------------------------------------------
(* The bounds of a turn hold: iterations and compactions stay within their *)
(* limits (agentic_loop.rs 66-112).                                        *)
LoopTypeOK ==
    /\ pc \in RequestPC \cup InTurn \cup {"next_push", "exit"}
    /\ \A i \in 1..Len(messages) : messages[i].kind \in Kinds
    /\ iteration \in 0..MaxIterations
    /\ compactions \in 0..MaxCompactions
    /\ reply \in {"none", "waiting"} \cup Values
    /\ ToSet(pending) \cup ToSet(taken) \subseteq Pushes

(* A message of role tool was pushed, or came with the boot history. *)
ToolPushed ==
    \/ \E i \in 1..Len(taken) : taken[i] \in Users /\ RoleOf[taken[i]] = "tool"
    \/ \E boot \in BootHistories : HasStray(boot)

(* Whenever the LLM is called, in any turn and after any number of         *)
(* compactions, failed tools and failed turns, every tool call in the      *)
(* context has its result right behind it and no result is left over; and  *)
(* so has what the operator was last told (agentic_loop.rs 87-105,         *)
(* 264-337).  The one way to a tool message that answers nothing is to     *)
(* push one: its role is taken as it comes, without an id (acp.rs 351-374).*)
ContextIsValid ==
    pc = "llm" => /\ ValidHistory(messages) /\ ValidHistory(canonical)
                  /\ HasStray(messages) \/ HasStray(canonical) => ToolPushed

(* The prompt is in front, or what a boot history had there instead: a     *)
(* history that a system message leads is taken for one with the prompt.   *)
PromptLeads(history) ==
    \/ Head(history).kind = "system"
    \/ \E boot \in BootHistories \ {<<>>} :
          Head(boot).kind \in Scaffolding /\ Head(history) = Head(boot)

(* What led the context at the start leads it through every turn and       *)
(* compaction, and behind it is at most one summary, the second message: a *)
(* second compaction folds the first one's summary in (main.rs 163-174,    *)
(* compaction.rs 49-91).                                                   *)
PromptAndOneSummary ==
    pc = "llm" => /\ PromptLeads(messages)
                  /\ \A i \in 2..Len(messages) : messages[i].kind = "summary" => i = 2

(* Under FairSpec a turn comes to an end: no sequence of tool calls,       *)
(* compactions or failures keeps it going (max_iterations,                 *)
(* agentic_loop.rs 66).                                                    *)
TurnsTerminate == (pc \in InTurn) ~> (pc \in {"next_push", "exit"})

(* Whatever the turns before did, the context is one the LLM accepts, if   *)
(* nobody pushed a message of role tool: every call has its result, what   *)
(* led it leads it, summaries do not pile up (agentic_loop.rs 86-357,      *)
(* compaction.rs 40-110).                                                  *)
ContextOK == LoopTypeOK /\ ContextIsValid /\ PromptAndOneSummary

-----------------------------------------------------------------------------
(* What the repository says of this code and the code does not do          *)

(* turn/end is "a fire-and-forget notification that an agent emits when it *)
(* finishes a turn" (docs/design/protocol.md 208-209): with stdout intact, *)
(* no turn is over without it.                                             *)
EveryTurnIsEnded ==
    [][(pc \in InTurn /\ pc' = "next_push" /\ stdout) => ended']_vars
=============================================================================
