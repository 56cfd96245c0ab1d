---------------------------- MODULE MCAgentParts ----------------------------
(* The parts of the agent process that share no state with each other: a   *)
(* call of the LLM client, the reader of its response, the compaction of a *)
(* history, the content of messages, the table of tools and the builtin    *)
(* ones, tracing, and the limiter of error reports; and the parser of      *)
(* configuration values.  A behaviour is one of the parts; the others      *)
(* stand still.                                                            *)
EXTENDS LlmClient, StreamParser, MCCompaction, Content, ToolRegistry, BuiltinTools,
        Tracing, RateLimit, ConfigReference

VARIABLE part

Parts == {"llm", "stream", "compaction", "content", "tools", "builtins", "tracing",
          "reports", "reference"}

(* One text that fits every limit, and one that none does: a character of  *)
(* it ends at the limit of the assistant, none at that of the others.      *)
SomeTexts == {<<1>>, <<2, 2, 4, 1>>}

(* Limits of the snapshot, scaled down with the texts. *)
ShortTexts == "system" :> 3 @@ "assistant" :> 4 @@ "tool" :> 3

(* Values with a meaning to the parser where they have none, and the other *)
(* way round.                                                              *)
SomeSegments ==
    {Literal(t) : t \in {<<"a">>, <<"$">>, <<"$", LBrace>>, <<LBrace, "$", "$">>, <<RBrace, ":">>, <<"C3", "A9">>}}
    \cup {Ref(<<"a">>, p, k) : p \in {<<"a">>, <<"$", LBrace>>, <<"C3", "A9">>},
                               k \in {NoKey, <<>>, <<"a">>, <<"a", ":", "a">>}}

Init ==
    /\ part \in Parts
    /\ ClientInit /\ StreamInit /\ HistoryInit /\ ContentInit /\ ToolsInit /\ BuiltinInit
    /\ TracingInit /\ LimitInit /\ ReferenceInit
    /\ part # "llm" => kind = "stream"
    /\ part # "stream" => lines = <<Done>>
    /\ part # "compaction" => history = <<>>
    /\ part # "tracing" => enabled

LlmPart(A) ==
    /\ part = "llm" /\ A
    /\ UNCHANGED <<part, streamVars, history, contentVars, toolVars, toolsVars, tracingVars, limitVars, segments>>

StreamPart(A) ==
    /\ part = "stream" /\ A
    /\ UNCHANGED <<part, clientVars, history, contentVars, toolVars, toolsVars, tracingVars, limitVars, segments>>

CompactionPart(A) ==
    /\ part = "compaction" /\ A
    /\ UNCHANGED <<part, clientVars, streamVars, contentVars, toolVars, toolsVars, tracingVars, limitVars, segments>>

ContentPart(A) ==
    /\ part = "content" /\ A
    /\ UNCHANGED <<part, clientVars, streamVars, history, toolVars, toolsVars, tracingVars, limitVars, segments>>

ToolsPart(A) ==
    /\ part = "tools" /\ A
    /\ UNCHANGED <<part, clientVars, streamVars, history, contentVars, toolsVars, tracingVars, limitVars, segments>>

BuiltinsPart(A) ==
    /\ part = "builtins" /\ A
    /\ UNCHANGED <<part, clientVars, streamVars, history, contentVars, toolVars, tracingVars, limitVars, segments>>

TracingPart(A) ==
    /\ part = "tracing" /\ A
    /\ UNCHANGED <<part, clientVars, streamVars, history, contentVars, toolVars, toolsVars, limitVars, segments>>

ReportsPart(A) ==
    /\ part = "reports" /\ A
    /\ UNCHANGED <<part, clientVars, streamVars, history, contentVars, toolVars, toolsVars, tracingVars, segments>>

ReferencePart(A) ==
    /\ part = "reference" /\ A
    /\ UNCHANGED <<part, clientVars, streamVars, history, contentVars, toolVars, toolsVars, tracingVars, limitVars>>

Next ==
    \/ LlmPart(ClientNext)
    \/ StreamPart(StreamNext)
    \/ CompactionPart(HistoryNext)
    \/ ContentPart(ContentNext)
    \/ ToolsPart(ToolsNext)
    \/ BuiltinsPart(BuiltinNext)
    \/ TracingPart(TracingNext)
    \/ ReportsPart(LimitNext)
    \/ ReferencePart(ReferenceNext)

partVars == <<part, clientVars, streamVars, history, contentVars, toolVars, toolsVars, tracingVars, limitVars, segments>>

(* Requests to the LLM have a timeout, so that every read ends and every   *)
(* sleep is over; the turn goes on by itself.  Langfuse owes nothing: the  *)
(* posts to it have no timeout.                                            *)
Spec ==
    /\ Init /\ [][Next]_partVars
    /\ WF_partVars(LlmPart(ClientNext)) /\ WF_partVars(TracingPart(Turning))

(* Every call of the LLM client returns, however its attempts fail         *)
(* (client.rs 41-136, retry.rs 232-263).                                   *)
CallReturns == (part = "llm") ~> (pc \in {"ok", "err"})

(* A call of the LLM client returns and a turn ends, however requests and  *)
(* posts fail or hang (client.rs 41-136, langfuse.rs 113-126).             *)
PartsSettle == CallReturns /\ TracingNeverBlocks
=============================================================================
