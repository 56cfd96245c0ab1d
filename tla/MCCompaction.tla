---------------------------- MODULE MCCompaction ----------------------------
(***************************************************************************)
(* Every history the loop can build, up to a bound, given to compaction.   *)
(* Tool-call ids repeat from one assistant message to the next, as some    *)
(* providers number the calls of each response afresh.                     *)
(***************************************************************************)
EXTENDS Compaction

CONSTANTS Ids,        \* tool-call ids
          MaxHistory  \* bound: messages in a history

ASSUME HistoryAssumption == MaxHistory \in Nat

VARIABLE history

Extensions ==
    {<<Message(k)>> : k \in {"user", "nudge"}}
    \cup {<<AssistantMessage(cs)>> \o [i \in 1..Len(cs) |-> ToolMessage(cs[i])] :
            cs \in {<<>>} \cup {<<a>> : a \in Ids} \cup {<<p[1], p[2]>> : p \in {q \in Ids \X Ids : q[1] # q[2]}}}

HistoryInit == history \in {<<>>, <<Message("system")>>}
HistoryNext == \E e \in Extensions :
            /\ Len(history) + Len(e) <= MaxHistory
            /\ history' = history \o e

HistorySpec == HistoryInit /\ [][HistoryNext]_history

Keeps == 0..MaxHistory

(* Compaction never separates a tool call from its results, whatever the   *)
(* number of recent messages to keep, with ids that repeat: what the LLM   *)
(* and the operator get is a history a provider accepts (compaction.rs     *)
(* 104-115: "providers reject histories with dangling tool_call_ids").     *)
CompactedIsValid ==
    \A keep \in Keeps :
        LET split == SplitPoint(history, keep)
        IN  split # 0 => /\ ValidHistory(Rebuilt(history, split))
                         /\ ValidHistory(Recent(history, split))

(* The walk back gives up no more than it must: it keeps keep_recent       *)
(* messages or more, and it is the shortest valid tail of that kind.       *)
CompactsAsMuchAsPossible ==
    \A keep \in Keeps :
        LET split == SplitPoint(history, keep)
            start == SystemCount(history)
        IN  Len(history) > keep + 2 =>
              \A s \in (start + 1)..(Len(history) - keep) :
                  ValidHistory(Recent(history, s)) => s <= split

(* The split is the latest one that cuts no tool exchange (compaction.rs   *)
(* 111-198).                                                               *)
SplitIsBest == CompactedIsValid /\ CompactsAsMuchAsPossible
=============================================================================
