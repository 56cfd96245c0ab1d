----------------------------- MODULE Compaction -----------------------------
(***************************************************************************)
(* Compaction of the agent's working context (loop/src/compaction.rs).     *)
(* A message is a record: its kind, the ids of the tool calls it makes     *)
(* (assistant messages) and the id it answers (tool messages).  What the   *)
(* text says is left out; the kinds "summary", "wind_down" and "nudge" are *)
(* the system messages the agent writes itself, and a "stray" is a message *)
(* of role tool without a tool_call_id, which answers no call.             *)
(***************************************************************************)
EXTENDS Naturals, Sequences, SequencesExt

Scaffolding == {"summary", "wind_down", "nudge"}
SystemRole == {"system"} \cup Scaffolding
Kinds == SystemRole \cup {"user", "assistant", "tool", "stray"}

Message(kind) == [kind |-> kind, calls |-> <<>>, id |-> 0]
AssistantMessage(calls) == [kind |-> "assistant", calls |-> calls, id |-> 0]
ToolMessage(id) == [kind |-> "tool", calls |-> <<>>, id |-> id]

(* The set `unanswered` after one message, and as the loop over the slice  *)
(* that begins behind position start leaves it at each position.           *)
Track(unanswered, m) ==
    CASE m.kind = "assistant" -> unanswered \cup ToSet(m.calls)
      [] m.kind = "tool"      -> unanswered \ {m.id}
      [] OTHER                -> unanswered

Unanswered(ms, start) ==
    LET after[k \in start..Len(ms)] ==
            IF k = start THEN {} ELSE Track(after[k - 1], ms[k])
    IN  after

HasStraddlingPair(ms, start, split) == Unanswered(ms, start)[split] # {}

FindSafeSplitProposed(ms, start, proposed) == proposed

FindSafeSplitUserBoundary(ms, start, proposed) ==
    LET Walk[split \in 0..Len(ms)] ==
            IF split > start /\ split < Len(ms) /\ ms[split + 1].kind # "user"
            THEN Walk[split - 1]
            ELSE split
    IN  Walk[proposed]

(* The walk back from the proposed split; positions count the messages     *)
(* before the split, as the code's slice bounds do.                        *)
WalkBack(ms, start) ==
    LET walk[split \in 0..Len(ms)] ==
            IF split > start /\ HasStraddlingPair(ms, start, split)
            THEN walk[split - 1]
            ELSE split
    IN  walk

FindSafeSplit(ms, start, proposed) ==
    WalkBack(ms, start)[IF proposed < Len(ms) THEN proposed ELSE Len(ms)]

SystemCountNone(ms) == 0

(* The system prompt, if there is one, stays in front. *)
SystemCount(ms) == IF ms # <<>> /\ Head(ms).kind \in SystemRole THEN 1 ELSE 0

(* Where compact_messages splits, 0 standing for "nothing to compact". *)
SplitPoint(ms, keepRecent) ==
    LET start == SystemCount(ms)
        split == FindSafeSplit(ms, start, Len(ms) - keepRecent)
    IN  IF Len(ms) <= keepRecent + 2 \/ split <= start THEN 0 ELSE split

(* canonical_messages and working_messages for a split that is not 0. *)
Recent(ms, split) == SubSeq(ms, split + 1, Len(ms))
Rebuilt(ms, split) ==
    SubSeq(ms, 1, SystemCount(ms)) \o <<Message("summary")>> \o Recent(ms, split)

-----------------------------------------------------------------------------
(* Messages as the LLM and the operator write them: only an assistant      *)
(* calls tools, and the calls of one message have ids of their own.        *)
WellFormed(ids) ==
    {m \in [kind : Kinds, calls : Seq(ids), id : ids \cup {0}] :
        /\ m.kind # "assistant" => m.calls = <<>>
        /\ \A k, l \in 1..Len(m.calls) : m.calls[k] = m.calls[l] => k = l}

(* A history a provider accepts: the results of an assistant's tool calls  *)
(* follow it at once, in order, and there are no other tool messages, if   *)
(* it has no strays, which are a question apart.                           *)
Group(ms, i) == {<<i + k, ms[i].calls[k]>> : k \in 1..Len(ms[i].calls)}

ValidHistory(ms) ==
    LET expected == UNION {Group(ms, i) : i \in 1..Len(ms)}
        results  == {<<i, ms[i].id>> : i \in {j \in 1..Len(ms) : ms[j].kind = "tool"}}
    IN  expected = results

HasStray(ms) == \E i \in 1..Len(ms) : ms[i].kind = "stray"
=============================================================================
