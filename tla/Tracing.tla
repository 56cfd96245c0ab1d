------------------------------- MODULE Tracing -------------------------------
(***************************************************************************)
(* LLM observability (loop/src/observability/langfuse.rs) and the calls    *)
(* the turn loop makes of it (loop/src/main.rs, agentic_loop.rs).  Every   *)
(* event is posted by a task of its own, spawned and forgotten: the posts  *)
(* of a turn overtake each other and those of the next turn, fail, hang,   *)
(* or are lost when the process exits.  Langfuse is external: events of    *)
(* type trace-create with one id are merged field by field.                *)
(***************************************************************************)
EXTENDS Integers, FiniteSets

CONSTANTS MaxTurns,      \* bound: turns of the process
          MaxRecords     \* bound: LLM calls and tools recorded in all

ASSUME TracingAssumption == MaxTurns \in Nat /\ MaxRecords \in Nat

VARIABLES
    enabled,    \* the tracer has both credentials
    turnPc,     \* "idle", "running", "finalize" or "exited"
    turn,       \* the turn under way; its number stands for its trace_id
    toolCount,  \* tool_count of the turn
    records,    \* generations and spans recorded so far
    posts,      \* spawned posts that have not ended
    ingested    \* the events Langfuse has accepted

tracingVars == <<enabled, turnPc, turn, toolCount, records, posts, ingested>>

Turns == 1..MaxTurns

(* An event: its type, the trace it names, the turn it was recorded in (a  *)
(* history), which record it is, and the fields that matter.               *)
TraceEvent(type, n, field, total) ==
    [type |-> type, trace |-> turn, of |-> turn, n |-> n, field |-> field, total |-> total]

TracingInit ==
    /\ enabled \in BOOLEAN
    /\ turnPc = "idle" /\ turn = 0 /\ toolCount = 0 /\ records = 0
    /\ posts = {} /\ ingested = {}

(* `let Some(inner) = &self.inner else { return }`, then tokio::spawn. *)
SpawnPost(event) == posts' = IF enabled THEN posts \cup {event} ELSE posts

-----------------------------------------------------------------------------
(* start_session and create_trace: a new id for each turn. *)
CreateTrace ==
    /\ turnPc = "idle" /\ turn < MaxTurns
    /\ turn' = turn + 1
    /\ toolCount' = 0
    /\ posts' = IF enabled THEN posts \cup {[TraceEvent("trace", 0, "input", 0) EXCEPT !.trace = turn', !.of = turn']}
                ELSE posts
    /\ turnPc' = "running"
    /\ UNCHANGED <<enabled, records, ingested>>

(* One LLM call, after it has succeeded or failed.  A failure ends the     *)
(* turn, and so does a response without tool calls.                        *)
RecordGeneration(level) ==
    /\ turnPc = "running" /\ records < MaxRecords
    /\ records' = records + 1
    /\ SpawnPost(TraceEvent("generation", records', level, 0))
    /\ turnPc' \in IF level = "ERROR" THEN {"finalize", "idle"} ELSE {"running", "finalize"}
    /\ UNCHANGED <<enabled, turn, toolCount, ingested>>

RecordToolSpanOfSuccess(level) ==
    /\ turnPc = "running" /\ records < MaxRecords
    /\ records' = records + 1
    /\ SpawnPost(TraceEvent("span", records', level, 0))
    /\ toolCount' = IF level = "ERROR" THEN toolCount ELSE toolCount + 1
    /\ UNCHANGED <<enabled, turnPc, turn, ingested>>

(* A tool that ran, and whether it failed. *)
RecordToolSpan(level) ==
    /\ turnPc = "running" /\ records < MaxRecords
    /\ records' = records + 1
    /\ SpawnPost(TraceEvent("span", records', level, 0))
    /\ toolCount' = toolCount + 1
    /\ UNCHANGED <<enabled, turnPc, turn, ingested>>

(* The iteration limit, the timeout and the quota also end the turn.  With *)
(* stdout broken, or when compaction fails, run() returns before finalize. *)
LeaveLoop ==
    /\ turnPc = "running"
    /\ turnPc' \in {"finalize", "idle"}
    /\ UNCHANGED <<enabled, turn, toolCount, records, posts, ingested>>

FinalizeFlushes ==
    /\ turnPc = "finalize" /\ posts = {}
    /\ SpawnPost(TraceEvent("trace", 0, "output", toolCount))
    /\ turnPc' = "idle"
    /\ UNCHANGED <<enabled, turn, toolCount, records, ingested>>

Finalize ==
    /\ turnPc = "finalize"
    /\ SpawnPost(TraceEvent("trace", 0, "output", toolCount))
    /\ turnPc' = "idle"
    /\ UNCHANGED <<enabled, turn, toolCount, records, ingested>>

-----------------------------------------------------------------------------
PostAcceptedLateId(p) ==
    /\ p \in posts /\ turnPc # "exited"
    /\ posts' = posts \ {p}
    /\ ingested' = ingested \cup {[p EXCEPT !.trace = turn]}
    /\ UNCHANGED <<enabled, turnPc, turn, toolCount, records>>

(* post_ingestion, in the spawned task: its failure is only logged. *)
PostAccepted(p) ==
    /\ p \in posts /\ turnPc # "exited"
    /\ posts' = posts \ {p}
    /\ ingested' = ingested \cup {p}
    /\ UNCHANGED <<enabled, turnPc, turn, toolCount, records>>

PostLost(p) ==
    /\ p \in posts /\ turnPc # "exited"
    /\ posts' = posts \ {p}
    /\ UNCHANGED <<enabled, turnPc, turn, toolCount, records, ingested>>

(* The process ends between turns; nobody waits for the posts.  Those in   *)
(* the middle of their request may still be accepted.                      *)
Exit ==
    /\ turnPc = "idle"
    /\ turnPc' = "exited"
    /\ \E sent \in SUBSET posts : ingested' = ingested \cup sent
    /\ posts' = {}
    /\ UNCHANGED <<enabled, turn, toolCount, records>>

Turning ==
    \/ CreateTrace \/ LeaveLoop \/ Finalize
    \/ \E level \in {"DEFAULT", "ERROR"} : RecordGeneration(level) \/ RecordToolSpan(level)

TracingNext ==
    \/ Turning \/ Exit
    \/ \E p \in posts : PostAccepted(p) \/ PostLost(p)

TracingSpec == TracingInit /\ [][TracingNext]_tracingVars

-----------------------------------------------------------------------------
(* Whatever order the posts arrive in, and with turns that overlap in it,  *)
(* an event is filed under the turn it was recorded in: the ids are taken  *)
(* before the task is spawned (langfuse.rs 129-159, 163-218).              *)
FiledUnderItsTurn == \A e \in ingested : e.trace = e.of

(* The totals of a trace cover its spans: where the totals have arrived,   *)
(* no more spans of the turn have or will, those of failed tools included  *)
(* (agentic_loop.rs 320-329, 371-376).                                     *)
TotalsCoverSpans ==
    \A e \in ingested : e.type = "trace" /\ e.field = "output" =>
        Cardinality({s \in ingested \cup posts : s.type = "span" /\ s.of = e.of}) <= e.total

(* A turn goes on to its end with every post hanging for ever: "tracing    *)
(* never blocks the loop" (langfuse.rs 8-9).                               *)
TracingNeverBlocks == (turnPc = "running") ~> (turnPc = "idle")

(* In whatever order the posts arrive, a turn's trace has its own events   *)
(* and a total that covers them (langfuse.rs 113-317).                     *)
TracesOK == FiledUnderItsTurn /\ TotalsCoverSpans
=============================================================================
