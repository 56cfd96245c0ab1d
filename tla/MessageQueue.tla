---------------------------- MODULE MessageQueue ----------------------------
(***************************************************************************)
(* The in-memory per-agent buffer of notifications that could not be       *)
(* delivered live (server/src/registry/queue.rs, InMemoryMessageQueue).    *)
(* Each operation holds the map shard and the per-agent lock from start to *)
(* end, so each is one atomic step.                                        *)
(***************************************************************************)
EXTENDS Naturals, Sequences

CONSTANT QueueCap     \* DEFAULT_PER_AGENT_CAPACITY

ASSUME QueueAssumption == QueueCap \in Nat

VARIABLE queue        \* agent -> buffered frames, oldest first; an absent
                      \* map slot and an empty buffer are the same

QueueInit(agents) == queue = [a \in agents |-> <<>>]

QueueFullEarly(a) == Len(queue[a]) + 1 >= QueueCap
QueueFullOffByOne(a) == Len(queue[a]) > QueueCap

(* push() answers Full. *)
QueueFull(a) == Len(queue[a]) >= QueueCap

(* push() when there is room. *)
QueuePush(a, f) == queue' = [queue EXCEPT ![a] = Append(@, f)]

(* drain(): the slot is removed; the caller gets queue[a] in FIFO order. *)
QueueDrain(a) == queue' = [queue EXCEPT ![a] = <<>>]
=============================================================================
