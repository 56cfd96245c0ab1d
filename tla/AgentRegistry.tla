--------------------------- MODULE AgentRegistry ---------------------------
(***************************************************************************)
(* The in-memory routing table of the broker (server/src/registry/agent.rs,*)
(* InMemoryAgentRegistry): `connected`, a concurrent map from agent to the *)
(* entry of its tunnel, and `recent`, a bounded log of the agents that     *)
(* disconnected last.  The two structures have separate locks, so          *)
(* register() and unregister() are each TWO atomic steps; the module gives *)
(* the four steps and the component that calls them sequences them.        *)
(* An AgentEntry is represented by the tunnel whose sender it holds.       *)
(***************************************************************************)
EXTENDS Naturals, Sequences, SequencesExt

CONSTANTS Agents,     \* agent ids (the `sub` claim of a tunnel's JWT)
          Tunnels,    \* activations of run_tunnel, one per accepted WebSocket
          RecentCap,  \* RECENT_CAPACITY
          None        \* "no entry"

ASSUME RegistryAssumption ==
    /\ RecentCap \in Nat \ {0}
    /\ None \notin Tunnels
    /\ None \notin Agents

VARIABLES connected,  \* agent -> the registered tunnel, or None
          recent      \* the recently-disconnected log, oldest first

RegistryTypeOK ==
    /\ connected \in [Agents -> Tunnels \cup {None}]
    /\ recent \in Seq(Agents)
    /\ Len(recent) <= RecentCap

RegistryInit ==
    /\ connected = [a \in Agents |-> None]
    /\ recent = <<>>

(* First half of register(): the entry replaces whatever was there. *)
InsertEntry(a, t) == connected' = [connected EXCEPT ![a] = t]

(* First half of unregister() for an agent that has an entry. *)
RemoveEntry(a) == connected' = [connected EXCEPT ![a] = None]

(* `recent.retain(|r| r.agent_id != a)`.  The log never holds an agent     *)
(* twice (RecentLogOK below), so dropping its only copy is dropping all.   *)
Without(a) ==
    IF \E i \in 1..Len(recent) : recent[i] = a
    THEN RemoveAt(recent, CHOOSE i \in 1..Len(recent) : recent[i] = a)
    ELSE recent

(* Second half of register(). *)
PurgeRecent(a) == recent' = Without(a)

PushRecentEvictsLate(a) ==
    LET kept == Without(a)
    IN  recent' = Append(IF Len(kept) > RecentCap THEN Tail(kept) ELSE kept, a)

PushRecentNoRetain(a) ==
    recent' = Append(IF Len(recent) = RecentCap THEN Tail(recent) ELSE recent, a)

(* Second half of unregister(): de-duplicate, evict the oldest, append. *)
PushRecent(a) ==
    LET kept == Without(a)
    IN  recent' = Append(IF Len(kept) = RecentCap THEN Tail(kept) ELSE kept, a)

(* The log holds an agent at most once, whatever the interleaving of the   *)
(* register() and unregister() halves of concurrent tunnels and DELETE     *)
(* requests (push_recent, agent.rs 305-315).                               *)
RecentLogOK ==
    \A i, j \in 1..Len(recent) : recent[i] = recent[j] => i = j
=============================================================================
