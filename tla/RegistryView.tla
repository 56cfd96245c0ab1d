----------------------------- MODULE RegistryView -----------------------------
(***************************************************************************)
(* GET /agents and GET /agents/{id} (list() and describe(), agent.rs       *)
(* 273-303) racing the broker.  Both look at `connected` first and then,   *)
(* in a second step, at `recent`.  list() treats each agent separately, so *)
(* a query is followed for one agent: the rows it reports for it.          *)
(***************************************************************************)
EXTENDS TunnelBroker

CONSTANT Queries

VARIABLES qpc,      \* "new", "recent" (connected has been read), "done"
          qkind,    \* "list" or "describe"
          qagent,   \* the agent followed
          rows,     \* what is reported of it, in order
          qconn     \* history: it had an entry in every state of the query

queryVars == <<qpc, qkind, qagent, rows, qconn>>
viewVars == <<vars, queryVars>>

Logged(a) == \E i \in 1..Len(recent) : recent[i] = a

ViewInit ==
    /\ Init
    /\ qpc = [q \in Queries |-> "new"]
    /\ qkind = [q \in Queries |-> "list"]
    /\ qagent = [q \in Queries |-> None]
    /\ rows = [q \in Queries |-> <<>>]
    /\ qconn = [q \in Queries |-> FALSE]

(* The first read; describe() returns at once when it finds an entry. *)
ReadConnected(q, kind, a) ==
    LET found == connected[a] # None IN
    /\ qpc[q] = "new"
    /\ qkind' = [qkind EXCEPT ![q] = kind]
    /\ qagent' = [qagent EXCEPT ![q] = a]
    /\ rows' = [rows EXCEPT ![q] = IF found THEN <<"connected">> ELSE <<>>]
    /\ qpc' = [qpc EXCEPT ![q] = IF found /\ kind = "describe" THEN "done" ELSE "recent"]
    /\ qconn' = [qconn EXCEPT ![q] = found]
    /\ UNCHANGED vars

ReadRecentNoSkip(q) ==
    /\ qpc[q] = "recent"
    /\ rows' = [rows EXCEPT ![q] = IF Logged(qagent[q]) THEN Append(@, "disconnected") ELSE @]
    /\ qpc' = [qpc EXCEPT ![q] = "done"]
    /\ UNCHANGED <<vars, qkind, qagent, qconn>>

(* The second read, under the lock of `recent`.  list() skips an agent     *)
(* that is connected by now; describe() does not look again.               *)
ReadRecent(q) ==
    LET a == qagent[q]
        report == Logged(a) /\ (qkind[q] = "list" => connected[a] = None)
    IN  /\ qpc[q] = "recent"
        /\ rows' = [rows EXCEPT ![q] = IF report THEN Append(@, "disconnected") ELSE @]
        /\ qpc' = [qpc EXCEPT ![q] = "done"]
        /\ UNCHANGED <<vars, qkind, qagent, qconn>>

(* A step of the broker while queries are under way. *)
BrokerStep ==
    /\ Next
    /\ UNCHANGED <<qpc, qkind, qagent, rows>>
    /\ qconn' = [q \in Queries |->
           qconn[q] /\ (qpc[q] = "recent" => connected'[qagent[q]] # None)]

ViewNext ==
    \/ BrokerStep
    \/ \E q \in Queries :
          \/ \E kind \in {"list", "describe"}, a \in Agents : ReadConnected(q, kind, a)
          \/ ReadRecent(q)

ViewSpec == ViewInit /\ [][ViewNext]_viewVars

-----------------------------------------------------------------------------
(* An agent that had an entry all through a list() or describe() is        *)
(* reported once, as connected, even though a push_recent() that lost a    *)
(* race can leave it in the log as well (agent.rs 261-303).                *)
ConnectedIsReportedOnce ==
    \A q \in Queries : (qpc[q] = "done" /\ qconn[q]) => rows[q] = <<"connected">>
=============================================================================
