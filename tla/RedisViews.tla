------------------------------ MODULE RedisViews ------------------------------
(***************************************************************************)
(* What operators see of an agent on the Redis backend: list_agents and    *)
(* describe_agent (redis_backend/registry.rs) over the connected set, the  *)
(* recently-disconnected set and the claims snapshot, while instances take *)
(* leases and release them.  A pipeline is not a transaction: Redis may    *)
(* run commands of others between two of its commands.  The tunnel         *)
(* directory is written and never read; the recent set never has to be     *)
(* trimmed for one agent.                                                  *)
(***************************************************************************)
EXTENDS RedisLease, FiniteSets

CONSTANT Readers   \* requests GET /agents and GET /agents/{id}

VARIABLES
    listed,     \* the agent is in overacp:agents:connected
    recent,     \* the agent is in overacp:agents:recent
    claims,     \* overacp:claims:{agent_id} exists
    stage,      \* the command a tunnel's pipeline is at
    ahead,      \* history: the releases with their pipeline still to come when latest set the key
    view,       \* a request: [pc, one, member, shown]
    settled     \* history: requests during which the agent changed neither set

viewVars == <<listed, recent, claims, stage, ahead, view, settled>>

ViewInit ==
    /\ LeaseInit
    /\ listed = FALSE /\ recent = FALSE /\ claims = FALSE
    /\ stage = [t \in Tunnels |-> "none"]
    /\ ahead = {}
    /\ view = [r \in Readers |-> [pc |-> "idle", one |-> FALSE, member |-> FALSE, shown |-> {}]]
    /\ settled = {}

StageAt(t, s) == stage' = [stage EXCEPT ![t] = s]

-----------------------------------------------------------------------------
(* Leases *)

Acquire(t) ==
    /\ \/ \E i \in Instances : GetOwner(t, i)
       \/ PublishTakeover(t)
    /\ UNCHANGED viewVars

TakeKey(t) ==
    /\ SetOwner(t)
    /\ StageAt(t, "sadd")
    /\ ahead' = {u \in Tunnels : release[u] = "cleanup"}
    /\ UNCHANGED <<listed, recent, claims, view, settled>>

(* acquire_lease's pipeline: SADD, ZREM, SET of the claims. *)
Enter(t) ==
    /\ tpc[t] = "directory"
    /\ \/ /\ stage[t] = "sadd"
          /\ listed' = TRUE /\ StageAt(t, "zrem")
          /\ UNCHANGED <<recent, claims>>
       \/ /\ stage[t] = "zrem"
          /\ recent' = FALSE /\ StageAt(t, "claims")
          /\ UNCHANGED <<listed, claims>>
       \/ /\ stage[t] = "claims"
          /\ claims' = TRUE /\ StageAt(t, "entered")
          /\ UNCHANGED <<listed, recent>>
    /\ settled' = IF listed' # listed \/ recent' # recent THEN {} ELSE settled
    /\ UNCHANGED <<leaseVars, ahead, view>>

Entered(t) ==
    /\ stage[t] = "entered" /\ EnterDirectory(t)
    /\ UNCHANGED viewVars

(* The rest of the acquire and the drain (RedisBroker) play no part here. *)
OpenTunnel(t) ==
    /\ tpc[t] = "consumer"
    /\ Goto(t, "open")
    /\ control' = [control EXCEPT ![t] = "starting"]
    /\ UNCHANGED <<redisVars, host, hb, release, signal, latest, faults, viewVars>>

(* release_lease's pipeline: SREM, ZADD; it may break off anywhere. *)
LeaveDirectory(t) ==
    /\ release[t] = "cleanup"
    /\ \/ /\ stage[t] \notin {"srem", "zadd", "left"}
          /\ StageAt(t, "srem")
          /\ UNCHANGED <<listed, recent>>
       \/ /\ stage[t] = "srem"
          /\ listed' = FALSE /\ StageAt(t, "zadd")
          /\ UNCHANGED recent
       \/ /\ stage[t] = "zadd"
          /\ recent' = TRUE /\ StageAt(t, "left")
          /\ UNCHANGED listed
    /\ settled' = IF listed' # listed \/ recent' # recent THEN {} ELSE settled
    /\ UNCHANGED <<leaseVars, claims, ahead, view>>

Left(t) ==
    /\ \/ stage[t] = "left" /\ ReleaseCleanup(t)
       \/ /\ release[t] = "cleanup" /\ Fault("release")
          /\ release' = [release EXCEPT ![t] = "done"]
          /\ UNCHANGED <<redisVars, tpc, host, hb, control, signal, latest>>
    /\ UNCHANGED viewVars

(* Their time to live is twice the lease's, and the same task refreshes it.*)
ClaimsExpire ==
    /\ claims /\ owner = None
    /\ claims' = FALSE
    /\ UNCHANGED <<leaseVars, listed, recent, stage, ahead, view, settled>>

-----------------------------------------------------------------------------
(* Requests *)

SetView(r, pc, member, shown) ==
    view' = [view EXCEPT ![r] = [pc |-> pc, one |-> @.one, member |-> member, shown |-> shown]]

(* SMEMBERS or SISMEMBER; an error counts as "not a member". *)
ReadConnected(r, one) ==
    /\ view[r].pc = "idle"
    /\ \/ UNCHANGED faults
          /\ view' = [view EXCEPT ![r] = [pc |-> IF listed THEN "claims" ELSE "recent",
                                          one |-> one, member |-> listed, shown |-> {}]]
       \/ Fault("view")
          /\ view' = [view EXCEPT ![r] = [pc |-> "recent", one |-> one, member |-> FALSE, shown |-> {}]]
    /\ settled' = settled \cup {r}
    /\ UNCHANGED <<redisVars, tpc, host, taskVars, latest, listed, recent, claims, stage, ahead>>

HydrateNeedsClaims(r) ==
    /\ view[r].pc = "claims"
    /\ SetView(r, IF view[r].one THEN "done" ELSE "recent", TRUE, IF claims THEN {"connected"} ELSE {})
    /\ UNCHANGED <<leaseVars, listed, recent, claims, stage, ahead, settled>>

(* hydrate_description: claims that are gone only leave fields out; an     *)
(* error of the GET leaves the agent out.                                  *)
Hydrate(r) ==
    /\ view[r].pc = "claims"
    /\ \/ SetView(r, IF view[r].one THEN "done" ELSE "recent", TRUE, {"connected"}) /\ UNCHANGED faults
       \/ SetView(r, IF view[r].one THEN "done" ELSE "recent", TRUE, {}) /\ Fault("view")
    /\ UNCHANGED <<redisVars, tpc, host, taskVars, latest, listed, recent, claims, stage, ahead, settled>>

ReadRecentUnchecked(r) ==
    /\ view[r].pc = "recent"
    /\ SetView(r, "done", view[r].member,
               view[r].shown \cup {d \in {"disconnected"} : recent})
    /\ UNCHANGED <<leaseVars, listed, recent, claims, stage, ahead, settled>>

(* ZRANGE or ZSCORE; an agent that was in the connected set is skipped. *)
ReadRecent(r) ==
    /\ view[r].pc = "recent"
    /\ \/ SetView(r, "done", view[r].member,
                  view[r].shown \cup {d \in {"disconnected"} : recent /\ ~view[r].member})
          /\ UNCHANGED faults
       \/ SetView(r, "done", view[r].member, view[r].shown) /\ Fault("view")
    /\ UNCHANGED <<redisVars, tpc, host, taskVars, latest, listed, recent, claims, stage, ahead, settled>>

-----------------------------------------------------------------------------
ViewNext ==
    \/ \E t \in Tunnels :
          \/ Acquire(t) \/ TakeKey(t) \/ Enter(t) \/ Entered(t) \/ OpenTunnel(t)
          \/ LeaveDirectory(t) \/ Left(t)
          \/ /\ AcquireFails(t) \/ StopHeartbeat(t) \/ Subscribe(t) \/ DropOwnership(t) \/ ReleaseOwner(t)
             /\ UNCHANGED viewVars
    \/ (Expire \/ Disconnect \/ \E i \in Instances : CrashTunnels(i)) /\ UNCHANGED viewVars
    \/ ClaimsExpire
    \/ \E r \in Readers :
          \/ \E one \in BOOLEAN : ReadConnected(r, one)
          \/ Hydrate(r) \/ ReadRecent(r)

DirectorySpec == ViewInit /\ [][ViewNext]_<<leaseVars, viewVars>>

-----------------------------------------------------------------------------
Alone(t) == \A u \in Tunnels \ {t} : host[u] # host[t]

(* The tunnel that took the lease last and got through its pipeline is     *)
(* listed as connected, whatever other instances still have to release,    *)
(* unless a release had deleted the old key before and runs its SREM late  *)
(* (lease.rs 165-205, 218-255).                                            *)
OwnerIsListed ==
    (latest # None /\ stage[latest] = "entered" /\ tpc[latest] # "gone" /\ Alone(latest) /\ ~listed)
        => ahead # {}

(* An operator sees the agent at most once.  It is missing from an answer  *)
(* only if it was in neither set, moved between them meanwhile, or Redis   *)
(* failed (registry.rs 160-206, 208-240).                                  *)
ReportedOnce ==
    \A r \in Readers : view[r].pc = "done" =>
        /\ Cardinality(view[r].shown) <= 1
        /\ (view[r].shown = {} /\ r \in settled /\ faults = 0) => ~listed /\ ~recent

(* What operators see of an agent agrees with its lease while the two sets *)
(* change command by command (lease.rs 132-255, registry.rs 160-240).      *)
DirectoryOK == OwnerIsListed /\ ReportedOnce
=============================================================================
