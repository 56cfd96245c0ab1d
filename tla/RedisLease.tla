------------------------------ MODULE RedisLease ------------------------------
(***************************************************************************)
(* The ownership lease of one agent in the Redis backend                   *)
(* (server/src/redis_backend/lease.rs): several broker instances behind a  *)
(* load balancer, tunnels of the agent on any of them, and what Redis      *)
(* holds of it: the owner key with its TTL and the control channel.  Every *)
(* Redis command or script is one step; a pipeline is one step here and is *)
(* taken apart in RedisViews, where its commands can be told apart.        *)
(***************************************************************************)
EXTENDS Integers

CONSTANTS Instances, Tunnels, None,
          Faults,       \* what may fail: see Fault
          MaxFaults     \* bound: failures in a behaviour

ASSUME LeaseAssumption ==
    /\ None \notin Instances \cup Tunnels
    /\ MaxFaults \in Nat

VARIABLES
    owner,      \* overacp:owner:{agent_id}
    tpc,        \* where a tunnel's main task is
    host,       \* the instance the tunnel is on
    hb,         \* its heartbeat task: "off", "on", or "stopped" by itself
    release,    \* its release task: "none", "cas", "cleanup", "done"
    control,    \* its control subscriber: "none", "starting", "on", "failed"
    signal,     \* a control message has reached it
    latest,     \* history: the tunnel that set the owner key last
    faults

redisVars == <<owner>>
taskVars == <<hb, release, control, signal>>
leaseVars == <<redisVars, tpc, host, taskVars, latest, faults>>

TunnelPC == {"idle", "publish", "set", "directory", "consumer", "drain", "open", "gone"}

LeaseTypeOK ==
    /\ owner \in Instances \cup {None}
    /\ tpc \in [Tunnels -> TunnelPC]
    /\ host \in [Tunnels -> Instances \cup {None}]
    /\ hb \in [Tunnels -> {"off", "on", "stopped"}]
    /\ release \in [Tunnels -> {"none", "cas", "cleanup", "done"}]
    /\ control \in [Tunnels -> {"none", "starting", "on", "failed"}]
    /\ signal \in [Tunnels -> BOOLEAN]
    /\ latest \in Tunnels \cup {None}
    /\ faults \in 0..MaxFaults

LeaseInit ==
    /\ owner = None
    /\ tpc = [t \in Tunnels |-> "idle"]
    /\ host = [t \in Tunnels |-> None]
    /\ hb = [t \in Tunnels |-> "off"]
    /\ release = [t \in Tunnels |-> "none"]
    /\ control = [t \in Tunnels |-> "none"]
    /\ signal = [t \in Tunnels |-> FALSE]
    /\ latest = None
    /\ faults = 0

(* A Redis command fails, or its reply is lost after it took effect, or an *)
(* instance crashes.                                                       *)
Fault(kind) == kind \in Faults /\ faults < MaxFaults /\ faults' = faults + 1

Goto(t, pc) == tpc' = [tpc EXCEPT ![t] = pc]

-----------------------------------------------------------------------------
(* acquire_lease *)

(* A tunnel arrives on instance i: GET of the owner key. *)
GetOwner(t, i) ==
    /\ tpc[t] = "idle"
    /\ host' = [host EXCEPT ![t] = i]
    /\ Goto(t, IF owner \in {None, i} THEN "set" ELSE "publish")
    /\ UNCHANGED <<redisVars, taskVars, latest, faults>>

(* PUBLISH reaches the subscribers of this moment. *)
Broadcast == signal' = [u \in Tunnels |-> signal[u] \/ control[u] = "on"]

(* PUBLISH takeover; an error is ignored. *)
PublishTakeover(t) ==
    /\ tpc[t] = "publish"
    /\ Goto(t, "set")
    /\ \/ Broadcast /\ UNCHANGED faults
       \/ Fault("publish") /\ UNCHANGED signal
    /\ UNCHANGED <<redisVars, host, hb, release, control, latest>>

(* SET EX, whoever holds it. *)
SetOwner(t) ==
    /\ tpc[t] = "set"
    /\ owner' = host[t]
    /\ latest' = t
    /\ Goto(t, "directory")
    /\ UNCHANGED <<host, taskVars, faults>>

(* The pipeline into the directory; then the heartbeat task is spawned. *)
EnterDirectory(t) ==
    /\ tpc[t] = "directory"
    /\ hb' = [hb EXCEPT ![t] = "on"]
    /\ Goto(t, "consumer")
    /\ UNCHANGED <<owner, host, release, control, signal, latest, faults>>

(* SET or the pipeline returns an error, with or without having run:       *)
(* run_tunnel returns, and no lease object exists that would release.      *)
AcquireFails(t) ==
    /\ Fault("acquire")
    /\ \/ tpc[t] \in {"set", "directory"} /\ UNCHANGED <<redisVars, latest>>
       \/ tpc[t] = "set" /\ owner' = host[t] /\ latest' = t
    /\ Goto(t, "gone")
    /\ UNCHANGED <<host, taskVars>>

-----------------------------------------------------------------------------
(* Heartbeat, expiry, control channel *)

(* The compare-and-expire script finds another owner or none, or the call  *)
(* fails (unwrap_or(0)): the task breaks, the tunnel stays as it is.  A    *)
(* renewal changes nothing but the key's age.                              *)
StopHeartbeat(t) ==
    /\ hb[t] = "on"
    /\ \/ owner # host[t] /\ UNCHANGED faults
       \/ Fault("heartbeat")
    /\ hb' = [hb EXCEPT ![t] = "stopped"]
    /\ UNCHANGED <<redisVars, tpc, host, release, control, signal, latest>>

(* The key's TTL runs out: no heartbeat of its value is running.  A tunnel *)
(* that has just set it starts its heartbeat well within the TTL.          *)
Expire ==
    /\ owner # None
    /\ \A t \in Tunnels : host[t] = owner => hb[t] # "on" /\ tpc[t] # "directory"
    /\ owner' = None
    /\ UNCHANGED <<tpc, host, taskVars, latest, faults>>

(* control_receiver's task subscribes, some time after it was spawned. *)
Subscribe(t) ==
    /\ control[t] = "starting"
    /\ \/ control' = [control EXCEPT ![t] = "on"] /\ UNCHANGED faults
       \/ Fault("subscribe") /\ control' = [control EXCEPT ![t] = "failed"]
    /\ UNCHANGED <<redisVars, tpc, host, hb, release, signal, latest>>

(* DELETE /agents/{id} for an agent with an owner: PUBLISH disconnect. *)
Disconnect ==
    /\ owner # None
    /\ \E t \in Tunnels : control[t] = "on" /\ ~signal[t]
    /\ Broadcast
    /\ UNCHANGED <<redisVars, tpc, host, hb, release, control, latest, faults>>

-----------------------------------------------------------------------------
(* Release *)

CloseKeepsHeartbeat(t) ==
    /\ tpc[t] = "open"
    /\ Goto(t, "gone")
    /\ release' = [release EXCEPT ![t] = "cas"]
    /\ control' = [control EXCEPT ![t] = "none"]
    /\ signal' = [signal EXCEPT ![t] = FALSE]
    /\ UNCHANGED <<redisVars, host, hb, latest, faults>>

(* The read loop ends (socket or control signal) and OwnershipLease is     *)
(* dropped: the heartbeat is aborted and a release task spawned.           *)
DropOwnership(t) ==
    /\ tpc[t] = "open"
    /\ Goto(t, "gone")
    /\ hb' = [hb EXCEPT ![t] = "off"]
    /\ release' = [release EXCEPT ![t] = "cas"]
    /\ control' = [control EXCEPT ![t] = "none"]
    /\ signal' = [signal EXCEPT ![t] = FALSE]
    /\ UNCHANGED <<redisVars, host, latest, faults>>

ReleaseAnyOwner(t) ==
    /\ release[t] = "cas"
    /\ owner' = None
    /\ release' = [release EXCEPT ![t] = "cleanup"]
    /\ UNCHANGED <<tpc, host, hb, control, signal, latest, faults>>

ReleaseAlwaysCleans(t) ==
    /\ release[t] = "cas"
    /\ owner' = IF owner = host[t] THEN None ELSE owner
    /\ release' = [release EXCEPT ![t] = "cleanup"]
    /\ UNCHANGED <<tpc, host, hb, control, signal, latest, faults>>

(* The compare-and-delete script.  On an error nothing more is done,       *)
(* whether or not the key is gone.                                         *)
ReleaseOwner(t) ==
    /\ release[t] = "cas"
    /\ \/ /\ owner = host[t]
          /\ owner' = None
          /\ release' = [release EXCEPT ![t] = "cleanup"]
          /\ UNCHANGED faults
       \/ /\ owner # host[t]
          /\ release' = [release EXCEPT ![t] = "done"]
          /\ UNCHANGED <<owner, faults>>
       \/ /\ Fault("release")
          /\ owner' \in {owner, IF owner = host[t] THEN None ELSE owner}
          /\ release' = [release EXCEPT ![t] = "done"]
    /\ UNCHANGED <<tpc, host, hb, control, signal, latest>>

(* The second pipeline, out of the directory; its error is ignored. *)
ReleaseCleanup(t) ==
    /\ release[t] = "cleanup"
    /\ release' = [release EXCEPT ![t] = "done"]
    /\ UNCHANGED <<redisVars, tpc, host, hb, control, signal, latest, faults>>

(* The process of instance i dies, with all its tasks. *)
CrashTunnels(i) ==
    /\ Fault("crash")
    /\ \E t \in Tunnels : host[t] = i /\ (tpc[t] # "gone" \/ release[t] \in {"cas", "cleanup"})
    /\ tpc' = [t \in Tunnels |-> IF host[t] = i THEN "gone" ELSE tpc[t]]
    /\ hb' = [t \in Tunnels |-> IF host[t] = i THEN "off" ELSE hb[t]]
    /\ release' = [t \in Tunnels |-> IF host[t] = i THEN "done" ELSE release[t]]
    /\ control' = [t \in Tunnels |-> IF host[t] = i THEN "none" ELSE control[t]]
    /\ UNCHANGED <<redisVars, host, signal, latest>>
=============================================================================
