----------------------------- MODULE RedisBroker -----------------------------
(***************************************************************************)
(* The broker on the Redis backend, for one agent: RedisAgentRegistry      *)
(* (redis_backend/registry.rs) puts the ownership lease and the inbox      *)
(* consumers together, run_tunnel (tunnel/run.rs) drives them, and pushes  *)
(* go to the inbox while an owner key exists and to the offline buffer     *)
(* (redis_backend/queue.rs) otherwise.                                     *)
(***************************************************************************)
EXTENDS RedisInbox

CONSTANT BufferCap

ASSUME BufferAssumption == BufferCap \in Nat

VARIABLES
    handle,     \* consumer_handles of an instance: the tunnel whose consumer it aborts
    buffer,     \* overacp:buffer:{agent_id}
    post        \* where a push request is, or how it was answered

vars == <<leaseVars, inboxVars, consumerVars, handle, buffer, post>>

(* Keys, tasks and the offline buffer, which never exceeds its capacity,   *)
(* keep to their types (queue.rs 29-35).                                   *)
RedisTypeOK ==
    /\ LeaseTypeOK /\ InboxTypeOK
    /\ handle \in [Instances -> Tunnels \cup {None}]
    /\ buffer \in Seq(Messages) /\ Len(buffer) <= BufferCap
    /\ post \in [Messages -> {"new", "absent", "live", "queued", "full"}]

Init ==
    /\ LeaseInit /\ InboxInit
    /\ handle = [i \in Instances |-> None]
    /\ buffer = <<>>
    /\ post = [m \in Messages |-> "new"]

-----------------------------------------------------------------------------
(* Tunnels *)

(* run_tunnel starts: the channel exists, acquire() begins. *)
Connect(t, i) ==
    /\ GetOwner(t, i)
    /\ rx' = [rx EXCEPT ![t] = TRUE]
    /\ UNCHANGED <<inboxVars, cpc, readId, entry, handed, spilled, handle, buffer, post>>

LeaseStep(t) ==
    /\ PublishTakeover(t) \/ SetOwner(t) \/ EnterDirectory(t) \/ AcquireFails(t)
    /\ rx' = [rx EXCEPT ![t] = tpc'[t] # "gone"]
    /\ UNCHANGED <<inboxVars, cpc, readId, entry, handed, spilled, handle, buffer, post>>

BackgroundStep(t) ==
    /\ StopHeartbeat(t) \/ Subscribe(t) \/ ReleaseOwner(t) \/ ReleaseCleanup(t)
    /\ UNCHANGED <<inboxVars, consumerVars, handle, buffer, post>>

(* The rest of acquire(): create the consumer group (an error is ignored), *)
(* spawn the consumer and keep its handle.  A handle that was there is     *)
(* overwritten, and its consumer goes on.                                  *)
StartConsumer(t) ==
    /\ tpc[t] = "consumer"
    /\ Goto(t, "drain")
    /\ \/ group' = TRUE /\ UNCHANGED faults
       \/ Fault("group") /\ UNCHANGED group
    /\ ConsumerAt(t, "poll")
    /\ handle' = [handle EXCEPT ![host[t]] = t]
    /\ UNCHANGED <<redisVars, host, taskVars, latest, stream, given, pending, count, dead,
                   readId, entry, rx, handed, spilled, buffer, post>>

(* message_queue.drain(): the script empties the buffer, the frames go on  *)
(* the channel; when its reply is lost they are gone.  Then the control    *)
(* subscriber is spawned and the read loop begins.                         *)
Drain(t) ==
    /\ tpc[t] = "drain"
    /\ Goto(t, "open")
    /\ buffer' = <<>>
    /\ \/ /\ handed' = handed \cup {buffer[i] : i \in 1..Len(buffer)}
          /\ UNCHANGED <<spilled, faults>>
       \/ /\ Fault("drain")
          /\ spilled' = spilled \cup {buffer[i] : i \in 1..Len(buffer)}
          /\ UNCHANGED handed
    /\ control' = [control EXCEPT ![t] = "starting"]
    /\ UNCHANGED <<redisVars, host, hb, release, signal, latest, inboxVars,
                   cpc, readId, entry, rx, handle, post>>

(* The lease is dropped.  The handle found under the agent's id is aborted *)
(* whichever tunnel's consumer it belongs to.                              *)
Close(t) ==
    LET victim == handle[host[t]] IN
    /\ DropOwnership(t)
    /\ cpc' = [u \in Tunnels |-> IF u = victim THEN "off" ELSE cpc[u]]
    /\ handle' = [handle EXCEPT ![host[t]] = None]
    /\ UNCHANGED <<inboxVars, readId, entry, rx, handed, spilled, buffer, post>>

(* The write task ends: a failed write, or aborted after the teardown. *)
CloseChannel(t) ==
    /\ rx[t] /\ tpc[t] \in {"open", "gone"}
    /\ rx' = [rx EXCEPT ![t] = FALSE]
    /\ UNCHANGED <<leaseVars, inboxVars, cpc, readId, entry, handed, spilled, handle, buffer, post>>

Crash(i) ==
    /\ CrashTunnels(i)
    /\ cpc' = [t \in Tunnels |-> IF host[t] = i THEN "off" ELSE cpc[t]]
    /\ rx' = [t \in Tunnels |-> rx[t] /\ host[t] # i]
    /\ handle' = [handle EXCEPT ![i] = None]
    /\ UNCHANGED <<inboxVars, readId, entry, handed, spilled, buffer, post>>

-----------------------------------------------------------------------------
(* Pushes *)

(* deliver(): EXISTS owner and XADD in one script.  An error counts as "no *)
(* tunnel", whether or not the script ran.                                 *)
Deliver(m) ==
    /\ post[m] = "new"
    /\ \/ /\ owner # None
          /\ stream' = Append(stream, m)
          /\ post' = [post EXCEPT ![m] = "live"]
          /\ UNCHANGED faults
       \/ /\ owner = None
          /\ post' = [post EXCEPT ![m] = "absent"]
          /\ UNCHANGED <<stream, faults>>
       \/ /\ Fault("deliver")
          /\ stream' \in {stream, IF owner # None THEN Append(stream, m) ELSE stream}
          /\ post' = [post EXCEPT ![m] = "absent"]
    /\ UNCHANGED <<redisVars, tpc, host, taskVars, latest, given, group, pending, count, dead,
                   consumerVars, handle, buffer>>

PushBufferOverCap(m) ==
    /\ post[m] = "absent"
    /\ \/ /\ Len(buffer) <= BufferCap
          /\ buffer' = Append(buffer, m)
          /\ post' = [post EXCEPT ![m] = "queued"]
       \/ /\ Len(buffer) > BufferCap
          /\ post' = [post EXCEPT ![m] = "full"]
          /\ UNCHANGED buffer
    /\ UNCHANGED <<leaseVars, inboxVars, consumerVars, handle>>

(* The handler's fallback, message_queue.push(): XLEN and XADD in one      *)
(* script; an error is reported as a full buffer, whether or not it ran.   *)
PushBuffer(m) ==
    /\ post[m] = "absent"
    /\ \/ /\ Len(buffer) < BufferCap
          /\ buffer' = Append(buffer, m)
          /\ post' = [post EXCEPT ![m] = "queued"]
          /\ UNCHANGED faults
       \/ /\ Len(buffer) >= BufferCap
          /\ post' = [post EXCEPT ![m] = "full"]
          /\ UNCHANGED <<buffer, faults>>
       \/ /\ Fault("push")
          /\ buffer' \in {buffer, IF Len(buffer) < BufferCap THEN Append(buffer, m) ELSE buffer}
          /\ post' = [post EXCEPT ![m] = "full"]
    /\ UNCHANGED <<redisVars, tpc, host, taskVars, latest, inboxVars, consumerVars, handle>>

-----------------------------------------------------------------------------
Consume(t) ==
    /\ ConsumerStep(t)
    /\ UNCHANGED <<redisVars, tpc, host, taskVars, latest, handle, buffer, post>>

Sweep(t) ==
    /\ \E m \in Messages, old \in BOOLEAN : Autoclaim(t, m, old)
    /\ UNCHANGED <<redisVars, tpc, host, taskVars, latest, handle, buffer, post>>

KeyExpires == Expire /\ UNCHANGED <<inboxVars, consumerVars, handle, buffer, post>>
Delete == Disconnect /\ UNCHANGED <<inboxVars, consumerVars, handle, buffer, post>>

Next ==
    \/ \E t \in Tunnels :
          \/ \E i \in Instances : Connect(t, i)
          \/ LeaseStep(t) \/ StartConsumer(t) \/ Drain(t) \/ Close(t) \/ CloseChannel(t)
          \/ BackgroundStep(t) \/ Consume(t) \/ Sweep(t)
    \/ \E i \in Instances : Crash(i)
    \/ KeyExpires
    \/ Delete
    \/ \E m \in Messages : Deliver(m) \/ PushBuffer(m)

Spec == Init /\ [][Next]_vars

(* Consumers poll and sweep again and again, and a key that nobody renews  *)
(* expires.  A release task may never run ("if the runtime is shutting     *)
(* down this may not complete", lease.rs 81-82), and nothing makes a       *)
(* tunnel connect, get further or close.                                   *)
FairSpec ==
    /\ Spec
    /\ \A t \in Tunnels : WF_vars(Consume(t)) /\ WF_vars(Sweep(t))
    /\ WF_vars(KeyExpires)

-----------------------------------------------------------------------------
SharesHost(t) == \E u \in Tunnels \ {t} : host[u] = host[t]
InBuffer(m) == \E i \in 1..Len(buffer) : buffer[i] = m
NotGivenYet(m) == \E i \in (given + 1)..Len(stream) : stream[i] = m

(* As long as the lease object of the tunnel that took the lease last is   *)
(* alive and its heartbeat has not failed, its instance is the owner: no   *)
(* late release, late acquire step, crash or expiry of another instance    *)
(* takes the key away (lease.rs 124-260).  Tunnels of the same instance    *)
(* share their value of the key, and one can release it for the other.     *)
LatestHolderOwns ==
    (latest # None /\ hb[latest] = "on" /\ ~SharesHost(latest)) => owner = host[latest]

(* A push that was accepted is never forgotten: it is in the stream ahead  *)
(* of the group, pending, in the offline buffer, dead-lettered, or was put *)
(* on the channel of some tunnel, also when consumers are aborted or       *)
(* closed half way through an entry, instances crash and replies are lost  *)
(* (inbox.rs 98-112, registry.rs 133-147).  The two exceptions: the XADD   *)
(* to the dead-letter stream fails, or the reply to a drain is lost.       *)
NothingForgotten ==
    \A m \in Messages : post[m] \in {"live", "queued"} =>
        \/ NotGivenYet(m) \/ pending[m] # None \/ InBuffer(m)
        \/ m \in dead \/ m \in handed \/ m \in spilled

(* Under FairSpec: while consumers are running, an entry of the inbox is   *)
(* put on a channel or dead-lettered in the end, also one that an aborted  *)
(* or crashed consumer left pending (inbox.rs 69-141, 154-229).            *)
InboxSettles ==
    \A m \in Messages :
        (post[m] = "live") ~>
            (m \in handed \/ m \in dead \/ \A t \in Tunnels : cpc[t] = "off")

(* Under FairSpec: the lease of an instance that has no tunnel of the      *)
(* agent left ends, also when the instance crashed or its release failed,  *)
(* so that pushes go to the buffer again (lease.rs 31-35, 81-88).          *)
DeadLeaseEnds ==
    \A i \in Instances :
        (owner = i /\ \A t \in Tunnels : host[t] = i => tpc[t] = "gone")
            ~> (owner # i \/ \E t \in Tunnels : host[t] = i /\ tpc[t] # "gone")

(* Nothing waits for ever in Redis: not an entry of an inbox (inbox.rs     *)
(* 90-250), not a lease without a tunnel (lease.rs 31-35).                 *)
RedisSettles == InboxSettles /\ DeadLeaseEnds
=============================================================================
