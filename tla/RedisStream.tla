----------------------------- MODULE RedisStream -----------------------------
(***************************************************************************)
(* The fan-out of an agent's notifications to operators on the Redis       *)
(* backend (redis_backend/broker.rs): PUBLISH by whichever instance has    *)
(* the tunnel, one connection and one task per subscriber, started when    *)
(* the response to the operator is already under way.                      *)
(***************************************************************************)
EXTENDS Integers, Sequences

CONSTANTS Subscribers, MaxFrames   \* bound: frames published

VARIABLES
    published,  \* number of frames published, or tried
    lost,       \* frames whose PUBLISH failed
    task,       \* a subscriber's task: "none", "starting", "on", "ended"
    wire,       \* what Redis has sent it
    sse         \* what its client has been sent

fanVars == <<published, lost, task, wire, sse>>

FanInit ==
    /\ published = 0 /\ lost = {}
    /\ task = [s \in Subscribers |-> "none"]
    /\ wire = [s \in Subscribers |-> <<>>]
    /\ sse = [s \in Subscribers |-> <<>>]

(* publish: an error is ignored, whether or not the command ran. *)
PublishFrame ==
    /\ published < MaxFrames
    /\ published' = published + 1
    /\ \/ wire' = [s \in Subscribers |-> IF task[s] = "on" THEN Append(wire[s], published') ELSE wire[s]]
          /\ UNCHANGED lost
       \/ UNCHANGED wire /\ lost' = lost \cup {published'}
    /\ UNCHANGED <<task, sse>>

(* subscribe returns at once; its task connects and subscribes, or ends. *)
SubscribeStream(s) ==
    /\ task[s] = "none"
    /\ task' = [task EXCEPT ![s] = "starting"]
    /\ UNCHANGED <<published, lost, wire, sse>>

Subscribed(s) ==
    /\ task[s] = "starting"
    /\ task' \in {[task EXCEPT ![s] = x] : x \in {"on", "ended"}}
    /\ UNCHANGED <<published, lost, wire, sse>>

(* One message to the client's channel; a payload that is no text is       *)
(* passed over (all are text here).                                        *)
Forward(s) ==
    /\ task[s] = "on" /\ wire[s] # <<>>
    /\ sse' = [sse EXCEPT ![s] = Append(@, Head(wire[s]))]
    /\ wire' = [wire EXCEPT ![s] = Tail(@)]
    /\ UNCHANGED <<published, lost, task>>

LoseConnectionResubscribes(s) ==
    /\ task[s] = "on"
    /\ task' = [task EXCEPT ![s] = "starting"]
    /\ wire' = [wire EXCEPT ![s] = <<>>]
    /\ UNCHANGED <<published, lost, sse>>

(* The connection to Redis is lost: the stream ends, and with it the       *)
(* response; the client has to ask again.                                  *)
LoseConnection(s) ==
    /\ task[s] = "on"
    /\ task' = [task EXCEPT ![s] = "ended"]
    /\ wire' = [wire EXCEPT ![s] = <<>>]
    /\ UNCHANGED <<published, lost, sse>>

(* The client goes away: tx.closed(). *)
LeaveStream(s) ==
    /\ task[s] = "on"
    /\ task' = [task EXCEPT ![s] = "ended"]
    /\ wire' = [wire EXCEPT ![s] = <<>>]
    /\ UNCHANGED <<published, lost, sse>>

FanNext ==
    \/ PublishFrame
    \/ \E s \in Subscribers :
          SubscribeStream(s) \/ Subscribed(s) \/ Forward(s) \/ LoseConnection(s) \/ LeaveStream(s)

FanSpec == FanInit /\ [][FanNext]_fanVars

-----------------------------------------------------------------------------
(* Between two frames there is nothing that was published. *)
NextPublished(f, g) == f < g /\ \A h \in (f + 1)..(g - 1) : h \in lost

(* What a client gets is one stretch of what was published, in order: once *)
(* the first frame is there, only a frame whose PUBLISH failed is missing, *)
(* and a lost connection ends the response instead of leaving a gap        *)
(* (broker.rs 35-100).                                                     *)
OneStretch ==
    \A s \in Subscribers : \A i \in 1..Len(sse[s]) :
        /\ sse[s][i] \in 1..published /\ sse[s][i] \notin lost
        /\ i > 1 => NextPublished(sse[s][i - 1], sse[s][i])
=============================================================================
