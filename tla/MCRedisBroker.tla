---------------------------- MODULE MCRedisBroker ----------------------------
(* Two instances and a few tunnels of one agent under faults: the delivery *)
(* of pushes (RedisBroker), and what operators see of the same leases      *)
(* (RedisViews) and of the agent's notifications (RedisStream).  A         *)
(* behaviour is one of the three; the others stand still.                  *)
EXTENDS RedisBroker, RedisViews, RedisStream, TLC

VARIABLE part

inboxPart == <<inboxVars, consumerVars, handle, buffer, post>>

RedisSymmetry == Permutations(Instances) \cup Permutations(Tunnels) \cup Permutations(Messages)

FaultInit == part \in {"delivery", "directory", "stream"} /\ Init /\ ViewInit /\ FanInit

FaultNext ==
    \/ part = "delivery" /\ Next /\ UNCHANGED <<part, viewVars, fanVars>>
    \/ part = "directory" /\ ViewNext /\ UNCHANGED <<part, inboxPart, fanVars>>
    \/ part = "stream" /\ FanNext /\ UNCHANGED <<part, leaseVars, viewVars, inboxPart>>

FaultSpec == FaultInit /\ [][FaultNext]_<<part, vars, viewVars, fanVars>>
=============================================================================
