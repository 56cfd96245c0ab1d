---------------------------- MODULE BrokerDelivery ----------------------------
(***************************************************************************)
(* The broker implements MessageDelivery: the stage of a push is read off  *)
(* the place it is in.                                                     *)
(***************************************************************************)
EXTENDS TunnelBroker

PlaceOf(p) ==
    IF p \in lost THEN "lost"
    ELSE IF \E t \in Tunnels : InSeq(p, received[t]) THEN "sent"
    ELSE IF \E a \in Agents : InSeq(p, queue[a]) THEN "buffered"
    ELSE "inflight"

StageOf(p) ==
    CASE post[p] = "new"                     -> "new"
      [] post[p] \in {"found", "absent"}     -> "pending"
      [] post[p] \in {"full", "bad_request"} -> "refused"
      [] post[p] = "dropped"                 -> "dropped"
      [] Accepted(p)                         -> PlaceOf(p)

Abstract == INSTANCE MessageDelivery
            WITH stage <- [p \in Posts |-> StageOf(p)], dest <- to

(* Every behaviour of the broker is one of the delivery protocol: pushes   *)
(* take only its steps, in its order, and a message is refused for lack of *)
(* room only when QueueCap messages of its agent are buffered (the steps of*)
(* send_message, cancel_turn, the drain, the write task and its abort).    *)
ImplementsDelivery == Abstract!DSpec

(* Under FairSpec every push is answered, and what is in flight is sent or *)
(* dies with its socket: nothing stays on a channel nobody reads (the      *)
(* write task ends only together with its receiver, run.rs 104-120, 170).  *)
PushesSettle ==
    \A p \in Posts :
        /\ (StageOf(p) = "pending") ~> (StageOf(p) # "pending")
        /\ (StageOf(p) = "inflight") ~> (StageOf(p) \in {"sent", "lost"})

(* Nothing on the broker's side hangs: handlers of pushes settle           *)
(* (api/agents.rs 150-218) and a tunnel with a broken socket ends          *)
(* (tunnel/run.rs 121-172).                                                *)
BrokerSettles == PushesSettle /\ BrokenTunnelEnds
=============================================================================
