--------------------------- MODULE MessageDelivery ---------------------------
(***************************************************************************)
(* What the broker promises to a client of its push API, with no tunnels,  *)
(* channels or tasks: each push goes through these stages and no others.   *)
(*                                                                         *)
(*   new -> pending -> inflight -> sent                                    *)
(*      |      |-> buffered -^  \-> lost                                   *)
(*      |      |-> dropped   (a cancel with no tunnel: 202, nothing sent)  *)
(*      \------+-> refused   (400, or 503 when the agent's buffer is full) *)
(*                                                                         *)
(* A push is never lost while it is buffered, never goes back to the       *)
(* buffer, and is sent at most once; 503 is answered only when the agent's *)
(* buffer holds QueueCap messages.                                         *)
(***************************************************************************)
EXTENDS Naturals, FiniteSets

CONSTANTS Agents, Messages, Cancels, QueueCap, None

VARIABLES stage,  \* push -> its stage
          dest    \* push -> the agent it is addressed to

Pushes == Messages \cup Cancels
dvars == <<stage, dest>>

Buffered(a) == {p \in Pushes : stage[p] = "buffered" /\ dest[p] = a}

DInit ==
    /\ stage = [p \in Pushes |-> "new"]
    /\ dest = [p \in Pushes |-> None]

Move(S, st) ==
    /\ stage' = [p \in Pushes |-> IF p \in S THEN st ELSE stage[p]]
    /\ UNCHANGED dest

Arrive(p, a) ==
    /\ stage[p] = "new"
    /\ stage' = [stage EXCEPT ![p] = "pending"]
    /\ dest' = [dest EXCEPT ![p] = a]

BadRequest(p) == p \in Messages /\ stage[p] = "new" /\ Move({p}, "refused")
AcceptLive(p) == stage[p] = "pending" /\ Move({p}, "inflight")
DropCancel(p) == p \in Cancels /\ stage[p] = "pending" /\ Move({p}, "dropped")

Buffer(p) ==
    /\ p \in Messages /\ stage[p] = "pending"
    /\ Cardinality(Buffered(dest[p])) < QueueCap
    /\ Move({p}, "buffered")

RefuseFull(p) ==
    /\ p \in Messages /\ stage[p] = "pending"
    /\ Cardinality(Buffered(dest[p])) = QueueCap
    /\ Move({p}, "refused")

(* A reconnect takes the agent's whole buffer. *)
DrainAll(a) == Buffered(a) # {} /\ Move(Buffered(a), "inflight")

Send(p) == stage[p] = "inflight" /\ Move({p}, "sent")

(* A socket or a channel goes away with what it carries. *)
Lose(S) == S # {} /\ (\A p \in S : stage[p] = "inflight") /\ Move(S, "lost")

DNext ==
    \/ \E p \in Pushes : \/ \E a \in Agents : Arrive(p, a)
                         \/ BadRequest(p)
                         \/ AcceptLive(p)
                         \/ DropCancel(p)
                         \/ Buffer(p)
                         \/ RefuseFull(p)
                         \/ Send(p)
    \/ \E a \in Agents : DrainAll(a)
    \/ \E S \in SUBSET Pushes : Lose(S)

DSpec == DInit /\ [][DNext]_dvars
=============================================================================
