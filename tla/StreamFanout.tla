----------------------------- MODULE StreamFanout -----------------------------
(***************************************************************************)
(* The SSE fan-out of one agent's frames (server/src/tunnel/broker.rs): a  *)
(* broadcast channel that keeps the last StreamBuffer frames.  A           *)
(* subscriber starts at the end of the channel; one that has fallen behind *)
(* by more than the buffer goes on at its oldest frame, and the error that *)
(* says so is filtered out.                                                *)
(***************************************************************************)
EXTENDS Naturals, Sequences

CONSTANTS Subscribers, StreamBuffer

ASSUME FanoutAssumption == StreamBuffer \in Nat \ {0}

VARIABLES
    bus,        \* all frames published on the channel
    joined,     \* subscriber -> length of bus when it subscribed, 0 before
    cursor,     \* subscriber -> frames of bus it is past
    listening,  \* the subscribers
    seen,       \* subscriber -> the events it got
    lagged      \* history: subscribers that once fell behind by more than the buffer

fanoutVars == <<bus, joined, cursor, listening, seen, lagged>>

FanoutTypeOK(frames) ==
    /\ bus \in Seq(frames)
    /\ joined \in [Subscribers -> 0..Len(bus)]
    /\ cursor \in [Subscribers -> 0..Len(bus)]
    /\ \A s \in Subscribers : joined[s] <= cursor[s]
    /\ listening \subseteq Subscribers
    /\ seen \in [Subscribers -> Seq(frames)]
    /\ lagged \subseteq Subscribers

FanoutInit ==
    /\ bus = <<>>
    /\ joined = [s \in Subscribers |-> 0]
    /\ cursor = [s \in Subscribers |-> 0]
    /\ listening = {} /\ lagged = {}
    /\ seen = [s \in Subscribers |-> <<>>]

Behind(s) == Len(bus) - cursor[s]

(* publish(); with nobody listening the frame is dropped, which is the     *)
(* same as nobody being behind it.                                         *)
Publish(f) ==
    /\ bus' = Append(bus, f)
    /\ lagged' = lagged \cup {s \in listening : Behind(s) >= StreamBuffer}
    /\ UNCHANGED <<joined, cursor, listening, seen>>

(* stream_events, also for an agent that is not connected. *)
Subscribe(s) ==
    /\ s \notin listening
    /\ listening' = listening \cup {s}
    /\ joined' = [joined EXCEPT ![s] = Len(bus)]
    /\ cursor' = [cursor EXCEPT ![s] = Len(bus)]
    /\ seen' = [seen EXCEPT ![s] = <<>>]
    /\ lagged' = lagged \ {s}
    /\ UNCHANGED bus

ReceiveLagsEarly(s) ==
    /\ s \in listening /\ Behind(s) > 0
    /\ LET next == IF Behind(s) >= StreamBuffer THEN Len(bus) - StreamBuffer + 2 ELSE cursor[s] + 1
       IN  /\ next <= Len(bus)
           /\ seen' = [seen EXCEPT ![s] = Append(@, bus[next])]
           /\ cursor' = [cursor EXCEPT ![s] = next]
    /\ UNCHANGED <<bus, joined, listening, lagged>>

(* The subscriber's next event. *)
Receive(s) ==
    /\ s \in listening /\ Behind(s) > 0
    /\ LET next == IF Behind(s) > StreamBuffer THEN Len(bus) - StreamBuffer + 1 ELSE cursor[s] + 1
       IN  /\ seen' = [seen EXCEPT ![s] = Append(@, bus[next])]
           /\ cursor' = [cursor EXCEPT ![s] = next]
    /\ UNCHANGED <<bus, joined, listening, lagged>>

(* Dropping the stream unsubscribes. *)
Unsubscribe(s) ==
    /\ s \in listening
    /\ listening' = listening \ {s}
    /\ UNCHANGED <<bus, joined, cursor, seen, lagged>>
=============================================================================
