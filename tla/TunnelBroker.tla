---------------------------- MODULE TunnelBroker ----------------------------
(***************************************************************************)
(* The single-instance broker: tunnels (server/src/tunnel/run.rs), the     *)
(* REST handlers that push to them (server/src/api/agents.rs), and the two *)
(* in-memory stores they share.  Every tunnel runs as a main task (acquire,*)
(* drain, read loop, teardown) and a write task; every REST request runs   *)
(* as its own task.  A step is what happens between two points where       *)
(* another task can observe the shared state.                              *)
(***************************************************************************)
EXTENDS AgentRegistry, MessageQueue

CONSTANTS Messages,     \* POST /agents/{id}/messages requests
          Cancels,      \* POST /agents/{id}/cancel requests
          Deletes,      \* DELETE /agents/{id} requests
          Reply,        \* a JSON-RPC response to a request of the agent
          MaxRequests   \* bound: frames with a response, per tunnel

Posts == Messages \cup Cancels
Frames == Posts \cup {Reply}

ASSUME BrokerAssumption ==
    /\ Messages \cap Cancels = {}
    /\ Reply \notin Posts
    /\ MaxRequests \in Nat

VARIABLES
    tpc,        \* where the main task of a tunnel is
    owner,      \* the agent of a tunnel (claims.sub)
    sock,       \* the WebSocket: "up" until either side closes or loses it
    buf,        \* frames drained from the queue, not yet on the channel
    chan,       \* the tunnel's mpsc channel
    rx,         \* TRUE while the channel's receiver is alive
    requests,   \* requests of the agent answered so far (bounded)
    received,   \* history: frames written to the tunnel's healthy socket
    post,       \* where a push request is, or how it was answered
    to,         \* the agent a push is addressed to
    view,       \* the entry that deliver()'s get() returned
    prior,      \* history: pushes already accepted when a push arrived
    lost,       \* history: frames that died with a socket or a channel
    del,        \* where a DELETE request is, or how it was answered
    delAgent    \* the agent it names

tunnelVars == <<tpc, owner, sock, buf, chan, rx, requests, received>>
postVars   == <<post, to, view, prior>>
delVars    == <<del, delAgent>>
storeVars  == <<connected, recent, queue>>
vars == <<storeVars, tunnelVars, postVars, lost, delVars>>

(* The main task's positions.  "purge" is inside register(), "push_recent" *)
(* inside unregister(); the write task exists from "open" on.              *)
TunnelPC == {"idle", "purge", "drain", "buffered", "open",
             "unregister", "push_recent", "abort", "gone"}
Registering == {"purge", "drain", "buffered"}
Registered == Registering \cup {"open", "unregister"}

PostPC == {"new", "found", "absent", "live", "queued", "full", "dropped", "bad_request"}
Accepted(p) == post[p] \in {"live", "queued"}
DeletePC == {"new", "remove", "push_recent", "accepted", "not_found"}

TypeOK ==
    /\ RegistryTypeOK
    /\ queue \in [Agents -> Seq(Messages)]
    /\ \A a \in Agents : Len(queue[a]) <= QueueCap
    /\ tpc \in [Tunnels -> TunnelPC]
    /\ owner \in [Tunnels -> Agents \cup {None}]
    /\ sock \in [Tunnels -> {"up", "down"}]
    /\ buf \in [Tunnels -> Seq(Messages)]
    /\ chan \in [Tunnels -> Seq(Frames)]
    /\ rx \in [Tunnels -> BOOLEAN]
    /\ requests \in [Tunnels -> 0..MaxRequests]
    /\ received \in [Tunnels -> Seq(Frames)]
    /\ post \in [Posts -> PostPC]
    /\ to \in [Posts -> Agents \cup {None}]
    /\ view \in [Posts -> Tunnels \cup {None}]
    /\ prior \in [Posts -> SUBSET Posts]
    /\ lost \in SUBSET Posts
    /\ del \in [Deletes -> DeletePC]
    /\ delAgent \in [Deletes -> Agents \cup {None}]

Init ==
    /\ RegistryInit
    /\ QueueInit(Agents)
    /\ tpc = [t \in Tunnels |-> "idle"]
    /\ owner = [t \in Tunnels |-> None]
    /\ sock = [t \in Tunnels |-> "down"]
    /\ buf = [t \in Tunnels |-> <<>>]
    /\ chan = [t \in Tunnels |-> <<>>]
    /\ rx = [t \in Tunnels |-> FALSE]
    /\ requests = [t \in Tunnels |-> 0]
    /\ received = [t \in Tunnels |-> <<>>]
    /\ post = [p \in Posts |-> "new"]
    /\ to = [p \in Posts |-> None]
    /\ view = [p \in Posts |-> None]
    /\ prior = [p \in Posts |-> {}]
    /\ lost = {}
    /\ del = [d \in Deletes |-> "new"]
    /\ delAgent = [d \in Deletes |-> None]

-----------------------------------------------------------------------------
(* The main task of a tunnel *)

Goto(t, pc) == tpc' = [tpc EXCEPT ![t] = pc]

(* A WebSocket for agent a is accepted: create the channel and enter       *)
(* acquire(), whose register() inserts the entry.                          *)
Connect(t, a) ==
    /\ tpc[t] = "idle"
    /\ Goto(t, "purge")
    /\ owner' = [owner EXCEPT ![t] = a]
    /\ sock' = [sock EXCEPT ![t] = "up"]
    /\ rx' = [rx EXCEPT ![t] = TRUE]
    /\ InsertEntry(a, t)
    /\ UNCHANGED <<recent, queue, buf, chan, requests, received, postVars, lost, delVars>>

(* The rest of register(). *)
FinishRegister(t) ==
    /\ tpc[t] = "purge"
    /\ PurgeRecent(owner[t])
    /\ Goto(t, "drain")
    /\ UNCHANGED <<connected, queue, owner, sock, buf, chan, rx, requests, received,
                   postVars, lost, delVars>>

DrainLosesSlot(t) ==
    /\ tpc[t] = "drain"
    /\ QueueDrain(owner[t])
    /\ Goto(t, "open")
    /\ UNCHANGED <<connected, recent, owner, sock, buf, chan, rx, requests, received,
                   postVars, lost, delVars>>

(* message_queue.drain(agent_id) *)
Drain(t) ==
    /\ tpc[t] = "drain"
    /\ buf' = [buf EXCEPT ![t] = queue[owner[t]]]
    /\ QueueDrain(owner[t])
    /\ Goto(t, IF queue[owner[t]] = <<>> THEN "open" ELSE "buffered")
    /\ UNCHANGED <<connected, recent, owner, sock, chan, rx, requests, received,
                   postVars, lost, delVars>>

(* One iteration of `for frame in buffered { local_tx.send(frame) }`.  The *)
(* receiver is still a local of run_tunnel, so the send succeeds; a live   *)
(* push may land on the channel between two iterations.                    *)
SendBuffered(t) ==
    /\ tpc[t] = "buffered"
    /\ chan' = [chan EXCEPT ![t] = Append(@, Head(buf[t]))]
    /\ buf' = [buf EXCEPT ![t] = Tail(@)]
    /\ Goto(t, IF Len(buf[t]) = 1 THEN "open" ELSE "buffered")
    /\ UNCHANGED <<storeVars, owner, sock, rx, requests, received, postVars, lost, delVars>>

(* Read loop, a Text frame that dispatch answers (handle_message returns   *)
(* Some): the response is put on the tunnel's own channel, or dropped when *)
(* the write task is gone.  Frames without a response change nothing here, *)
(* nor does what the read loop publishes to the SSE broker.                *)
ReadRequest(t) ==
    /\ tpc[t] = "open"
    /\ requests[t] < MaxRequests
    /\ requests' = [requests EXCEPT ![t] = @ + 1]
    /\ chan' = IF rx[t] THEN [chan EXCEPT ![t] = Append(@, Reply)] ELSE chan
    /\ UNCHANGED <<storeVars, tpc, owner, sock, buf, rx, received, postVars, lost, delVars>>

(* Read loop: Close, end of stream or a read error breaks out of it. *)
ReadEnd(t) ==
    /\ tpc[t] = "open"
    /\ sock[t] = "down"
    /\ Goto(t, "unregister")
    /\ UNCHANGED <<storeVars, owner, sock, buf, chan, rx, requests, received,
                   postVars, lost, delVars>>

DropLeaseKeepsEntry(t) ==
    /\ tpc[t] = "unregister"
    /\ Goto(t, "abort")
    /\ UNCHANGED <<storeVars, owner, sock, buf, chan, rx, requests, received,
                   postVars, lost, delVars>>

(* drop(lease): unregister(agent_id) removes the agent's entry, WHICHEVER  *)
(* tunnel it belongs to, and remembers to log it.                          *)
DropLease(t) ==
    /\ tpc[t] = "unregister"
    /\ \/ /\ connected[owner[t]] # None
          /\ RemoveEntry(owner[t])
          /\ Goto(t, "push_recent")
       \/ /\ connected[owner[t]] = None
          /\ Goto(t, "abort")
          /\ UNCHANGED connected
    /\ UNCHANGED <<recent, queue, owner, sock, buf, chan, rx, requests, received,
                   postVars, lost, delVars>>

(* The rest of unregister(). *)
LogDisconnect(t) ==
    /\ tpc[t] = "push_recent"
    /\ PushRecent(owner[t])
    /\ Goto(t, "abort")
    /\ UNCHANGED <<connected, queue, owner, sock, buf, chan, rx, requests, received,
                   postVars, lost, delVars>>

(* ping_task.abort(); write_task.abort(); run_tunnel returns. *)
Abort(t) ==
    /\ tpc[t] = "abort"
    /\ Goto(t, "gone")
    /\ UNCHANGED <<storeVars, owner, sock, buf, chan, rx, requests, received,
                   postVars, lost, delVars>>

-----------------------------------------------------------------------------
(* The write task of a tunnel, and its socket *)

Writing(t) == rx[t] /\ tpc[t] \notin {"idle"} \cup Registering

(* The receiver is dropped: what is still on the channel is lost. *)
CloseChannel(t) ==
    /\ rx' = [rx EXCEPT ![t] = FALSE]
    /\ chan' = [chan EXCEPT ![t] = <<>>]
    /\ lost' = lost \cup {p \in Posts : \E i \in 1..Len(chan[t]) : chan[t][i] = p}

(* rx.recv() then ws_tx.send() on a healthy socket. *)
WriteFrame(t) ==
    /\ Writing(t)
    /\ sock[t] = "up"
    /\ chan[t] # <<>>
    /\ received' = [received EXCEPT ![t] = Append(@, Head(chan[t]))]
    /\ chan' = [chan EXCEPT ![t] = Tail(@)]
    /\ UNCHANGED <<storeVars, tpc, owner, sock, buf, rx, requests, postVars, lost, delVars>>

(* The peer is gone but the local buffers still accept the frame. *)
WriteIntoVoid(t) ==
    /\ Writing(t)
    /\ sock[t] = "down"
    /\ chan[t] # <<>>
    /\ lost' = lost \cup ({Head(chan[t])} \cap Posts)
    /\ chan' = [chan EXCEPT ![t] = Tail(@)]
    /\ UNCHANGED <<storeVars, tpc, owner, sock, buf, rx, requests, received, postVars, delVars>>

(* Sending a frame or a ping fails: the write task breaks and drops the    *)
(* receiver while the read loop may still be running.                      *)
WriteBreak(t) ==
    /\ Writing(t)
    /\ sock[t] = "down"
    /\ CloseChannel(t)
    /\ UNCHANGED <<storeVars, tpc, owner, sock, buf, requests, received, postVars, delVars>>

(* The aborted write task is dropped at its next await point. *)
WriteAborted(t) ==
    /\ tpc[t] = "gone"
    /\ rx[t]
    /\ CloseChannel(t)
    /\ UNCHANGED <<storeVars, tpc, owner, sock, buf, requests, received, postVars, delVars>>

(* The agent closes the socket, or the network loses it. *)
SocketDown(t) ==
    /\ tpc[t] \notin {"idle", "gone"}
    /\ sock[t] = "up"
    /\ sock' = [sock EXCEPT ![t] = "down"]
    /\ UNCHANGED <<storeVars, tpc, owner, buf, chan, rx, requests, received,
                   postVars, lost, delVars>>

-----------------------------------------------------------------------------
(* POST /agents/{id}/messages and POST /agents/{id}/cancel *)

Answer(p, st) == post' = [post EXCEPT ![p] = st]

(* send_message's early return on an empty role. *)
RejectEmptyRole(p) ==
    /\ p \in Messages
    /\ post[p] = "new"
    /\ Answer(p, "bad_request")
    /\ UNCHANGED <<storeVars, tunnelVars, to, view, prior, lost, delVars>>

LookupAnyEntry(p, a) ==
    /\ post[p] = "new"
    /\ to' = [to EXCEPT ![p] = a]
    /\ \E b \in Agents :
          /\ view' = [view EXCEPT ![p] = connected[b]]
          /\ Answer(p, IF connected[b] = None THEN "absent" ELSE "found")
    /\ UNCHANGED <<storeVars, tunnelVars, prior, lost, delVars>>

(* deliver(): get() clones the agent's entry, if any. *)
Lookup(p, a) ==
    /\ post[p] = "new"
    /\ to' = [to EXCEPT ![p] = a]
    /\ view' = [view EXCEPT ![p] = connected[a]]
    /\ prior' = [prior EXCEPT ![p] = {q \in Posts : Accepted(q) /\ to[q] = a}]
    /\ Answer(p, IF connected[a] = None THEN "absent" ELSE "found")
    /\ UNCHANGED <<storeVars, tunnelVars, lost, delVars>>

SendLiveIgnoresClosed(p) ==
    /\ post[p] = "found"
    /\ chan' = IF rx[view[p]] THEN [chan EXCEPT ![view[p]] = Append(@, p)] ELSE chan
    /\ Answer(p, "live")
    /\ UNCHANGED <<storeVars, tpc, owner, sock, buf, rx, requests, received,
                   to, view, prior, lost, delVars>>

SendLiveFirst(p) ==
    /\ post[p] = "found"
    /\ \/ /\ rx[view[p]]
          /\ chan' = [chan EXCEPT ![view[p]] = <<p>> \o @]
          /\ Answer(p, "live")
       \/ /\ ~rx[view[p]]
          /\ Answer(p, "absent")
          /\ UNCHANGED chan
    /\ UNCHANGED <<storeVars, tpc, owner, sock, buf, rx, requests, received,
                   to, view, prior, lost, delVars>>

(* deliver(): entry.tx.send(frame) on the entry looked up before, which    *)
(* may have been replaced or removed since.                                *)
SendLive(p) ==
    /\ post[p] = "found"
    /\ \/ /\ rx[view[p]]
          /\ chan' = [chan EXCEPT ![view[p]] = Append(@, p)]
          /\ Answer(p, "live")
       \/ /\ ~rx[view[p]]
          /\ Answer(p, "absent")
          /\ UNCHANGED chan
    /\ UNCHANGED <<storeVars, tpc, owner, sock, buf, rx, requests, received,
                   to, view, prior, lost, delVars>>

FallBackQueuesAll(p) ==
    /\ post[p] = "absent"
    /\ ~QueueFull(to[p])
    /\ QueuePush(to[p], p)
    /\ Answer(p, "queued")
    /\ UNCHANGED <<connected, recent, tunnelVars, to, view, prior, lost, delVars>>

(* NoTunnel: a message is pushed to the queue, or refused with 503; a      *)
(* cancel is dropped and still answered 202.                               *)
FallBack(p) ==
    /\ post[p] = "absent"
    /\ \/ /\ p \in Cancels
          /\ Answer(p, "dropped")
          /\ UNCHANGED queue
       \/ /\ p \in Messages
          /\ ~QueueFull(to[p])
          /\ QueuePush(to[p], p)
          /\ Answer(p, "queued")
       \/ /\ p \in Messages
          /\ QueueFull(to[p])
          /\ Answer(p, "full")
          /\ UNCHANGED queue
    /\ UNCHANGED <<connected, recent, tunnelVars, to, view, prior, lost, delVars>>

-----------------------------------------------------------------------------
(* DELETE /agents/{id} *)

(* disconnect_agent: the is_connected() check. *)
DeleteCheck(d, a) ==
    /\ del[d] = "new"
    /\ delAgent' = [delAgent EXCEPT ![d] = a]
    /\ del' = [del EXCEPT ![d] = IF connected[a] = None THEN "not_found" ELSE "remove"]
    /\ UNCHANGED <<storeVars, tunnelVars, postVars, lost>>

(* disconnect() = unregister(): remove the entry, if it is still there. *)
DeleteRemove(d) ==
    LET a == delAgent[d] IN
    /\ del[d] = "remove"
    /\ \/ /\ connected[a] # None
          /\ RemoveEntry(a)
          /\ del' = [del EXCEPT ![d] = "push_recent"]
       \/ /\ connected[a] = None
          /\ del' = [del EXCEPT ![d] = "accepted"]
          /\ UNCHANGED connected
    /\ UNCHANGED <<recent, queue, tunnelVars, postVars, lost, delAgent>>

(* The rest of unregister(), and the 202 answer. *)
DeleteLog(d) ==
    /\ del[d] = "push_recent"
    /\ PushRecent(delAgent[d])
    /\ del' = [del EXCEPT ![d] = "accepted"]
    /\ UNCHANGED <<connected, queue, tunnelVars, postVars, lost, delAgent>>

-----------------------------------------------------------------------------
(* The steps a tunnel's tasks take by themselves. *)
TunnelStep(t) ==
    \/ FinishRegister(t)
    \/ Drain(t)
    \/ SendBuffered(t)
    \/ ReadEnd(t)
    \/ DropLease(t)
    \/ LogDisconnect(t)
    \/ Abort(t)
WriteStep(t) == WriteFrame(t) \/ WriteIntoVoid(t) \/ WriteBreak(t) \/ WriteAborted(t)
HandlerStep(p) == SendLive(p) \/ FallBack(p)
DeleteStep(d) == DeleteRemove(d) \/ DeleteLog(d)

Next ==
    \/ \E t \in Tunnels : \/ \E a \in Agents : Connect(t, a)
                          \/ TunnelStep(t)
                          \/ WriteStep(t)
                          \/ ReadRequest(t)
                          \/ SocketDown(t)
    \/ \E p \in Posts : \/ RejectEmptyRole(p)
                        \/ \E a \in Agents : Lookup(p, a)
                        \/ HandlerStep(p)
    \/ \E d \in Deletes : \/ \E a \in Agents : DeleteCheck(d, a)
                          \/ DeleteStep(d)

(* Every task that can run is eventually scheduled; nothing forces agents  *)
(* to connect or send, sockets to fail, or clients to call the REST API.   *)
Fairness ==
    /\ \A t \in Tunnels : WF_vars(TunnelStep(t)) /\ WF_vars(WriteStep(t))
    /\ \A p \in Posts : WF_vars(HandlerStep(p))
    /\ \A d \in Deletes : WF_vars(DeleteStep(d))

Spec == Init /\ [][Next]_vars
FairSpec == Spec /\ Fairness

-----------------------------------------------------------------------------
(* Safety *)

(* No entry of the routing table outlives its tunnel: an entry names a     *)
(* tunnel of that agent whose lease has not been dropped (register at      *)
(* agent.rs 241, the lease's unregister at 333; two tunnels of one agent   *)
(* may overlap, and a DELETE may come in between).                         *)
NoDanglingEntry ==
    \A a \in Agents : connected[a] # None =>
        /\ owner[connected[a]] = a
        /\ tpc[connected[a]] \in Registered

At(s, p) == {i \in 1..Len(s) : s[i] = p}

(* What each task may rely on at its position: a tunnel past "idle" has an *)
(* owner, a batch is held only while it is being sent, a request past its  *)
(* first step has its agent, and one that found an entry holds it.         *)
TaskState ==
    /\ \A t \in Tunnels :
          /\ tpc[t] # "idle" => owner[t] \in Agents
          /\ tpc[t] = "buffered" <=> buf[t] # <<>>
    /\ \A p \in Posts :
          /\ post[p] \notin {"new", "bad_request"} => to[p] \in Agents
          /\ post[p] = "found" => view[p] \in Tunnels
    /\ \A d \in Deletes : del[d] \in {"remove", "push_recent"} => delAgent[d] \in Agents

(* Every place a push is in: queue, drained batch, channel, socket, lost. *)
Copies(p) ==
    (UNION { {<<"queue", a>>} \X At(queue[a], p) : a \in Agents })
    \cup (UNION { ({<<"buf", t>>} \X At(buf[t], p))
                  \cup ({<<"chan", t>>} \X At(chan[t], p))
                  \cup ({<<"received", t>>} \X At(received[t], p)) : t \in Tunnels })
    \cup {<<<<"lost", None>>, 0>> : q \in {p} \cap lost}

(* A push answered with "live" or "queued" is in exactly one place for     *)
(* ever after, and any other push is nowhere: no push is duplicated or     *)
(* forgotten on the way between deliver(), the queue, drain() and the      *)
(* write task, and a refused one is never sent (send_message, run_tunnel). *)
ExactlyOnce ==
    \A p \in Posts : IF Accepted(p) THEN \E c \in Copies(p) : Copies(p) = {c}
                                    ELSE Copies(p) = {}

(* A push only ever reaches the buffer, the channel or the socket of the   *)
(* agent it is addressed to, although handlers send on entries looked up   *)
(* before the agent's tunnel changed (deliver, agent.rs 338-347).          *)
NoMisdelivery ==
    \A p \in Posts :
        /\ \A a \in Agents : At(queue[a], p) # {} => to[p] = a
        /\ \A t \in Tunnels :
              At(buf[t], p) \cup At(chan[t], p) \cup At(received[t], p) # {}
                  => to[p] = owner[t]

(* On one tunnel a push overtakes one that was accepted before it arrived  *)
(* only in one case: a live push passing a buffered one (run_tunnel        *)
(* registers the tunnel before it drains the queue, run.rs 59-81).         *)
OvertakesOnlyBuffered ==
    \A t \in Tunnels : \A i, j \in 1..Len(received[t]) :
        LET p == received[t][i]
            q == received[t][j]
        IN  (i < j /\ p \in Posts /\ q \in Posts /\ q \in prior[p])
                => post[p] = "live" /\ post[q] = "queued"

(* A cancel is only ever carried by the tunnel that was registered when it *)
(* arrived: it is never replayed on a later tunnel, where it would abandon *)
(* a turn it was not meant for (cancel_turn, api/agents.rs 205-217).       *)
CancelNotReplayed ==
    \A c \in Cancels :
        /\ \A a \in Agents : At(queue[a], c) = {}
        /\ \A t \in Tunnels :
              At(buf[t], c) \cup At(chan[t], c) \cup At(received[t], c) # {}
                  => view[c] = t

-----------------------------------------------------------------------------
(* Liveness, under FairSpec *)

InSeq(p, s) == At(s, p) # {}

Holds(t, p) == InSeq(p, buf[t]) \/ InSeq(p, chan[t])

(* A message that is in an agent's buffer when a tunnel of that agent      *)
(* comes up goes out on a tunnel of that agent, or the tunnel that took it *)
(* from the buffer breaks with the message in hand: tunnels that broke     *)
(* before are no excuse (drain and SendBuffered, run.rs 71-81).            *)
BufferedReachesNextTunnel ==
    \A p \in Messages, t \in Tunnels :
        (owner[t] # None /\ tpc[t] \in {"purge", "drain"} /\ InSeq(p, queue[owner[t]]))
            ~> \E u \in Tunnels : /\ owner[u] = owner[t]
                                  /\ InSeq(p, received[u]) \/ (sock[u] = "down" /\ Holds(u, p))

(* A tunnel whose socket is gone ends, drops its receiver and leaves no    *)
(* entry behind (run.rs 124-170).                                          *)
BrokenTunnelEnds ==
    \A t \in Tunnels :
        (tpc[t] # "idle" /\ sock[t] = "down")
            ~> (tpc[t] = "gone" /\ ~rx[t] /\ connected[owner[t]] # t)

-----------------------------------------------------------------------------
(* What the repository says of this code and the code does not do          *)

(* deliver() returns "`NoTunnel(frame)` if no tunnel exists" (agent.rs     *)
(* 87-88): a lookup finds no entry only when no tunnel of the agent is up. *)
(* Stated for systems without DELETE requests, which unregister on purpose.*)
NoTunnelMeansNoTunnel ==
    [][\A p \in Posts, a \in Agents :
          (Lookup(p, a) /\ post'[p] = "absent") =>
              ~ \E t \in Tunnels : owner[t] = a /\ tpc[t] = "open" /\ sock[t] = "up"]_vars
=============================================================================
