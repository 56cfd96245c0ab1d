----------------------------- MODULE AgentSession -----------------------------
(***************************************************************************)
(* One agent from its child process to the SSE subscribers: the supervisor *)
(* bridges the child's lines to the tunnel, the tunnel's read loop         *)
(* (server/src/tunnel/run.rs) publishes those that look like stream        *)
(* notifications, and the fan-out delivers them.  There is no reconnect:   *)
(* run_with ends with its first bridge.                                    *)
(***************************************************************************)
EXTENDS Supervisor, StreamFanout, FiniteSets

CONSTANT Streamed   \* the lines whose text contains one of the sniffed names

ASSUME StreamedAssumption == Streamed \subseteq Out

vars == <<supervisorVars, fanoutVars>>

Init == SupervisorInit /\ FanoutInit

(* The read loop takes one text frame: a substring match decides whether   *)
(* it is published, before it is handled.                                  *)
TunnelReads ==
    /\ up # <<>>
    /\ heard' = Append(heard, Head(up))
    /\ up' = Tail(up)
    /\ IF Head(up) \in Streamed THEN Publish(Head(up)) ELSE UNCHANGED fanoutVars
    /\ UNCHANGED <<runVars, down, stdin, stdout, inHand, outHand, pushed, told, emitted, broke>>

Next ==
    \/ TunnelReads
    \/ /\ \/ RunStep \/ WaitFails \/ WsToStdin \/ StdoutToWs
          \/ ChildReads \/ ChildWrites \/ ChildLeaves \/ ChildExits
          \/ BrokerSends \/ SocketBreaks \/ LossNoticed
       /\ UNCHANGED fanoutVars
    \/ /\ \E s \in Subscribers : Subscribe(s) \/ Receive(s) \/ Unsubscribe(s)
       /\ UNCHANGED supervisorVars

Spec == Init /\ [][Next]_vars

(* select! polls both directions; the read loop and every open SSE         *)
(* response are driven by the server.  The child need not read, write or   *)
(* exit, and a lost connection need not be noticed.                        *)
FairSpec ==
    /\ Spec
    /\ WF_vars(RunStep /\ UNCHANGED fanoutVars)
    /\ WF_vars(WsToStdin /\ UNCHANGED fanoutVars)
    /\ WF_vars(StdoutToWs /\ UNCHANGED fanoutVars)
    /\ WF_vars(TunnelReads)
    /\ \A s \in Subscribers : WF_vars(Receive(s) /\ UNCHANGED supervisorVars)

-----------------------------------------------------------------------------
(* Properties *)

(* How many stream notifications there are among the child's first n lines,*)
(* which it numbers as it writes them.                                     *)
Rank(n) == Cardinality({f \in Streamed : f <= n})

(* Type correctness of the bridge and the fan-out; the child's stdin never *)
(* holds more than its pipe, the only buffer for pushes in mid-turn.       *)
SessionTypeOK == SupervisorTypeOK /\ FanoutTypeOK(Out)

(* While the bridge runs over an unbroken tunnel, no frame is lost,        *)
(* duplicated or reordered in either direction, however the two halves of  *)
(* the select! interleave: what was sent is what was read followed by what *)
(* is still in the pipes and in hand.                                      *)
BridgeConserves ==
    spc = "bridge" /\ ~broke =>
        /\ pushed = told \o stdin \o inHand \o down
        /\ emitted = heard \o up \o outHand \o stdout

(* When the bridge ends because the child's output ended, and nothing      *)
(* reset the connection, everything the child wrote reaches the broker.    *)
CleanExitLosesNothing ==
    exit = "ProcessExited" /\ ~broke => heard \o up = emitted

(* What a subscriber got is exactly the stream notifications the child     *)
(* wrote after it joined, up to its position: its k-th event is the child's*)
(* k-th after those that had been published, also when the bridge or the   *)
(* tunnel broke on the way; only a subscriber that fell more than the      *)
(* buffer behind has a gap.                                                *)
GapOnlyByLag ==
    \A s \in Subscribers \ lagged :
        /\ Len(seen[s]) = cursor[s] - joined[s]
        /\ \A k \in 1..Len(seen[s]) :
              /\ seen[s][k] \in Streamed /\ seen[s][k] <= Len(emitted)
              /\ Rank(seen[s][k]) = joined[s] + k

(* The workspace is pushed back only after the child itself has exited,    *)
(* also when it could not be killed: only an error of try_wait() or wait() *)
(* lets the push go ahead (run.rs 87-110).  It is not waited for processes *)
(* the child has started.                                                  *)
WorkspacePushedAfterChild ==
    spc \in {"push", "done"} => Exited \/ reaped \in {"TryWaitErrored", "WaitErrored"}

(* The two ways to hang: a push that does not fit into the pipe of a child *)
(* that does not read keeps the close from being seen (bridge.rs 74), and  *)
(* the wait for a child that could not be killed (run.rs 102).             *)
Blocked == spc = "bridge" /\ inHand # <<>> /\ PipesOpen /\ Len(stdin) = PipeCap
Waiting == spc = "wait" /\ ~Exited

(* Once the tunnel is closed, and this side knows, or the child's pipes    *)
(* are, the supervisor ends, or hangs in one of these two ways for ever.   *)
SupervisorEnds ==
    \/ (spc = "bridge" /\ (sock = "closed" \/ ChildGone)) ~> (spc \in {"done", "failed"})
    \/ <>[]Blocked
    \/ <>[]Waiting

(* Between child and broker no frame is lost, duplicated or reordered but  *)
(* by a failure or by a close from the other side (bridge.rs 24-126).      *)
BridgeOK == SessionTypeOK /\ BridgeConserves /\ CleanExitLosesNothing
=============================================================================
