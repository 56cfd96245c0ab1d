------------------------------ MODULE Supervisor ------------------------------
(***************************************************************************)
(* overacp-agent, from start to exit (agent/src/run.rs): pull the          *)
(* workspace, open the tunnel, spawn the child, bridge its stdio to the    *)
(* WebSocket (bridge.rs), reap the child, push the workspace back.  The    *)
(* two directions of the bridge run concurrently inside one select!: when  *)
(* one of them ends, the other is dropped with the frame it has in hand.   *)
(* A frame is the number the broker, or the child, gave it.                *)
(***************************************************************************)
EXTENDS Naturals, Sequences

CONSTANTS MaxIn,    \* bound: frames the broker sends on the tunnel
          MaxOut,   \* bound: lines the child writes
          PipeCap   \* lines that fit in the child's stdin pipe

ASSUME SupervisorAssumption == MaxIn \in Nat /\ MaxOut \in Nat /\ PipeCap \in Nat \ {0}

VARIABLES
    spc,        \* where run_with is
    exit,       \* BridgeExit
    reaped,     \* ReapOutcome
    child,      \* the process: "leaving" once its pipes are closed, "exited" once it can
                \* be waited for, "heir" if it can and a process it started has its pipes
    sock,       \* the WebSocket: "none", "up", "closed", or "lost" without this side knowing
    down, up,   \* frames on the socket, to and from the supervisor
    stdin, stdout,      \* lines in the child's pipes
    inHand, outHand,    \* what a direction has read and not yet written
    pushed, told,       \* history: frames sent by the broker, read by the child
    emitted, heard,     \* history: lines written by the child, read by the broker
    broke       \* history: the connection was lost, closed by the broker, or reset

pipeVars == <<down, up, stdin, stdout, inHand, outHand>>
historyVars == <<pushed, told, emitted, heard, broke>>
runVars == <<spc, exit, reaped, child, sock>>
supervisorVars == <<runVars, pipeVars, historyVars>>

In == 1..MaxIn
Out == 1..MaxOut
ChildGone == child \in {"leaving", "exited"}
PipesOpen == child \in {"running", "heir"}
Exited == child \in {"exited", "heir"}
HandOf(S) == {<<>>} \cup {<<f>> : f \in S}

SupervisorTypeOK ==
    /\ spc \in {"pull", "connect", "spawn", "bridge", "reap", "wait", "push", "done", "failed"}
    /\ exit \in {"none", "TunnelClosed", "ProcessExited", "Error"}
    /\ reaped \in {"none", "AlreadyExited", "Killed", "TryWaitErrored", "WaitErrored"}
    /\ child \in {"none", "running", "leaving", "exited", "heir"}
    /\ sock \in {"none", "up", "closed", "lost"}
    /\ down \in Seq(In) /\ pushed \in Seq(In) /\ told \in Seq(In)
    /\ up \in Seq(Out) /\ emitted \in Seq(Out) /\ heard \in Seq(Out)
    /\ stdin \in Seq(In) /\ Len(stdin) <= PipeCap
    /\ stdout \in Seq(Out)
    /\ inHand \in HandOf(In) /\ outHand \in HandOf(Out)
    /\ broke \in BOOLEAN

SupervisorInit ==
    /\ spc = "pull" /\ exit = "none" /\ reaped = "none" /\ child = "none" /\ sock = "none"
    /\ down = <<>> /\ up = <<>> /\ stdin = <<>> /\ stdout = <<>>
    /\ inHand = <<>> /\ outHand = <<>>
    /\ pushed = <<>> /\ told = <<>> /\ emitted = <<>> /\ heard = <<>>
    /\ broke = FALSE

-----------------------------------------------------------------------------
(* run_with *)

(* sync.pull()? and the peek at the token's claims. *)
Pull ==
    /\ spc = "pull"
    /\ spc' \in {"connect", "failed"}
    /\ UNCHANGED <<exit, reaped, child, sock, pipeVars, historyVars>>

(* connect_with_retry returns only when it has a tunnel; a failed attempt  *)
(* changes nothing but the next delay.                                     *)
ConnectWithRetry ==
    /\ spc = "connect"
    /\ spc' = "spawn" /\ sock' = "up"
    /\ UNCHANGED <<exit, reaped, child, pipeVars, historyVars>>

(* spawn()?: on an error the tunnel is dropped and nothing is pushed back. *)
Spawn ==
    /\ spc = "spawn"
    /\ \/ spc' = "bridge" /\ child' = "running" /\ UNCHANGED sock
       \/ spc' = "failed" /\ sock' = "closed" /\ UNCHANGED child
    /\ UNCHANGED <<exit, reaped, pipeVars, historyVars>>

(* select! returns and both halves of the socket and of the pipes are      *)
(* dropped.  What was sent can still be read by the broker, unless frames  *)
(* were waiting unread: then closing the socket resets the connection.     *)
EndBridge(reason) ==
    /\ spc' = "reap" /\ exit' = reason
    /\ sock' = "closed"
    /\ broke' = (broke \/ down # <<>>)
    /\ up' \in {up} \cup (IF down = <<>> THEN {} ELSE {<<>>})
    /\ down' = <<>> /\ stdout' = <<>>
    /\ inHand' = <<>> /\ outHand' = <<>>
    /\ UNCHANGED <<reaped, child, stdin, pushed, told, emitted, heard>>

ReapLeavesChild ==
    /\ spc = "reap"
    /\ spc' = "push"
    /\ reaped' = IF Exited THEN "AlreadyExited" ELSE "Killed"
    /\ UNCHANGED <<exit, child, sock, pipeVars, historyVars>>

(* reap_child: kill and wait unless the child can be waited for already;   *)
(* when kill fails it still waits, when try_wait fails it does nothing.    *)
ReapChild ==
    /\ spc = "reap"
    /\ \/ Exited /\ reaped' = "AlreadyExited" /\ spc' = "push" /\ UNCHANGED child
       \/ ~Exited /\ reaped' = "Killed" /\ spc' = "push" /\ child' = "exited"
       \/ ~Exited /\ reaped' = "Killed" /\ spc' = "wait" /\ UNCHANGED child
       \/ reaped' = "TryWaitErrored" /\ spc' = "push" /\ UNCHANGED child
    /\ UNCHANGED <<exit, sock, pipeVars, historyVars>>

WaitChildSkipped ==
    /\ spc = "wait"
    /\ spc' = "push"
    /\ UNCHANGED <<exit, reaped, child, sock, pipeVars, historyVars>>

(* `let _ = child.wait().await` after a kill that failed. *)
WaitChild ==
    /\ spc = "wait" /\ Exited
    /\ spc' = "push"
    /\ UNCHANGED <<exit, reaped, child, sock, pipeVars, historyVars>>

(* An error of that wait, or of the one inside kill() and then of that one,*)
(* is dropped; reap_child answers "Killed" here, too.                      *)
WaitFails ==
    /\ spc = "wait"
    /\ spc' = "push" /\ reaped' = "WaitErrored"
    /\ UNCHANGED <<exit, child, sock, pipeVars, historyVars>>

(* sync.push()? *)
PushBack ==
    /\ spc = "push"
    /\ spc' \in {"done", "failed"}
    /\ UNCHANGED <<exit, reaped, child, sock, pipeVars, historyVars>>

-----------------------------------------------------------------------------
(* ws_to_stdin *)

ReadSocket ==
    /\ spc = "bridge" /\ inHand = <<>> /\ down # <<>>
    /\ inHand' = <<Head(down)>>
    /\ down' = Tail(down)
    /\ UNCHANGED <<runVars, up, stdin, stdout, outHand, historyVars>>

WriteStdinNeverWaits ==
    /\ spc = "bridge" /\ inHand # <<>>
    /\ \/ /\ PipesOpen
          /\ stdin' = stdin \o inHand
          /\ inHand' = <<>>
          /\ UNCHANGED <<runVars, down, up, stdout, outHand, historyVars>>
       \/ ChildGone /\ EndBridge("Error")

(* write_frame: waits while the pipe is full, fails when the child is gone. *)
WriteStdin ==
    /\ spc = "bridge" /\ inHand # <<>>
    /\ \/ /\ PipesOpen /\ Len(stdin) < PipeCap
          /\ stdin' = stdin \o inHand
          /\ inHand' = <<>>
          /\ UNCHANGED <<runVars, down, up, stdout, outHand, historyVars>>
       \/ ChildGone /\ EndBridge("Error")

SocketEndsUnseen == FALSE /\ UNCHANGED supervisorVars

(* A Close frame, the end of the stream, or a read error.  There is no     *)
(* ping, keepalive or timeout: a lost connection is not noticed here.      *)
SocketEnds ==
    /\ spc = "bridge" /\ inHand = <<>> /\ down = <<>> /\ sock = "closed"
    /\ \E reason \in {"TunnelClosed", "Error"} : EndBridge(reason)

-----------------------------------------------------------------------------
(* stdout_to_ws *)

ReadStdoutRestartsSelect ==
    /\ spc = "bridge" /\ outHand = <<>> /\ stdout # <<>>
    /\ outHand' = <<Head(stdout)>>
    /\ stdout' = Tail(stdout)
    /\ inHand' = <<>>
    /\ UNCHANGED <<runVars, down, up, stdin, historyVars>>

ReadStdout ==
    /\ spc = "bridge" /\ outHand = <<>> /\ stdout # <<>>
    /\ outHand' = <<Head(stdout)>>
    /\ stdout' = Tail(stdout)
    /\ UNCHANGED <<runVars, down, up, stdin, inHand, historyVars>>

(* read_line fails, as it does on a line that is not UTF-8. *)
ReadStdoutFails ==
    /\ spc = "bridge" /\ outHand = <<>> /\ stdout # <<>>
    /\ EndBridge("Error")

(* A send on a socket that is gone fails, or is accepted by the kernel. *)
SendSocket ==
    /\ spc = "bridge" /\ outHand # <<>>
    /\ \/ /\ outHand' = <<>>
          /\ up' = IF sock = "up" THEN up \o outHand ELSE up
          /\ UNCHANGED <<runVars, down, stdin, stdout, inHand, historyVars>>
       \/ sock = "closed" /\ EndBridge("Error")

ChildExitEndsBridge ==
    /\ spc = "bridge" /\ ChildGone
    /\ EndBridge("ProcessExited")

(* read_line returns 0: the child is gone and its output has been read. *)
StdoutEnds ==
    /\ spc = "bridge" /\ outHand = <<>> /\ stdout = <<>> /\ ChildGone
    /\ EndBridge("ProcessExited")

-----------------------------------------------------------------------------
(* The child and the socket *)

ChildReads ==
    /\ PipesOpen /\ stdin # <<>>
    /\ told' = Append(told, Head(stdin))
    /\ stdin' = Tail(stdin)
    /\ UNCHANGED <<runVars, down, up, stdout, inHand, outHand, pushed, emitted, heard, broke>>

ChildWrites ==
    /\ PipesOpen /\ spc = "bridge" /\ Len(emitted) < MaxOut
    /\ emitted' = Append(emitted, Len(emitted) + 1)
    /\ stdout' = Append(stdout, Len(emitted) + 1)
    /\ UNCHANGED <<runVars, down, up, stdin, inHand, outHand, pushed, told, heard, broke>>

(* The child closes its pipes, then becomes a process to wait for; or a    *)
(* process it has started keeps the pipes open after it.                   *)
ChildLeaves ==
    /\ child = "running"
    /\ child' \in {"leaving", "heir"}
    /\ UNCHANGED <<spc, exit, reaped, sock, pipeVars, historyVars>>

ChildExits ==
    /\ child \in {"leaving", "heir"}
    /\ child' = "exited"
    /\ UNCHANGED <<spc, exit, reaped, sock, pipeVars, historyVars>>

(* The tunnel's write task sends a frame. *)
BrokerSends ==
    /\ sock = "up" /\ Len(pushed) < MaxIn
    /\ pushed' = Append(pushed, Len(pushed) + 1)
    /\ down' = Append(down, Len(pushed) + 1)
    /\ UNCHANGED <<runVars, up, stdin, stdout, inHand, outHand, told, emitted, heard, broke>>

(* The broker closes the tunnel, or the connection breaks, perhaps without *)
(* a word to this side: what is on its way can be lost in either direction.*)
SocketBreaks ==
    /\ sock = "up"
    /\ sock' \in {"closed", "lost"} /\ broke' = TRUE
    /\ down' \in {down, <<>>} /\ up' \in {up, <<>>}
    /\ UNCHANGED <<spc, exit, reaped, child, stdin, stdout, inHand, outHand, pushed, told, emitted, heard>>

(* The kernel gives up on what was sent.  It need not: nothing is sent     *)
(* while the child is silent.                                              *)
LossNoticed ==
    /\ sock = "lost"
    /\ sock' = "closed"
    /\ UNCHANGED <<spc, exit, reaped, child, pipeVars, historyVars>>

RunStep == Pull \/ ConnectWithRetry \/ Spawn \/ ReapChild \/ WaitChild \/ PushBack
WsToStdin == ReadSocket \/ WriteStdin \/ SocketEnds
StdoutToWs == ReadStdout \/ ReadStdoutFails \/ SendSocket \/ StdoutEnds
=============================================================================
