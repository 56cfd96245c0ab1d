------------------------------ MODULE AcpClient ------------------------------
(***************************************************************************)
(* The agent's end of the tunnel (loop/src/acp.rs, AcpClient): JSON-RPC    *)
(* over stdin and stdout, one line per frame, in one thread.  send_request *)
(* blocks for the next response WITHOUT comparing ids and buffers the      *)
(* notifications it meets; recv_notification takes buffered ones first.    *)
(* The peer (supervisor and broker, external here) answers requests in the *)
(* order they were written and may push notifications at any time.         *)
(***************************************************************************)
EXTENDS Naturals, Sequences, SequencesExt

CONSTANTS Users,       \* session/message notifications the agent can parse
          BadUsers,    \* those it cannot (a role it does not know)
          Cancels,     \* session/cancel notifications
          IdSpan       \* bound: request ids are told apart modulo IdSpan

ASSUME AcpAssumption == IdSpan \in Nat \ {0}

Pushes == Users \cup BadUsers \cup Cancels

VARIABLES
    stdin,      \* lines on their way to the agent
    eof,        \* nothing more will be written to stdin
    stdout,     \* TRUE while the agent's writes succeed
    pending,    \* pending_notifications
    asked,      \* ids of the requests the broker has still to answer
    lastId,     \* the id of the last request
    reply,      \* "none", "waiting", or what send_request returned
    arrived,    \* history: the notifications written to stdin, in order
    taken       \* history: those returned by recv_notification, in order

acpVars == <<stdin, eof, stdout, pending, asked, lastId, reply, arrived, taken>>

Push(p) == [push |-> TRUE, line |-> p, id |-> 0]
Response(id, value) == [push |-> FALSE, line |-> value, id |-> id]
Values == {"yes", "no", "error"}

AcpInit ==
    /\ stdin = <<>>
    /\ eof = FALSE
    /\ stdout = TRUE
    /\ pending = <<>>
    /\ asked = <<>>
    /\ lastId = 0
    /\ reply = "none"
    /\ arrived = <<>>
    /\ taken = <<>>

-----------------------------------------------------------------------------
(* send_request: write the request, or fail at once. *)
SendRequest ==
    /\ reply = "none"
    /\ lastId' = (lastId + 1) % IdSpan
    /\ \/ /\ stdout
          /\ asked' = Append(asked, lastId')
          /\ reply' = "waiting"
       \/ /\ ~stdout
          /\ reply' = "error"
          /\ UNCHANGED asked
    /\ UNCHANGED <<stdin, eof, stdout, pending, arrived, taken>>

BufferNotificationBails ==
    /\ reply = "waiting"
    /\ stdin # <<>> /\ Head(stdin).push
    /\ pending' = Append(pending, Head(stdin).line)
    /\ stdin' = Tail(stdin)
    /\ reply' = "error"
    /\ UNCHANGED <<eof, stdout, asked, lastId, arrived, taken>>

(* A notification read while waiting for the response. *)
BufferNotification ==
    /\ reply = "waiting"
    /\ stdin # <<>> /\ Head(stdin).push
    /\ pending' = Append(pending, Head(stdin).line)
    /\ stdin' = Tail(stdin)
    /\ UNCHANGED <<eof, stdout, asked, lastId, reply, arrived, taken>>

(* The response, whichever request it answers; end of file is a parse error. *)
ReadResponse ==
    /\ reply = "waiting"
    /\ \/ /\ stdin # <<>> /\ ~Head(stdin).push
          /\ reply' = Head(stdin).line
          /\ stdin' = Tail(stdin)
       \/ /\ stdin = <<>> /\ eof
          /\ reply' = "error"
          /\ UNCHANGED stdin
    /\ UNCHANGED <<eof, stdout, pending, asked, lastId, arrived, taken>>

(* The caller of send_request goes on with its result. *)
Returned(values) == reply \in values /\ reply' = "none"
                    /\ UNCHANGED <<stdin, eof, stdout, pending, asked, lastId, arrived, taken>>

RecvNotificationStdinFirst(p) ==
    /\ \/ /\ stdin # <<>> /\ Head(stdin) = Push(p)
          /\ stdin' = Tail(stdin)
          /\ UNCHANGED pending
       \/ /\ stdin = <<>> /\ pending # <<>> /\ Head(pending) = p
          /\ pending' = Tail(pending)
          /\ UNCHANGED stdin
    /\ taken' = Append(taken, p)
    /\ UNCHANGED <<eof, stdout, asked, lastId, reply, arrived>>

(* recv_notification returns p. *)
RecvNotification(p) ==
    /\ \/ /\ pending # <<>> /\ Head(pending) = p
          /\ pending' = Tail(pending)
          /\ UNCHANGED stdin
       \/ /\ pending = <<>> /\ stdin # <<>> /\ Head(stdin) = Push(p)
          /\ stdin' = Tail(stdin)
          /\ UNCHANGED pending
    /\ taken' = Append(taken, p)
    /\ UNCHANGED <<eof, stdout, asked, lastId, reply, arrived>>

(* It fails: end of file, or a line that is no notification. *)
RecvFails ==
    /\ pending = <<>>
    /\ \/ stdin = <<>> /\ eof
       \/ stdin # <<>> /\ ~Head(stdin).push
    /\ UNCHANGED acpVars

-----------------------------------------------------------------------------
(* The peer *)

PeerPushes(p) ==
    /\ ~eof
    /\ p \notin ToSet(arrived)
    /\ stdin' = Append(stdin, Push(p))
    /\ arrived' = Append(arrived, p)
    /\ UNCHANGED <<eof, stdout, pending, asked, lastId, reply, taken>>

PeerAnswers(value) ==
    /\ ~eof
    /\ asked # <<>>
    /\ stdin' = Append(stdin, Response(Head(asked), value))
    /\ asked' = Tail(asked)
    /\ UNCHANGED <<eof, stdout, pending, lastId, reply, arrived, taken>>

(* The supervisor goes away: first one pipe breaks, then the other. *)
CloseStdin ==
    /\ ~eof
    /\ eof' = TRUE
    /\ UNCHANGED <<stdin, stdout, pending, asked, lastId, reply, arrived, taken>>

BreakStdout ==
    /\ stdout
    /\ stdout' = FALSE
    /\ UNCHANGED <<stdin, eof, pending, asked, lastId, reply, arrived, taken>>

-----------------------------------------------------------------------------
(* Ignoring ids is sound: the only response under way is the one           *)
(* send_request is waiting for.  A response left behind by an early return *)
(* would be taken for the answer to the next request, or end the session   *)
(* in recv_notification (acp.rs 126-157).                                  *)
OwnAnswer ==
    ~eof =>
        \/ /\ asked = IF reply = "waiting" THEN <<lastId>> ELSE <<>>
           /\ \A i \in 1..Len(stdin) : stdin[i].push
        \/ /\ asked = <<>> /\ reply = "waiting"
           /\ \E i \in 1..Len(stdin) :
                 /\ ~stdin[i].push /\ stdin[i].id = lastId
                 /\ \A k \in 1..Len(stdin) \ {i} : stdin[k].push

(* Pushes are handed to the agent in the order the broker sent them, and   *)
(* none is lost or repeated, wherever the requests in between leave them   *)
(* (pending_notifications and stdin, acp.rs 130-144 and 182-197): what was *)
(* taken and buffered is the beginning of what arrived, and the rest of it *)
(* is on stdin, in its order.                                              *)
PushesInOrder ==
    LET read == Len(taken) + Len(pending)
        unread == {i \in 1..Len(stdin) : stdin[i].push}
    IN  /\ read <= Len(arrived)
        /\ \A j \in 1..read : (taken \o pending)[j] = arrived[j]
        /\ {stdin[i].line : i \in unread} = {arrived[j] : j \in (read + 1)..Len(arrived)}
        /\ \A i, k \in unread, j, l \in 1..Len(arrived) :
              i < k /\ stdin[i].line = arrived[j] /\ stdin[k].line = arrived[l] => j < l
=============================================================================
