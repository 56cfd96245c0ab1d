------------------------------ MODULE RedisInbox ------------------------------
(***************************************************************************)
(* The inbox stream of one agent and its consumers                         *)
(* (server/src/redis_backend/inbox.rs).  Redis keeps the stream, the       *)
(* group's position in it and the pending entries list: per entry that was *)
(* handed out and not acknowledged, the consumer it belongs to and how     *)
(* often it was delivered.  A consumer is named after its instance, so the *)
(* tunnels of one instance read under one name.  A consumer task stops at  *)
(* every Redis command: the entry is pending before the task sees it.      *)
(***************************************************************************)
EXTENDS RedisLease, Sequences

CONSTANTS Messages, MaxDeliveries

ASSUME InboxAssumption ==
    /\ None \notin Messages
    /\ MaxDeliveries \in Nat \ {0}

VARIABLES
    stream,     \* the entries, in order
    given,      \* how many of them the group has handed out
    group,      \* the consumer group exists
    pending,    \* the instance an entry is pending for, or None
    count,      \* Redis's delivery counter of an entry
    dead,       \* entries in the dead-letter stream
    cpc,        \* a tunnel's consumer task: off, or what it does next
    readId,     \* the id it reads from: "0" or ">"
    entry,      \* the entry it is handling
    rx,         \* the receiver of the tunnel's channel is alive
    handed,     \* history: entries put on the channel of some tunnel
    spilled     \* history: frames whose removal was carried out and whose copy was not

inboxVars == <<stream, given, group, pending, count, dead>>
consumerVars == <<cpc, readId, entry, rx, handed, spilled>>

ConsumerPC == {"off", "poll", "reply", "ack", "dlq_add", "dlq_ack"}

InboxTypeOK ==
    /\ stream \in Seq(Messages)
    /\ given \in 0..Len(stream)
    /\ group \in BOOLEAN
    /\ pending \in [Messages -> Instances \cup {None}]
    /\ count \in [Messages -> 0..MaxDeliveries]
    /\ dead \subseteq Messages
    /\ cpc \in [Tunnels -> ConsumerPC]
    /\ readId \in [Tunnels -> {"0", ">"}]
    /\ entry \in [Tunnels -> Messages \cup {None}]
    /\ rx \in [Tunnels -> BOOLEAN]
    /\ handed \subseteq Messages
    /\ spilled \subseteq Messages

InboxInit ==
    /\ stream = <<>> /\ given = 0 /\ group = FALSE
    /\ pending = [m \in Messages |-> None]
    /\ count = [m \in Messages |-> 0]
    /\ dead = {}
    /\ cpc = [t \in Tunnels |-> "off"]
    /\ readId = [t \in Tunnels |-> "0"]
    /\ entry = [t \in Tunnels |-> None]
    /\ rx = [t \in Tunnels |-> FALSE]
    /\ handed = {}
    /\ spilled = {}

CappedInc(n) == IF n < MaxDeliveries THEN n + 1 ELSE n
ConsumerAt(t, pc) == cpc' = [cpc EXCEPT ![t] = pc]

(* XREADGROUP hands m to t: pending under t's name, one more delivery.     *)
(* When the reply is lost the task polls again, without m.                 *)
HandOut(t, m) ==
    /\ pending' = [pending EXCEPT ![m] = host[t]]
    /\ count' = [count EXCEPT ![m] = CappedInc(@)]
    /\ \/ /\ entry' = [entry EXCEPT ![t] = m]
          /\ ConsumerAt(t, "reply")
          /\ UNCHANGED faults
       \/ /\ Fault("read")
          /\ UNCHANGED <<entry, cpc>>

-----------------------------------------------------------------------------
ReadPendingOnly(t) ==
    LET mine == {i \in 1..Len(stream) : pending[stream[i]] = host[t]} IN
    /\ cpc[t] = "poll" /\ readId[t] = "0" /\ group /\ mine # {}
    /\ HandOut(t, stream[CHOOSE i \in mine : \A j \in mine : i <= j])
    /\ UNCHANGED <<stream, given, group, dead, rx, handed, readId, spilled>>

(* XREADGROUP 0: the first entry pending under the consumer's name; when   *)
(* there is none, read new entries from now on.                            *)
ReadPending(t) ==
    LET mine == {i \in 1..Len(stream) : pending[stream[i]] = host[t]} IN
    /\ cpc[t] = "poll" /\ readId[t] = "0" /\ group
    /\ \/ /\ mine # {}
          /\ HandOut(t, stream[CHOOSE i \in mine : \A j \in mine : i <= j])
          /\ UNCHANGED readId
       \/ /\ mine = {}
          /\ readId' = [readId EXCEPT ![t] = ">"]
          /\ UNCHANGED <<pending, count, entry, cpc, faults>>
    /\ UNCHANGED <<stream, given, group, dead, rx, handed, spilled>>

(* XREADGROUP >: the next entry of the stream. *)
ReadNew(t) ==
    /\ cpc[t] = "poll" /\ readId[t] = ">" /\ group
    /\ given < Len(stream)
    /\ given' = given + 1
    /\ HandOut(t, stream[given + 1])
    /\ UNCHANGED <<stream, group, dead, readId, rx, handed, spilled>>

HandleReplyAcksClosed(t) ==
    LET m == entry[t] IN
    /\ cpc[t] = "reply"
    /\ handed' = IF rx[t] THEN handed \cup {m} ELSE handed
    /\ ConsumerAt(t, "ack")
    /\ UNCHANGED <<inboxVars, readId, entry, rx, spilled, faults>>

(* The task gets the reply: the frame goes to the tunnel's channel; when   *)
(* the channel is closed the task returns and does not acknowledge.        *)
HandleReply(t) ==
    /\ cpc[t] = "reply"
    /\ \/ /\ rx[t]
          /\ handed' = handed \cup {entry[t]}
          /\ ConsumerAt(t, "ack")
       \/ /\ ~rx[t]
          /\ ConsumerAt(t, "off")
          /\ UNCHANGED handed
    /\ UNCHANGED <<inboxVars, readId, entry, rx, spilled, faults>>

(* XACK; its error is ignored. *)
Ack(t) ==
    /\ cpc[t] = "ack"
    /\ ConsumerAt(t, "poll")
    /\ entry' = [entry EXCEPT ![t] = None]
    /\ \/ pending' = [pending EXCEPT ![entry[t]] = None] /\ UNCHANGED faults
       \/ Fault("ack") /\ UNCHANGED pending
    /\ UNCHANGED <<stream, given, group, count, dead, readId, rx, handed, spilled>>

InHand(t, m) == cpc[t] \in {"reply", "ack", "dlq_add", "dlq_ack"} /\ entry[t] = m
Rereads(t, m) == cpc[t] = "poll" /\ readId[t] = "0" /\ pending[m] = host[t]

(* autoclaim_orphaned, one entry: XAUTOCLAIM takes over an entry that has  *)
(* been idle for five minutes (no task has it in hand, and none is reading *)
(* the pending entries of its consumer) and counts a delivery; XPENDING    *)
(* tells the count, or 1 when it fails.  At the limit, or past the age     *)
(* limit (old), the entry is dead-lettered; otherwise it is left pending   *)
(* under the claimer's name.                                               *)
Autoclaim(t, m, old) ==
    /\ cpc[t] = "poll"
    /\ pending[m] # None
    /\ \A u \in Tunnels : ~InHand(u, m) /\ ~Rereads(u, m)
    /\ pending' = [pending EXCEPT ![m] = host[t]]
    /\ count' = [count EXCEPT ![m] = CappedInc(@)]
    /\ \/ /\ old \/ count'[m] >= MaxDeliveries
          /\ entry' = [entry EXCEPT ![t] = m]
          /\ ConsumerAt(t, "dlq_add")
          /\ UNCHANGED faults
       \/ /\ ~old
          /\ \/ count'[m] < MaxDeliveries /\ UNCHANGED faults
             \/ Fault("count")
          /\ UNCHANGED <<entry, cpc>>
    /\ UNCHANGED <<stream, given, group, dead, readId, rx, handed, spilled>>

(* XADD to the dead-letter stream; its error is ignored. *)
AddDeadLetter(t) ==
    /\ cpc[t] = "dlq_add"
    /\ ConsumerAt(t, "dlq_ack")
    /\ \/ dead' = dead \cup {entry[t]} /\ UNCHANGED <<spilled, faults>>
       \/ Fault("dlq") /\ spilled' = spilled \cup {entry[t]} /\ UNCHANGED dead
    /\ UNCHANGED <<stream, given, group, pending, count, readId, entry, rx, handed>>

(* XACK of a dead-lettered entry. *)
AckDeadLetter(t) ==
    /\ cpc[t] = "dlq_ack"
    /\ ConsumerAt(t, "poll")
    /\ entry' = [entry EXCEPT ![t] = None]
    /\ \/ pending' = [pending EXCEPT ![entry[t]] = None] /\ UNCHANGED faults
       \/ Fault("ack") /\ UNCHANGED pending
    /\ UNCHANGED <<stream, given, group, count, dead, readId, rx, handed, spilled>>

ConsumerStep(t) ==
    \/ ReadPending(t) \/ ReadNew(t) \/ HandleReply(t) \/ Ack(t)
    \/ AddDeadLetter(t) \/ AckDeadLetter(t)
=============================================================================
