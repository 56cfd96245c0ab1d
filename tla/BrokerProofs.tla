----------------------------- MODULE BrokerProofs -----------------------------
(***************************************************************************)
(* Theorems about the broker for any sets of agents, tunnels, messages and *)
(* requests and any capacities: types, the registry and the disconnect     *)
(* log, the order in which a tunnel sends pushes, what a listing that      *)
(* races the tunnels reports, and where a push is: in one place at a time, *)
(* and through the stages of MessageDelivery only.                         *)
(***************************************************************************)
EXTENDS BrokerDelivery, RegistryView, SequenceTheorems, FiniteSetTheorems, TLAPS


(* Removing one position of a sequence: what retain() does to `recent`.    *)
LEMMA RemoveAtFacts ==
    ASSUME NEW S, NEW s \in Seq(S), NEW k \in 1..Len(s)
    PROVE  /\ RemoveAt(s, k) \in Seq(S)
           /\ Len(RemoveAt(s, k)) = Len(s) - 1
           /\ \A i \in 1..(Len(s) - 1) :
                 RemoveAt(s, k)[i] = IF i < k THEN s[i] ELSE s[i + 1]
<1> DEFINE l == SubSeq(s, 1, k - 1)
           r == SubSeq(s, k + 1, Len(s))
<1>1. l \in Seq(S) /\ Len(l) = k - 1 /\ \A i \in 1..(k - 1) : l[i] = s[i]
  BY SubSeqProperties
<1>2. r \in Seq(S) /\ Len(r) = Len(s) - k
      /\ \A i \in 1..(Len(s) - k) : r[i] = s[k + i]
  BY SubSeqProperties
<1>3. RemoveAt(s, k) = l \o r
  BY DEF RemoveAt
<1> HIDE DEF l, r
<1>a. Len(s) \in Nat /\ k \in Nat /\ k <= Len(s)
  OBVIOUS
<1>b. l \o r \in Seq(S) /\ Len(l \o r) = Len(l) + Len(r)
  BY <1>1, <1>2, ConcatProperties, Zenon
<1>4. l \o r \in Seq(S) /\ Len(l \o r) = Len(s) - 1
  BY <1>1, <1>2, <1>a, <1>b
<1>5. ASSUME NEW i \in 1..(Len(s) - 1)
      PROVE  (l \o r)[i] = IF i < k THEN s[i] ELSE s[i + 1]
  BY <1>1, <1>2
<1> QED BY <1>3, <1>4, <1>5

LEMMA TakeFirst ==
    ASSUME NEW S, NEW s \in Seq(S), s # <<>>
    PROVE  /\ Head(s) \in S
           /\ Tail(s) \in Seq(S)
           /\ Len(Tail(s)) = Len(s) - 1
           /\ Len(s) = 1 <=> Tail(s) = <<>>
           /\ Head(s) = s[1]
           /\ \A i \in 1..(Len(s) - 1) : Tail(s)[i] = s[i + 1]
<1>1. Head(s) \in S /\ Tail(s) \in Seq(S) /\ Len(Tail(s)) = Len(s) - 1
  BY HeadTailProperties
<1>2. Len(s) \in Nat /\ Len(s) # 0
  BY EmptySeq
<1>3. Len(s) = 1 <=> Tail(s) = <<>>
  <2>1. Len(s) = 1 <=> Len(Tail(s)) = 0
    BY <1>1, <1>2
  <2>2. Tail(s) # <<>> => Len(Tail(s)) # 0
    BY <1>1, EmptySeq
  <2>3. Tail(s) = <<>> => Len(Tail(s)) = 0
    BY EmptySeq
  <2> QED BY <2>1, <2>2, <2>3
<1>4. Head(s) = s[1] /\ \A i \in 1..(Len(s) - 1) : Tail(s)[i] = s[i + 1]
  OBVIOUS
<1> QED BY <1>1, <1>3, <1>4

LEMMA WithoutFacts ==
    ASSUME recent \in Seq(Agents), NEW a
    PROVE  /\ Without(a) \in Seq(Agents)
           /\ Len(Without(a)) <= Len(recent)
<1>1. CASE \E i \in 1..Len(recent) : recent[i] = a
  <2> DEFINE k == CHOOSE i \in 1..Len(recent) : recent[i] = a
  <2>1. k \in 1..Len(recent)
    BY <1>1
  <2>2. Without(a) = RemoveAt(recent, k)
    BY <1>1 DEF Without
  <2> HIDE DEF k
  <2> QED BY <2>1, <2>2, RemoveAtFacts
<1>2. CASE ~ \E i \in 1..Len(recent) : recent[i] = a
  BY <1>2 DEF Without
<1> QED BY <1>1, <1>2

LEMMA PurgeRecentType ==
    ASSUME recent \in Seq(Agents), Len(recent) <= RecentCap, NEW a, PurgeRecent(a)
    PROVE  recent' \in Seq(Agents) /\ Len(recent') <= RecentCap
<1>1. Without(a) \in Seq(Agents) /\ Len(Without(a)) <= Len(recent)
  BY WithoutFacts
<1>2. Len(Without(a)) \in Nat /\ Len(recent) \in Nat
  BY <1>1
<1>3. recent' = Without(a)
  BY DEF PurgeRecent
<1> QED BY <1>1, <1>2, <1>3, RegistryAssumption

LEMMA PushRecentType ==
    ASSUME recent \in Seq(Agents), Len(recent) <= RecentCap, NEW a \in Agents, PushRecent(a)
    PROVE  recent' \in Seq(Agents) /\ Len(recent') <= RecentCap
<1> DEFINE kept == Without(a)
           log == IF Len(kept) = RecentCap THEN Tail(kept) ELSE kept
<1>1. kept \in Seq(Agents) /\ Len(kept) <= Len(recent)
  BY WithoutFacts
<1>a. Len(kept) \in Nat /\ Len(recent) \in Nat
  BY <1>1
<1>b. Len(kept) <= RecentCap
  BY <1>1, <1>a, RegistryAssumption
<1>2. recent' = Append(log, a)
  BY DEF PushRecent
<1> HIDE DEF kept
<1>3. log \in Seq(Agents) /\ Len(log) \in Nat /\ Len(log) + 1 <= RecentCap
  <2>1. CASE Len(kept) = RecentCap
    <3>1. kept # <<>>
      BY <2>1, RegistryAssumption
    <3>2. Tail(kept) \in Seq(Agents) /\ Len(Tail(kept)) = Len(kept) - 1
      BY <1>1, <3>1, TakeFirst
    <3> QED BY <1>a, <1>b, <2>1, <3>2, RegistryAssumption
  <2>2. CASE Len(kept) # RecentCap
    BY <1>1, <1>a, <1>b, <2>2, RegistryAssumption
  <2> QED BY <2>1, <2>2
<1> HIDE DEF log
<1>4. Append(log, a) \in Seq(Agents) /\ Len(Append(log, a)) = Len(log) + 1
  BY <1>3
<1> QED BY <1>2, <1>3, <1>4

TypeInv == TypeOK /\ TaskState

LEMMA TypeInit == Init => TypeInv
  BY RegistryAssumption, QueueAssumption, BrokerAssumption
  DEF Init, TypeInv, TypeOK, TaskState, RegistryInit, RegistryTypeOK, QueueInit, TunnelPC,
      PostPC, DeletePC, Posts, Frames

LEMMA TypeNext == TypeInv /\ [Next]_vars => TypeInv'
<1> SUFFICES ASSUME TypeInv, [Next]_vars PROVE TypeInv'
  OBVIOUS
<1> USE DEF TypeInv, TypeOK, TaskState, RegistryTypeOK, Frames, Posts,
            storeVars, tunnelVars, postVars, delVars
<1>1. ASSUME NEW t \in Tunnels, NEW a \in Agents, Connect(t, a) PROVE TypeInv'
  BY <1>1 DEF Connect, Goto, InsertEntry, TunnelPC
<1>2. ASSUME NEW t \in Tunnels, FinishRegister(t) PROVE TypeInv'
  BY <1>2, PurgeRecentType DEF FinishRegister, Goto, TunnelPC
<1>3. ASSUME NEW t \in Tunnels, Drain(t) PROVE TypeInv'
  <2>1. owner[t] \in Agents
    BY <1>3 DEF Drain
  <2>2. queue' \in [Agents -> Seq(Messages)] /\ \A a \in Agents : Len(queue'[a]) <= QueueCap
    BY <1>3, <2>1, QueueAssumption DEF Drain, QueueDrain
  <2>3. buf' \in [Tunnels -> Seq(Messages)] /\ tpc' \in [Tunnels -> TunnelPC]
    BY <1>3, <2>1 DEF Drain, Goto, TunnelPC
  <2>4. TaskState'
    BY <1>3, <2>1 DEF Drain, Goto
  <2> QED BY <1>3, <2>2, <2>3, <2>4 DEF Drain
<1>4. ASSUME NEW t \in Tunnels, SendBuffered(t) PROVE TypeInv'
  <2>1. buf[t] \in Seq(Messages) /\ buf[t] # <<>>
    BY <1>4 DEF SendBuffered
  <2>2. Head(buf[t]) \in Messages /\ Tail(buf[t]) \in Seq(Messages)
        /\ (Len(buf[t]) = 1 <=> Tail(buf[t]) = <<>>)
    BY <2>1, TakeFirst
  <2>3. chan' \in [Tunnels -> Seq(Frames)] /\ buf' \in [Tunnels -> Seq(Messages)]
    BY SMTT(30), <1>4, <2>2 DEF SendBuffered
  <2>4. tpc' \in [Tunnels -> TunnelPC]
    BY <1>4 DEF SendBuffered, Goto, TunnelPC
  <2>5. TaskState'
    BY <1>4, <2>2 DEF SendBuffered, Goto
  <2> QED BY <1>4, <2>3, <2>4, <2>5 DEF SendBuffered
<1>5. ASSUME NEW t \in Tunnels, ReadEnd(t) PROVE TypeInv'
  BY <1>5 DEF ReadEnd, Goto, TunnelPC
<1>6. ASSUME NEW t \in Tunnels, DropLease(t) PROVE TypeInv'
  BY ZenonT(30), <1>6 DEF DropLease, Goto, RemoveEntry, TunnelPC
<1>7. ASSUME NEW t \in Tunnels, LogDisconnect(t) PROVE TypeInv'
  BY <1>7, PushRecentType DEF LogDisconnect, Goto, TunnelPC
<1>8. ASSUME NEW t \in Tunnels, Abort(t) PROVE TypeInv'
  BY <1>8 DEF Abort, Goto, TunnelPC
<1>9. ASSUME NEW t \in Tunnels, WriteFrame(t) PROVE TypeInv'
  <2>1. Head(chan[t]) \in Frames /\ Tail(chan[t]) \in Seq(Frames)
    BY <1>9 DEF WriteFrame
  <2>2. received' \in [Tunnels -> Seq(Frames)] /\ chan' \in [Tunnels -> Seq(Frames)]
    BY <1>9, <2>1 DEF WriteFrame
  <2> QED BY <1>9, <2>2 DEF WriteFrame
<1>10. ASSUME NEW t \in Tunnels, WriteIntoVoid(t) PROVE TypeInv'
  BY <1>10 DEF WriteIntoVoid
<1>11. ASSUME NEW t \in Tunnels, WriteBreak(t) PROVE TypeInv'
  BY <1>11 DEF WriteBreak, CloseChannel
<1>12. ASSUME NEW t \in Tunnels, WriteAborted(t) PROVE TypeInv'
  BY <1>12 DEF WriteAborted, CloseChannel
<1>13. ASSUME NEW t \in Tunnels, ReadRequest(t) PROVE TypeInv'
  <2>1. chan' \in [Tunnels -> Seq(Frames)]
    BY <1>13 DEF ReadRequest
  <2>2. requests' \in [Tunnels -> 0..MaxRequests]
    BY <1>13, BrokerAssumption DEF ReadRequest
  <2>3. TaskState'
    BY <1>13 DEF ReadRequest
  <2> QED BY <1>13, <2>1, <2>2, <2>3 DEF ReadRequest
<1>14. ASSUME NEW t \in Tunnels, SocketDown(t) PROVE TypeInv'
  BY <1>14 DEF SocketDown
<1>15. ASSUME NEW p \in Posts, RejectEmptyRole(p) PROVE TypeInv'
  BY <1>15 DEF RejectEmptyRole, Answer, PostPC
<1>16. ASSUME NEW p \in Posts, NEW a \in Agents, Lookup(p, a) PROVE TypeInv'
  BY <1>16 DEF Lookup, Answer, PostPC
<1>17. ASSUME NEW p \in Posts, SendLive(p) PROVE TypeInv'
  <2>1. view[p] \in Tunnels /\ p \in Frames
    BY <1>17 DEF SendLive
  <2>a. Append(chan[view[p]], p) \in Seq(Frames)
    BY <2>1
  <2>2. chan' \in [Tunnels -> Seq(Frames)]
    BY <1>17, <2>1, <2>a DEF SendLive
  <2>3. post' \in [Posts -> PostPC] /\ TaskState'
    BY <1>17, <2>1 DEF SendLive, Answer, PostPC
  <2> QED BY <1>17, <2>2, <2>3 DEF SendLive
<1>18. ASSUME NEW p \in Posts, FallBack(p) PROVE TypeInv'
  <2>1. to[p] \in Agents
    BY <1>18 DEF FallBack
  <2>a. p \in Messages => Append(queue[to[p]], p) \in Seq(Messages)
    BY <2>1
  <2>2. queue' \in [Agents -> Seq(Messages)]
    BY <1>18, <2>1, <2>a DEF FallBack, QueuePush
  <2>3. ASSUME NEW a \in Agents PROVE Len(queue'[a]) <= QueueCap
    BY <1>18, <2>1, QueueAssumption DEF FallBack, QueuePush, QueueFull
  <2>4. post' \in [Posts -> PostPC] /\ TaskState'
    BY <1>18, <2>1 DEF FallBack, Answer, PostPC
  <2> QED BY <1>18, <2>2, <2>3, <2>4 DEF FallBack
<1>19. ASSUME NEW d \in Deletes, NEW a \in Agents, DeleteCheck(d, a) PROVE TypeInv'
  BY <1>19 DEF DeleteCheck, DeletePC
<1>20. ASSUME NEW d \in Deletes, DeleteRemove(d) PROVE TypeInv'
  BY ZenonT(30), <1>20 DEF DeleteRemove, RemoveEntry, DeletePC
<1>21. ASSUME NEW d \in Deletes, DeleteLog(d) PROVE TypeInv'
  BY <1>21, PushRecentType DEF DeleteLog, DeletePC
<1>22. CASE UNCHANGED vars
  BY <1>22 DEF vars
<1> QED
  BY <1>1, <1>2, <1>3, <1>4, <1>5, <1>6, <1>7, <1>8, <1>9, <1>10, <1>11, <1>12, <1>13, <1>14, <1>15, <1>16, <1>17, <1>18, <1>19, <1>20, <1>21, <1>22
  DEF Next, TunnelStep, WriteStep, HandlerStep, DeleteStep

(* Every variable of the broker keeps its type, an agent's buffer and the  *)
(* disconnect log never exceed their capacities, and every task finds what *)
(* its position promises.                                                  *)
THEOREM TypeCorrect == Spec => []TypeOK
<1>1. TypeInv => TypeOK
  BY DEF TypeInv
<1> QED BY <1>1, TypeInit, TypeNext, PTL DEF Spec

-----------------------------------------------------------------------------
(* The routing table.  NoDanglingEntry is inductive together with the type *)
(* invariant: an entry is made only at Connect, for a tunnel that is in no *)
(* other entry because it was idle, and the one step that takes a tunnel   *)
(* out of Registered removes the only entry that could name it.            *)

LEMMA TableUntouched ==
    ASSUME TypeInv, NoDanglingEntry, UNCHANGED <<connected, owner>>,
           \A u \in Tunnels : tpc[u] \in Registered => tpc'[u] \in Registered
    PROVE  NoDanglingEntry'
  BY DEF TypeInv, TypeOK, RegistryTypeOK, NoDanglingEntry

LEMMA DanglingNext ==
    ASSUME TypeInv, NoDanglingEntry, [Next]_vars
    PROVE  NoDanglingEntry'
<1> DEFINE Kept == /\ UNCHANGED <<connected, owner>>
                   /\ \A u \in Tunnels : tpc[u] \in Registered => tpc'[u] \in Registered
<1> USE DEF storeVars, tunnelVars, postVars, delVars
<1>t. tpc \in [Tunnels -> TunnelPC]
  BY DEF TypeInv, TypeOK
<1>1. ASSUME NEW t \in Tunnels, NEW a \in Agents, Connect(t, a) PROVE NoDanglingEntry'
  BY SMTT(30), <1>1 DEF Connect, Goto, InsertEntry, TypeInv, TypeOK, RegistryTypeOK, NoDanglingEntry,
              Registered, Registering
<1>2. ASSUME NEW t \in Tunnels, DropLease(t) PROVE NoDanglingEntry'
  <2>1. SUFFICES ASSUME NEW b \in Agents, connected'[b] # None
                 PROVE  owner'[connected'[b]] = b /\ tpc'[connected'[b]] \in Registered
    BY DEF NoDanglingEntry
  <2>2. connected[b] # None /\ connected'[b] = connected[b] /\ b # owner[t]
    BY <1>2, <2>1 DEF DropLease, RemoveEntry, TypeInv, TypeOK, RegistryTypeOK, TaskState
  <2>3. connected[b] \in Tunnels /\ owner[connected[b]] = b /\ tpc[connected[b]] \in Registered
    BY <2>2 DEF NoDanglingEntry, TypeInv, TypeOK, RegistryTypeOK
  <2>4. tpc'[connected[b]] = tpc[connected[b]] /\ owner' = owner
    BY <1>2, <2>2, <2>3, <1>t DEF DropLease, Goto
  <2> QED BY <2>2, <2>3, <2>4
<1>3. ASSUME NEW t \in Tunnels, FinishRegister(t) \/ Drain(t) \/ SendBuffered(t) PROVE Kept
  BY <1>3, <1>t DEF FinishRegister, Drain, SendBuffered, Goto, Registered, Registering
<1>4. ASSUME NEW t \in Tunnels, ReadEnd(t) \/ LogDisconnect(t) \/ Abort(t) PROVE Kept
  BY <1>4, <1>t DEF ReadEnd, LogDisconnect, Abort, Goto, Registered, Registering
<1>5. ASSUME NEW t \in Tunnels, WriteStep(t) \/ ReadRequest(t) \/ SocketDown(t) PROVE Kept
  BY <1>5 DEF WriteStep, WriteFrame, WriteIntoVoid, WriteBreak, WriteAborted, ReadRequest,
              SocketDown
<1>6. ASSUME NEW p \in Posts,
             RejectEmptyRole(p) \/ (\E a \in Agents : Lookup(p, a)) \/ HandlerStep(p)
      PROVE  Kept
  BY <1>6 DEF RejectEmptyRole, Lookup, HandlerStep, SendLive, FallBack
<1>7. ASSUME NEW d \in Deletes, (\E a \in Agents : DeleteCheck(d, a)) \/ DeleteLog(d)
      PROVE  Kept
  BY <1>7 DEF DeleteCheck, DeleteLog
<1>8. ASSUME NEW d \in Deletes, DeleteRemove(d) PROVE NoDanglingEntry'
  BY <1>8 DEF DeleteRemove, RemoveEntry, TypeInv, TypeOK, RegistryTypeOK, NoDanglingEntry
<1>9. CASE UNCHANGED vars
  BY <1>9 DEF vars, NoDanglingEntry
<1> QED
  BY <1>1, <1>2, <1>3, <1>4, <1>5, <1>6, <1>7, <1>8, <1>9, TableUntouched
  DEF Next, TunnelStep, DeleteStep

(* No entry of the routing table outlives its tunnel, however the tunnels  *)
(* of an agent and the DELETE requests for it interleave.                  *)
THEOREM EntriesAreLive == Spec => []NoDanglingEntry
<1>1. Init => NoDanglingEntry
  BY DEF Init, RegistryInit, NoDanglingEntry
<1>2. TypeInv /\ NoDanglingEntry /\ [Next]_vars => TypeInv' /\ NoDanglingEntry'
  BY TypeNext, DanglingNext
<1> QED BY <1>1, <1>2, TypeInit, PTL DEF Spec

-----------------------------------------------------------------------------
(* The recently-disconnected log *)

LEMMA WithoutDistinct ==
    ASSUME recent \in Seq(Agents), NEW a,
           \A i, j \in 1..Len(recent) : recent[i] = recent[j] => i = j
    PROVE  /\ \A i, j \in 1..Len(Without(a)) : Without(a)[i] = Without(a)[j] => i = j
           /\ \A i \in 1..Len(Without(a)) : Without(a)[i] # a
<1>1. CASE \E i \in 1..Len(recent) : recent[i] = a
  <2> DEFINE k == CHOOSE i \in 1..Len(recent) : recent[i] = a
             w == RemoveAt(recent, k)
  <2>1. k \in 1..Len(recent) /\ recent[k] = a
    BY <1>1
  <2>2. Without(a) = w
    BY <1>1 DEF Without
  <2> HIDE DEF k
  <2>3. /\ Len(w) = Len(recent) - 1
        /\ \A i \in 1..(Len(recent) - 1) :
              w[i] = IF i < k THEN recent[i] ELSE recent[i + 1]
    BY <2>1, RemoveAtFacts
  <2> HIDE DEF w
  <2>4. Len(recent) \in Nat
    OBVIOUS
  <2>5. ASSUME NEW i \in 1..Len(w), NEW j \in 1..Len(w), w[i] = w[j] PROVE i = j
    BY <2>1, <2>3, <2>4, <2>5
  <2>6. ASSUME NEW i \in 1..Len(w) PROVE w[i] # a
    BY <2>1, <2>3, <2>4
  <2> QED BY <2>2, <2>5, <2>6
<1>2. CASE ~ \E i \in 1..Len(recent) : recent[i] = a
  BY <1>2 DEF Without
<1> QED BY <1>1, <1>2

LEMMA PurgeKeepsLog ==
    ASSUME recent \in Seq(Agents), RecentLogOK, NEW a, PurgeRecent(a)
    PROVE  RecentLogOK'
<1>1. \A i, j \in 1..Len(Without(a)) : Without(a)[i] = Without(a)[j] => i = j
  BY WithoutDistinct DEF RecentLogOK
<1> QED BY <1>1 DEF RecentLogOK, PurgeRecent

LEMMA PushKeepsLog ==
    ASSUME recent \in Seq(Agents), RecentLogOK, NEW a \in Agents, PushRecent(a)
    PROVE  RecentLogOK'
<1> DEFINE kept == Without(a)
           log == IF Len(kept) = RecentCap THEN Tail(kept) ELSE kept
<1>1. /\ kept \in Seq(Agents) /\ Len(kept) \in Nat
      /\ \A i, j \in 1..Len(kept) : kept[i] = kept[j] => i = j
      /\ \A i \in 1..Len(kept) : kept[i] # a
  <2>1. kept \in Seq(Agents) /\ Len(kept) \in Nat
    BY WithoutFacts
  <2>2. /\ \A i, j \in 1..Len(kept) : kept[i] = kept[j] => i = j
        /\ \A i \in 1..Len(kept) : kept[i] # a
    BY WithoutDistinct DEF RecentLogOK
  <2> QED BY <2>1, <2>2
<1>2. recent' = Append(log, a)
  BY DEF PushRecent
<1> HIDE DEF kept
<1>3. /\ log \in Seq(Agents) /\ Len(log) \in Nat
      /\ \A i, j \in 1..Len(log) : log[i] = log[j] => i = j
      /\ \A i \in 1..Len(log) : log[i] # a
  <2>1. CASE Len(kept) = RecentCap
    <3>1. kept # <<>>
      BY <2>1, RegistryAssumption
    <3>2. /\ Tail(kept) \in Seq(Agents) /\ Len(Tail(kept)) = Len(kept) - 1
          /\ \A i \in 1..(Len(kept) - 1) : Tail(kept)[i] = kept[i + 1]
      BY <1>1, <3>1, TakeFirst
    <3> QED BY <1>1, <2>1, <3>2, RegistryAssumption
  <2>2. CASE Len(kept) # RecentCap
    BY <1>1, <2>2
  <2> QED BY <2>1, <2>2
<1> HIDE DEF log
<1>4. /\ Len(recent') = Len(log) + 1
      /\ \A i \in 1..Len(log) : recent'[i] = log[i]
      /\ recent'[Len(log) + 1] = a
  BY <1>2, <1>3
<1> QED BY <1>3, <1>4 DEF RecentLogOK

(* The recently-disconnected log never lists an agent twice. *)
THEOREM RecentLogCorrect == Spec => []RecentLogOK
<1>1. Init => RecentLogOK
  BY DEF Init, RegistryInit, RecentLogOK
<1>2. ASSUME TypeInv, RecentLogOK, [Next]_vars PROVE RecentLogOK'
  <2> USE DEF storeVars, tunnelVars, postVars, delVars
  <2>1. recent \in Seq(Agents)
    BY <1>2 DEF TypeInv, TypeOK, RegistryTypeOK
  <2>2. ASSUME NEW t \in Tunnels, FinishRegister(t) PROVE RecentLogOK'
    BY <1>2, <2>1, <2>2, PurgeKeepsLog DEF FinishRegister
  <2>3. ASSUME NEW t \in Tunnels, LogDisconnect(t) PROVE RecentLogOK'
    <3>1. owner[t] \in Agents /\ PushRecent(owner[t])
      BY <1>2, <2>3 DEF LogDisconnect, TypeInv, TaskState
    <3> QED BY <1>2, <2>1, <3>1, PushKeepsLog
  <2>4. ASSUME NEW d \in Deletes, DeleteLog(d) PROVE RecentLogOK'
    <3>1. delAgent[d] \in Agents /\ PushRecent(delAgent[d])
      BY <1>2, <2>4 DEF DeleteLog, TypeInv, TaskState
    <3> QED BY <1>2, <2>1, <3>1, PushKeepsLog
  <2>5. ASSUME NEW t \in Tunnels,
               \/ \E a \in Agents : Connect(t, a)
               \/ Drain(t) \/ SendBuffered(t) \/ ReadEnd(t) \/ DropLease(t) \/ Abort(t)
               \/ WriteStep(t) \/ ReadRequest(t) \/ SocketDown(t)
        PROVE  UNCHANGED recent
    BY <2>5 DEF Connect, Drain, SendBuffered, ReadEnd, DropLease, Abort, WriteStep, WriteFrame,
                WriteIntoVoid, WriteBreak, WriteAborted, ReadRequest, SocketDown
  <2>6. ASSUME NEW p \in Posts,
               RejectEmptyRole(p) \/ (\E a \in Agents : Lookup(p, a)) \/ HandlerStep(p)
        PROVE  UNCHANGED recent
    BY <2>6 DEF RejectEmptyRole, Lookup, HandlerStep, SendLive, FallBack
  <2>7. ASSUME NEW d \in Deletes, (\E a \in Agents : DeleteCheck(d, a)) \/ DeleteRemove(d)
        PROVE  UNCHANGED recent
    BY <2>7 DEF DeleteCheck, DeleteRemove
  <2>8. CASE UNCHANGED vars
    BY <1>2, <2>8 DEF vars, RecentLogOK
  <2>9. UNCHANGED recent => RecentLogOK'
    BY <1>2 DEF RecentLogOK
  <2>t. ASSUME NEW t \in Tunnels, TunnelStep(t) PROVE RecentLogOK'
    BY <2>t, <2>2, <2>3, <2>5, <2>9 DEF TunnelStep
  <2>d. ASSUME NEW d \in Deletes, DeleteStep(d) PROVE RecentLogOK'
    BY <2>d, <2>4, <2>7, <2>9 DEF DeleteStep
  <2> QED
    BY <1>2, <2>t, <2>d, <2>5, <2>6, <2>7, <2>8, <2>9 DEF Next
<1> QED BY <1>1, <1>2, TypeInit, TypeNext, PTL DEF Spec

-----------------------------------------------------------------------------
(* Routing.  What a tunnel carries is either a reply, a message that came  *)
(* through its agent's buffer, or a push whose handler looked this very    *)
(* tunnel up; a handler that holds an entry holds one of its own agent.    *)

Carries(t, f) ==
    f # Reply => /\ to[f] = owner[t]
                 /\ \/ post[f] = "queued" /\ f \in Messages
                    \/ post[f] = "live" /\ view[f] = t

QueueOK(a) == \A i \in 1..Len(queue[a]) : post[queue[a][i]] = "queued" /\ to[queue[a][i]] = a

TunnelOK(t) ==
    /\ tpc[t] = "idle" => buf[t] = <<>> /\ chan[t] = <<>> /\ received[t] = <<>>
    /\ \A i \in 1..Len(buf[t]) : Carries(t, buf[t][i])
    /\ \A i \in 1..Len(chan[t]) : Carries(t, chan[t][i])
    /\ \A i \in 1..Len(received[t]) : Carries(t, received[t][i])

HandlerOK(p) == post[p] = "found" => tpc[view[p]] # "idle" /\ owner[view[p]] = to[p]

RouteInv ==
    /\ \A a \in Agents : QueueOK(a)
    /\ \A t \in Tunnels : TunnelOK(t)
    /\ \A p \in Posts : HandlerOK(p)

(* An answered push keeps its answer, its agent and the entry it used. *)
LEMMA AnswerStable ==
    ASSUME TypeInv, [Next]_vars, NEW p \in Posts, post[p] \notin {"new", "found", "absent"}
    PROVE  post'[p] = post[p] /\ to'[p] = to[p] /\ view'[p] = view[p]
<1> USE DEF storeVars, tunnelVars, postVars, delVars
<1>0. /\ post \in [Posts -> PostPC] /\ to \in [Posts -> Agents \cup {None}]
      /\ view \in [Posts -> Tunnels \cup {None}]
  BY DEF TypeInv, TypeOK
<1>1. ASSUME NEW t \in Tunnels,
             \/ \E a \in Agents : Connect(t, a)
             \/ TunnelStep(t) \/ WriteStep(t) \/ ReadRequest(t) \/ SocketDown(t)
      PROVE  UNCHANGED postVars
  BY <1>1 DEF Connect, TunnelStep, FinishRegister, Drain, SendBuffered, ReadEnd, DropLease,
              LogDisconnect, Abort, WriteStep, WriteFrame, WriteIntoVoid, WriteBreak,
              WriteAborted, ReadRequest, SocketDown
<1>2. ASSUME NEW d \in Deletes, (\E a \in Agents : DeleteCheck(d, a)) \/ DeleteStep(d)
      PROVE  UNCHANGED postVars
  BY <1>2 DEF DeleteCheck, DeleteStep, DeleteRemove, DeleteLog
<1>3. ASSUME NEW q \in Posts, (\E a \in Agents : Lookup(q, a)) \/ RejectEmptyRole(q)
      PROVE  post'[p] = post[p] /\ to'[p] = to[p] /\ view'[p] = view[p]
  BY <1>0, <1>3 DEF Lookup, RejectEmptyRole, Answer
<1>4. ASSUME NEW q \in Posts, HandlerStep(q)
      PROVE  post'[p] = post[p] /\ to'[p] = to[p] /\ view'[p] = view[p]
  BY <1>0, <1>4 DEF HandlerStep, SendLive, FallBack, Answer
<1>5. CASE UNCHANGED vars
  BY <1>5 DEF vars
<1> QED BY <1>1, <1>2, <1>3, <1>4, <1>5 DEF Next

(* A tunnel that has started keeps its agent. *)
LEMMA OwnerStable ==
    ASSUME TypeInv, [Next]_vars, NEW t \in Tunnels, tpc[t] # "idle"
    PROVE  owner'[t] = owner[t] /\ tpc'[t] # "idle"
<1> USE DEF storeVars, tunnelVars, postVars, delVars
<1>0. tpc \in [Tunnels -> TunnelPC] /\ owner \in [Tunnels -> Agents \cup {None}]
  BY DEF TypeInv, TypeOK
<1>1. ASSUME NEW u \in Tunnels, NEW a \in Agents, Connect(u, a)
      PROVE  owner'[t] = owner[t] /\ tpc'[t] # "idle"
  BY <1>0, <1>1 DEF Connect, Goto
<1>2. ASSUME NEW u \in Tunnels, TunnelStep(u)
      PROVE  owner'[t] = owner[t] /\ tpc'[t] # "idle"
  <2>1. owner' = owner
    BY <1>2 DEF TunnelStep, FinishRegister, Drain, SendBuffered, ReadEnd, DropLease,
                LogDisconnect, Abort
  <2>2. \E pc \in TunnelPC \ {"idle"} : tpc' = [tpc EXCEPT ![u] = pc]
    BY <1>2 DEF TunnelStep, FinishRegister, Drain, SendBuffered, ReadEnd, DropLease,
                LogDisconnect, Abort, Goto, TunnelPC
  <2> QED BY <1>0, <2>1, <2>2
<1>3. ASSUME NEW u \in Tunnels, WriteStep(u) \/ ReadRequest(u) \/ SocketDown(u)
      PROVE  UNCHANGED <<owner, tpc>>
  BY <1>3 DEF WriteStep, WriteFrame, WriteIntoVoid, WriteBreak, WriteAborted, ReadRequest,
              SocketDown
<1>4. ASSUME NEW p \in Posts,
             RejectEmptyRole(p) \/ (\E a \in Agents : Lookup(p, a)) \/ HandlerStep(p)
      PROVE  UNCHANGED <<owner, tpc>>
  BY <1>4 DEF RejectEmptyRole, Lookup, HandlerStep, SendLive, FallBack
<1>5. ASSUME NEW d \in Deletes, (\E a \in Agents : DeleteCheck(d, a)) \/ DeleteStep(d)
      PROVE  UNCHANGED <<owner, tpc>>
  BY <1>5 DEF DeleteCheck, DeleteStep, DeleteRemove, DeleteLog
<1>6. CASE UNCHANGED vars
  BY <1>6 DEF vars
<1> QED BY <1>1, <1>2, <1>3, <1>4, <1>5, <1>6 DEF Next

LEMMA CarriesStable ==
    ASSUME TypeInv, [Next]_vars, NEW t \in Tunnels, tpc[t] # "idle",
           NEW f \in Frames, Carries(t, f)
    PROVE  Carries(t, f)'
<1>1. CASE f = Reply
  BY <1>1 DEF Carries
<1>2. CASE f # Reply
  <2>1. f \in Posts /\ post[f] \in {"queued", "live"}
    BY <1>2 DEF Frames, Carries
  <2>2. post'[f] = post[f] /\ to'[f] = to[f] /\ view'[f] = view[f]
    BY <2>1, AnswerStable
  <2>3. owner'[t] = owner[t]
    BY OwnerStable
  <2> QED BY <1>2, <2>2, <2>3 DEF Carries
<1> QED BY <1>1, <1>2

LEMMA HandlerNext ==
    ASSUME TypeInv, NoDanglingEntry, [Next]_vars, NEW p \in Posts, HandlerOK(p)
    PROVE  HandlerOK(p)'
<1> USE DEF storeVars, tunnelVars, postVars, delVars
<1>0. /\ post \in [Posts -> PostPC] /\ to \in [Posts -> Agents \cup {None}]
      /\ view \in [Posts -> Tunnels \cup {None}]
      /\ connected \in [Agents -> Tunnels \cup {None}]
  BY DEF TypeInv, TypeOK, RegistryTypeOK
<1>1. SUFFICES ASSUME post'[p] = "found"
               PROVE  tpc'[view'[p]] # "idle" /\ owner'[view'[p]] = to'[p]
  BY DEF HandlerOK
<1>2. CASE \E a \in Agents : Lookup(p, a)
  <2> PICK a \in Agents : Lookup(p, a)
    BY <1>2
  <2>1. connected[a] # None /\ view'[p] = connected[a] /\ to'[p] = a
        /\ UNCHANGED <<owner, tpc>>
    BY <1>0, <1>1 DEF Lookup, Answer
  <2>2. owner[connected[a]] = a /\ tpc[connected[a]] # "idle"
    BY <2>1 DEF NoDanglingEntry, Registered, Registering
  <2> QED BY <2>1, <2>2
<1>3. CASE ~ \E a \in Agents : Lookup(p, a)
  <2>1. post[p] = "found" /\ view'[p] = view[p] /\ to'[p] = to[p]
    <3>1. ASSUME NEW t \in Tunnels,
                 \/ \E a \in Agents : Connect(t, a)
                 \/ TunnelStep(t) \/ WriteStep(t) \/ ReadRequest(t) \/ SocketDown(t)
          PROVE  UNCHANGED postVars
      BY <3>1 DEF Connect, TunnelStep, FinishRegister, Drain, SendBuffered, ReadEnd,
                  DropLease, LogDisconnect, Abort, WriteStep, WriteFrame, WriteIntoVoid,
                  WriteBreak, WriteAborted, ReadRequest, SocketDown
    <3>2. ASSUME NEW d \in Deletes, (\E a \in Agents : DeleteCheck(d, a)) \/ DeleteStep(d)
          PROVE  UNCHANGED postVars
      BY <3>2 DEF DeleteCheck, DeleteStep, DeleteRemove, DeleteLog
    <3>3. ASSUME NEW q \in Posts, q # p, \E a \in Agents : Lookup(q, a)
          PROVE  post[p] = "found" /\ view'[p] = view[p] /\ to'[p] = to[p]
      BY <1>0, <1>1, <3>3 DEF Lookup, Answer
    <3>4. ASSUME NEW q \in Posts, HandlerStep(q) \/ RejectEmptyRole(q)
          PROVE  post[p] = "found" /\ view'[p] = view[p] /\ to'[p] = to[p]
      BY <1>0, <1>1, <3>4 DEF HandlerStep, SendLive, FallBack, RejectEmptyRole, Answer
    <3>5. CASE UNCHANGED vars
      BY <1>1, <3>5 DEF vars
    <3> QED BY <1>1, <1>3, <3>1, <3>2, <3>3, <3>4, <3>5 DEF Next
  <2>2. view[p] \in Tunnels /\ tpc[view[p]] # "idle" /\ owner[view[p]] = to[p]
    BY <2>1 DEF HandlerOK, TypeInv, TaskState
  <2> QED BY <2>1, <2>2, OwnerStable
<1> QED BY <1>2, <1>3

LEMMA QueueNext ==
    ASSUME TypeInv, [Next]_vars, NEW a \in Agents, QueueOK(a)
    PROVE  QueueOK(a)'
<1> USE DEF storeVars, tunnelVars, postVars, delVars
<1>0. queue \in [Agents -> Seq(Messages)] /\ queue[a] \in Seq(Messages)
  BY DEF TypeInv, TypeOK
<1>1. CASE queue'[a] = queue[a]
  <2> SUFFICES ASSUME NEW i \in 1..Len(queue[a])
               PROVE  post'[queue[a][i]] = "queued" /\ to'[queue[a][i]] = a
    BY <1>1 DEF QueueOK
  <2>1. queue[a][i] \in Posts /\ post[queue[a][i]] = "queued" /\ to[queue[a][i]] = a
    BY <1>0 DEF QueueOK, Posts
  <2> QED BY <2>1, AnswerStable
<1>2. ASSUME NEW t \in Tunnels, Drain(t) PROVE QueueOK(a)'
  <2>1. queue'[a] = queue[a] \/ queue'[a] = <<>>
    BY <1>0, <1>2 DEF Drain, QueueDrain
  <2> QED BY <1>1, <2>1 DEF QueueOK
<1>3. ASSUME NEW p \in Posts, FallBack(p) PROVE QueueOK(a)'
  <2>1. CASE queue'[a] = queue[a]
    BY <1>1, <2>1
  <2>2. CASE queue'[a] # queue[a]
    <3>1. a = to[p] /\ p \in Messages /\ queue'[a] = Append(queue[a], p)
          /\ post'[p] = "queued" /\ to'[p] = a
      BY <1>0, <1>3, <2>2 DEF FallBack, QueuePush, Answer, TypeInv, TypeOK
    <3>2. Len(queue'[a]) = Len(queue[a]) + 1 /\ Len(queue[a]) \in Nat
          /\ queue'[a][Len(queue[a]) + 1] = p
          /\ \A i \in 1..Len(queue[a]) : queue'[a][i] = queue[a][i]
      BY <1>0, <3>1
    <3>3. ASSUME NEW i \in 1..Len(queue[a])
          PROVE  post'[queue[a][i]] = "queued" /\ to'[queue[a][i]] = a
      <4>1. queue[a][i] \in Posts /\ post[queue[a][i]] = "queued" /\ to[queue[a][i]] = a
        BY <1>0 DEF QueueOK, Posts
      <4> QED BY <4>1, AnswerStable
    <3> QED BY <3>1, <3>2, <3>3 DEF QueueOK
  <2> QED BY <2>1, <2>2
<1>4. ASSUME NEW t \in Tunnels,
             \/ \E b \in Agents : Connect(t, b)
             \/ FinishRegister(t) \/ SendBuffered(t) \/ ReadEnd(t) \/ DropLease(t)
             \/ LogDisconnect(t) \/ Abort(t)
             \/ WriteStep(t) \/ ReadRequest(t) \/ SocketDown(t)
      PROVE  queue' = queue
  BY <1>4 DEF Connect, FinishRegister, SendBuffered, ReadEnd, DropLease, LogDisconnect, Abort,
              WriteStep, WriteFrame, WriteIntoVoid, WriteBreak, WriteAborted, ReadRequest,
              SocketDown
<1>5. ASSUME NEW p \in Posts,
             RejectEmptyRole(p) \/ (\E b \in Agents : Lookup(p, b)) \/ SendLive(p)
      PROVE  queue' = queue
  BY <1>5 DEF RejectEmptyRole, Lookup, SendLive
<1>6. ASSUME NEW d \in Deletes, (\E b \in Agents : DeleteCheck(d, b)) \/ DeleteStep(d)
      PROVE  queue' = queue
  BY <1>6 DEF DeleteCheck, DeleteStep, DeleteRemove, DeleteLog
<1>7. CASE UNCHANGED vars
  BY <1>1, <1>7 DEF vars
<1> QED BY <1>1, <1>2, <1>3, <1>4, <1>5, <1>6, <1>7 DEF Next, TunnelStep, HandlerStep

LEMMA TunnelNext ==
    ASSUME TypeInv, [Next]_vars, RouteInv, NEW t \in Tunnels
    PROVE  TunnelOK(t)'
<1> USE DEF storeVars, tunnelVars, postVars, delVars
<1> DEFINE Lines == <<buf[t], chan[t], received[t]>>
<1>0. /\ buf \in [Tunnels -> Seq(Messages)] /\ chan \in [Tunnels -> Seq(Frames)]
      /\ received \in [Tunnels -> Seq(Frames)] /\ queue \in [Agents -> Seq(Messages)]
      /\ tpc \in [Tunnels -> TunnelPC] /\ Messages \subseteq Frames
  BY DEF TypeInv, TypeOK, Frames, Posts
<1>1. TunnelOK(t)
  BY DEF RouteInv
<1>2. ASSUME tpc[t] # "idle", NEW f \in Frames, Carries(t, f) PROVE Carries(t, f)'
  BY <1>2, CarriesStable
<1>3. tpc[t] # "idle" => tpc'[t] # "idle"
  BY OwnerStable
(* A step that leaves the tunnel's lines alone leaves them well routed. *)
<1>4. CASE UNCHANGED Lines
  <2>1. CASE tpc[t] = "idle"
    BY <1>1, <1>4, <2>1 DEF TunnelOK
  <2>2. CASE tpc[t] # "idle"
    <3>1. /\ \A i \in 1..Len(buf[t]) : buf[t][i] \in Frames /\ Carries(t, buf[t][i])
          /\ \A i \in 1..Len(chan[t]) : chan[t][i] \in Frames /\ Carries(t, chan[t][i])
          /\ \A i \in 1..Len(received[t]) :
                received[t][i] \in Frames /\ Carries(t, received[t][i])
      BY <1>0, <1>1 DEF TunnelOK
    <3> QED BY <1>2, <1>3, <1>4, <2>2, <3>1 DEF TunnelOK
  <2> QED BY <2>1, <2>2
(* Otherwise each line holds frames that were carried before the step. *)
<1> DEFINE Held(f) == f \in Frames /\ Carries(t, f)
           WellRouted == /\ tpc[t] # "idle"
                         /\ \A i \in 1..Len(buf'[t]) : Held(buf'[t][i])
                         /\ \A i \in 1..Len(chan'[t]) : Held(chan'[t][i])
                         /\ \A i \in 1..Len(received'[t]) : Held(received'[t][i])
<1>5. WellRouted => TunnelOK(t)'
  BY <1>2, <1>3 DEF TunnelOK
<1>6. /\ \A i \in 1..Len(buf[t]) : Held(buf[t][i])
      /\ \A i \in 1..Len(chan[t]) : Held(chan[t][i])
      /\ \A i \in 1..Len(received[t]) : Held(received[t][i])
  BY <1>0, <1>1 DEF TunnelOK
<1> HIDE DEF Held
<1>7. ASSUME Drain(t) PROVE TunnelOK(t)'
  <2>1. owner[t] \in Agents /\ tpc[t] # "idle"
    BY <1>7 DEF Drain, TypeInv, TaskState
  <2>2. buf'[t] = queue[owner[t]] /\ UNCHANGED <<chan, received>>
    BY <1>0, <1>7 DEF Drain
  <2>3. ASSUME NEW i \in 1..Len(queue[owner[t]]) PROVE Held(queue[owner[t]][i])
    <3>1. queue[owner[t]][i] \in Messages
      BY <1>0, <2>1
    <3>2. post[queue[owner[t]][i]] = "queued" /\ to[queue[owner[t]][i]] = owner[t]
      BY <2>1 DEF RouteInv, QueueOK
    <3> QED BY <1>0, <3>1, <3>2 DEF Held, Carries
  <2> QED BY <1>5, <1>6, <2>1, <2>2, <2>3
<1>8. ASSUME SendBuffered(t) PROVE TunnelOK(t)'
  <2>1. tpc[t] # "idle" /\ buf[t] \in Seq(Messages) /\ buf[t] # <<>>
    BY <1>0, <1>8 DEF SendBuffered, TypeInv, TaskState
  <2>2. chan'[t] = Append(chan[t], Head(buf[t])) /\ buf'[t] = Tail(buf[t]) /\ UNCHANGED received
    BY <1>0, <1>8 DEF SendBuffered
  <2>3. /\ Head(buf[t]) \in Messages /\ Head(buf[t]) = buf[t][1]
        /\ Tail(buf[t]) \in Seq(Messages) /\ Len(Tail(buf[t])) = Len(buf[t]) - 1
        /\ Len(buf[t]) \in Nat \ {0}
        /\ \A i \in 1..(Len(buf[t]) - 1) : Tail(buf[t])[i] = buf[t][i + 1]
    BY <2>1, TakeFirst, EmptySeq
  <2>4. Held(Head(buf[t])) /\ \A i \in 1..Len(Tail(buf[t])) : Held(Tail(buf[t])[i])
    BY <1>6, <2>3
  <2>5. \A i \in 1..Len(chan'[t]) : \/ i <= Len(chan[t]) /\ chan'[t][i] = chan[t][i]
                                    \/ chan'[t][i] = Head(buf[t])
    BY <1>0, <2>2, <2>3
  <2>6. chan[t] \in Seq(Frames) /\ chan'[t] \in Seq(Frames)
    BY <1>0, <2>2, <2>3
  <2>7. \A i \in 1..Len(chan'[t]) : Held(chan'[t][i])
    BY <1>6, <2>4, <2>5, <2>6
  <2> QED BY <1>5, <1>6, <2>1, <2>2, <2>4, <2>7
<1>9. ASSUME WriteFrame(t) PROVE TunnelOK(t)'
  <2>1. tpc[t] # "idle" /\ chan[t] \in Seq(Frames) /\ chan[t] # <<>>
    BY <1>0, <1>9 DEF WriteFrame, Writing
  <2>2. received'[t] = Append(received[t], Head(chan[t])) /\ chan'[t] = Tail(chan[t])
        /\ UNCHANGED buf
    BY <1>0, <1>9 DEF WriteFrame
  <2>3. /\ Head(chan[t]) \in Frames /\ Head(chan[t]) = chan[t][1]
        /\ Tail(chan[t]) \in Seq(Frames) /\ Len(Tail(chan[t])) = Len(chan[t]) - 1
        /\ Len(chan[t]) \in Nat \ {0}
        /\ \A i \in 1..(Len(chan[t]) - 1) : Tail(chan[t])[i] = chan[t][i + 1]
    BY <2>1, TakeFirst, EmptySeq
  <2>4. Held(Head(chan[t])) /\ \A i \in 1..Len(Tail(chan[t])) : Held(Tail(chan[t])[i])
    BY <1>6, <2>3
  <2>5. received[t] \in Seq(Frames) /\ received'[t] \in Seq(Frames)
    BY <1>0, <2>2, <2>3
  <2>6. \A i \in 1..Len(received'[t]) : \/ i <= Len(received[t]) /\ received'[t][i] = received[t][i]
                                        \/ received'[t][i] = Head(chan[t])
    BY <1>0, <2>2, <2>3
  <2>7. \A i \in 1..Len(received'[t]) : Held(received'[t][i])
    BY <1>6, <2>4, <2>5, <2>6
  <2> QED BY <1>5, <1>6, <2>1, <2>2, <2>4, <2>7
<1>10. ASSUME WriteIntoVoid(t) PROVE TunnelOK(t)'
  <2>1. tpc[t] # "idle" /\ chan[t] \in Seq(Frames) /\ chan[t] # <<>>
    BY <1>0, <1>10 DEF WriteIntoVoid, Writing
  <2>2. chan'[t] = Tail(chan[t]) /\ UNCHANGED <<buf, received>>
    BY <1>0, <1>10 DEF WriteIntoVoid
  <2>3. /\ Tail(chan[t]) \in Seq(Frames) /\ Len(Tail(chan[t])) = Len(chan[t]) - 1
        /\ Len(chan[t]) \in Nat \ {0}
        /\ \A i \in 1..(Len(chan[t]) - 1) : Tail(chan[t])[i] = chan[t][i + 1]
    BY <2>1, TakeFirst, EmptySeq
  <2>4. \A i \in 1..Len(Tail(chan[t])) : Held(Tail(chan[t])[i])
    BY <1>6, <2>3
  <2> QED BY <1>5, <1>6, <2>1, <2>2, <2>4
<1>11. ASSUME WriteBreak(t) \/ WriteAborted(t) PROVE TunnelOK(t)'
  <2>1. tpc[t] # "idle" /\ chan'[t] = <<>> /\ UNCHANGED <<buf, received>>
    BY <1>0, <1>11 DEF WriteBreak, WriteAborted, CloseChannel, Writing
  <2> QED BY <1>5, <1>6, <2>1
<1>12. ASSUME ReadRequest(t) PROVE TunnelOK(t)'
  <2>1. tpc[t] # "idle" /\ UNCHANGED <<buf, received>>
        /\ (chan'[t] = chan[t] \/ chan'[t] = Append(chan[t], Reply))
    BY <1>0, <1>12 DEF ReadRequest
  <2>2. Held(Reply) /\ Reply \in Frames
    BY DEF Held, Carries, Frames
  <2>3. chan[t] \in Seq(Frames)
    BY <1>0
  <2>4. \A i \in 1..Len(chan'[t]) : \/ i <= Len(chan[t]) /\ chan'[t][i] = chan[t][i]
                                    \/ chan'[t][i] = Reply
    BY <2>1, <2>2, <2>3
  <2>5. Len(chan[t]) \in Nat /\ Len(chan'[t]) \in Nat
    BY <2>1, <2>2, <2>3
  <2>6. \A i \in 1..Len(chan'[t]) : Held(chan'[t][i])
    BY <1>6, <2>2, <2>4, <2>5
  <2> QED BY <1>5, <1>6, <2>1, <2>6
<1>13. ASSUME NEW p \in Posts, SendLive(p) PROVE TunnelOK(t)'
  <2>1. CASE UNCHANGED chan
    BY <1>4, <1>13, <2>1 DEF SendLive
  <2>2. CASE view[p] # t
    <3>1. UNCHANGED Lines
      BY <1>0, <1>13, <2>2 DEF SendLive, TypeInv, TaskState
    <3> QED BY <1>4, <3>1
  <2>3. CASE view[p] = t /\ chan' # chan
    <3>1. /\ chan'[t] = Append(chan[t], p) /\ UNCHANGED <<buf, received, owner, to, view, tpc>>
          /\ post'[p] = "live" /\ p \in Frames
      BY <1>0, <1>13, <2>3 DEF SendLive, Answer, TypeInv, TypeOK, Frames
    <3>2. tpc[t] # "idle" /\ owner[t] = to[p]
      BY <1>13, <2>3 DEF SendLive, RouteInv, HandlerOK
    <3>3. Carries(t, p)'
      BY <2>3, <3>1, <3>2 DEF Carries
    <3>4. chan[t] \in Seq(Frames) /\ Len(chan[t]) \in Nat /\ Len(chan'[t]) = Len(chan[t]) + 1
          /\ chan'[t][Len(chan[t]) + 1] = p
          /\ \A i \in 1..Len(chan[t]) : chan'[t][i] = chan[t][i]
      BY <1>0, <3>1
    <3>5. \A i \in 1..Len(chan'[t]) : Carries(t, chan[t][i])'
      <4> SUFFICES ASSUME NEW i \in 1..Len(chan'[t]) PROVE Carries(t, chan[t][i])'
        OBVIOUS
      <4>1. CASE i = Len(chan[t]) + 1
        BY <3>3, <3>4, <4>1
      <4>2. CASE i # Len(chan[t]) + 1
        <5>1. chan'[t][i] = chan[t][i] /\ Held(chan[t][i])
          BY <1>6, <3>4, <4>2
        <5> QED BY <1>2, <3>2, <5>1 DEF Held
      <4> QED BY <4>1, <4>2
    <3>6. /\ \A i \in 1..Len(buf[t]) : Carries(t, buf[t][i])'
          /\ \A i \in 1..Len(received[t]) : Carries(t, received[t][i])'
      BY <1>2, <1>6, <3>1, <3>2 DEF Held
    <3> QED BY <3>1, <3>2, <3>5, <3>6 DEF TunnelOK
  <2> QED BY <2>1, <2>2, <2>3
<1>14. ASSUME NEW u \in Tunnels,
              \/ \E a \in Agents : Connect(u, a)
              \/ FinishRegister(u) \/ ReadEnd(u) \/ DropLease(u)
              \/ LogDisconnect(u) \/ Abort(u) \/ SocketDown(u)
       PROVE  UNCHANGED Lines
  BY <1>14 DEF Connect, FinishRegister, ReadEnd, DropLease, LogDisconnect, Abort, SocketDown
<1>15. ASSUME NEW u \in Tunnels, u # t,
              Drain(u) \/ SendBuffered(u) \/ WriteStep(u) \/ ReadRequest(u)
       PROVE  UNCHANGED Lines
  BY <1>0, <1>15 DEF Drain, SendBuffered, WriteStep, WriteFrame, WriteIntoVoid, WriteBreak,
                     WriteAborted, CloseChannel, ReadRequest
<1>16. ASSUME NEW p \in Posts,
              RejectEmptyRole(p) \/ (\E a \in Agents : Lookup(p, a)) \/ FallBack(p)
       PROVE  UNCHANGED Lines
  BY <1>16 DEF RejectEmptyRole, Lookup, FallBack
<1>17. ASSUME NEW d \in Deletes, (\E a \in Agents : DeleteCheck(d, a)) \/ DeleteStep(d)
       PROVE  UNCHANGED Lines
  BY <1>17 DEF DeleteCheck, DeleteStep, DeleteRemove, DeleteLog
<1>18. CASE UNCHANGED vars
  BY <1>4, <1>18 DEF vars
<1> HIDE DEF Lines
<1>19. ASSUME NEW u \in Tunnels, TunnelStep(u) \/ WriteStep(u) \/ ReadRequest(u)
       PROVE  TunnelOK(t)'
  BY <1>4, <1>7, <1>8, <1>9, <1>10, <1>11, <1>12, <1>14, <1>15, <1>19
  DEF TunnelStep, WriteStep
<1> QED BY <1>4, <1>13, <1>14, <1>16, <1>17, <1>18, <1>19 DEF Next, HandlerStep

LEMMA RouteCorrect == Spec => [](TypeInv /\ NoDanglingEntry /\ RouteInv)
<1>1. Init => NoDanglingEntry /\ RouteInv
  BY DEF Init, RegistryInit, QueueInit, NoDanglingEntry, RouteInv, QueueOK, TunnelOK, HandlerOK
<1>2. ASSUME TypeInv, NoDanglingEntry, RouteInv, [Next]_vars
      PROVE  TypeInv' /\ NoDanglingEntry' /\ RouteInv'
  <2>1. \A a \in Agents : QueueOK(a)'
    BY <1>2, QueueNext DEF RouteInv
  <2>2. \A p \in Posts : HandlerOK(p)'
    BY <1>2, HandlerNext DEF RouteInv
  <2>3. \A t \in Tunnels : TunnelOK(t)'
    BY <1>2, TunnelNext
  <2> QED BY <1>2, <2>1, <2>2, <2>3, TypeNext, DanglingNext DEF RouteInv
<1> QED BY <1>1, <1>2, TypeInit, PTL DEF Spec

(* A push reaches only the buffer, the channels and the sockets of the     *)
(* agent it is addressed to.                                               *)
THEOREM RoutingCorrect == Spec => []NoMisdelivery
<1>1. TypeInv /\ RouteInv => NoMisdelivery
  <2> SUFFICES ASSUME TypeInv, RouteInv, NEW p \in Posts
               PROVE  /\ \A a \in Agents : At(queue[a], p) # {} => to[p] = a
                      /\ \A t \in Tunnels :
                            At(buf[t], p) \cup At(chan[t], p) \cup At(received[t], p) # {}
                                => to[p] = owner[t]
    BY DEF NoMisdelivery
  <2>1. p # Reply
    BY BrokerAssumption
  <2> QED BY <2>1 DEF RouteInv, QueueOK, TunnelOK, Carries, At
<1> QED BY <1>1, RouteCorrect, PTL

(* A cancel is never buffered and never reaches a tunnel other than the    *)
(* one that was registered when it arrived.                                *)
THEOREM CancelCorrect == Spec => []CancelNotReplayed
<1>1. TypeInv /\ RouteInv => CancelNotReplayed
  <2> SUFFICES ASSUME TypeInv, RouteInv, NEW c \in Cancels
               PROVE  /\ \A a \in Agents : At(queue[a], c) = {}
                      /\ \A t \in Tunnels :
                            At(buf[t], c) \cup At(chan[t], c) \cup At(received[t], c) # {}
                                => view[c] = t
    BY DEF CancelNotReplayed
  <2>1. c # Reply /\ c \notin Messages
    BY BrokerAssumption DEF Posts
  <2>2. ASSUME NEW a \in Agents PROVE At(queue[a], c) = {}
    <3>1. queue[a] \in Seq(Messages)
      BY DEF TypeInv, TypeOK
    <3> QED BY <2>1, <3>1 DEF At
  <2> QED BY <2>1, <2>2 DEF RouteInv, TunnelOK, Carries, At
<1> QED BY <1>1, RouteCorrect, PTL
-----------------------------------------------------------------------------
(* Sequences without an inverted pair: R is the set of pairs <<x, y>> such *)
(* that x must not be ahead of y.                                          *)

On(s) == {s[i] : i \in 1..Len(s)}

Ordered(s, R) == \A i, j \in 1..Len(s) : i < j => <<s[i], s[j]>> \notin R

Ahead(X, Y, R) == \A x \in X, y \in Y : <<x, y>> \notin R

LEMMA OnFacts ==
    ASSUME NEW F, NEW s \in Seq(F)
    PROVE  /\ On(s) \subseteq F
           /\ \A f \in F : On(Append(s, f)) = On(s) \cup {f}
           /\ s = <<>> => On(s) = {}
           /\ s # <<>> => Head(s) \in On(s) /\ On(Tail(s)) \subseteq On(s)
<1>0. Len(s) \in Nat
  OBVIOUS
<1>1. On(s) \subseteq F
  BY DEF On
<1>2. ASSUME NEW f \in F PROVE On(Append(s, f)) = On(s) \cup {f}
  <2> DEFINE u == Append(s, f)
  <2>1. Len(u) = Len(s) + 1 /\ u[Len(s) + 1] = f /\ \A i \in 1..Len(s) : u[i] = s[i]
    OBVIOUS
  <2> HIDE DEF u
  <2>2. ASSUME NEW x \in On(u) PROVE x \in On(s) \cup {f}
    <3>1. PICK i \in 1..Len(u) : x = u[i]
      BY DEF On
    <3>2. i \in 1..Len(s) \/ i = Len(s) + 1
      BY <1>0, <2>1
    <3> QED BY <2>1, <3>1, <3>2 DEF On
  <2>3. ASSUME NEW x \in On(s) PROVE x \in On(u)
    <3>1. PICK i \in 1..Len(s) : x = s[i]
      BY DEF On
    <3>2. i \in 1..Len(u) /\ u[i] = x
      BY <1>0, <2>1, <3>1
    <3> QED BY <3>2 DEF On
  <2>4. f \in On(u)
    <3>1. Len(s) + 1 \in 1..Len(u)
      BY <1>0, <2>1
    <3> QED BY <2>1, <3>1 DEF On
  <2>5. On(u) = On(s) \cup {f}
    BY <2>2, <2>3, <2>4
  <2> QED BY <2>5 DEF u
<1>3. s = <<>> => On(s) = {}
  BY EmptySeq DEF On
<1>4. ASSUME s # <<>> PROVE Head(s) \in On(s) /\ On(Tail(s)) \subseteq On(s)
  <2>1. /\ Head(s) = s[1] /\ Len(Tail(s)) = Len(s) - 1 /\ Len(s) # 0
        /\ \A i \in 1..(Len(s) - 1) : Tail(s)[i] = s[i + 1]
    BY <1>4, TakeFirst, EmptySeq
  <2>2. 1 \in 1..Len(s)
    BY <1>0, <2>1
  <2>3. ASSUME NEW x \in On(Tail(s)) PROVE x \in On(s)
    <3>1. PICK i \in 1..Len(Tail(s)) : x = Tail(s)[i]
      BY DEF On
    <3>2. i \in 1..(Len(s) - 1) /\ i + 1 \in 1..Len(s)
      BY <1>0, <2>1
    <3> QED BY <2>1, <3>1, <3>2 DEF On
  <2> QED BY <2>1, <2>2, <2>3 DEF On
<1> QED BY <1>1, <1>2, <1>3, <1>4

LEMMA OrderedFacts ==
    ASSUME NEW F, NEW s \in Seq(F), NEW R, Ordered(s, R)
    PROVE  /\ s # <<>> => Ordered(Tail(s), R) /\ Ahead({Head(s)}, On(Tail(s)), R)
           /\ \A f \in F : Ahead(On(s), {f}, R) => Ordered(Append(s, f), R)
<1>0. Len(s) \in Nat
  OBVIOUS
<1>1. ASSUME s # <<>> PROVE Ordered(Tail(s), R) /\ Ahead({Head(s)}, On(Tail(s)), R)
  <2>1. /\ Head(s) = s[1] /\ Len(Tail(s)) = Len(s) - 1 /\ Len(s) # 0
        /\ \A i \in 1..(Len(s) - 1) : Tail(s)[i] = s[i + 1]
    BY <1>1, TakeFirst, EmptySeq
  <2>2. ASSUME NEW i \in 1..Len(Tail(s)), NEW j \in 1..Len(Tail(s)), i < j
        PROVE  <<Tail(s)[i], Tail(s)[j]>> \notin R
    <3>1. /\ i \in 1..(Len(s) - 1) /\ i + 1 \in 1..Len(s)
          /\ j \in 1..(Len(s) - 1) /\ j + 1 \in 1..Len(s) /\ i + 1 < j + 1
      BY <1>0, <2>1, <2>2
    <3>2. <<s[i + 1], s[j + 1]>> \notin R
      BY <3>1 DEF Ordered
    <3> QED BY <2>1, <3>1, <3>2
  <2>3. ASSUME NEW y \in On(Tail(s)) PROVE <<Head(s), y>> \notin R
    <3>1. PICK j \in 1..Len(Tail(s)) : y = Tail(s)[j]
      BY DEF On
    <3>2. j \in 1..(Len(s) - 1) /\ j + 1 \in 1..Len(s) /\ 1 \in 1..Len(s) /\ 1 < j + 1
      BY <1>0, <2>1
    <3>3. <<s[1], s[j + 1]>> \notin R
      BY <3>2 DEF Ordered
    <3> QED BY <2>1, <3>1, <3>2, <3>3
  <2> QED BY <2>2, <2>3 DEF Ordered, Ahead
<1>2. ASSUME NEW f \in F, Ahead(On(s), {f}, R) PROVE Ordered(Append(s, f), R)
  <2> DEFINE u == Append(s, f)
  <2>1. Len(u) = Len(s) + 1 /\ u[Len(s) + 1] = f /\ \A i \in 1..Len(s) : u[i] = s[i]
    OBVIOUS
  <2> HIDE DEF u
  <2>2. ASSUME NEW i \in 1..Len(u), NEW j \in 1..Len(u), i < j
        PROVE  <<u[i], u[j]>> \notin R
    <3>1. i \in 1..Len(s) /\ (j \in 1..Len(s) \/ j = Len(s) + 1)
      BY <1>0, <2>1, <2>2
    <3>2. CASE j \in 1..Len(s)
      <4>1. <<s[i], s[j]>> \notin R
        BY <2>2, <3>1, <3>2 DEF Ordered
      <4> QED BY <2>1, <3>1, <3>2, <4>1
    <3>3. CASE j = Len(s) + 1
      <4>1. s[i] \in On(s)
        BY <3>1 DEF On
      <4>2. <<s[i], f>> \notin R
        BY <1>2, <4>1 DEF Ahead
      <4> QED BY <2>1, <3>1, <3>3, <4>2
    <3> QED BY <3>1, <3>2, <3>3
  <2>3. Ordered(u, R)
    BY <2>2 DEF Ordered
  <2> QED BY <2>3 DEF u
<1> QED BY <1>1, <1>2

LEMMA EmptyOrdered == ASSUME NEW R PROVE Ordered(<<>>, R) /\ On(<<>>) = {}
  BY EmptySeq DEF Ordered, On

-----------------------------------------------------------------------------
(* A tunnel's frames are on a path: sent, on the channel, drained. *)

PathOK(r, c, b, R) ==
    /\ Ordered(r, R) /\ Ordered(c, R) /\ Ordered(b, R)
    /\ Ahead(On(r), On(c) \cup On(b), R) /\ Ahead(On(c), On(b), R)

(* A path stays in order under fewer constraints on what is on it. *)
LEMMA PathMono ==
    ASSUME NEW r, NEW c, NEW b, NEW R, NEW Q, PathOK(r, c, b, R),
           \A x, y \in On(r) \cup On(c) \cup On(b) : <<x, y>> \in Q => <<x, y>> \in R
    PROVE  PathOK(r, c, b, Q)
<1>1. ASSUME NEW s, On(s) \subseteq On(r) \cup On(c) \cup On(b), Ordered(s, R)
      PROVE  Ordered(s, Q)
  <2> SUFFICES ASSUME NEW i \in 1..Len(s), NEW j \in 1..Len(s), i < j
               PROVE  <<s[i], s[j]>> \notin Q
    BY DEF Ordered
  <2>1. s[i] \in On(s) /\ s[j] \in On(s)
    BY DEF On
  <2>2. <<s[i], s[j]>> \notin R
    BY <1>1 DEF Ordered
  <2> QED BY <1>1, <2>1, <2>2
<1>2. Ordered(r, Q) /\ Ordered(c, Q) /\ Ordered(b, Q)
  BY <1>1 DEF PathOK
<1>3. Ahead(On(r), On(c) \cup On(b), Q) /\ Ahead(On(c), On(b), Q)
  BY DEF PathOK, Ahead
<1> QED BY <1>2, <1>3 DEF PathOK

(* The write task sends the head of the channel. *)
LEMMA PathSend ==
    ASSUME NEW F, NEW r \in Seq(F), NEW c \in Seq(F), NEW b \in Seq(F), NEW R,
           PathOK(r, c, b, R), c # <<>>
    PROVE  PathOK(Append(r, Head(c)), Tail(c), b, R)
<1>1. /\ Head(c) \in F /\ Head(c) \in On(c) /\ On(Tail(c)) \subseteq On(c)
      /\ On(Append(r, Head(c))) = On(r) \cup {Head(c)}
  BY OnFacts, TakeFirst
<1>2. Ordered(Tail(c), R) /\ Ahead({Head(c)}, On(Tail(c)), R)
  BY OrderedFacts DEF PathOK
<1>3. Ahead(On(r), {Head(c)}, R)
  BY <1>1 DEF PathOK, Ahead
<1>4. Ordered(Append(r, Head(c)), R)
  BY <1>1, <1>3, OrderedFacts DEF PathOK
<1>5. Ahead(On(Append(r, Head(c))), On(Tail(c)) \cup On(b), R) /\ Ahead(On(Tail(c)), On(b), R)
  BY <1>1, <1>2 DEF PathOK, Ahead
<1> QED BY <1>2, <1>4, <1>5 DEF PathOK

(* The main task puts the head of its batch on the channel. *)
LEMMA PathBatch ==
    ASSUME NEW F, NEW r \in Seq(F), NEW c \in Seq(F), NEW b \in Seq(F), NEW R,
           PathOK(r, c, b, R), b # <<>>
    PROVE  PathOK(r, Append(c, Head(b)), Tail(b), R)
<1>1. /\ Head(b) \in F /\ Head(b) \in On(b) /\ On(Tail(b)) \subseteq On(b)
      /\ On(Append(c, Head(b))) = On(c) \cup {Head(b)}
  BY OnFacts, TakeFirst
<1>2. Ordered(Tail(b), R) /\ Ahead({Head(b)}, On(Tail(b)), R)
  BY OrderedFacts DEF PathOK
<1>3. Ahead(On(c), {Head(b)}, R)
  BY <1>1 DEF PathOK, Ahead
<1>4. Ordered(Append(c, Head(b)), R)
  BY <1>1, <1>3, OrderedFacts DEF PathOK
<1>5. /\ Ahead(On(r), On(Append(c, Head(b))) \cup On(Tail(b)), R)
      /\ Ahead(On(Append(c, Head(b))), On(Tail(b)), R)
  BY <1>1, <1>2 DEF PathOK, Ahead
<1> QED BY <1>2, <1>4, <1>5 DEF PathOK

(* What is on the channel, or its head, goes away. *)
LEMMA PathDrop ==
    ASSUME NEW F, NEW r \in Seq(F), NEW c \in Seq(F), NEW b \in Seq(F), NEW R,
           PathOK(r, c, b, R)
    PROVE  /\ c # <<>> => PathOK(r, Tail(c), b, R)
           /\ PathOK(r, <<>>, b, R)
<1>1. ASSUME c # <<>> PROVE PathOK(r, Tail(c), b, R)
  <2>1. On(Tail(c)) \subseteq On(c)
    BY <1>1, OnFacts
  <2>2. Ordered(Tail(c), R)
    BY <1>1, OrderedFacts DEF PathOK
  <2>3. Ahead(On(r), On(Tail(c)) \cup On(b), R) /\ Ahead(On(Tail(c)), On(b), R)
    BY <2>1 DEF PathOK, Ahead
  <2> QED BY <2>2, <2>3 DEF PathOK
<1>2. PathOK(r, <<>>, b, R)
  <2>1. Ahead(On(r), On(<<>>) \cup On(b), R) /\ Ahead(On(<<>>), On(b), R)
    BY EmptyOrdered DEF PathOK, Ahead
  <2> QED BY <2>1, EmptyOrdered DEF PathOK
<1> QED BY <1>1, <1>2

(* A frame is put on the channel. *)
LEMMA PathPut ==
    ASSUME NEW F, NEW r \in Seq(F), NEW c \in Seq(F), NEW b \in Seq(F), NEW R,
           PathOK(r, c, b, R), NEW f \in F,
           Ahead(On(r) \cup On(c), {f}, R), Ahead({f}, On(b), R)
    PROVE  PathOK(r, Append(c, f), b, R)
<1>1. On(Append(c, f)) = On(c) \cup {f}
  BY OnFacts
<1>2. Ahead(On(c), {f}, R)
  BY DEF Ahead
<1>3. Ordered(Append(c, f), R)
  BY <1>2, OrderedFacts DEF PathOK
<1>4. Ahead(On(r), On(Append(c, f)) \cup On(b), R) /\ Ahead(On(Append(c, f)), On(b), R)
  BY <1>1 DEF PathOK, Ahead
<1> QED BY <1>3, <1>4 DEF PathOK

(* The batch is taken. *)
LEMMA PathDrain ==
    ASSUME NEW r, NEW c, NEW b, NEW R, PathOK(r, c, b, R), NEW q, Ordered(q, R),
           Ahead(On(r) \cup On(c), On(q), R)
    PROVE  PathOK(r, c, q, R)
<1>1. Ahead(On(r), On(c) \cup On(q), R) /\ Ahead(On(c), On(q), R)
  BY DEF PathOK, Ahead
<1> QED BY <1>1 DEF PathOK

-----------------------------------------------------------------------------
(* The pairs of pushes that must not be sent in this order: q was accepted *)
(* when p arrived, and it is not a live push passing a buffered one.       *)
Inverted ==
    {pq \in Posts \X Posts : /\ pq[2] \in prior[pq[1]]
                             /\ ~(post[pq[1]] = "live" /\ post[pq[2]] = "queued")}

PriorOK == \A p \in Posts : \A q \in prior[p] : Accepted(q)

(* Before a tunnel has drained, only live pushes can be on it. *)
Undrained == {"idle", "purge", "drain"}
BatchOK(t) ==
    /\ \A f \in On(buf[t]) : post[f] = "queued"
    /\ tpc[t] \in Undrained =>
          \A f \in On(chan[t]) \cup On(received[t]) : f \in Posts => post[f] = "live"

OrderInv ==
    /\ PriorOK
    /\ \A t \in Tunnels : BatchOK(t) /\ PathOK(received[t], chan[t], buf[t], Inverted)
    /\ \A a \in Agents : Ordered(queue[a], Inverted)

LEMMA OrderInit == Init => OrderInv
<1> SUFFICES ASSUME Init PROVE OrderInv
  OBVIOUS
<1>1. PriorOK
  BY DEF Init, PriorOK
<1>2. /\ \A a \in Agents : queue[a] = <<>>
      /\ \A t \in Tunnels : buf[t] = <<>> /\ chan[t] = <<>> /\ received[t] = <<>>
  BY DEF Init, QueueInit
<1>3. \A a \in Agents : Ordered(queue[a], Inverted)
  BY <1>2, EmptyOrdered
<1>4. ASSUME NEW t \in Tunnels
      PROVE  BatchOK(t) /\ PathOK(received[t], chan[t], buf[t], Inverted)
  <2>1. Ordered(<<>>, Inverted) /\ On(<<>>) = {}
    BY EmptyOrdered
  <2>2. BatchOK(t)
    BY <1>2, <2>1 DEF BatchOK
  <2>3. PathOK(<<>>, <<>>, <<>>, Inverted)
    BY <2>1 DEF PathOK, Ahead
  <2> QED BY <1>2, <2>2, <2>3
<1> QED BY <1>1, <1>3, <1>4 DEF OrderInv

(* Only a lookup writes a push's prior, and only of a push not answered. *)
LEMMA PriorKept ==
    ASSUME TypeInv, [Next]_vars, NEW p \in Posts
    PROVE  \/ prior'[p] = prior[p]
           \/ post[p] = "new" /\ \A q \in prior'[p] : q \in Posts /\ Accepted(q)
<1> USE DEF storeVars, tunnelVars, postVars, delVars
<1>0. prior \in [Posts -> SUBSET Posts]
  BY DEF TypeInv, TypeOK
<1>1. ASSUME NEW t \in Tunnels,
             \/ \E a \in Agents : Connect(t, a)
             \/ TunnelStep(t) \/ WriteStep(t) \/ ReadRequest(t) \/ SocketDown(t)
      PROVE  UNCHANGED prior
  BY <1>1 DEF Connect, TunnelStep, FinishRegister, Drain, SendBuffered, ReadEnd, DropLease,
              LogDisconnect, Abort, WriteStep, WriteFrame, WriteIntoVoid, WriteBreak,
              WriteAborted, ReadRequest, SocketDown
<1>2. ASSUME NEW d \in Deletes, (\E a \in Agents : DeleteCheck(d, a)) \/ DeleteStep(d)
      PROVE  UNCHANGED prior
  BY <1>2 DEF DeleteCheck, DeleteStep, DeleteRemove, DeleteLog
<1>3. ASSUME NEW q \in Posts, RejectEmptyRole(q) \/ HandlerStep(q)
      PROVE  UNCHANGED prior
  BY <1>3 DEF RejectEmptyRole, HandlerStep, SendLive, FallBack
<1>4. ASSUME NEW q \in Posts, NEW a \in Agents, Lookup(q, a)
      PROVE  \/ prior'[p] = prior[p]
             \/ post[p] = "new" /\ \A x \in prior'[p] : x \in Posts /\ Accepted(x)
  <2> DEFINE A == {x \in Posts : Accepted(x) /\ to[x] = a}
  <2>1. prior' = [prior EXCEPT ![q] = A] /\ post[q] = "new"
    BY <1>4 DEF Lookup
  <2>2. \A x \in A : x \in Posts /\ Accepted(x)
    OBVIOUS
  <2> HIDE DEF A
  <2> QED BY <1>0, <2>1, <2>2
<1>5. CASE UNCHANGED vars
  BY <1>5 DEF vars
<1> QED BY <1>1, <1>2, <1>3, <1>4, <1>5 DEF Next

LEMMA PriorNext == ASSUME TypeInv, PriorOK, [Next]_vars PROVE PriorOK'
<1> SUFFICES ASSUME NEW p \in Posts, NEW q \in prior'[p] PROVE Accepted(q)'
  BY DEF PriorOK
<1>1. prior[p] \subseteq Posts
  BY DEF TypeInv, TypeOK
<1>2. q \in Posts /\ Accepted(q)
  BY <1>1, PriorKept DEF PriorOK
<1>3. post[q] \notin {"new", "found", "absent"}
  BY <1>2 DEF Accepted
<1>4. post'[q] = post[q]
  BY <1>2, <1>3, AnswerStable
<1> QED BY <1>2, <1>4 DEF Accepted

(* Between frames that are already under way no constraint is added. *)
UnderWay(f) == f \in Posts => Accepted(f)

LEMMA InvertedKept ==
    ASSUME TypeInv, [Next]_vars, NEW x, NEW y, UnderWay(x), UnderWay(y), <<x, y>> \in Inverted'
    PROVE  <<x, y>> \in Inverted
<1>1. /\ x \in Posts /\ y \in Posts /\ y \in prior'[x]
      /\ ~(post'[x] = "live" /\ post'[y] = "queued")
  BY DEF Inverted
<1>2. Accepted(x) /\ Accepted(y)
  BY <1>1 DEF UnderWay
<1>3. post[x] \notin {"new", "found", "absent"} /\ post[y] \notin {"new", "found", "absent"}
  BY <1>2 DEF Accepted
<1>4. post'[x] = post[x]
  BY <1>1, <1>3, AnswerStable
<1>5. post'[y] = post[y]
  BY <1>1, <1>3, AnswerStable
<1>6. prior'[x] = prior[x]
  BY <1>1, <1>3, PriorKept
<1> QED BY <1>1, <1>4, <1>5, <1>6 DEF Inverted

LEMMA CarriedUnderWay ==
    ASSUME TypeInv, RouteInv
    PROVE  /\ \A t \in Tunnels : \A f \in On(received[t]) \cup On(chan[t]) \cup On(buf[t]) :
                  UnderWay(f)
           /\ \A a \in Agents : \A f \in On(queue[a]) :
                  f \in Posts /\ post[f] = "queued" /\ UnderWay(f)
<1>1. ASSUME NEW t \in Tunnels, NEW f \in On(received[t]) \cup On(chan[t]) \cup On(buf[t])
      PROVE  UnderWay(f)
  <2>1. Carries(t, f)
    BY DEF On, RouteInv, TunnelOK
  <2>2. f \in Posts => f # Reply
    BY BrokerAssumption
  <2> QED BY <2>1, <2>2 DEF Carries, UnderWay, Accepted
<1>2. ASSUME NEW a \in Agents, NEW f \in On(queue[a])
      PROVE  f \in Posts /\ post[f] = "queued" /\ UnderWay(f)
  <2>1. queue[a] \in Seq(Messages)
    BY DEF TypeInv, TypeOK
  <2>2. f \in Messages
    BY <2>1, OnFacts
  <2>3. post[f] = "queued"
    BY DEF On, RouteInv, QueueOK
  <2> QED BY <2>2, <2>3 DEF UnderWay, Accepted, Posts
<1> QED BY <1>1, <1>2

(* The lines as they are, under the constraints of the next state. *)
LEMMA LinesStayOrdered ==
    ASSUME TypeInv, RouteInv, OrderInv, [Next]_vars
    PROVE  /\ \A t \in Tunnels : PathOK(received[t], chan[t], buf[t], Inverted')
           /\ \A a \in Agents : Ordered(queue[a], Inverted')
<1>1. ASSUME NEW t \in Tunnels PROVE PathOK(received[t], chan[t], buf[t], Inverted')
  <2> DEFINE r == received[t]
             c == chan[t]
             b == buf[t]
             R == Inverted
             Q == Inverted'
  <2>1. PathOK(r, c, b, R)
    BY DEF OrderInv
  <2>2. ASSUME NEW x \in On(r) \cup On(c) \cup On(b), NEW y \in On(r) \cup On(c) \cup On(b),
               <<x, y>> \in Q
        PROVE  <<x, y>> \in R
    <3>1. UnderWay(x) /\ UnderWay(y)
      BY CarriedUnderWay
    <3> QED BY <2>2, <3>1, InvertedKept
  <2> HIDE DEF r, c, b, R, Q
  <2>3. PathOK(r, c, b, Q)
    BY <2>1, <2>2, PathMono
  <2> QED BY <2>3 DEF r, c, b, Q
<1>2. ASSUME NEW a \in Agents PROVE Ordered(queue[a], Inverted')
  <2> SUFFICES ASSUME NEW i \in 1..Len(queue[a]), NEW j \in 1..Len(queue[a]), i < j,
                      <<queue[a][i], queue[a][j]>> \in Inverted'
               PROVE  FALSE
    BY DEF Ordered
  <2>1. UnderWay(queue[a][i]) /\ UnderWay(queue[a][j])
    BY CarriedUnderWay DEF On
  <2>2. <<queue[a][i], queue[a][j]>> \in Inverted
    BY <2>1, InvertedKept
  <2> QED BY <2>2 DEF OrderInv, Ordered
<1> QED BY <1>1, <1>2

LEMMA QueueOrderNext ==
    ASSUME TypeInv, RouteInv, OrderInv, [Next]_vars, NEW a \in Agents
    PROVE  Ordered(queue'[a], Inverted')
<1> USE DEF storeVars, tunnelVars, postVars, delVars
<1>0. queue \in [Agents -> Seq(Messages)] /\ queue[a] \in Seq(Messages)
  BY DEF TypeInv, TypeOK
<1>1. Ordered(queue[a], Inverted')
  BY LinesStayOrdered
<1>2. ASSUME NEW t \in Tunnels, Drain(t) PROVE Ordered(queue'[a], Inverted')
  <2>1. queue'[a] = queue[a] \/ queue'[a] = <<>>
    BY <1>0, <1>2 DEF Drain, QueueDrain
  <2> QED BY <1>1, <2>1, EmptyOrdered
<1>3. ASSUME NEW p \in Posts, FallBack(p) PROVE Ordered(queue'[a], Inverted')
  <2>1. CASE queue'[a] = queue[a]
    BY <1>1, <2>1
  <2>2. CASE queue'[a] # queue[a]
    <3>1. p \in Messages /\ queue'[a] = Append(queue[a], p) /\ post[p] = "absent" /\ prior' = prior
      BY <1>0, <1>3, <2>2 DEF FallBack, QueuePush
    <3>2. ASSUME NEW x, <<x, p>> \in Inverted' PROVE FALSE
      <4>1. x \in Posts /\ p \in prior[x]
        BY <3>1, <3>2 DEF Inverted
      <4> QED BY <3>1, <4>1 DEF OrderInv, PriorOK, Accepted
    <3>3. Ahead(On(queue[a]), {p}, Inverted')
      BY <3>2 DEF Ahead
    <3> QED BY <1>0, <1>1, <3>1, <3>3, OrderedFacts
  <2> QED BY <2>1, <2>2
<1>4. ASSUME NEW t \in Tunnels,
             \/ \E b \in Agents : Connect(t, b)
             \/ FinishRegister(t) \/ SendBuffered(t) \/ ReadEnd(t) \/ DropLease(t)
             \/ LogDisconnect(t) \/ Abort(t)
             \/ WriteStep(t) \/ ReadRequest(t) \/ SocketDown(t)
      PROVE  queue' = queue
  BY <1>4 DEF Connect, FinishRegister, SendBuffered, ReadEnd, DropLease, LogDisconnect, Abort,
              WriteStep, WriteFrame, WriteIntoVoid, WriteBreak, WriteAborted, ReadRequest,
              SocketDown
<1>5. ASSUME NEW p \in Posts,
             RejectEmptyRole(p) \/ (\E b \in Agents : Lookup(p, b)) \/ SendLive(p)
      PROVE  queue' = queue
  BY <1>5 DEF RejectEmptyRole, Lookup, SendLive
<1>6. ASSUME NEW d \in Deletes, (\E b \in Agents : DeleteCheck(d, b)) \/ DeleteStep(d)
      PROVE  queue' = queue
  BY <1>6 DEF DeleteCheck, DeleteStep, DeleteRemove, DeleteLog
<1>7. CASE UNCHANGED vars
  BY <1>1, <1>7 DEF vars
<1> QED BY <1>1, <1>2, <1>3, <1>4, <1>5, <1>6, <1>7 DEF Next, TunnelStep, HandlerStep

(* What a tunnel holds after a step, from what it held before. *)
LEMMA BatchKept ==
    ASSUME TypeInv, RouteInv, [Next]_vars, NEW t \in Tunnels, BatchOK(t),
           \A f \in On(buf'[t]) : f \in On(buf[t]),
           tpc'[t] \in Undrained =>
               /\ tpc[t] \in Undrained
               /\ \A f \in On(chan'[t]) \cup On(received'[t]) :
                     f \in On(chan[t]) \cup On(received[t])
    PROVE  BatchOK(t)'
<1>1. ASSUME NEW f \in On(buf'[t]) PROVE post'[f] = "queued"
  <2>1. buf[t] \in Seq(Messages) /\ f \in On(buf[t])
    BY DEF TypeInv, TypeOK
  <2>2. f \in Posts /\ post[f] = "queued"
    BY <2>1, OnFacts DEF BatchOK, Posts
  <2> QED BY <2>2, AnswerStable
<1>2. ASSUME tpc'[t] \in Undrained, NEW f \in On(chan'[t]) \cup On(received'[t]), f \in Posts
      PROVE  post'[f] = "live"
  <2>1. post[f] = "live"
    BY <1>2 DEF BatchOK
  <2> QED BY <1>2, <2>1, AnswerStable
<1> QED BY <1>1, <1>2 DEF BatchOK

LEMMA PathNext ==
    ASSUME TypeInv, RouteInv, OrderInv, [Next]_vars, NEW t \in Tunnels
    PROVE  BatchOK(t)' /\ PathOK(received'[t], chan'[t], buf'[t], Inverted')
<1> USE DEF storeVars, tunnelVars, postVars, delVars
<1>0. /\ queue \in [Agents -> Seq(Messages)] /\ buf \in [Tunnels -> Seq(Messages)]
      /\ chan \in [Tunnels -> Seq(Frames)] /\ received \in [Tunnels -> Seq(Frames)]
      /\ post \in [Posts -> PostPC] /\ tpc \in [Tunnels -> TunnelPC]
  BY DEF TypeInv, TypeOK
<1>1. received[t] \in Seq(Frames) /\ chan[t] \in Seq(Frames) /\ buf[t] \in Seq(Frames)
  <2>1. Messages \subseteq Frames
    BY DEF Frames, Posts
  <2> QED BY <1>0, <2>1
<1>2. PathOK(received[t], chan[t], buf[t], Inverted') /\ BatchOK(t)
  BY LinesStayOrdered DEF OrderInv
<1> DEFINE Goal == BatchOK(t)' /\ PathOK(received'[t], chan'[t], buf'[t], Inverted')
<1>3. ASSUME buf'[t] = buf[t], chan'[t] = chan[t], received'[t] = received[t],
             tpc'[t] \in Undrained => tpc[t] \in Undrained
      PROVE  Goal
  BY <1>2, <1>3, BatchKept
<1>4. ASSUME NEW u \in Tunnels,
             \/ \E a \in Agents : Connect(u, a)
             \/ FinishRegister(u) \/ ReadEnd(u) \/ DropLease(u) \/ LogDisconnect(u)
             \/ Abort(u) \/ SocketDown(u)
      PROVE  Goal
  <2>1. UNCHANGED <<buf, chan, received>>
    BY <1>4 DEF Connect, FinishRegister, ReadEnd, DropLease, LogDisconnect, Abort, SocketDown
  <2>2. tpc'[t] \in Undrained => tpc[t] \in Undrained
    BY <1>0, <1>4 DEF Connect, FinishRegister, ReadEnd, DropLease, LogDisconnect, Abort,
                      SocketDown, Goto, Undrained
  <2> QED BY <1>3, <2>1, <2>2
<1>5. ASSUME NEW d \in Deletes, (\E a \in Agents : DeleteCheck(d, a)) \/ DeleteStep(d)
      PROVE  Goal
  BY <1>3, <1>5 DEF DeleteCheck, DeleteStep, DeleteRemove, DeleteLog
<1>6. ASSUME NEW p \in Posts,
             RejectEmptyRole(p) \/ (\E a \in Agents : Lookup(p, a)) \/ FallBack(p)
      PROVE  Goal
  BY <1>3, <1>6 DEF RejectEmptyRole, Lookup, FallBack
<1>7. ASSUME NEW u \in Tunnels, Drain(u) PROVE Goal
  <2>1. CASE u # t
    BY <1>0, <1>3, <1>7, <2>1 DEF Drain, Goto
  <2>2. CASE u = t
    <3>1. /\ owner[t] \in Agents /\ tpc[t] \in Undrained /\ tpc'[t] \notin Undrained
          /\ buf'[t] = queue[owner[t]] /\ chan' = chan /\ received' = received /\ post' = post
      BY <1>0, <1>7, <2>2 DEF Drain, Goto, Undrained, TypeInv, TaskState
    <3> DEFINE q == queue[owner[t]]
    <3>2. \A f \in On(q) : f \in Posts /\ post[f] = "queued"
      BY <3>1, CarriedUnderWay
    <3>3. \A f \in On(received[t]) \cup On(chan[t]) : f \in Posts => post[f] = "live"
      BY <1>2, <3>1 DEF BatchOK
    <3>4. Ordered(q, Inverted')
      BY <3>1, LinesStayOrdered
    <3> HIDE DEF q
    <3>5. Ahead(On(received[t]) \cup On(chan[t]), On(q), Inverted')
      <4> SUFFICES ASSUME NEW x \in On(received[t]) \cup On(chan[t]), NEW y \in On(q),
                          <<x, y>> \in Inverted'
                   PROVE  FALSE
        BY DEF Ahead
      <4>1. x \in Posts /\ ~(post'[x] = "live" /\ post'[y] = "queued")
        BY DEF Inverted
      <4> QED BY <3>1, <3>2, <3>3, <4>1
    <3>6. PathOK(received[t], chan[t], q, Inverted')
      BY <1>2, <3>4, <3>5, PathDrain
    <3>7. BatchOK(t)'
      BY <3>1, <3>2 DEF BatchOK, q
    <3> QED BY <3>1, <3>6, <3>7 DEF q
  <2> QED BY <2>1, <2>2
<1>8. ASSUME NEW u \in Tunnels, SendBuffered(u) PROVE Goal
  <2>1. CASE u # t
    BY <1>0, <1>3, <1>8, <2>1 DEF SendBuffered, Goto
  <2>2. CASE u = t
    <3>1. /\ buf[t] # <<>> /\ tpc'[t] \notin Undrained
          /\ chan'[t] = Append(chan[t], Head(buf[t])) /\ buf'[t] = Tail(buf[t])
          /\ received'[t] = received[t]
      BY <1>0, <1>8, <2>2 DEF SendBuffered, Goto, Undrained, TypeInv, TaskState
    <3>2. PathOK(received[t], Append(chan[t], Head(buf[t])), Tail(buf[t]), Inverted')
      BY <1>1, <1>2, <3>1, PathBatch
    <3>3. \A f \in On(Tail(buf[t])) : f \in On(buf[t])
      BY <1>1, <3>1, OnFacts
    <3>4. BatchOK(t)'
      BY <1>2, <3>1, <3>3, BatchKept
    <3> QED BY <3>1, <3>2, <3>4
  <2> QED BY <2>1, <2>2
<1>9. ASSUME NEW u \in Tunnels, WriteFrame(u) PROVE Goal
  <2>1. CASE u # t
    BY <1>0, <1>3, <1>9, <2>1 DEF WriteFrame
  <2>2. CASE u = t
    <3>1. /\ chan[t] # <<>> /\ tpc'[t] \notin Undrained /\ buf'[t] = buf[t]
          /\ received'[t] = Append(received[t], Head(chan[t])) /\ chan'[t] = Tail(chan[t])
      BY <1>0, <1>9, <2>2 DEF WriteFrame, Writing, Registering, Undrained
    <3>2. PathOK(Append(received[t], Head(chan[t])), Tail(chan[t]), buf[t], Inverted')
      BY <1>1, <1>2, <3>1, PathSend
    <3>3. BatchOK(t)'
      BY <1>2, <3>1, BatchKept
    <3> QED BY <3>1, <3>2, <3>3
  <2> QED BY <2>1, <2>2
<1>10. ASSUME NEW u \in Tunnels, WriteIntoVoid(u) PROVE Goal
  <2>1. CASE u # t
    BY <1>0, <1>3, <1>10, <2>1 DEF WriteIntoVoid
  <2>2. CASE u = t
    <3>1. /\ chan[t] # <<>> /\ tpc'[t] \notin Undrained /\ buf'[t] = buf[t]
          /\ received'[t] = received[t] /\ chan'[t] = Tail(chan[t])
      BY <1>0, <1>10, <2>2 DEF WriteIntoVoid, Writing, Registering, Undrained
    <3>2. PathOK(received[t], Tail(chan[t]), buf[t], Inverted')
      BY <1>1, <1>2, <3>1, PathDrop
    <3>3. BatchOK(t)'
      BY <1>2, <3>1, BatchKept
    <3> QED BY <3>1, <3>2, <3>3
  <2> QED BY <2>1, <2>2
<1>11. ASSUME NEW u \in Tunnels, WriteBreak(u) \/ WriteAborted(u) PROVE Goal
  <2>1. CASE u # t
    BY <1>0, <1>3, <1>11, <2>1 DEF WriteBreak, WriteAborted, CloseChannel
  <2>2. CASE u = t
    <3>1. /\ tpc'[t] \notin Undrained /\ buf'[t] = buf[t]
          /\ received'[t] = received[t] /\ chan'[t] = <<>>
      BY <1>0, <1>11, <2>2 DEF WriteBreak, WriteAborted, CloseChannel, Writing, Registering,
                               Undrained
    <3>2. PathOK(received[t], <<>>, buf[t], Inverted')
      BY <1>1, <1>2, PathDrop
    <3>3. BatchOK(t)'
      BY <1>2, <3>1, BatchKept
    <3> QED BY <3>1, <3>2, <3>3
  <2> QED BY <2>1, <2>2
<1>12. ASSUME NEW u \in Tunnels, ReadRequest(u) PROVE Goal
  <2>1. CASE chan'[t] = chan[t]
    BY <1>3, <1>12, <2>1 DEF ReadRequest
  <2>2. CASE chan'[t] # chan[t]
    <3>1. /\ chan'[t] = Append(chan[t], Reply) /\ buf'[t] = buf[t] /\ received'[t] = received[t]
          /\ tpc'[t] \notin Undrained
      BY <1>0, <1>12, <2>2 DEF ReadRequest, Undrained
    <3>2. Reply \in Frames /\ \A x : <<x, Reply>> \notin Inverted' /\ <<Reply, x>> \notin Inverted'
      BY BrokerAssumption DEF Frames, Inverted
    <3>3. PathOK(received[t], Append(chan[t], Reply), buf[t], Inverted')
      <4>1. Ahead(On(received[t]) \cup On(chan[t]), {Reply}, Inverted')
            /\ Ahead({Reply}, On(buf[t]), Inverted')
        BY <3>2 DEF Ahead
      <4> QED BY <1>1, <1>2, <3>2, <4>1, PathPut
    <3>4. BatchOK(t)'
      BY <1>2, <3>1, BatchKept
    <3> QED BY <3>1, <3>3, <3>4
  <2> QED BY <2>1, <2>2
<1>13. ASSUME NEW p \in Posts, SendLive(p) PROVE Goal
  <2>0. /\ post[p] = "found" /\ view[p] \in Tunnels
        /\ UNCHANGED <<buf, received, tpc, prior>>
    BY <1>13 DEF SendLive, TypeInv, TaskState
  <2>1. CASE chan'[t] = chan[t]
    BY <1>3, <2>0, <2>1
  <2>2. CASE chan'[t] # chan[t]
    <3>1. chan'[t] = Append(chan[t], p) /\ post'[p] = "live"
      BY <1>0, <1>13, <2>0, <2>2 DEF SendLive, Answer
    <3>2. Ahead(On(received[t]) \cup On(chan[t]), {p}, Inverted')
      <4>1. ASSUME NEW x, <<x, p>> \in Inverted' PROVE FALSE
        <5>1. x \in Posts /\ p \in prior[x]
          BY <2>0, <4>1 DEF Inverted
        <5> QED BY <2>0, <5>1 DEF OrderInv, PriorOK, Accepted
      <4> QED BY <4>1 DEF Ahead
    <3>3. \A f \in On(buf[t]) : f \in Posts /\ post'[f] = "queued"
      <4> SUFFICES ASSUME NEW f \in On(buf[t]) PROVE f \in Posts /\ post'[f] = "queued"
        OBVIOUS
      <4>0. buf[t] \in Seq(Messages)
        BY <1>0
      <4>1. f \in Posts /\ post[f] = "queued"
        BY <1>2, <4>0, OnFacts DEF BatchOK, Posts
      <4> QED BY <4>1, AnswerStable
    <3>4. Ahead({p}, On(buf[t]), Inverted')
      BY <3>1, <3>3 DEF Ahead, Inverted
    <3>5. p \in Frames
      BY DEF Frames
    <3>6. PathOK(received[t], Append(chan[t], p), buf[t], Inverted')
      BY <1>1, <1>2, <3>2, <3>4, <3>5, PathPut
    <3>7. BatchOK(t)'
      <4>1. On(Append(chan[t], p)) = On(chan[t]) \cup {p}
        BY <1>1, <3>5, OnFacts
      <4>2. ASSUME tpc[t] \in Undrained, NEW f \in On(chan[t]) \cup On(received[t]), f \in Posts
            PROVE  post'[f] = "live"
        <5>1. post[f] = "live"
          BY <1>2, <4>2 DEF BatchOK
        <5> QED BY <4>2, <5>1, AnswerStable
      <4> QED BY <2>0, <3>1, <3>3, <4>1, <4>2 DEF BatchOK
    <3> QED BY <2>0, <3>1, <3>6, <3>7
  <2> QED BY <2>1, <2>2
<1>14. ASSUME UNCHANGED vars PROVE Goal
  BY <1>3, <1>14 DEF vars
<1> HIDE DEF Goal
<1>15. ASSUME NEW u \in Tunnels, TunnelStep(u) \/ WriteStep(u) PROVE Goal
  BY <1>4, <1>7, <1>8, <1>9, <1>10, <1>11, <1>15, Zenon DEF TunnelStep, WriteStep
<1>16. ASSUME NEW p \in Posts, HandlerStep(p) PROVE Goal
  BY <1>6, <1>13, <1>16, Zenon DEF HandlerStep
<1>17. ASSUME Next PROVE Goal
  BY <1>4, <1>5, <1>6, <1>12, <1>15, <1>16, <1>17 DEF Next
<1> QED BY <1>14, <1>17 DEF Goal

(* On a tunnel, a push overtakes one that was accepted before it arrived   *)
(* only if it was sent live and the other came through the buffer: the     *)
(* drain, the channel and the write task keep the order of everything else *)
(* (run.rs 59-120), however many tunnels of one agent overlap.             *)
THEOREM OvertakingIsBounded == Spec => []OvertakesOnlyBuffered
<1>1. TypeInv /\ RouteInv /\ OrderInv /\ [Next]_vars => OrderInv'
  BY PriorNext, PathNext, QueueOrderNext DEF OrderInv
<1>2. ASSUME TypeInv, OrderInv PROVE OvertakesOnlyBuffered
  <2> SUFFICES ASSUME NEW t \in Tunnels,
                      NEW i \in 1..Len(received[t]), NEW j \in 1..Len(received[t]), i < j,
                      received[t][i] \in Posts, received[t][j] \in Posts,
                      received[t][j] \in prior[received[t][i]]
               PROVE  post[received[t][i]] = "live" /\ post[received[t][j]] = "queued"
    BY DEF OvertakesOnlyBuffered
  <2>1. Ordered(received[t], Inverted)
    BY <1>2 DEF OrderInv, PathOK
  <2>2. <<received[t][i], received[t][j]>> \notin Inverted
    BY <2>1 DEF Ordered
  <2> QED BY <2>2 DEF Inverted
<1> QED BY <1>1, <1>2, OrderInit, RouteCorrect, PTL DEF Spec

-----------------------------------------------------------------------------
(* The listings.  Between its two reads, a query whose agent has kept its  *)
(* entry has reported it, and is a list(): describe() has returned.        *)

QueryTypeOK ==
    /\ qpc \in [Queries -> {"new", "recent", "done"}]
    /\ qkind \in [Queries -> {"list", "describe"}]
    /\ qagent \in [Queries -> Agents \cup {None}]
    /\ rows \in [Queries -> Seq({"connected", "disconnected"})]
    /\ qconn \in [Queries -> BOOLEAN]

SeenConnected(q) ==
    /\ qpc[q] # "new" /\ qconn[q] => rows[q] = <<"connected">>
    /\ qpc[q] = "recent" /\ qconn[q] => qkind[q] = "list" /\ connected[qagent[q]] # None

ViewInv == QueryTypeOK /\ \A q \in Queries : SeenConnected(q)

LEMMA ViewNextInv == ViewInv /\ [ViewNext]_viewVars => ViewInv'
<1> SUFFICES ASSUME ViewInv, [ViewNext]_viewVars PROVE ViewInv'
  OBVIOUS
<1> USE DEF ViewInv
<1>1. CASE BrokerStep
  BY <1>1 DEF BrokerStep, QueryTypeOK, SeenConnected
<1>2. ASSUME NEW q \in Queries, NEW kind \in {"list", "describe"}, NEW a \in Agents,
             ReadConnected(q, kind, a)
      PROVE  ViewInv'
  <2>1. UNCHANGED connected
    BY <1>2, Zenon DEF ReadConnected, vars, storeVars
  <2>2. QueryTypeOK'
    <3>1. <<>> \in Seq({"connected", "disconnected"})
          /\ <<"connected">> \in Seq({"connected", "disconnected"})
      OBVIOUS
    <3> QED BY <1>2, <3>1, Zenon DEF QueryTypeOK, ReadConnected
  <2>3. ASSUME NEW p \in Queries PROVE SeenConnected(p)'
    BY <1>2, <2>1 DEF QueryTypeOK, SeenConnected, ReadConnected
  <2> QED BY <2>2, <2>3
<1>3. ASSUME NEW q \in Queries, ReadRecent(q) PROVE ViewInv'
  <2>1. UNCHANGED connected
    BY <1>3, Zenon DEF ReadRecent, vars, storeVars
  <2>2. QueryTypeOK'
    BY <1>3 DEF QueryTypeOK, ReadRecent
  <2>3. ASSUME NEW p \in Queries PROVE SeenConnected(p)'
    BY <1>3, <2>1 DEF QueryTypeOK, SeenConnected, ReadRecent
  <2> QED BY <2>2, <2>3
<1>4. CASE UNCHANGED viewVars
  <2>1. UNCHANGED connected /\ UNCHANGED queryVars
    BY <1>4, Zenon DEF viewVars, vars, storeVars
  <2> QED BY <2>1 DEF queryVars, QueryTypeOK, SeenConnected
<1> QED BY <1>1, <1>2, <1>3, <1>4 DEF ViewNext

(* An agent that keeps an entry while list() or describe() reads the two   *)
(* tables one after the other is reported once, as connected, whatever the *)
(* tunnels and the racing push_recent() do in between (agent.rs 261-303).  *)
THEOREM ConnectedReportedOnce == ViewSpec => []ConnectedIsReportedOnce
<1>1. ViewInit => ViewInv
  BY DEF ViewInit, ViewInv, QueryTypeOK, SeenConnected
<1>2. ViewInv => ConnectedIsReportedOnce
  BY DEF ViewInv, QueryTypeOK, SeenConnected, ConnectedIsReportedOnce
<1> QED BY <1>1, <1>2, ViewNextInv, PTL DEF ViewSpec

-----------------------------------------------------------------------------
(* A family of lines, each a sequence of frames.  A frame occurs if it is  *)
(* on some line, and is alone if it is at one position at most.            *)

Occurs(L, p) == \E k \in DOMAIN L : \E i \in 1..Len(L[k]) : L[k][i] = p

Alone(L, p) ==
    \A k, l \in DOMAIN L : \A i \in 1..Len(L[k]), j \in 1..Len(L[l]) :
        L[k][i] = p /\ L[l][j] = p => k = l /\ i = j

(* What a step does to the lines L it leaves as M: the head of line k goes *)
(* to the end of line l, line k goes to the empty line l, a frame f is put *)
(* at the end of line l, the head of line k or all of it goes away.        *)
MovesHead(L, M, k, l) ==
    /\ k \in DOMAIN L /\ l \in DOMAIN L /\ k # l /\ L[k] # <<>>
    /\ M[k] = Tail(L[k]) /\ M[l] = Append(L[l], Head(L[k]))
    /\ \A m \in DOMAIN L \ {k, l} : M[m] = L[m]

MovesLine(L, M, k, l) ==
    /\ k \in DOMAIN L /\ l \in DOMAIN L /\ k # l
    /\ L[l] = <<>> /\ M[l] = L[k] /\ M[k] = <<>>
    /\ \A m \in DOMAIN L \ {k, l} : M[m] = L[m]

Puts(L, M, l, f) ==
    /\ l \in DOMAIN L /\ M[l] = Append(L[l], f)
    /\ \A m \in DOMAIN L \ {l} : M[m] = L[m]

DropsHead(L, M, k) ==
    /\ k \in DOMAIN L /\ L[k] # <<>> /\ M[k] = Tail(L[k])
    /\ \A m \in DOMAIN L \ {k} : M[m] = L[m]

DropsLine(L, M, k) ==
    /\ k \in DOMAIN L /\ M[k] = <<>>
    /\ \A m \in DOMAIN L \ {k} : M[m] = L[m]

LEMMA MoveHeadKeeps ==
    ASSUME NEW F, NEW K, NEW L \in [K -> Seq(F)], NEW M \in [K -> Seq(F)],
           NEW k, NEW l, MovesHead(L, M, k, l), NEW p
    PROVE  /\ Occurs(M, p) <=> Occurs(L, p)
           /\ Alone(L, p) => Alone(M, p)
<1> USE DEF MovesHead
<1>0. L[k] \in Seq(F) /\ L[l] \in Seq(F) /\ DOMAIN L = K /\ DOMAIN M = K
  OBVIOUS
<1>a. Head(L[k]) \in F
  BY <1>0, TakeFirst
<1>1. /\ Len(L[k]) \in Nat \ {0} /\ Len(M[k]) = Len(L[k]) - 1
      /\ \A i \in 1..(Len(L[k]) - 1) : M[k][i] = L[k][i + 1]
  BY <1>0, TakeFirst, EmptySeq
<1>2. /\ Len(L[l]) \in Nat /\ Len(M[l]) = Len(L[l]) + 1 /\ M[l][Len(L[l]) + 1] = L[k][1]
      /\ \A i \in 1..Len(L[l]) : M[l][i] = L[l][i]
  BY <1>0, <1>a, TakeFirst
(* Every position of M holds what one position of L holds. *)
<1> DEFINE line(m, i) == IF m = k \/ (m = l /\ i = Len(L[l]) + 1) THEN k ELSE m
           pos(m, i) == IF m = k THEN i + 1 ELSE IF m = l /\ i = Len(L[l]) + 1 THEN 1 ELSE i
<1>3. ASSUME NEW m \in K, NEW i \in 1..Len(M[m])
      PROVE  /\ line(m, i) \in K /\ pos(m, i) \in 1..Len(L[line(m, i)])
             /\ M[m][i] = L[line(m, i)][pos(m, i)]
  <2>1. CASE m = k
    <3>1. i \in 1..(Len(L[k]) - 1)
      BY <1>1, <2>1
    <3>2. M[k][i] = L[k][i + 1]
      BY <1>1, <3>1
    <3>3. i + 1 \in 1..Len(L[k])
      BY <1>1, <3>1
    <3> QED BY <2>1, <3>2, <3>3
  <2>2. CASE m = l /\ i = Len(L[l]) + 1
    <3>1. 1 \in 1..Len(L[k])
      BY <1>1
    <3> QED BY <1>2, <2>2, <3>1
  <2>3. CASE m = l /\ i # Len(L[l]) + 1
    <3>1. i \in 1..Len(L[l])
      BY <1>2, <2>3
    <3>2. M[l][i] = L[l][i]
      BY <1>2, <3>1
    <3> QED BY <2>3, <3>1, <3>2
  <2>4. CASE m \notin {k, l}
    BY <2>4
  <2> QED BY <2>1, <2>2, <2>3, <2>4
<1>4. ASSUME NEW m \in K, NEW i \in 1..Len(M[m]), NEW n \in K, NEW j \in 1..Len(M[n]),
             line(m, i) = line(n, j), pos(m, i) = pos(n, j)
      PROVE  m = n /\ i = j
  BY <1>1, <1>2, <1>4
<1>5. ASSUME NEW m \in K, NEW i \in 1..Len(L[m])
      PROVE  \E n \in K : \E j \in 1..Len(M[n]) : M[n][j] = L[m][i]
  <2>1. CASE m = k /\ i = 1
    <3>1. Len(L[l]) + 1 \in 1..Len(M[l]) /\ M[l][Len(L[l]) + 1] = L[m][i]
      BY <1>2, <2>1
    <3> QED BY <3>1
  <2>2. CASE m = k /\ i # 1
    <3>1. i - 1 \in 1..(Len(L[k]) - 1) /\ (i - 1) + 1 = i
      BY <1>1, <2>2
    <3>2. i - 1 \in 1..Len(M[k]) /\ M[k][i - 1] = L[m][i]
      BY <1>1, <2>2, <3>1
    <3> QED BY <3>2
  <2>3. CASE m = l
    <3>1. i \in 1..Len(M[l]) /\ M[l][i] = L[m][i]
      BY <1>2, <2>3
    <3> QED BY <3>1
  <2>4. CASE m \notin {k, l}
    BY <2>4
  <2> QED BY <2>1, <2>2, <2>3, <2>4
<1> HIDE DEF line, pos
<1>6. ASSUME Occurs(M, p) PROVE Occurs(L, p)
  <2>1. PICK m \in K : \E i \in 1..Len(M[m]) : M[m][i] = p
    BY <1>0, <1>6 DEF Occurs
  <2>2. PICK i \in 1..Len(M[m]) : M[m][i] = p
    BY <2>1
  <2> QED BY <1>0, <1>3, <2>2 DEF Occurs
<1>7. Occurs(L, p) => Occurs(M, p)
  BY <1>0, <1>5 DEF Occurs
<1>8. ASSUME Alone(L, p) PROVE Alone(M, p)
  <2> SUFFICES ASSUME NEW m \in K, NEW n \in K, NEW i \in 1..Len(M[m]), NEW j \in 1..Len(M[n]),
                      M[m][i] = p, M[n][j] = p
               PROVE  m = n /\ i = j
    BY <1>0 DEF Alone
  <2>1. L[line(m, i)][pos(m, i)] = p /\ L[line(n, j)][pos(n, j)] = p
    BY <1>3
  <2>2. line(m, i) = line(n, j) /\ pos(m, i) = pos(n, j)
    BY <1>0, <1>3, <1>8, <2>1 DEF Alone
  <2> QED BY <1>4, <2>2
<1> QED BY <1>6, <1>7, <1>8

LEMMA MoveLineKeeps ==
    ASSUME NEW F, NEW K, NEW L \in [K -> Seq(F)], NEW M \in [K -> Seq(F)],
           NEW k, NEW l, MovesLine(L, M, k, l), NEW p
    PROVE  /\ Occurs(M, p) <=> Occurs(L, p)
           /\ Alone(L, p) => Alone(M, p)
<1> USE DEF MovesLine
<1> DEFINE line(m) == IF m = l THEN k ELSE m
<1>1. ASSUME NEW m \in K, NEW i \in 1..Len(M[m])
      PROVE  m # k /\ line(m) \in K /\ i \in 1..Len(L[line(m)]) /\ M[m][i] = L[line(m)][i]
  <2>1. Len(M[k]) = 0
    BY EmptySeq
  <2>2. m # k
    BY <2>1
  <2> QED BY <2>2
<1>2. ASSUME NEW m \in K, NEW i \in 1..Len(L[m])
      PROVE  \E n \in K : i \in 1..Len(M[n]) /\ M[n][i] = L[m][i]
  <2>1. Len(L[l]) = 0
    BY EmptySeq
  <2>2. m # l
    BY <2>1
  <2>3. CASE m = k
    BY <2>3
  <2>4. CASE m # k
    BY <2>2, <2>4
  <2> QED BY <2>3, <2>4
<1>0. DOMAIN L = K /\ DOMAIN M = K
  OBVIOUS
<1>3. ASSUME Occurs(M, p) PROVE Occurs(L, p)
  BY <1>0, <1>1, <1>3 DEF Occurs
<1>4. ASSUME Occurs(L, p) PROVE Occurs(M, p)
  BY SMTT(30), <1>0, <1>2, <1>4 DEF Occurs
<1>5. ASSUME Alone(L, p) PROVE Alone(M, p)
  <2> SUFFICES ASSUME NEW m \in K, NEW n \in K, NEW i \in 1..Len(M[m]), NEW j \in 1..Len(M[n]),
                      M[m][i] = p, M[n][j] = p
               PROVE  m = n /\ i = j
    BY <1>0 DEF Alone
  <2>1. L[line(m)][i] = p /\ L[line(n)][j] = p /\ m # k /\ n # k
    BY <1>1
  <2>2. line(m) = line(n) /\ i = j
    <3> HIDE DEF line
    <3> QED BY <1>0, <1>1, <1>5, <2>1 DEF Alone
  <2> QED BY <2>1, <2>2
<1> QED BY <1>3, <1>4, <1>5

LEMMA PutKeeps ==
    ASSUME NEW F, NEW K, NEW L \in [K -> Seq(F)], NEW M \in [K -> Seq(F)],
           NEW l, NEW f \in F, Puts(L, M, l, f), NEW p
    PROVE  /\ Occurs(M, p) <=> Occurs(L, p) \/ p = f
           /\ Alone(L, p) /\ ~(p = f /\ Occurs(L, p)) => Alone(M, p)
<1> USE DEF Puts
<1>1. /\ Len(M[l]) = Len(L[l]) + 1 /\ Len(L[l]) \in Nat /\ M[l][Len(L[l]) + 1] = f
      /\ \A i \in 1..Len(L[l]) : M[l][i] = L[l][i]
  OBVIOUS
<1>0. DOMAIN L = K /\ DOMAIN M = K
  OBVIOUS
<1>2. ASSUME NEW m \in K, NEW i \in 1..Len(M[m])
      PROVE  \/ i \in 1..Len(L[m]) /\ M[m][i] = L[m][i]
             \/ m = l /\ i = Len(L[l]) + 1 /\ M[m][i] = f
  <2>1. CASE m = l
    <3>1. i \in 1..(Len(L[l]) + 1)
      BY <1>1, <2>1
    <3>2. i \in 1..Len(L[l]) \/ i = Len(L[l]) + 1
      BY <1>1, <3>1
    <3> QED BY <1>1, <2>1, <3>2
  <2>2. CASE m # l
    BY <2>2
  <2> QED BY <2>1, <2>2
<1>3. ASSUME NEW m \in K, NEW i \in 1..Len(L[m])
      PROVE  i \in 1..Len(M[m]) /\ M[m][i] = L[m][i]
  <2>1. CASE m = l
    <3>1. i \in 1..Len(M[l])
      BY <1>1, <2>1
    <3> QED BY <1>1, <2>1, <3>1
  <2>2. CASE m # l
    BY <2>2
  <2> QED BY <2>1, <2>2
<1>4. Occurs(M, p) <=> Occurs(L, p) \/ p = f
  <2>1. ASSUME Occurs(M, p) PROVE Occurs(L, p) \/ p = f
    BY <1>0, <1>2, <2>1 DEF Occurs
  <2>2. ASSUME Occurs(L, p) PROVE Occurs(M, p)
    BY <1>0, <1>3, <2>2 DEF Occurs
  <2>3. ASSUME p = f PROVE Occurs(M, p)
    <3>1. Len(L[l]) + 1 \in 1..Len(M[l])
      BY <1>1
    <3> QED BY <1>0, <1>1, <2>3, <3>1 DEF Occurs
  <2> QED BY <2>1, <2>2, <2>3
<1>5. ASSUME Alone(L, p), ~(p = f /\ Occurs(L, p)) PROVE Alone(M, p)
  <2> SUFFICES ASSUME NEW m \in K, NEW n \in K, NEW i \in 1..Len(M[m]), NEW j \in 1..Len(M[n]),
                      M[m][i] = p, M[n][j] = p
               PROVE  m = n /\ i = j
    BY <1>0 DEF Alone
  <2>1. CASE p = f
    BY SMTT(30), <1>0, <1>2, <1>5, <2>1 DEF Occurs
  <2>2. CASE p # f
    <3>1. i \in 1..Len(L[m]) /\ L[m][i] = p /\ j \in 1..Len(L[n]) /\ L[n][j] = p
      BY <1>2, <2>2
    <3> QED BY <1>0, <1>5, <3>1 DEF Alone
  <2> QED BY <2>1, <2>2
<1> QED BY <1>4, <1>5

LEMMA DropHeadKeeps ==
    ASSUME NEW F, NEW K, NEW L \in [K -> Seq(F)], NEW M \in [K -> Seq(F)],
           NEW k, DropsHead(L, M, k), NEW p, Alone(L, p)
    PROVE  Alone(M, p) /\ (Occurs(M, p) <=> Occurs(L, p) /\ p # Head(L[k]))
<1> USE DEF DropsHead
<1>0. DOMAIN L = K /\ DOMAIN M = K
  OBVIOUS
<1>1. /\ Head(L[k]) \in F /\ Len(Tail(L[k])) = Len(L[k]) - 1
      /\ Head(L[k]) = L[k][1] /\ \A i \in 1..(Len(L[k]) - 1) : Tail(L[k])[i] = L[k][i + 1]
      /\ Len(L[k]) \in Nat \ {0}
  BY TakeFirst, EmptySeq
<1> DEFINE pos(m, i) == IF m = k THEN i + 1 ELSE i
<1>2. ASSUME NEW m \in K, NEW i \in 1..Len(M[m])
      PROVE  /\ pos(m, i) \in 1..Len(L[m]) /\ M[m][i] = L[m][pos(m, i)]
             /\ m = k => pos(m, i) # 1
  <2>1. CASE m = k
    <3>1. i \in 1..(Len(L[k]) - 1)
      BY <1>1, <2>1
    <3>2. M[k][i] = L[k][i + 1]
      BY <1>1, <3>1
    <3>3. i + 1 \in 1..Len(L[k]) /\ i + 1 # 1
      BY <1>1, <3>1
    <3> QED BY <2>1, <3>2, <3>3
  <2>2. CASE m # k
    BY <2>2
  <2> QED BY <2>1, <2>2
<1>3. ASSUME NEW m \in K, NEW i \in 1..Len(L[m]), ~(m = k /\ i = 1)
      PROVE  \E j \in 1..Len(M[m]) : M[m][j] = L[m][i]
  <2>1. CASE m = k
    <3>1. i - 1 \in 1..Len(M[k]) /\ M[k][i - 1] = L[k][i]
      BY <1>1, <1>3, <2>1
    <3> QED BY <2>1, <3>1
  <2>2. CASE m # k
    BY <2>2
  <2> QED BY <2>1, <2>2
<1>4. ASSUME NEW m \in K, NEW i \in 1..Len(M[m]), NEW j \in 1..Len(M[m]), pos(m, i) = pos(m, j)
      PROVE  i = j
  BY <1>1, <1>4
<1> HIDE DEF pos
<1>5. Alone(M, p)
  <2> SUFFICES ASSUME NEW m \in K, NEW n \in K, NEW i \in 1..Len(M[m]), NEW j \in 1..Len(M[n]),
                      M[m][i] = p, M[n][j] = p
               PROVE  m = n /\ i = j
    BY <1>0 DEF Alone
  <2>a. /\ pos(m, i) \in 1..Len(L[m]) /\ L[m][pos(m, i)] = p
        /\ pos(n, j) \in 1..Len(L[n]) /\ L[n][pos(n, j)] = p
    BY <1>2
  <2>1. m = n /\ pos(m, i) = pos(n, j)
    BY <1>0, <2>a DEF Alone
  <2> QED BY <1>4, <2>1
<1>6. ASSUME Occurs(M, p) PROVE Occurs(L, p) /\ p # L[k][1]
  <2>1. PICK m \in K : \E i \in 1..Len(M[m]) : M[m][i] = p
    BY <1>0, <1>6 DEF Occurs
  <2>2. PICK i \in 1..Len(M[m]) : M[m][i] = p
    BY <2>1
  <2>3. pos(m, i) \in 1..Len(L[m]) /\ L[m][pos(m, i)] = p /\ (m = k => pos(m, i) # 1)
    BY <1>2, <2>2
  <2>4. Occurs(L, p)
    BY <1>0, <2>3 DEF Occurs
  <2>5. 1 \in 1..Len(L[k])
    BY <1>1
  <2>6. p # L[k][1]
    BY <1>0, <2>3, <2>5 DEF Alone
  <2> QED BY <2>4, <2>6
<1>7. ASSUME Occurs(L, p), p # L[k][1] PROVE Occurs(M, p)
  BY <1>0, <1>3, <1>7 DEF Occurs
<1> QED BY <1>1, <1>5, <1>6, <1>7

LEMMA DropLineKeeps ==
    ASSUME NEW F, NEW K, NEW L \in [K -> Seq(F)], NEW M \in [K -> Seq(F)],
           NEW k, DropsLine(L, M, k), NEW p, Alone(L, p)
    PROVE  /\ Alone(M, p)
           /\ Occurs(M, p) <=> Occurs(L, p) /\ ~ \E i \in 1..Len(L[k]) : L[k][i] = p
<1> USE DEF DropsLine
<1>0. DOMAIN L = K /\ DOMAIN M = K
  OBVIOUS
<1>1. ASSUME NEW m \in K, NEW i \in 1..Len(M[m])
      PROVE  m # k /\ M[m] = L[m]
  BY <1>1
<1>2. Alone(M, p)
  BY <1>1 DEF Alone
<1>3. Occurs(M, p) => Occurs(L, p) /\ ~ \E i \in 1..Len(L[k]) : L[k][i] = p
  BY <1>1 DEF Occurs, Alone
<1>4. Occurs(L, p) /\ (~ \E i \in 1..Len(L[k]) : L[k][i] = p) => Occurs(M, p)
  BY DEF Occurs
<1> QED BY <1>2, <1>3, <1>4

-----------------------------------------------------------------------------
(* The lines of the broker *)

Keys == ({"queue"} \X Agents) \cup ({"buf", "chan", "received"} \X Tunnels)

LinesOf(q, b, c, r) ==
    [k \in Keys |-> IF k[1] = "queue" THEN q[k[2]]
                    ELSE IF k[1] = "buf" THEN b[k[2]]
                    ELSE IF k[1] = "chan" THEN c[k[2]]
                    ELSE r[k[2]]]

Lines == LinesOf(queue, buf, chan, received)

(* A push that was accepted is at one position of one line, or it is lost; *)
(* any other push is nowhere.                                              *)
SettledPush(p) ==
    /\ Alone(Lines, p)
    /\ Accepted(p) <=> Occurs(Lines, p) \/ p \in lost
    /\ ~(Occurs(Lines, p) /\ p \in lost)

SettledInv == \A p \in Posts : SettledPush(p)

LEMMA LinesAt ==
    ASSUME NEW q, NEW b, NEW c, NEW r
    PROVE  LET L == LinesOf(q, b, c, r)
           IN  /\ \A a \in Agents : <<"queue", a>> \in Keys /\ L[<<"queue", a>>] = q[a]
               /\ \A t \in Tunnels :
                    /\ <<"buf", t>> \in Keys /\ L[<<"buf", t>>] = b[t]
                    /\ <<"chan", t>> \in Keys /\ L[<<"chan", t>>] = c[t]
                    /\ <<"received", t>> \in Keys /\ L[<<"received", t>>] = r[t]
<1> DEFINE L == LinesOf(q, b, c, r)
<1>1. ASSUME NEW a \in Agents PROVE <<"queue", a>> \in Keys /\ L[<<"queue", a>>] = q[a]
  BY DEF Keys, LinesOf
<1>2. ASSUME NEW t \in Tunnels
      PROVE  /\ <<"buf", t>> \in Keys /\ L[<<"buf", t>>] = b[t]
             /\ <<"chan", t>> \in Keys /\ L[<<"chan", t>>] = c[t]
             /\ <<"received", t>> \in Keys /\ L[<<"received", t>>] = r[t]
  BY DEF Keys, LinesOf
<1> QED BY <1>1, <1>2

LEMMA KeysAre ==
    ASSUME NEW k \in Keys
    PROVE  \/ \E a \in Agents : k = <<"queue", a>>
           \/ \E t \in Tunnels : k = <<"buf", t>> \/ k = <<"chan", t>> \/ k = <<"received", t>>
  BY DEF Keys

LEMMA LinesType ==
    ASSUME NEW q \in [Agents -> Seq(Messages)], NEW b \in [Tunnels -> Seq(Messages)],
           NEW c \in [Tunnels -> Seq(Frames)], NEW r \in [Tunnels -> Seq(Frames)]
    PROVE  LinesOf(q, b, c, r) \in [Keys -> Seq(Frames)]
<1> DEFINE L == LinesOf(q, b, c, r)
<1>0. L = [k \in Keys |-> L[k]]
  BY DEF LinesOf
<1>1. Messages \subseteq Frames
  BY DEF Frames, Posts
<1>2. /\ \A a \in Agents : q[a] \in Seq(Frames)
      /\ \A t \in Tunnels : b[t] \in Seq(Frames) /\ c[t] \in Seq(Frames) /\ r[t] \in Seq(Frames)
  BY <1>1
<1>3. ASSUME NEW k \in Keys PROVE L[k] \in Seq(Frames)
  <2> HIDE DEF L
  <2>1. CASE \E a \in Agents : k = <<"queue", a>>
    BY <1>2, <2>1, LinesAt DEF L
  <2>2. CASE \E t \in Tunnels : k = <<"buf", t>> \/ k = <<"chan", t>> \/ k = <<"received", t>>
    <3>1. PICK t \in Tunnels : k = <<"buf", t>> \/ k = <<"chan", t>> \/ k = <<"received", t>>
      BY <2>2
    <3>2. L[<<"buf", t>>] = b[t] /\ L[<<"chan", t>>] = c[t] /\ L[<<"received", t>>] = r[t]
      BY LinesAt DEF L
    <3> QED BY <1>2, <3>1, <3>2
  <2> QED BY <2>1, <2>2, KeysAre
<1> HIDE DEF L
<1> QED BY <1>0, <1>3 DEF L

(* Both lemmas at the broker's own lines, before and after a step. *)
LEMMA LinesHere ==
    /\ \A a \in Agents : /\ <<"queue", a>> \in Keys
                         /\ Lines[<<"queue", a>>] = queue[a] /\ Lines'[<<"queue", a>>] = queue'[a]
    /\ \A t \in Tunnels :
         /\ <<"buf", t>> \in Keys /\ <<"chan", t>> \in Keys /\ <<"received", t>> \in Keys
         /\ Lines[<<"buf", t>>] = buf[t] /\ Lines'[<<"buf", t>>] = buf'[t]
         /\ Lines[<<"chan", t>>] = chan[t] /\ Lines'[<<"chan", t>>] = chan'[t]
         /\ Lines[<<"received", t>>] = received[t] /\ Lines'[<<"received", t>>] = received'[t]
<1>1. Lines = LinesOf(queue, buf, chan, received)
  BY DEF Lines
<1>2. Lines' = LinesOf(queue', buf', chan', received')
  BY DEF Lines
<1>3. ASSUME NEW a \in Agents
      PROVE  /\ <<"queue", a>> \in Keys
             /\ Lines[<<"queue", a>>] = queue[a] /\ Lines'[<<"queue", a>>] = queue'[a]
  BY <1>1, <1>2, LinesAt
<1>4. ASSUME NEW t \in Tunnels
      PROVE  /\ <<"buf", t>> \in Keys /\ <<"chan", t>> \in Keys /\ <<"received", t>> \in Keys
             /\ Lines[<<"buf", t>>] = buf[t] /\ Lines'[<<"buf", t>>] = buf'[t]
             /\ Lines[<<"chan", t>>] = chan[t] /\ Lines'[<<"chan", t>>] = chan'[t]
             /\ Lines[<<"received", t>>] = received[t] /\ Lines'[<<"received", t>>] = received'[t]
  BY <1>1, <1>2, LinesAt
<1> QED BY <1>3, <1>4

LEMMA LinesSame ==
    ASSUME NEW X,
           \A a \in Agents : <<"queue", a>> \notin X => queue'[a] = queue[a],
           \A t \in Tunnels : /\ <<"buf", t>> \notin X => buf'[t] = buf[t]
                              /\ <<"chan", t>> \notin X => chan'[t] = chan[t]
                              /\ <<"received", t>> \notin X => received'[t] = received[t]
    PROVE  \A k \in Keys \ X : Lines'[k] = Lines[k]
<1> SUFFICES ASSUME NEW k \in Keys \ X PROVE Lines'[k] = Lines[k]
  OBVIOUS
<1>1. CASE \E a \in Agents : k = <<"queue", a>>
  BY <1>1, LinesHere
<1>2. CASE \E t \in Tunnels : k = <<"buf", t>> \/ k = <<"chan", t>> \/ k = <<"received", t>>
  <2>1. PICK t \in Tunnels : k = <<"buf", t>> \/ k = <<"chan", t>> \/ k = <<"received", t>>
    BY <1>2
  <2>2. CASE k = <<"buf", t>>
    BY <2>2, LinesHere
  <2>3. CASE k = <<"chan", t>>
    BY <2>3, LinesHere
  <2>4. CASE k = <<"received", t>>
    BY <2>4, LinesHere
  <2> QED BY <2>1, <2>2, <2>3, <2>4
<1> QED BY <1>1, <1>2, KeysAre

(* The same push on the same lines, its acceptance and loss unchanged. *)
LEMMA SettledSame ==
    ASSUME NEW p \in Posts, SettledPush(p), TypeInv, UNCHANGED <<queue, buf, chan, received, lost>>,
           Accepted(p)' <=> Accepted(p)
    PROVE  SettledPush(p)'
<1>1. Lines' = Lines
  BY DEF Lines
<1> QED BY <1>1 DEF SettledPush

LEMMA SettledInit == Init => SettledInv
<1> SUFFICES ASSUME Init, NEW p \in Posts PROVE SettledPush(p)
  BY DEF SettledInv
<1>1. \A k \in Keys : Lines[k] = <<>>
  <2> SUFFICES ASSUME NEW k \in Keys PROVE Lines[k] = <<>>
    OBVIOUS
  <2>1. /\ \A a \in Agents : queue[a] = <<>>
        /\ \A t \in Tunnels : buf[t] = <<>> /\ chan[t] = <<>> /\ received[t] = <<>>
    BY DEF Init, QueueInit
  <2>2. CASE \E a \in Agents : k = <<"queue", a>>
    BY <2>1, <2>2, LinesAt DEF Lines
  <2>3. CASE \E t \in Tunnels : k = <<"buf", t>> \/ k = <<"chan", t>> \/ k = <<"received", t>>
    <3>1. PICK t \in Tunnels : k = <<"buf", t>> \/ k = <<"chan", t>> \/ k = <<"received", t>>
      BY <2>3
    <3>2. Lines[<<"buf", t>>] = buf[t] /\ Lines[<<"chan", t>>] = chan[t]
          /\ Lines[<<"received", t>>] = received[t]
      BY LinesAt DEF Lines
    <3> QED BY <2>1, <3>1, <3>2
  <2> QED BY <2>2, <2>3, KeysAre
<1>2. DOMAIN Lines = Keys
  BY DEF Lines, LinesOf
<1>3. ~Occurs(Lines, p) /\ Alone(Lines, p)
  BY <1>1, <1>2 DEF Occurs, Alone
<1>4. ~Accepted(p) /\ p \notin lost
  BY DEF Init, Accepted
<1> QED BY <1>3, <1>4 DEF SettledPush

LEMMA SettledNext == TypeInv /\ SettledInv /\ [Next]_vars => SettledInv'
<1> SUFFICES ASSUME TypeInv, SettledInv, [Next]_vars, NEW p \in Posts PROVE SettledPush(p)'
  BY DEF SettledInv
<1> USE DEF storeVars, tunnelVars, postVars, delVars
<1>0. /\ queue \in [Agents -> Seq(Messages)] /\ buf \in [Tunnels -> Seq(Messages)]
      /\ chan \in [Tunnels -> Seq(Frames)] /\ received \in [Tunnels -> Seq(Frames)]
      /\ post \in [Posts -> PostPC] /\ lost \in SUBSET Posts
  BY DEF TypeInv, TypeOK
<1>1. /\ queue' \in [Agents -> Seq(Messages)] /\ buf' \in [Tunnels -> Seq(Messages)]
      /\ chan' \in [Tunnels -> Seq(Frames)] /\ received' \in [Tunnels -> Seq(Frames)]
  BY TypeNext DEF TypeInv, TypeOK
<1>2. Lines \in [Keys -> Seq(Frames)] /\ Lines' \in [Keys -> Seq(Frames)]
  BY <1>0, <1>1, LinesType DEF Lines
<1>3. SettledPush(p)
  BY DEF SettledInv
(* Steps that move no frame and accept none. *)
<1>4. ASSUME UNCHANGED <<queue, buf, chan, received, lost>>, post'[p] = post[p]
      PROVE  SettledPush(p)'
  BY <1>3, <1>4, SettledSame DEF Accepted
<1>5. ASSUME NEW t \in Tunnels,
             \/ \E a \in Agents : Connect(t, a)
             \/ FinishRegister(t) \/ ReadEnd(t) \/ DropLease(t) \/ LogDisconnect(t)
             \/ Abort(t) \/ SocketDown(t)
      PROVE  SettledPush(p)'
  BY <1>4, <1>5 DEF Connect, FinishRegister, ReadEnd, DropLease, LogDisconnect, Abort, SocketDown
<1>6. ASSUME NEW d \in Deletes, (\E a \in Agents : DeleteCheck(d, a)) \/ DeleteStep(d)
      PROVE  SettledPush(p)'
  BY <1>4, <1>6 DEF DeleteCheck, DeleteStep, DeleteRemove, DeleteLog
<1>7. ASSUME NEW q \in Posts, RejectEmptyRole(q) \/ \E a \in Agents : Lookup(q, a)
      PROVE  SettledPush(p)'
  <2>1. UNCHANGED <<queue, buf, chan, received, lost>> /\ (Accepted(p)' <=> Accepted(p))
    BY <1>0, <1>7 DEF RejectEmptyRole, Lookup, Answer, Accepted
  <2> QED BY <1>3, <2>1, SettledSame
<1>8. ASSUME NEW t \in Tunnels, Drain(t) PROVE SettledPush(p)'
  <2> DEFINE k == <<"queue", owner[t]>>
             l == <<"buf", t>>
  <2>1. owner[t] \in Agents /\ buf[t] = <<>>
    BY <1>8 DEF Drain, TypeInv, TaskState
  <2>2. /\ buf' = [buf EXCEPT ![t] = queue[owner[t]]] /\ queue' = [queue EXCEPT ![owner[t]] = <<>>]
        /\ UNCHANGED <<chan, received, lost, post>>
    BY <1>8 DEF Drain, QueueDrain
  <2>3. k \in Keys /\ l \in Keys /\ k # l
    BY <2>1, LinesHere
  <2>4. Lines[l] = <<>> /\ Lines'[l] = Lines[k] /\ Lines'[k] = <<>>
    BY ZenonT(30), <1>0, <2>1, <2>2, LinesHere
  <2>5. \A m \in Keys \ {k, l} : Lines'[m] = Lines[m]
    <3>1. /\ \A a \in Agents : <<"queue", a>> \notin {k, l} => queue'[a] = queue[a]
          /\ \A u \in Tunnels : /\ <<"buf", u>> \notin {k, l} => buf'[u] = buf[u]
                                /\ <<"chan", u>> \notin {k, l} => chan'[u] = chan[u]
                                /\ <<"received", u>> \notin {k, l} => received'[u] = received[u]
      BY <1>0, <2>2
    <3> QED BY <3>1, LinesSame
  <2> HIDE DEF k, l
  <2>a. MovesLine(Lines, Lines', k, l)
    BY <1>2, <2>3, <2>4, <2>5 DEF MovesLine
  <2>6. (Occurs(Lines', p) <=> Occurs(Lines, p)) /\ (Alone(Lines, p) => Alone(Lines', p))
    BY <1>2, <2>a, MoveLineKeeps
  <2> QED BY <1>3, <2>2, <2>6 DEF SettledPush, Accepted
<1>9. ASSUME NEW t \in Tunnels, SendBuffered(t) PROVE SettledPush(p)'
  <2> DEFINE k == <<"buf", t>>
             l == <<"chan", t>>
  <2>1. /\ buf[t] # <<>> /\ UNCHANGED <<queue, received, lost, post>>
        /\ chan' = [chan EXCEPT ![t] = Append(@, Head(buf[t]))] /\ buf' = [buf EXCEPT ![t] = Tail(@)]
    BY <1>9 DEF SendBuffered, TypeInv, TaskState
  <2>3. k \in Keys /\ l \in Keys /\ k # l
    BY LinesHere
  <2>4. /\ Lines[k] # <<>> /\ Lines'[k] = Tail(Lines[k])
        /\ Lines'[l] = Append(Lines[l], Head(Lines[k]))
    BY <1>0, <2>1, LinesHere
  <2>5. \A m \in Keys \ {k, l} : Lines'[m] = Lines[m]
    <3>1. /\ \A a \in Agents : <<"queue", a>> \notin {k, l} => queue'[a] = queue[a]
          /\ \A u \in Tunnels : /\ <<"buf", u>> \notin {k, l} => buf'[u] = buf[u]
                                /\ <<"chan", u>> \notin {k, l} => chan'[u] = chan[u]
                                /\ <<"received", u>> \notin {k, l} => received'[u] = received[u]
      BY <1>0, <2>1
    <3> QED BY <3>1, LinesSame
  <2> HIDE DEF k, l
  <2>a. MovesHead(Lines, Lines', k, l)
    BY <1>2, <2>3, <2>4, <2>5 DEF MovesHead
  <2>6. (Occurs(Lines', p) <=> Occurs(Lines, p)) /\ (Alone(Lines, p) => Alone(Lines', p))
    BY <1>2, <2>a, MoveHeadKeeps
  <2> QED BY <1>3, <2>1, <2>6 DEF SettledPush, Accepted
<1>10. ASSUME NEW t \in Tunnels, WriteFrame(t) PROVE SettledPush(p)'
  <2> DEFINE k == <<"chan", t>>
             l == <<"received", t>>
  <2>1. /\ chan[t] # <<>> /\ UNCHANGED <<queue, buf, lost, post>>
        /\ received' = [received EXCEPT ![t] = Append(@, Head(chan[t]))]
        /\ chan' = [chan EXCEPT ![t] = Tail(@)]
    BY <1>10 DEF WriteFrame
  <2>3. k \in Keys /\ l \in Keys /\ k # l
    BY LinesHere
  <2>4. /\ Lines[k] # <<>> /\ Lines'[k] = Tail(Lines[k])
        /\ Lines'[l] = Append(Lines[l], Head(Lines[k]))
    BY ZenonT(30), <1>0, <2>1, LinesHere
  <2>5. \A m \in Keys \ {k, l} : Lines'[m] = Lines[m]
    <3>1. /\ \A a \in Agents : <<"queue", a>> \notin {k, l} => queue'[a] = queue[a]
          /\ \A u \in Tunnels : /\ <<"buf", u>> \notin {k, l} => buf'[u] = buf[u]
                                /\ <<"chan", u>> \notin {k, l} => chan'[u] = chan[u]
                                /\ <<"received", u>> \notin {k, l} => received'[u] = received[u]
      BY <1>0, <2>1
    <3> QED BY <3>1, LinesSame
  <2> HIDE DEF k, l
  <2>a. MovesHead(Lines, Lines', k, l)
    BY <1>2, <2>3, <2>4, <2>5 DEF MovesHead
  <2>6. (Occurs(Lines', p) <=> Occurs(Lines, p)) /\ (Alone(Lines, p) => Alone(Lines', p))
    BY <1>2, <2>a, MoveHeadKeeps
  <2> QED BY <1>3, <2>1, <2>6 DEF SettledPush, Accepted
<1>11. ASSUME NEW t \in Tunnels, WriteIntoVoid(t) PROVE SettledPush(p)'
  <2> DEFINE k == <<"chan", t>>
  <2>1. /\ chan[t] # <<>> /\ UNCHANGED <<queue, buf, received, post>>
        /\ lost' = lost \cup ({Head(chan[t])} \cap Posts) /\ chan' = [chan EXCEPT ![t] = Tail(@)]
    BY <1>11 DEF WriteIntoVoid
  <2>3. k \in Keys /\ Lines[k] = chan[t]
    BY LinesHere
  <2>4. Lines[k] # <<>> /\ Lines'[k] = Tail(Lines[k])
    BY <1>0, <2>1, LinesHere
  <2>5. \A m \in Keys \ {k} : Lines'[m] = Lines[m]
    <3>1. /\ \A a \in Agents : <<"queue", a>> \notin {k} => queue'[a] = queue[a]
          /\ \A u \in Tunnels : /\ <<"buf", u>> \notin {k} => buf'[u] = buf[u]
                                /\ <<"chan", u>> \notin {k} => chan'[u] = chan[u]
                                /\ <<"received", u>> \notin {k} => received'[u] = received[u]
      BY <1>0, <2>1
    <3> QED BY <3>1, LinesSame
  <2> HIDE DEF k
  <2>a. DropsHead(Lines, Lines', k)
    BY <1>2, <2>3, <2>4, <2>5 DEF DropsHead
  <2>6. Alone(Lines, p) =>
          Alone(Lines', p) /\ (Occurs(Lines', p) <=> Occurs(Lines, p) /\ p # Head(Lines[k]))
    BY <1>2, <2>a, DropHeadKeeps
  <2>7. p = Head(Lines[k]) => Occurs(Lines, p)
    <3>1. 1 \in 1..Len(Lines[k]) /\ Lines[k][1] = Head(Lines[k])
      BY <1>2, <2>3, <2>4, TakeFirst, EmptySeq
    <3> QED BY <1>2, <2>3, <3>1 DEF Occurs
  <2>8. p \in lost' <=> p \in lost \/ p = Head(Lines[k])
    BY <2>1, <2>3
  <2> QED BY <1>3, <2>1, <2>6, <2>7, <2>8 DEF SettledPush, Accepted
<1>12. ASSUME NEW t \in Tunnels, WriteBreak(t) \/ WriteAborted(t) PROVE SettledPush(p)'
  <2> DEFINE k == <<"chan", t>>
  <2>1. /\ UNCHANGED <<queue, buf, received, post>> /\ chan' = [chan EXCEPT ![t] = <<>>]
        /\ lost' = lost \cup {f \in Posts : \E i \in 1..Len(chan[t]) : chan[t][i] = f}
    BY <1>12 DEF WriteBreak, WriteAborted, CloseChannel
  <2>3. k \in Keys /\ Lines[k] = chan[t]
    BY LinesHere
  <2>4. Lines'[k] = <<>>
    BY <1>0, <2>1, LinesHere
  <2>5. \A m \in Keys \ {k} : Lines'[m] = Lines[m]
    <3>1. /\ \A a \in Agents : <<"queue", a>> \notin {k} => queue'[a] = queue[a]
          /\ \A u \in Tunnels : /\ <<"buf", u>> \notin {k} => buf'[u] = buf[u]
                                /\ <<"chan", u>> \notin {k} => chan'[u] = chan[u]
                                /\ <<"received", u>> \notin {k} => received'[u] = received[u]
      BY <1>0, <2>1
    <3> QED BY <3>1, LinesSame
  <2> HIDE DEF k
  <2> DEFINE on == \E i \in 1..Len(Lines[k]) : Lines[k][i] = p
  <2>a. DropsLine(Lines, Lines', k)
    BY <1>2, <2>3, <2>4, <2>5 DEF DropsLine
  <2>6. Alone(Lines, p) => Alone(Lines', p) /\ (Occurs(Lines', p) <=> Occurs(Lines, p) /\ ~on)
    BY <1>2, <2>a, DropLineKeeps
  <2>7. on => Occurs(Lines, p)
    BY <1>2, <2>3 DEF Occurs
  <2>8. p \in lost' <=> p \in lost \/ on
    BY <2>1, <2>3
  <2> HIDE DEF on
  <2> QED BY <1>3, <2>1, <2>6, <2>7, <2>8 DEF SettledPush, Accepted
(* A frame is put on a line: a reply, or a push that is accepted by it. *)
<1>13. ASSUME NEW l \in Keys, NEW f \in Frames, Lines'[l] = Append(Lines[l], f),
              \A m \in Keys \ {l} : Lines'[m] = Lines[m], UNCHANGED lost,
              f = p => ~Accepted(p) /\ Accepted(p)',
              f # p => (Accepted(p)' <=> Accepted(p))
       PROVE  SettledPush(p)'
  <2>a. Puts(Lines, Lines', l, f)
    BY <1>2, <1>13 DEF Puts
  <2>1. /\ Occurs(Lines', p) <=> Occurs(Lines, p) \/ p = f
        /\ Alone(Lines, p) /\ ~(p = f /\ Occurs(Lines, p)) => Alone(Lines', p)
    BY <1>2, <2>a, PutKeeps
  <2> QED BY <1>3, <1>13, <2>1 DEF SettledPush
<1>14. ASSUME NEW t \in Tunnels, ReadRequest(t) PROVE SettledPush(p)'
  <2> DEFINE l == <<"chan", t>>
  <2>a. CASE UNCHANGED chan
    BY <1>4, <1>14, <2>a DEF ReadRequest
  <2>b. CASE chan' # chan
    <3>1. chan' = [chan EXCEPT ![t] = Append(@, Reply)] /\ UNCHANGED <<queue, buf, received, lost, post>>
      BY <1>14, <2>b DEF ReadRequest
    <3>2. l \in Keys /\ Lines'[l] = Append(Lines[l], Reply)
      BY ZenonT(30), <1>0, <3>1, LinesHere
    <3>3. \A m \in Keys \ {l} : Lines'[m] = Lines[m]
      <4>1. /\ \A a \in Agents : <<"queue", a>> \notin {l} => queue'[a] = queue[a]
            /\ \A u \in Tunnels : /\ <<"buf", u>> \notin {l} => buf'[u] = buf[u]
                                  /\ <<"chan", u>> \notin {l} => chan'[u] = chan[u]
                                  /\ <<"received", u>> \notin {l} => received'[u] = received[u]
        BY <1>0, <3>1
      <4> QED BY <4>1, LinesSame
    <3>4. Reply \in Frames /\ Reply # p
      BY BrokerAssumption DEF Frames
    <3> HIDE DEF l
    <3> QED BY <1>13, <3>1, <3>2, <3>3, <3>4 DEF Accepted
  <2> QED BY <2>a, <2>b
<1>15. ASSUME NEW q \in Posts, SendLive(q) PROVE SettledPush(p)'
  <2> DEFINE l == <<"chan", view[q]>>
  <2>a. post[q] = "found" /\ view[q] \in Tunnels /\ UNCHANGED <<queue, buf, received, lost>>
    BY <1>15 DEF SendLive, TypeInv, TaskState
  <2>b. CASE UNCHANGED chan /\ post' = [post EXCEPT ![q] = "absent"]
    <3>1. Accepted(p)' <=> Accepted(p)
      BY <1>0, <2>a, <2>b DEF Accepted
    <3> QED BY <1>3, <2>a, <2>b, <3>1, SettledSame
  <2>c. CASE chan' = [chan EXCEPT ![view[q]] = Append(@, q)] /\ post' = [post EXCEPT ![q] = "live"]
    <3>2. l \in Keys /\ Lines'[l] = Append(Lines[l], q)
      BY ZenonT(30), <1>0, <2>a, <2>c, LinesHere
    <3>3. \A m \in Keys \ {l} : Lines'[m] = Lines[m]
      <4>1. /\ \A a \in Agents : <<"queue", a>> \notin {l} => queue'[a] = queue[a]
            /\ \A u \in Tunnels : /\ <<"buf", u>> \notin {l} => buf'[u] = buf[u]
                                  /\ <<"chan", u>> \notin {l} => chan'[u] = chan[u]
                                  /\ <<"received", u>> \notin {l} => received'[u] = received[u]
        BY <1>0, <2>a, <2>c
      <4> QED BY <4>1, LinesSame
    <3>4. q \in Frames /\ (q = p => ~Accepted(p) /\ Accepted(p)')
          /\ (q # p => (Accepted(p)' <=> Accepted(p)))
      BY <1>0, <2>a, <2>c DEF Frames, Accepted
    <3> HIDE DEF l
    <3> QED BY <1>13, <2>a, <3>2, <3>3, <3>4
  <2> QED BY <1>15, <2>b, <2>c DEF SendLive, Answer
<1>16. ASSUME NEW q \in Posts, FallBack(q) PROVE SettledPush(p)'
  <2> DEFINE l == <<"queue", to[q]>>
  <2>a. post[q] = "absent" /\ to[q] \in Agents /\ UNCHANGED <<buf, chan, received, lost>>
    BY <1>16 DEF FallBack, TypeInv, TaskState
  <2>b. CASE UNCHANGED queue /\ \E st \in {"dropped", "full"} : post' = [post EXCEPT ![q] = st]
    <3>1. Accepted(p)' <=> Accepted(p)
      BY <1>0, <2>a, <2>b DEF Accepted
    <3> QED BY <1>3, <2>a, <2>b, <3>1, SettledSame
  <2>c. CASE queue' = [queue EXCEPT ![to[q]] = Append(@, q)] /\ post' = [post EXCEPT ![q] = "queued"]
    <3>2. l \in Keys /\ Lines'[l] = Append(Lines[l], q)
      BY ZenonT(30), <1>0, <2>a, <2>c, LinesHere
    <3>3. \A m \in Keys \ {l} : Lines'[m] = Lines[m]
      <4>1. /\ \A a \in Agents : <<"queue", a>> \notin {l} => queue'[a] = queue[a]
            /\ \A u \in Tunnels : /\ <<"buf", u>> \notin {l} => buf'[u] = buf[u]
                                  /\ <<"chan", u>> \notin {l} => chan'[u] = chan[u]
                                  /\ <<"received", u>> \notin {l} => received'[u] = received[u]
        BY <1>0, <2>a, <2>c
      <4> QED BY <4>1, LinesSame
    <3>4. q \in Frames /\ (q = p => ~Accepted(p) /\ Accepted(p)')
          /\ (q # p => (Accepted(p)' <=> Accepted(p)))
      BY <1>0, <2>a, <2>c DEF Frames, Accepted
    <3> HIDE DEF l
    <3> QED BY <1>13, <2>a, <3>2, <3>3, <3>4
  <2> QED BY <1>16, <2>b, <2>c DEF FallBack, QueuePush, Answer
<1>17. CASE UNCHANGED vars
  BY <1>4, <1>17 DEF vars
<1> QED BY <1>5, <1>6, <1>7, <1>8, <1>9, <1>10, <1>11, <1>12, <1>14, <1>15, <1>16, <1>17
        DEF Next, TunnelStep, WriteStep, HandlerStep

LEMMA SettledCorrect == Spec => [](TypeInv /\ SettledInv)
<1>1. Init => TypeInv /\ SettledInv
  BY TypeInit, SettledInit
<1>2. TypeInv /\ SettledInv /\ [Next]_vars => (TypeInv /\ SettledInv)'
  BY TypeNext, SettledNext
<1> QED BY <1>1, <1>2, PTL DEF Spec

(* The copies of a push are its positions on the lines, and its loss. *)
Lost == <<<<"lost", None>>, 0>>

LEMMA CopiesAre ==
    ASSUME NEW p, NEW c
    PROVE  c \in Copies(p) <=>
               \/ \E k \in Keys : \E i \in 1..Len(Lines[k]) : Lines[k][i] = p /\ c = <<k, i>>
               \/ p \in lost /\ c = Lost
<1> DEFINE onLine == \E k \in Keys : \E i \in 1..Len(Lines[k]) : Lines[k][i] = p /\ c = <<k, i>>
           inQueue == \E a \in Agents : \E i \in 1..Len(queue[a]) :
                          queue[a][i] = p /\ c = <<<<"queue", a>>, i>>
           inBuf == \E t \in Tunnels : \E i \in 1..Len(buf[t]) :
                          buf[t][i] = p /\ c = <<<<"buf", t>>, i>>
           inChan == \E t \in Tunnels : \E i \in 1..Len(chan[t]) :
                          chan[t][i] = p /\ c = <<<<"chan", t>>, i>>
           inSocket == \E t \in Tunnels : \E i \in 1..Len(received[t]) :
                          received[t][i] = p /\ c = <<<<"received", t>>, i>>
<1>1. c \in Copies(p) <=> inQueue \/ inBuf \/ inChan \/ inSocket \/ (p \in lost /\ c = Lost)
  <2> DEFINE Q == UNION {{<<"queue", a>>} \X At(queue[a], p) : a \in Agents}
             T == UNION {({<<"buf", t>>} \X At(buf[t], p))
                         \cup ({<<"chan", t>>} \X At(chan[t], p))
                         \cup ({<<"received", t>>} \X At(received[t], p)) : t \in Tunnels}
             D == {<<<<"lost", None>>, 0>> : q \in {p} \cap lost}
  <2>0. Copies(p) = Q \cup T \cup D
    BY Zenon DEF Copies
  <2>1. c \in Q <=> inQueue
    BY DEF At
  <2>2. c \in T
          <=> \E t \in Tunnels : \/ c \in {<<"buf", t>>} \X At(buf[t], p)
                                 \/ c \in {<<"chan", t>>} \X At(chan[t], p)
                                 \/ c \in {<<"received", t>>} \X At(received[t], p)
    OBVIOUS
  <2>3. ASSUME NEW t \in Tunnels
        PROVE  /\ c \in {<<"buf", t>>} \X At(buf[t], p) <=>
                      \E i \in 1..Len(buf[t]) : buf[t][i] = p /\ c = <<<<"buf", t>>, i>>
               /\ c \in {<<"chan", t>>} \X At(chan[t], p) <=>
                      \E i \in 1..Len(chan[t]) : chan[t][i] = p /\ c = <<<<"chan", t>>, i>>
               /\ c \in {<<"received", t>>} \X At(received[t], p) <=>
                      \E i \in 1..Len(received[t]) : received[t][i] = p /\ c = <<<<"received", t>>, i>>
    BY DEF At
  <2>4. c \in D <=> p \in lost /\ c = Lost
    BY DEF Lost
  <2>5. (\E t \in Tunnels : \/ c \in {<<"buf", t>>} \X At(buf[t], p)
                            \/ c \in {<<"chan", t>>} \X At(chan[t], p)
                            \/ c \in {<<"received", t>>} \X At(received[t], p))
        <=> inBuf \/ inChan \/ inSocket
    BY <2>3, Zenon
  <2> HIDE DEF inQueue, inBuf, inChan, inSocket, Q, T, D
  <2>6. c \in T <=> inBuf \/ inChan \/ inSocket
    BY <2>2, <2>5
  <2> QED BY <2>0, <2>1, <2>4, <2>6
<1>2. ASSUME onLine PROVE inQueue \/ inBuf \/ inChan \/ inSocket
  <2>1. PICK k \in Keys : \E i \in 1..Len(Lines[k]) : Lines[k][i] = p /\ c = <<k, i>>
    BY <1>2
  <2>2. CASE \E a \in Agents : k = <<"queue", a>>
    BY <2>1, <2>2, LinesHere
  <2>3. CASE \E t \in Tunnels : k = <<"buf", t>> \/ k = <<"chan", t>> \/ k = <<"received", t>>
    <3>1. PICK t \in Tunnels : k = <<"buf", t>> \/ k = <<"chan", t>> \/ k = <<"received", t>>
      BY <2>3
    <3>2. CASE k = <<"buf", t>>
      BY <2>1, <3>2, LinesHere
    <3>3. CASE k = <<"chan", t>>
      BY <2>1, <3>3, LinesHere
    <3>4. CASE k = <<"received", t>>
      BY <2>1, <3>4, LinesHere
    <3> QED BY <3>1, <3>2, <3>3, <3>4
  <2> QED BY <2>2, <2>3, KeysAre
<1>3. inQueue => onLine
  BY LinesHere
<1>4. inBuf => onLine
  BY LinesHere
<1>5. inChan => onLine
  BY LinesHere
<1>6. inSocket => onLine
  BY LinesHere
<1> HIDE DEF onLine, inQueue, inBuf, inChan, inSocket
<1>7. c \in Copies(p) <=> onLine \/ (p \in lost /\ c = Lost)
  BY <1>1, <1>2, <1>3, <1>4, <1>5, <1>6
<1> QED BY <1>7 DEF onLine

(* A push that was answered "live" or "queued" is in exactly one place for *)
(* ever after and any other push is nowhere, whatever tunnels come and go: *)
(* deliver() and the queue (agent.rs 338-347, queue.rs), the drain and the *)
(* write task (run.rs 71-120, 170) neither copy nor forget a frame.        *)
THEOREM DeliveredOnce == Spec => []ExactlyOnce
<1>1. TypeInv /\ SettledInv => ExactlyOnce
  <2> SUFFICES ASSUME TypeInv, SettledInv, NEW p \in Posts
               PROVE  IF Accepted(p) THEN \E c \in Copies(p) : Copies(p) = {c} ELSE Copies(p) = {}
    BY DEF ExactlyOnce
  <2>1. SettledPush(p)
    BY DEF SettledInv
  <2>2. DOMAIN Lines = Keys
    BY DEF Lines, LinesOf
  <2>3. CASE ~Accepted(p)
    <3>1. p \notin lost /\ ~Occurs(Lines, p)
      BY <2>1, <2>3 DEF SettledPush
    <3>2. ASSUME NEW c \in Copies(p) PROVE FALSE
      BY <2>2, <3>1, CopiesAre DEF Occurs
    <3> QED BY <2>3, <3>2
  <2>4. CASE Accepted(p) /\ p \in lost
    <3>1. ~Occurs(Lines, p)
      BY <2>1, <2>4 DEF SettledPush
    <3>2. Lost \in Copies(p)
      BY <2>4, CopiesAre
    <3>3. ASSUME NEW c \in Copies(p) PROVE c = Lost
      BY <2>2, <3>1, CopiesAre DEF Occurs
    <3>4. Copies(p) = {Lost}
      BY <3>2, <3>3
    <3> QED BY <2>4, <3>2, <3>4
  <2>5. CASE Accepted(p) /\ p \notin lost
    <3>1. Occurs(Lines, p) /\ Alone(Lines, p)
      BY <2>1, <2>5 DEF SettledPush
    <3>2. PICK k \in Keys : \E i \in 1..Len(Lines[k]) : Lines[k][i] = p
      BY <2>2, <3>1 DEF Occurs
    <3>3. PICK i \in 1..Len(Lines[k]) : Lines[k][i] = p
      BY <3>2
    <3>4. <<k, i>> \in Copies(p)
      BY <3>3, CopiesAre
    <3>5. ASSUME NEW c \in Copies(p) PROVE c = <<k, i>>
      <4>1. PICK l \in Keys : \E j \in 1..Len(Lines[l]) : Lines[l][j] = p /\ c = <<l, j>>
        BY <2>5, CopiesAre
      <4>2. PICK j \in 1..Len(Lines[l]) : Lines[l][j] = p /\ c = <<l, j>>
        BY <4>1
      <4>3. l = k /\ j = i
        BY <2>2, <3>1, <3>3, <4>2 DEF Alone
      <4> QED BY <4>2, <4>3
    <3>6. Copies(p) = {<<k, i>>}
      BY <3>4, <3>5
    <3> QED BY <2>5, <3>4, <3>6
  <2> QED BY <2>3, <2>4, <2>5
<1> QED BY <1>1, SettledCorrect, PTL

-----------------------------------------------------------------------------
(* Refinement of MessageDelivery *)

Sent(p) == \E t \in Tunnels : p \in On(received[t])
Waiting(p) == \E a \in Agents : p \in On(queue[a])

LEMMA InSeqIs == ASSUME NEW p, NEW s PROVE InSeq(p, s) <=> p \in On(s)
  BY DEF InSeq, At, On

(* The stage of a push, from where it is. *)
LEMMA StageIs ==
    ASSUME NEW p
    PROVE  /\ post[p] = "new" => StageOf(p) = "new"
           /\ post[p] \in {"found", "absent"} => StageOf(p) = "pending"
           /\ post[p] \in {"full", "bad_request"} => StageOf(p) = "refused"
           /\ post[p] = "dropped" => StageOf(p) = "dropped"
           /\ Accepted(p) /\ p \in lost => StageOf(p) = "lost"
           /\ Accepted(p) /\ p \notin lost /\ Sent(p) => StageOf(p) = "sent"
           /\ Accepted(p) /\ p \notin lost /\ ~Sent(p) /\ Waiting(p) => StageOf(p) = "buffered"
           /\ Accepted(p) /\ p \notin lost /\ ~Sent(p) /\ ~Waiting(p) => StageOf(p) = "inflight"
<1> DEFINE s == \E t \in Tunnels : InSeq(p, received[t])
           w == \E a \in Agents : InSeq(p, queue[a])
<1>1. (s <=> Sent(p)) /\ (w <=> Waiting(p))
  BY InSeqIs, Zenon DEF Sent, Waiting
<1>2. PlaceOf(p) = IF p \in lost THEN "lost" ELSE IF s THEN "sent"
                   ELSE IF w THEN "buffered" ELSE "inflight"
  BY DEF PlaceOf
<1> HIDE DEF s, w
<1>3. /\ p \in lost => PlaceOf(p) = "lost"
      /\ p \notin lost /\ Sent(p) => PlaceOf(p) = "sent"
      /\ p \notin lost /\ ~Sent(p) /\ Waiting(p) => PlaceOf(p) = "buffered"
      /\ p \notin lost /\ ~Sent(p) /\ ~Waiting(p) => PlaceOf(p) = "inflight"
  BY <1>1, <1>2
<1>4. Accepted(p) => StageOf(p) = PlaceOf(p)
  BY DEF StageOf, Accepted
<1>5. /\ post[p] = "new" => StageOf(p) = "new"
      /\ post[p] \in {"found", "absent"} => StageOf(p) = "pending"
      /\ post[p] \in {"full", "bad_request"} => StageOf(p) = "refused"
      /\ post[p] = "dropped" => StageOf(p) = "dropped"
  BY DEF StageOf, Accepted
<1> QED BY <1>3, <1>4, <1>5

LEMMA StageWillBe ==
    ASSUME NEW p
    PROVE  /\ post'[p] = "new" => StageOf(p)' = "new"
           /\ post'[p] \in {"found", "absent"} => StageOf(p)' = "pending"
           /\ post'[p] \in {"full", "bad_request"} => StageOf(p)' = "refused"
           /\ post'[p] = "dropped" => StageOf(p)' = "dropped"
           /\ Accepted(p)' /\ p \in lost' => StageOf(p)' = "lost"
           /\ Accepted(p)' /\ p \notin lost' /\ Sent(p)' => StageOf(p)' = "sent"
           /\ Accepted(p)' /\ p \notin lost' /\ ~Sent(p)' /\ Waiting(p)' => StageOf(p)' = "buffered"
           /\ Accepted(p)' /\ p \notin lost' /\ ~Sent(p)' /\ ~Waiting(p)' => StageOf(p)' = "inflight"
<1> DEFINE s == \E t \in Tunnels : InSeq(p, received'[t])
           w == \E a \in Agents : InSeq(p, queue'[a])
<1>1. (s <=> Sent(p)') /\ (w <=> Waiting(p)')
  BY InSeqIs, Zenon DEF Sent, Waiting
<1>2. PlaceOf(p)' = IF p \in lost' THEN "lost" ELSE IF s THEN "sent"
                   ELSE IF w THEN "buffered" ELSE "inflight"
  BY DEF PlaceOf
<1> HIDE DEF s, w
<1>3. /\ p \in lost' => PlaceOf(p)' = "lost"
      /\ p \notin lost' /\ Sent(p)' => PlaceOf(p)' = "sent"
      /\ p \notin lost' /\ ~Sent(p)' /\ Waiting(p)' => PlaceOf(p)' = "buffered"
      /\ p \notin lost' /\ ~Sent(p)' /\ ~Waiting(p)' => PlaceOf(p)' = "inflight"
  BY <1>1, <1>2
<1>4. Accepted(p)' => StageOf(p)' = PlaceOf(p)'
  BY DEF StageOf, Accepted
<1>5. /\ post'[p] = "new" => StageOf(p)' = "new"
      /\ post'[p] \in {"found", "absent"} => StageOf(p)' = "pending"
      /\ post'[p] \in {"full", "bad_request"} => StageOf(p)' = "refused"
      /\ post'[p] = "dropped" => StageOf(p)' = "dropped"
  BY DEF StageOf, Accepted
<1> QED BY <1>3, <1>4, <1>5

LEMMA StageSame ==
    ASSUME TypeInv, NEW p \in Posts, post'[p] = post[p], p \in lost' <=> p \in lost,
           Sent(p)' <=> Sent(p), Waiting(p)' <=> Waiting(p)
    PROVE  StageOf(p)' = StageOf(p)
<1>1. post[p] \in PostPC
  BY DEF TypeInv, TypeOK
<1>2. Accepted(p)' <=> Accepted(p)
  BY DEF Accepted
<1>3. CASE Accepted(p)
  BY <1>2, <1>3, StageIs, StageWillBe
<1>4. CASE ~Accepted(p)
  BY <1>1, <1>4, StageIs, StageWillBe DEF PostPC, Accepted
<1> QED BY <1>3, <1>4

(* A push is in one place. *)
LEMMA OneLine ==
    ASSUME NEW p, Alone(Lines, p), NEW k \in Keys, NEW l \in Keys,
           p \in On(Lines[k]), p \in On(Lines[l])
    PROVE  k = l
<1>1. DOMAIN Lines = Keys
  BY DEF Lines, LinesOf
<1>2. PICK i \in 1..Len(Lines[k]) : Lines[k][i] = p
  BY DEF On
<1>3. PICK j \in 1..Len(Lines[l]) : Lines[l][j] = p
  BY DEF On
<1> QED BY <1>1, <1>2, <1>3 DEF Alone

LEMMA Whereabouts ==
    ASSUME SettledInv, NEW p \in Posts
    PROVE  /\ ~Accepted(p) => p \notin lost /\ ~Sent(p) /\ ~Waiting(p)
           /\ \A t \in Tunnels : p \in On(chan[t]) \cup On(buf[t]) =>
                  Accepted(p) /\ p \notin lost /\ ~Sent(p) /\ ~Waiting(p)
           /\ \A a \in Agents : p \in On(queue[a]) =>
                  /\ Accepted(p) /\ p \notin lost /\ ~Sent(p)
                  /\ \A b \in Agents : p \in On(queue[b]) => b = a
           /\ \A t \in Tunnels : p \in On(received[t]) => Accepted(p) /\ p \notin lost
<1>1. SettledPush(p)
  BY DEF SettledInv
<1>2. ASSUME NEW k \in Keys, p \in On(Lines[k])
      PROVE  Accepted(p) /\ p \notin lost
  <2>1. DOMAIN Lines = Keys
    BY DEF Lines, LinesOf
  <2>2. Occurs(Lines, p)
    BY <1>2, <2>1 DEF Occurs, On
  <2> QED BY <1>1, <2>2 DEF SettledPush
<1>a. ASSUME NEW k \in Keys, NEW l \in Keys, k # l, p \in On(Lines[k])
      PROVE  p \notin On(Lines[l])
  BY <1>1, <1>a, OneLine DEF SettledPush
<1>3. ASSUME NEW k \in Keys, p \in On(Lines[k]), \A t \in Tunnels : k # <<"received", t>>
      PROVE  ~Sent(p)
  BY <1>3, <1>a, LinesHere DEF Sent
<1>4. ASSUME NEW k \in Keys, p \in On(Lines[k]), \A a \in Agents : k # <<"queue", a>>
      PROVE  ~Waiting(p)
  BY <1>4, <1>a, LinesHere DEF Waiting
<1>5. ASSUME ~Accepted(p) PROVE p \notin lost /\ ~Sent(p) /\ ~Waiting(p)
  <2>1. p \notin lost
    BY <1>1, <1>5 DEF SettledPush
  <2>2. ~Sent(p)
    BY <1>2, <1>5, LinesHere DEF Sent
  <2>3. ~Waiting(p)
    BY <1>2, <1>5, LinesHere DEF Waiting
  <2> QED BY <2>1, <2>2, <2>3
<1>6. ASSUME NEW t \in Tunnels, p \in On(chan[t])
      PROVE  Accepted(p) /\ p \notin lost /\ ~Sent(p) /\ ~Waiting(p)
  <2> DEFINE k == <<"chan", t>>
  <2>1. k \in Keys /\ p \in On(Lines[k])
    BY <1>6, LinesHere
  <2>2. (\A u \in Tunnels : k # <<"received", u>>) /\ (\A a \in Agents : k # <<"queue", a>>)
    OBVIOUS
  <2> HIDE DEF k
  <2> QED BY <1>2, <1>3, <1>4, <2>1, <2>2
<1>7. ASSUME NEW t \in Tunnels, p \in On(buf[t])
      PROVE  Accepted(p) /\ p \notin lost /\ ~Sent(p) /\ ~Waiting(p)
  <2> DEFINE k == <<"buf", t>>
  <2>1. k \in Keys /\ p \in On(Lines[k])
    BY <1>7, LinesHere
  <2>2. (\A u \in Tunnels : k # <<"received", u>>) /\ (\A a \in Agents : k # <<"queue", a>>)
    OBVIOUS
  <2> HIDE DEF k
  <2> QED BY <1>2, <1>3, <1>4, <2>1, <2>2
<1>8. ASSUME NEW a \in Agents, p \in On(queue[a])
      PROVE  /\ Accepted(p) /\ p \notin lost /\ ~Sent(p)
             /\ \A b \in Agents : p \in On(queue[b]) => b = a
  <2> DEFINE k(b) == <<"queue", b>>
  <2>1. k(a) \in Keys /\ p \in On(Lines[k(a)])
    BY <1>8, LinesHere
  <2>2. \A u \in Tunnels : k(a) # <<"received", u>>
    OBVIOUS
  <2>3. ASSUME NEW b \in Agents, p \in On(queue[b]) PROVE b = a
    <3>1. k(b) \in Keys /\ p \in On(Lines[k(b)])
      BY <2>3, LinesHere
    <3>2. k(b) # k(a) => b = a
      <4> HIDE DEF k
      <4> QED BY <1>a, <2>1, <3>1
    <3> QED BY <3>2
  <2> HIDE DEF k
  <2> QED BY <1>2, <1>3, <2>1, <2>2, <2>3
<1>9. ASSUME NEW t \in Tunnels, p \in On(received[t]) PROVE Accepted(p) /\ p \notin lost
  BY <1>2, <1>9, LinesHere
<1> QED BY <1>5, <1>6, <1>7, <1>8, <1>9

DeliveryInv == TypeInv /\ SettledInv /\ RouteInv

LEMMA QueuedOnce ==
    ASSUME DeliveryInv, NEW a \in Agents
    PROVE  Cardinality(On(queue[a])) = Len(queue[a])
<1> DEFINE s == queue[a]
<1>0. s \in Seq(Messages) /\ Len(s) \in Nat /\ s = [i \in 1..Len(s) |-> s[i]]
  BY DEF DeliveryInv, TypeInv, TypeOK
<1>1. ASSUME NEW i \in 1..Len(s), NEW j \in 1..Len(s), s[i] = s[j] PROVE i = j
  <2>1. s[i] \in Posts
    BY <1>0 DEF Posts
  <2>2. Alone(Lines, s[i])
    BY <2>1 DEF DeliveryInv, SettledInv, SettledPush
  <2>3. DOMAIN Lines = Keys /\ <<"queue", a>> \in Keys /\ Lines[<<"queue", a>>] = s
    BY LinesHere DEF Lines, LinesOf
  <2> HIDE DEF s
  <2> QED BY <1>1, <2>2, <2>3 DEF Alone
<1> HIDE DEF s
<1>2. s \in [1..Len(s) -> On(s)] /\ \A f \in On(s) : \E i \in 1..Len(s) : s[i] = f
  BY <1>0 DEF On
<1>3. s \in Bijection(1..Len(s), On(s))
  BY <1>1, <1>2 DEF Bijection, Injection, Surjection, IsInjective
<1>4. ExistsBijection(1..Len(s), On(s))
  BY <1>3 DEF ExistsBijection
<1>5. Cardinality(On(s)) = Len(s)
  BY <1>0, <1>4, FS_CountingElements
<1> QED BY <1>5 DEF s

LEMMA SameCardinality == ASSUME NEW S PROVE Abstract!Cardinality(S) = Cardinality(S)
  BY DEF Abstract!Cardinality, Cardinality

(* What MessageDelivery says is buffered for an agent is its queue. *)
LEMMA BufferedIs ==
    ASSUME DeliveryInv, NEW a \in Agents
    PROVE  Abstract!Buffered(a) = On(queue[a])
<1>0. Abstract!Buffered(a) = {p \in Posts : StageOf(p) = "buffered" /\ to[p] = a}
  BY DEF Abstract!Buffered, Abstract!Pushes, Posts
<1>1. ASSUME NEW p \in Posts, StageOf(p) = "buffered", to[p] = a PROVE p \in On(queue[a])
  <2>1. post[p] \in PostPC
    BY DEF DeliveryInv, TypeInv, TypeOK
  <2>2. Accepted(p)
    BY <1>1, <2>1, StageIs DEF PostPC, Accepted
  <2>3. Waiting(p)
    BY <1>1, <2>2, StageIs
  <2>4. PICK b \in Agents : p \in On(queue[b])
    BY <2>3 DEF Waiting
  <2>5. to[p] = b
    BY <2>4 DEF DeliveryInv, RouteInv, QueueOK, On
  <2> QED BY <1>1, <2>4, <2>5
<1>2. ASSUME NEW p \in On(queue[a]) PROVE p \in Posts /\ StageOf(p) = "buffered" /\ to[p] = a
  <2>1. queue[a] \in Seq(Messages)
    BY DEF DeliveryInv, TypeInv, TypeOK
  <2>2. p \in Posts
    BY <2>1, OnFacts DEF Posts
  <2>3. Accepted(p) /\ p \notin lost /\ ~Sent(p) /\ Waiting(p)
    BY <2>2, Whereabouts DEF DeliveryInv, Waiting
  <2>4. to[p] = a
    BY DEF DeliveryInv, RouteInv, QueueOK, On
  <2> QED BY <2>2, <2>3, <2>4, StageIs
<1> QED BY <1>0, <1>1, <1>2

LEMMA MoveIs ==
    ASSUME NEW S, NEW st, \A p \in Posts : StageOf(p)' = IF p \in S THEN st ELSE StageOf(p),
           UNCHANGED to
    PROVE  Abstract!Move(S, st)
  BY DEF Abstract!Move, Abstract!Pushes, Posts

LEMMA StutterIs ==
    ASSUME \A p \in Posts : StageOf(p)' = StageOf(p), UNCHANGED to
    PROVE  UNCHANGED Abstract!dvars
  BY DEF Abstract!dvars

LEMMA DeliveryInit == Init => Abstract!DInit
<1> SUFFICES ASSUME Init PROVE Abstract!DInit
  OBVIOUS
<1>1. \A p \in Posts : StageOf(p) = "new"
  BY StageIs DEF Init
<1>2. to = [p \in Posts |-> None]
  BY DEF Init
<1> QED BY <1>1, <1>2 DEF Abstract!DInit, Abstract!Pushes, Posts

LEMMA DeliveryNext ==
    ASSUME DeliveryInv, [Next]_vars
    PROVE  [Abstract!DNext]_(Abstract!dvars)
<1> USE DEF storeVars, tunnelVars, postVars, delVars
<1>0. /\ TypeInv /\ SettledInv /\ RouteInv
      /\ queue \in [Agents -> Seq(Messages)] /\ buf \in [Tunnels -> Seq(Messages)]
      /\ chan \in [Tunnels -> Seq(Frames)] /\ received \in [Tunnels -> Seq(Frames)]
      /\ post \in [Posts -> PostPC] /\ lost \in SUBSET Posts
      /\ to \in [Posts -> Agents \cup {None}]
  BY DEF DeliveryInv, TypeInv, TypeOK
<1> DEFINE Goal == [Abstract!DNext]_(Abstract!dvars)
<1>1. UNCHANGED Abstract!dvars => Goal
  OBVIOUS
(* Steps that move no frame between the stages. *)
<1>2. ASSUME UNCHANGED <<queue, received, lost, post, to>> PROVE Goal
  <2>1. \A p \in Posts : StageOf(p)' = StageOf(p)
    BY <1>0, <1>2, StageSame DEF Sent, Waiting
  <2>2. UNCHANGED Abstract!dvars
    BY <1>2, <2>1, StutterIs
  <2> QED BY <1>1, <2>2
<1>3. ASSUME NEW t \in Tunnels,
             \/ \E a \in Agents : Connect(t, a)
             \/ FinishRegister(t) \/ SendBuffered(t) \/ ReadEnd(t) \/ DropLease(t)
             \/ LogDisconnect(t) \/ Abort(t) \/ ReadRequest(t) \/ SocketDown(t)
      PROVE  Goal
  <2>1. UNCHANGED <<queue, received, lost, post, to>>
    BY <1>3 DEF Connect, FinishRegister, SendBuffered, ReadEnd, DropLease, LogDisconnect, Abort,
                ReadRequest, SocketDown
  <2> QED BY <1>2, <2>1
<1>4. ASSUME NEW d \in Deletes, (\E a \in Agents : DeleteCheck(d, a)) \/ DeleteStep(d)
      PROVE  Goal
  <2>1. UNCHANGED <<queue, received, lost, post, to>>
    BY <1>4 DEF DeleteCheck, DeleteStep, DeleteRemove, DeleteLog
  <2> QED BY <1>2, <2>1
(* One push is answered, the others stay where they are. *)
<1>5. ASSUME NEW q \in Posts, NEW st, post' = [post EXCEPT ![q] = st],
             UNCHANGED <<received, lost>>, NEW p \in Posts, p # q, Waiting(p)' <=> Waiting(p)
      PROVE  StageOf(p)' = StageOf(p)
  BY <1>0, <1>5, StageSame DEF Sent
<1>6. ASSUME NEW q \in Posts, RejectEmptyRole(q) PROVE Goal
  <2>1. /\ q \in Messages /\ post[q] = "new" /\ post' = [post EXCEPT ![q] = "bad_request"]
        /\ UNCHANGED <<queue, received, lost, to>>
    BY <1>6 DEF RejectEmptyRole, Answer
  <2>2. StageOf(q) = "new" /\ StageOf(q)' = "refused"
    BY <1>0, <2>1, StageIs, StageWillBe
  <2>3. \A p \in Posts : StageOf(p)' = IF p \in {q} THEN "refused" ELSE StageOf(p)
    BY <1>5, <2>1, <2>2 DEF Waiting
  <2>4. Abstract!Move({q}, "refused")
    BY <2>1, <2>3, MoveIs
  <2>5. Abstract!BadRequest(q)
    BY <2>1, <2>2, <2>4 DEF Abstract!BadRequest
  <2> QED BY <2>5 DEF Abstract!DNext, Abstract!Pushes, Posts
<1>7. ASSUME NEW q \in Posts, NEW a \in Agents, Lookup(q, a) PROVE Goal
  <2>1. /\ post[q] = "new" /\ to' = [to EXCEPT ![q] = a] /\ UNCHANGED <<queue, received, lost>>
        /\ \E st \in {"found", "absent"} : post' = [post EXCEPT ![q] = st]
    BY <1>7 DEF Lookup, Answer
  <2>2. PICK st \in {"found", "absent"} : post' = [post EXCEPT ![q] = st]
    BY <2>1
  <2>3. StageOf(q) = "new" /\ StageOf(q)' = "pending"
    BY <1>0, <2>1, <2>2, StageIs, StageWillBe
  <2>4. \A p \in Posts : StageOf(p)' = IF p = q THEN "pending" ELSE StageOf(p)
    BY <1>5, <2>1, <2>2, <2>3 DEF Waiting
  <2>5. Abstract!Arrive(q, a)
    BY <2>1, <2>3, <2>4 DEF Abstract!Arrive
  <2> QED BY <2>5 DEF Abstract!DNext, Abstract!Pushes, Posts
<1>8. ASSUME NEW q \in Posts, SendLive(q) PROVE Goal
  <2>1. post[q] = "found" /\ UNCHANGED <<queue, received, lost, to>>
    BY <1>8 DEF SendLive
  <2>2. StageOf(q) = "pending" /\ q \notin lost /\ ~Sent(q) /\ ~Waiting(q)
    BY <1>0, <2>1, StageIs, Whereabouts DEF Accepted
  <2>3. CASE post' = [post EXCEPT ![q] = "absent"]
    <3>1. StageOf(q)' = "pending"
      BY <1>0, <2>3, StageWillBe
    <3>2. \A p \in Posts : StageOf(p)' = StageOf(p)
      BY <1>5, <2>1, <2>2, <2>3, <3>1 DEF Waiting
    <3>3. UNCHANGED Abstract!dvars
      BY <2>1, <3>2, StutterIs
    <3> QED BY <1>1, <3>3
  <2>4. CASE post' = [post EXCEPT ![q] = "live"]
    <3>1. Accepted(q)' /\ q \notin lost' /\ ~Sent(q)' /\ ~Waiting(q)'
      BY <1>0, <2>1, <2>2, <2>4 DEF Accepted, Sent, Waiting
    <3>2. StageOf(q)' = "inflight"
      BY <3>1, StageWillBe
    <3>3. \A p \in Posts : StageOf(p)' = IF p \in {q} THEN "inflight" ELSE StageOf(p)
      BY <1>5, <2>1, <2>4, <3>2 DEF Waiting
    <3>4. Abstract!Move({q}, "inflight")
      BY <2>1, <3>3, MoveIs
    <3>5. Abstract!AcceptLive(q)
      BY <2>2, <3>4 DEF Abstract!AcceptLive
    <3> QED BY <3>5 DEF Abstract!DNext, Abstract!Pushes, Posts
  <2> QED BY <1>8, <2>3, <2>4 DEF SendLive, Answer
<1>9. ASSUME NEW q \in Posts, FallBack(q) PROVE Goal
  <2>1. /\ post[q] = "absent" /\ to[q] \in Agents /\ UNCHANGED <<received, lost, to>>
    BY <1>0, <1>9 DEF FallBack, TypeInv, TaskState
  <2> DEFINE a == to[q]
  <2>2. StageOf(q) = "pending" /\ q \notin lost /\ ~Sent(q) /\ ~Waiting(q)
    BY <1>0, <2>1, StageIs, Whereabouts DEF Accepted
  <2>3. Abstract!Buffered(a) = On(queue[a]) /\ Cardinality(On(queue[a])) = Len(queue[a])
    BY <2>1, BufferedIs, QueuedOnce
  <2>4. CASE q \in Cancels /\ UNCHANGED queue /\ post' = [post EXCEPT ![q] = "dropped"]
    <3>1. StageOf(q)' = "dropped"
      BY <1>0, <2>4, StageWillBe
    <3>2. \A p \in Posts : StageOf(p)' = IF p \in {q} THEN "dropped" ELSE StageOf(p)
      BY <1>5, <2>1, <2>4, <3>1 DEF Waiting
    <3>3. Abstract!Move({q}, "dropped")
      BY <2>1, <3>2, MoveIs
    <3>4. Abstract!DropCancel(q)
      BY <2>2, <2>4, <3>3 DEF Abstract!DropCancel
    <3> QED BY <3>4 DEF Abstract!DNext, Abstract!Pushes, Posts
  <2>5. CASE /\ q \in Messages /\ QueueFull(a) /\ UNCHANGED queue
             /\ post' = [post EXCEPT ![q] = "full"]
    <3>1. StageOf(q)' = "refused"
      BY <1>0, <2>5, StageWillBe
    <3>2. \A p \in Posts : StageOf(p)' = IF p \in {q} THEN "refused" ELSE StageOf(p)
      BY <1>5, <2>1, <2>5, <3>1 DEF Waiting
    <3>3. Abstract!Move({q}, "refused")
      BY <2>1, <3>2, MoveIs
    <3>4. Len(queue[a]) = QueueCap
      BY <1>0, <2>1, <2>5, QueueAssumption DEF QueueFull, TypeInv, TypeOK
    <3>5. Abstract!RefuseFull(q)
      <4>1. Cardinality(Abstract!Buffered(to[q])) = QueueCap
        BY <2>3, <3>4
      <4> QED BY <2>2, <2>5, <3>3, <4>1, SameCardinality DEF Abstract!RefuseFull
    <3> QED BY <3>5 DEF Abstract!DNext, Abstract!Pushes, Posts
  <2>6. CASE /\ q \in Messages /\ ~QueueFull(a) /\ queue' = [queue EXCEPT ![a] = Append(@, q)]
             /\ post' = [post EXCEPT ![q] = "queued"]
    <3>0. /\ \A b \in Agents \ {a} : queue'[b] = queue[b]
          /\ queue'[a] = Append(queue[a], q)
      BY <1>0, <2>1, <2>6
    <3>a. On(queue'[a]) = On(queue[a]) \cup {q}
      BY <1>0, <2>1, <2>6, <3>0, OnFacts
    <3> HIDE DEF a
    <3>1. Accepted(q)' /\ q \notin lost' /\ ~Sent(q)' /\ Waiting(q)'
      <4>1. Waiting(q)'
        BY <2>1, <3>a DEF Waiting, a
      <4> QED BY <1>0, <2>1, <2>2, <2>6, <4>1 DEF Accepted, Sent
    <3>2. StageOf(q)' = "buffered"
      BY <3>1, StageWillBe
    <3>3. ASSUME NEW p \in Posts, p # q PROVE Waiting(p)' <=> Waiting(p)
      <4>1. \A b \in Agents : p \in On(queue'[b]) <=> p \in On(queue[b])
        BY <3>0, <3>3, <3>a
      <4> QED BY <4>1 DEF Waiting
    <3>4. \A p \in Posts : StageOf(p)' = IF p \in {q} THEN "buffered" ELSE StageOf(p)
      BY <1>5, <2>1, <2>6, <3>2, <3>3
    <3>5. Abstract!Move({q}, "buffered")
      BY <2>1, <3>4, MoveIs
    <3>6. Len(queue[a]) < QueueCap
      BY <1>0, <2>1, <2>6, QueueAssumption DEF QueueFull, a
    <3>7. Abstract!Buffer(q)
      <4>1. Cardinality(Abstract!Buffered(to[q])) < QueueCap
        BY <2>3, <3>6 DEF a
      <4> QED BY <2>2, <2>6, <3>5, <4>1, SameCardinality DEF Abstract!Buffer
    <3> QED BY <3>7 DEF Abstract!DNext, Abstract!Pushes, Posts
  <2> QED BY <1>9, <2>4, <2>5, <2>6 DEF FallBack, QueuePush, Answer
<1>10. ASSUME NEW t \in Tunnels, Drain(t) PROVE Goal
  <2> DEFINE a == owner[t]
  <2>1. /\ a \in Agents /\ queue' = [queue EXCEPT ![a] = <<>>]
        /\ UNCHANGED <<received, lost, post, to>>
    BY <1>0, <1>10 DEF Drain, QueueDrain, TypeInv, TaskState
  <2> HIDE DEF a
  <2>2. queue'[a] = <<>> /\ \A b \in Agents \ {a} : queue'[b] = queue[b]
    BY <1>0, <2>1
  <2>3. On(queue'[a]) = {}
    BY <2>2, EmptyOrdered
  <2>4. ASSUME NEW p \in On(queue[a])
        PROVE  p \in Posts /\ StageOf(p)' = "inflight"
    <3>0. queue[a] \in Seq(Messages)
      BY <1>0, <2>1
    <3>1. p \in Posts
      BY <3>0, OnFacts DEF Posts
    <3>2. /\ Accepted(p) /\ p \notin lost /\ ~Sent(p)
          /\ \A b \in Agents : p \in On(queue[b]) => b = a
      BY <1>0, <2>1, <3>1, Whereabouts
    <3>3. ~Waiting(p)'
      <4>1. ASSUME NEW b \in Agents, p \in On(queue'[b]) PROVE FALSE
        BY <2>2, <2>3, <3>2, <4>1
      <4> QED BY <4>1 DEF Waiting
    <3>4. Accepted(p)' /\ p \notin lost' /\ ~Sent(p)'
      BY <2>1, <3>2 DEF Accepted, Sent
    <3> QED BY <3>1, <3>3, <3>4, StageWillBe
  <2>5. ASSUME NEW p \in Posts, p \notin On(queue[a]) PROVE StageOf(p)' = StageOf(p)
    <3>1. \A b \in Agents : p \in On(queue'[b]) <=> p \in On(queue[b])
      BY <2>2, <2>3, <2>5
    <3>2. Waiting(p)' <=> Waiting(p)
      BY <3>1 DEF Waiting
    <3>3. Sent(p)' <=> Sent(p)
      BY <2>1 DEF Sent
    <3> QED BY <1>0, <2>1, <3>2, <3>3, StageSame
  <2> DEFINE S == On(queue[a])
  <2>6. Abstract!Buffered(a) = S
    BY <2>1, BufferedIs
  <2>7. \A p \in Posts : StageOf(p)' = IF p \in S THEN "inflight" ELSE StageOf(p)
    BY <2>4, <2>5
  <2> HIDE DEF S
  <2>8. CASE S = {}
    <3>1. UNCHANGED Abstract!dvars
      BY <2>1, <2>7, <2>8, StutterIs
    <3> QED BY <1>1, <3>1
  <2>9. CASE S # {}
    <3>1. Abstract!Move(S, "inflight")
      BY <2>1, <2>7, MoveIs
    <3>2. Abstract!DrainAll(a)
      BY <2>6, <2>9, <3>1 DEF Abstract!DrainAll
    <3> QED BY <2>1, <3>2 DEF Abstract!DNext
  <2> QED BY <2>8, <2>9
(* A push leaves a channel. *)
<1>11. ASSUME NEW t \in Tunnels, NEW q \in Posts, q \in On(chan[t])
       PROVE  StageOf(q) = "inflight" /\ Accepted(q) /\ q \notin lost /\ ~Sent(q) /\ ~Waiting(q)
  BY <1>0, <1>11, Whereabouts, StageIs
<1>12. ASSUME NEW t \in Tunnels, WriteFrame(t) PROVE Goal
  <2>0. chan[t] # <<>>
    BY <1>12 DEF WriteFrame
  <2>a. Head(chan[t]) \in Frames /\ Head(chan[t]) \in On(chan[t])
    BY <1>0, <2>0, OnFacts, TakeFirst
  <2>2. PICK f \in Frames : f = Head(chan[t]) /\ f \in On(chan[t])
    BY <2>a
  <2>1. received' = [received EXCEPT ![t] = Append(@, f)] /\ UNCHANGED <<queue, lost, post, to>>
    BY <1>12, <2>2 DEF WriteFrame
  <2>3. received'[t] = Append(received[t], f) /\ \A u \in Tunnels \ {t} : received'[u] = received[u]
    BY <1>0, <2>1
  <2>4. On(received'[t]) = On(received[t]) \cup {f}
    BY <1>0, <2>2, <2>3, OnFacts
  <2>5. ASSUME NEW p \in Posts, p # f PROVE StageOf(p)' = StageOf(p)
    <3>1. \A u \in Tunnels : p \in On(received'[u]) <=> p \in On(received[u])
      BY <2>3, <2>4, <2>5
    <3>2. Sent(p)' <=> Sent(p)
      BY <3>1 DEF Sent
    <3>3. Waiting(p)' <=> Waiting(p)
      BY <2>1 DEF Waiting
    <3> QED BY <1>0, <2>1, <3>2, <3>3, StageSame
  <2>6. CASE f \in Posts
    <3>1. StageOf(f) = "inflight" /\ Accepted(f) /\ f \notin lost
      BY <1>11, <2>2, <2>6
    <3>2. Accepted(f)' /\ f \notin lost' /\ Sent(f)'
      BY <2>1, <2>4, <3>1 DEF Accepted, Sent
    <3>3. StageOf(f)' = "sent"
      BY <3>2, StageWillBe
    <3>4. \A p \in Posts : StageOf(p)' = IF p \in {f} THEN "sent" ELSE StageOf(p)
      BY <2>5, <3>3
    <3>5. Abstract!Move({f}, "sent")
      BY <2>1, <3>4, MoveIs
    <3>6. Abstract!Send(f)
      BY <2>6, <3>1, <3>5 DEF Abstract!Send
    <3> QED BY <2>6, <3>6 DEF Abstract!DNext, Abstract!Pushes, Posts
  <2>7. CASE f \notin Posts
    <3>1. \A p \in Posts : StageOf(p)' = StageOf(p)
      BY <2>5, <2>7
    <3>2. UNCHANGED Abstract!dvars
      BY <2>1, <3>1, StutterIs
    <3> QED BY <1>1, <3>2
  <2> QED BY <2>6, <2>7
<1>13. ASSUME NEW t \in Tunnels, NEW S \in SUBSET Posts, S \subseteq On(chan[t]),
              lost' = lost \cup S, UNCHANGED <<queue, received, post, to>>
       PROVE  Goal
  <2>1. ASSUME NEW p \in S PROVE p \in Posts /\ StageOf(p) = "inflight" /\ StageOf(p)' = "lost"
    <3>1. StageOf(p) = "inflight" /\ Accepted(p)
      BY <1>11, <1>13
    <3>2. Accepted(p)' /\ p \in lost'
      BY <1>13, <3>1 DEF Accepted
    <3> QED BY <3>1, <3>2, StageWillBe
  <2>2. ASSUME NEW p \in Posts, p \notin S PROVE StageOf(p)' = StageOf(p)
    <3>1. (Sent(p)' <=> Sent(p)) /\ (Waiting(p)' <=> Waiting(p))
      BY <1>13 DEF Sent, Waiting
    <3> QED BY <1>0, <1>13, <2>2, <3>1, StageSame
  <2>3. \A p \in Posts : StageOf(p)' = IF p \in S THEN "lost" ELSE StageOf(p)
    BY <2>1, <2>2
  <2>4. CASE S = {}
    <3>1. UNCHANGED Abstract!dvars
      BY <1>13, <2>3, <2>4, StutterIs
    <3> QED BY <1>1, <3>1
  <2>5. CASE S # {}
    <3>1. Abstract!Move(S, "lost")
      BY <1>13, <2>3, MoveIs
    <3>2. Abstract!Lose(S)
      BY <2>1, <2>5, <3>1 DEF Abstract!Lose
    <3> QED BY <3>2 DEF Abstract!DNext, Abstract!Pushes, Posts
  <2> QED BY <2>4, <2>5
<1>14. ASSUME NEW t \in Tunnels, WriteIntoVoid(t) PROVE Goal
  <2> DEFINE S == {Head(chan[t])} \cap Posts
  <2>1. chan[t] # <<>> /\ lost' = lost \cup S /\ UNCHANGED <<queue, received, post, to>>
    BY <1>14 DEF WriteIntoVoid
  <2>2. S \in SUBSET Posts /\ S \subseteq On(chan[t])
    BY <1>0, <2>1, OnFacts
  <2> HIDE DEF S
  <2> QED BY <1>13, <2>1, <2>2
<1>15. ASSUME NEW t \in Tunnels, WriteBreak(t) \/ WriteAborted(t) PROVE Goal
  <2> DEFINE S == {p \in Posts : \E i \in 1..Len(chan[t]) : chan[t][i] = p}
  <2>1. lost' = lost \cup S /\ UNCHANGED <<queue, received, post, to>>
    BY <1>15 DEF WriteBreak, WriteAborted, CloseChannel
  <2>2. S \in SUBSET Posts /\ S \subseteq On(chan[t])
    BY DEF On
  <2> HIDE DEF S
  <2> QED BY <1>13, <2>1, <2>2
<1>16. ASSUME UNCHANGED vars PROVE Goal
  BY <1>2, <1>16 DEF vars
<1> HIDE DEF Goal
<1>17. ASSUME NEW t \in Tunnels, TunnelStep(t) \/ WriteStep(t) PROVE Goal
  BY <1>3, <1>10, <1>12, <1>14, <1>15, <1>17, Zenon DEF TunnelStep, WriteStep
<1>18. ASSUME NEW p \in Posts, HandlerStep(p) PROVE Goal
  BY <1>8, <1>9, <1>18, Zenon DEF HandlerStep
<1>19. ASSUME Next PROVE Goal
  BY <1>3, <1>4, <1>6, <1>7, <1>17, <1>18, <1>19 DEF Next
<1> QED BY <1>16, <1>19 DEF Goal

(* The broker implements MessageDelivery: every step of the tunnels, their *)
(* write tasks and the REST handlers is, for each push, one step of the    *)
(* delivery protocol or none; in particular send_message answers 503 only  *)
(* when QueueCap messages of that agent are buffered.                      *)
THEOREM DeliveryRefined == Spec => ImplementsDelivery
<1>1. DeliveryInv /\ [Next]_vars => [Abstract!DNext]_(Abstract!dvars)
  BY DeliveryNext
<1>2. TypeInv /\ SettledInv /\ RouteInv => DeliveryInv
  BY DEF DeliveryInv
<1> QED BY <1>1, <1>2, DeliveryInit, SettledCorrect, RouteCorrect, PTL
        DEF Spec, ImplementsDelivery, Abstract!DSpec
=============================================================================
