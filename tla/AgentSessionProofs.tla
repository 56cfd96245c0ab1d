-------------------------- MODULE AgentSessionProofs --------------------------
(***************************************************************************)
(* Theorems about one agent's session, for any number of frames in either  *)
(* direction, any pipe and any number of subscribers: what becomes of the  *)
(* workspace and of the frames, and what subscribers are shown.            *)
(***************************************************************************)
EXTENDS AgentSession, SequenceTheorems, FiniteSetTheorems, TLAPS

-----------------------------------------------------------------------------
(* The bridge.                                                             *)

(* The socket is up from the connect to the end of the bridge, unless it   *)
(* broke; a bridge that has ended has said how.                            *)
RunInv ==
    /\ spc \in {"pull", "connect"} => sock = "none"
    /\ spc \in {"spawn", "bridge"} /\ ~broke => sock = "up"
    /\ spc \in {"spawn", "bridge"} => sock # "none"
    /\ spc \in {"reap", "wait", "push", "done"} => sock = "closed"
    /\ exit # "none" => spc \in {"reap", "wait", "push", "done", "failed"} /\ sock = "closed"
    /\ child # "none" => spc \notin {"pull", "connect", "spawn"}

(* A path from one end to the other: what was read, two pipes with a frame *)
(* in hand between them.                                                   *)
Path(read, near, hand, far) == read \o near \o hand \o far

(* Until the socket is closed or lost, whether or not the bridge runs yet. *)
PathsInv ==
    sock \notin {"closed", "lost"} =>
        /\ pushed = Path(told, stdin, inHand, down)
        /\ emitted = Path(heard, up, outHand, stdout)

BridgeInv ==
    /\ SupervisorTypeOK /\ RunInv /\ PathsInv
    /\ CleanExitLosesNothing /\ WorkspacePushedAfterChild

(* What the broker reads is the beginning of what the child wrote. *)
NumbersInv ==
    /\ \A i \in 1..Len(emitted) : emitted[i] = i
    /\ Len(heard \o up) <= Len(emitted)
    /\ \A i \in 1..Len(heard \o up) : (heard \o up)[i] = i

(* The channel has the stream notifications the broker read, and every     *)
(* subscriber that kept up has what the channel had for it.                *)
BusInv ==
    /\ Len(bus) = Rank(Len(heard))
    /\ \A k \in 1..Len(bus) : bus[k] \in Streamed /\ bus[k] <= Len(heard) /\ Rank(bus[k]) = k

SeenInv ==
    \A s \in Subscribers \ lagged :
        /\ s \in listening => Behind(s) <= StreamBuffer
        /\ Len(seen[s]) = cursor[s] - joined[s]
        /\ \A k \in 1..Len(seen[s]) : seen[s][k] = bus[joined[s] + k]

SessionInv == BridgeInv /\ NumbersInv /\ FanoutTypeOK(Out) /\ BusInv /\ SeenInv

LEMMA PathType ==
    ASSUME NEW S, NEW a \in Seq(S), NEW b \in Seq(S), NEW c \in Seq(S), NEW d \in Seq(S)
    PROVE  a \o b \in Seq(S) /\ a \o b \o c \in Seq(S) /\ Path(a, b, c, d) \in Seq(S)
BY ConcatProperties DEF Path

LEMMA HeadMoves ==
    ASSUME NEW S, NEW a \in Seq(S), NEW b \in Seq(S), b # <<>>
    PROVE  /\ Append(a, Head(b)) \o Tail(b) = a \o b
           /\ Head(b) \in S /\ Tail(b) \in Seq(S) /\ Append(a, Head(b)) \in Seq(S)
           /\ Len(Tail(b)) = Len(b) - 1 /\ Len(Append(a, Head(b))) = Len(a) + 1
<1>1. Head(b) \in S /\ Tail(b) \in Seq(S) /\ Len(Tail(b)) = Len(b) - 1
      /\ \A i \in 1..Len(Tail(b)) : Tail(b)[i] = b[i + 1]
  BY HeadTailProperties
<1>2. Append(a, Head(b)) \in Seq(S) /\ Len(Append(a, Head(b))) = Len(a) + 1
  BY <1>1
<1> DEFINE l == Append(a, Head(b)) \o Tail(b)
           r == a \o b
<1>3. Len(a) \in Nat /\ Len(b) \in Nat /\ Len(b) # 0
  OBVIOUS
<1>4. l \in Seq(S) /\ r \in Seq(S) /\ Len(l) = Len(a) + Len(b) /\ Len(r) = Len(a) + Len(b)
  BY <1>1, <1>2, <1>3, ConcatProperties
<1>5. ASSUME NEW i \in 1..Len(l) PROVE l[i] = r[i]
  <2>1. l[i] = IF i <= Len(a) + 1 THEN Append(a, Head(b))[i] ELSE Tail(b)[i - (Len(a) + 1)]
    BY <1>1, <1>2, <1>3, <1>4, ConcatProperties
  <2>2. r[i] = IF i <= Len(a) THEN a[i] ELSE b[i - Len(a)]
    BY <1>3, <1>4, ConcatProperties
  <2>3. CASE i <= Len(a)
    BY <2>1, <2>2, <2>3, <1>1, <1>3
  <2>4. CASE i = Len(a) + 1
    BY <2>1, <2>2, <2>4, <1>1, <1>3
  <2>5. CASE i > Len(a) + 1
    <3>1. i - (Len(a) + 1) \in 1..Len(Tail(b)) /\ (i - (Len(a) + 1)) + 1 = i - Len(a)
      BY <2>5, <1>1, <1>3, <1>4
    <3> QED BY <2>1, <2>2, <2>5, <3>1, <1>1, <1>3
  <2> QED BY <2>3, <2>4, <2>5, <1>3, <1>4
<1>6. l = r
  <2> HIDE DEF l, r
  <2> QED BY <1>4, <1>5, SeqEqual
<1> QED BY <1>1, <1>2, <1>6

(* The four steps of a path: its reader takes a frame, the hand puts one   *)
(* down, the hand picks one up, its writer adds one.                       *)
LEMMA PathRead ==
    ASSUME NEW S, NEW a \in Seq(S), NEW b \in Seq(S), NEW c \in Seq(S), NEW d \in Seq(S), b # <<>>
    PROVE  Path(Append(a, Head(b)), Tail(b), c, d) = Path(a, b, c, d)
BY SMTT(30), HeadMoves DEF Path

LEMMA PathPut ==
    ASSUME NEW S, NEW a \in Seq(S), NEW b \in Seq(S), NEW c \in Seq(S), NEW d \in Seq(S)
    PROVE  Path(a, b \o c, <<>>, d) = Path(a, b, c, d)
<1>1. (a \o b) \o c = a \o (b \o c) /\ b \o c \in Seq(S)
  BY ConcatAssociative, ConcatProperties
<1>2. a \o (b \o c) \in Seq(S)
  BY <1>1, ConcatProperties
<1>3. (a \o (b \o c)) \o <<>> = a \o (b \o c)
  BY <1>2, ConcatEmptySeq
<1> QED BY <1>1, <1>3 DEF Path

LEMMA PathTake ==
    ASSUME NEW S, NEW a \in Seq(S), NEW b \in Seq(S), NEW d \in Seq(S), d # <<>>
    PROVE  Path(a, b, <<Head(d)>>, Tail(d)) = Path(a, b, <<>>, d)
<1>1. a \o b \in Seq(S) /\ Head(d) \in S
  BY ConcatProperties
<1>2. (a \o b) \o <<>> = a \o b /\ (a \o b) \o <<Head(d)>> = Append(a \o b, Head(d))
  BY <1>1, ConcatEmptySeq, AppendIsConcat
<1>3. Append(a \o b, Head(d)) \o Tail(d) = (a \o b) \o d
  <2> DEFINE p == a \o b
  <2>1. p \in Seq(S)
    BY <1>1
  <2> HIDE DEF p
  <2>2. Append(p, Head(d)) \o Tail(d) = p \o d
    BY <2>1, HeadMoves
  <2> QED BY <2>2 DEF p
<1> QED BY <1>2, <1>3 DEF Path

Add(s, e) == Append(s, e)

LEMMA ConcatAppend ==
    ASSUME NEW S, NEW p \in Seq(S), NEW d \in Seq(S), NEW e \in S
    PROVE  p \o Append(d, e) = Append(p \o d, e)
<1>1. <<e>> \in Seq(S)
  OBVIOUS
<1>2. PICK l \in Seq(S) : l = <<e>>
  BY <1>1
<1>3. p \o d \in Seq(S) /\ d \o l \in Seq(S)
  BY ConcatProperties
<1>4. Append(d, e) = d \o <<e>>
  BY AppendIsConcat
<1>5. Append(p \o d, e) = (p \o d) \o <<e>>
  BY <1>3, AppendIsConcat
<1>6. (p \o d) \o l = p \o (d \o l)
  BY SMTT(30), ConcatAssociative
<1> QED BY <1>2, <1>4, <1>5, <1>6

LEMMA PathWrite ==
    ASSUME NEW S, NEW a \in Seq(S), NEW b \in Seq(S), NEW c \in Seq(S), NEW d \in Seq(S), NEW e \in S
    PROVE  Path(a, b, c, Add(d, e)) = Add(Path(a, b, c, d), e)
<1>1. a \o b \in Seq(S)
  BY ConcatProperties
<1>2. PICK p \in Seq(S) : p = (a \o b) \o c
  BY <1>1, ConcatProperties
<1>3. p \o Append(d, e) = Append(p \o d, e)
  BY ConcatAppend
<1> QED BY <1>2, <1>3 DEF Path, Add

LEMMA HandType ==
    ASSUME NEW S, NEW h \in HandOf(S)
    PROVE  h \in Seq(S) /\ <<>> \in HandOf(S) /\ \A e \in S : <<e>> \in HandOf(S)
<1>1. h = <<>> \/ \E e \in S : h = <<e>>
  BY DEF HandOf
<1>2. <<>> \in Seq(S) /\ \A e \in S : <<e>> \in Seq(S)
  OBVIOUS
<1> QED BY <1>1, <1>2, Zenon DEF HandOf

-----------------------------------------------------------------------------
(* Steps of the bridge and of what it connects.                            *)

(* What the types say of the two paths. *)
PathsTyped ==
    /\ told \in Seq(In) /\ stdin \in Seq(In) /\ inHand \in Seq(In) /\ down \in Seq(In)
    /\ heard \in Seq(Out) /\ up \in Seq(Out) /\ outHand \in Seq(Out) /\ stdout \in Seq(Out)
    /\ pushed \in Seq(In) /\ emitted \in Seq(Out)
    /\ <<>> \in HandOf(In) /\ <<>> \in HandOf(Out)

LEMMA BridgeFacts ==
    ASSUME BridgeInv
    PROVE  /\ SupervisorTypeOK /\ RunInv /\ PathsInv /\ CleanExitLosesNothing
           /\ WorkspacePushedAfterChild /\ PathsTyped
<1>1. /\ SupervisorTypeOK /\ RunInv /\ PathsInv /\ CleanExitLosesNothing
      /\ WorkspacePushedAfterChild
  BY DEF BridgeInv
<1>2. inHand \in HandOf(In) /\ outHand \in HandOf(Out)
  BY <1>1 DEF SupervisorTypeOK
<1>3. inHand \in Seq(In) /\ outHand \in Seq(Out) /\ <<>> \in HandOf(In) /\ <<>> \in HandOf(Out)
  BY <1>2, HandType
<1>4. /\ told \in Seq(In) /\ stdin \in Seq(In) /\ down \in Seq(In)
      /\ heard \in Seq(Out) /\ up \in Seq(Out) /\ stdout \in Seq(Out)
      /\ pushed \in Seq(In) /\ emitted \in Seq(Out)
  BY <1>1 DEF SupervisorTypeOK
<1> QED BY <1>1, <1>3, <1>4, Zenon DEF PathsTyped

(* Steps of run_with that leave the pipes alone. *)
LEMMA RunSteps ==
    ASSUME BridgeInv, RunStep \/ WaitFails \/ ChildLeaves \/ ChildExits
    PROVE  BridgeInv'
<1>0. /\ SupervisorTypeOK /\ RunInv /\ PathsInv /\ CleanExitLosesNothing
      /\ WorkspacePushedAfterChild
  BY BridgeFacts
<1>1. UNCHANGED <<pipeVars, historyVars>>
  BY DEF RunStep, Pull, ConnectWithRetry, Spawn, ReapChild, WaitChild, WaitFails, PushBack,
         ChildLeaves, ChildExits
<1>2. UNCHANGED <<down, up, stdin, stdout, inHand, outHand, pushed, told, emitted, heard, broke>>
  BY <1>1 DEF pipeVars, historyVars
<1>3. /\ spc' \in {"pull", "connect", "spawn", "bridge", "reap", "wait", "push", "done", "failed"}
      /\ reaped' \in {"none", "AlreadyExited", "Killed", "TryWaitErrored", "WaitErrored"}
      /\ child' \in {"none", "running", "leaving", "exited", "heir"}
      /\ sock' \in {"none", "up", "closed", "lost"} /\ exit' = exit
  BY <1>0 DEF RunStep, Pull, ConnectWithRetry, Spawn, ReapChild, WaitChild, WaitFails, PushBack,
              ChildLeaves, ChildExits, SupervisorTypeOK
<1>4. SupervisorTypeOK'
  BY <1>0, <1>2, <1>3 DEF SupervisorTypeOK
<1>5. RunInv' /\ (sock' \notin {"closed", "lost"} => sock \notin {"closed", "lost"})
  BY <1>0, <1>2 DEF RunStep, Pull, ConnectWithRetry, Spawn, ReapChild, WaitChild, WaitFails,
                    PushBack, ChildLeaves, ChildExits, RunInv
<1>6. PathsInv' /\ CleanExitLosesNothing'
  BY <1>0, <1>2, <1>3, <1>5 DEF PathsInv, CleanExitLosesNothing
<1>7. WorkspacePushedAfterChild'
  BY <1>0, <1>2 DEF RunStep, Pull, ConnectWithRetry, Spawn, ReapChild, WaitChild, WaitFails,
                    PushBack, ChildLeaves, ChildExits, WorkspacePushedAfterChild, Exited
<1> QED BY <1>4, <1>5, <1>6, <1>7 DEF BridgeInv

(* The end of the bridge: only a child whose output had been read to the   *)
(* end is reported as exited.                                              *)
LEMMA BridgeEnds ==
    ASSUME BridgeInv, spc = "bridge", NEW reason \in {"TunnelClosed", "ProcessExited", "Error"},
           EndBridge(reason), reason = "ProcessExited" => outHand = <<>> /\ stdout = <<>>
    PROVE  BridgeInv'
<1>0. /\ SupervisorTypeOK /\ RunInv /\ PathsInv /\ PathsTyped
  BY BridgeFacts
<1>1. /\ spc' = "reap" /\ exit' = reason /\ sock' = "closed"
      /\ broke' = (broke \/ down # <<>>)
      /\ up' = up \/ (down # <<>> /\ up' = <<>>)
      /\ down' = <<>> /\ stdout' = <<>> /\ inHand' = <<>> /\ outHand' = <<>>
      /\ UNCHANGED <<reaped, child, stdin, pushed, told, emitted, heard>>
  BY DEF EndBridge
<1>2. SupervisorTypeOK'
  <2>1. <<>> \in Seq(Out) /\ <<>> \in Seq(In)
    OBVIOUS
  <2>2. broke' \in BOOLEAN
    BY <1>1, Zenon
  <2>3. up' \in Seq(Out) /\ <<>> \in HandOf(In) /\ <<>> \in HandOf(Out)
    BY <1>0, <1>1, <2>1, Zenon DEF PathsTyped
  <2> QED BY <1>0, <1>1, <2>1, <2>2, <2>3 DEF SupervisorTypeOK
<1>3. RunInv' /\ PathsInv' /\ WorkspacePushedAfterChild'
  BY <1>0, <1>1 DEF RunInv, PathsInv, WorkspacePushedAfterChild, Exited
<1>4. CleanExitLosesNothing'
  <2> SUFFICES ASSUME reason = "ProcessExited", ~broke'
               PROVE  heard' \o up' = emitted'
    BY <1>1 DEF CleanExitLosesNothing
  <2>1. ~broke /\ down = <<>> /\ up' = up /\ outHand = <<>> /\ stdout = <<>>
    BY <1>0, <1>1 DEF SupervisorTypeOK
  <2>2. sock = "up"
    BY <1>0, <2>1 DEF RunInv
  <2>3. emitted = Path(heard, up, <<>>, <<>>)
    BY <1>0, <2>1, <2>2 DEF PathsInv
  <2>4. heard \o up \in Seq(Out)
    BY <1>0, ConcatProperties DEF PathsTyped
  <2>5. (heard \o up) \o <<>> = heard \o up
    BY <2>4, ConcatEmptySeq
  <2> QED BY <1>1, <2>1, <2>3, <2>5 DEF Path
<1> QED BY <1>2, <1>3, <1>4 DEF BridgeInv

(* Frames on their way to the child. *)
LEMMA InwardSteps ==
    ASSUME BridgeInv, WsToStdin \/ ChildReads \/ BrokerSends
    PROVE  BridgeInv'
<1>0. /\ SupervisorTypeOK /\ RunInv /\ PathsInv /\ CleanExitLosesNothing
      /\ WorkspacePushedAfterChild /\ PathsTyped
  BY BridgeFacts
<1>t. /\ told \in Seq(In) /\ stdin \in Seq(In) /\ inHand \in Seq(In) /\ down \in Seq(In)
      /\ pushed \in Seq(In)
  BY <1>0 DEF PathsTyped
(* It is enough to look at the types and at the path. *)
<1>1. ASSUME UNCHANGED <<runVars, up, stdout, outHand, emitted, heard, broke>>,
             told' \in Seq(In), stdin' \in Seq(In), Len(stdin') <= PipeCap, inHand' \in HandOf(In),
             down' \in Seq(In), pushed' \in Seq(In),
             pushed = Path(told, stdin, inHand, down) =>
                pushed' = Path(told', stdin', inHand', down')
      PROVE  BridgeInv'
  <2>1. UNCHANGED <<spc, exit, reaped, child, sock>>
    BY <1>1 DEF runVars
  <2>2. SupervisorTypeOK'
    BY <1>0, <1>1, <2>1 DEF SupervisorTypeOK
  <2>3. RunInv' /\ CleanExitLosesNothing' /\ WorkspacePushedAfterChild'
    BY <1>0, <1>1, <2>1 DEF RunInv, CleanExitLosesNothing, WorkspacePushedAfterChild, Exited
  <2>4. PathsInv'
    BY <1>0, <1>1, <2>1 DEF PathsInv
  <2> QED BY <2>2, <2>3, <2>4 DEF BridgeInv
<1>2. CASE ReadSocket
  <2>1. /\ inHand = <<>> /\ down # <<>> /\ inHand' = <<Head(down)>> /\ down' = Tail(down)
        /\ UNCHANGED <<runVars, up, stdin, stdout, outHand, pushed, told, emitted, heard, broke>>
    BY <1>2 DEF ReadSocket, historyVars
  <2>2. Head(down) \in In /\ Tail(down) \in Seq(In)
    BY <1>t, <2>1
  <2>3. inHand' \in HandOf(In)
    BY <2>1, <2>2 DEF HandOf
  <2>4. Path(told, stdin, <<Head(down)>>, Tail(down)) = Path(told, stdin, <<>>, down)
    BY <1>t, <2>1, PathTake
  <2>5. Len(stdin') <= PipeCap
    BY <1>0, <2>1 DEF SupervisorTypeOK
  <2> QED BY <1>1, <1>t, <2>1, <2>2, <2>3, <2>4, <2>5
<1>3. CASE WriteStdin
  <2>1. CASE ChildGone /\ EndBridge("Error")
    BY <1>3, <2>1, BridgeEnds DEF WriteStdin
  <2>2. CASE /\ PipesOpen /\ Len(stdin) < PipeCap
             /\ stdin' = stdin \o inHand /\ inHand' = <<>>
             /\ UNCHANGED <<runVars, down, up, stdout, outHand, historyVars>>
    <3>1. UNCHANGED <<runVars, down, up, stdout, outHand, pushed, told, emitted, heard, broke>>
      BY <2>2 DEF historyVars
    <3>2. stdin' \in Seq(In) /\ Len(stdin') = Len(stdin) + Len(inHand)
      BY <1>t, <2>2, ConcatProperties
    <3>3. Len(inHand) <= 1 /\ Len(inHand) \in Nat
      <4>1. inHand = <<>> \/ \E e \in In : inHand = <<e>>
        BY <1>0 DEF SupervisorTypeOK, HandOf
      <4>3. CASE inHand = <<>>
        BY <4>3
      <4>4. ASSUME NEW e \in In, inHand = <<e>> PROVE Len(inHand) <= 1 /\ Len(inHand) \in Nat
        BY <4>4
      <4> QED BY <4>1, <4>3, <4>4
    <3>4. Len(stdin') <= PipeCap
      BY <1>t, <2>2, <3>2, <3>3, SupervisorAssumption
    <3>5. Path(told, stdin \o inHand, <<>>, down) = Path(told, stdin, inHand, down)
      BY <1>t, PathPut
    <3>6. inHand' \in HandOf(In)
      BY <2>2 DEF HandOf
    <3> QED BY <1>1, <1>t, <2>2, <3>1, <3>2, <3>4, <3>5, <3>6
  <2> QED BY <1>3, <2>1, <2>2 DEF WriteStdin
<1>4. CASE SocketEnds
  BY <1>4, BridgeEnds DEF SocketEnds
<1>5. CASE ChildReads
  <2>1. /\ stdin # <<>> /\ told' = Append(told, Head(stdin)) /\ stdin' = Tail(stdin)
        /\ UNCHANGED <<runVars, down, up, stdout, inHand, outHand, pushed, emitted, heard, broke>>
    BY <1>5 DEF ChildReads
  <2>2. /\ told' \in Seq(In) /\ stdin' \in Seq(In) /\ Len(stdin') = Len(stdin) - 1
    BY <1>t, <2>1, HeadMoves
  <2>3. Len(stdin) \in Nat /\ Len(stdin) <= PipeCap /\ inHand \in HandOf(In)
    BY <1>0, <1>t DEF SupervisorTypeOK
  <2>4. Len(stdin') <= PipeCap
    BY <2>2, <2>3, SupervisorAssumption
  <2>5. Path(Append(told, Head(stdin)), Tail(stdin), inHand, down) = Path(told, stdin, inHand, down)
    BY <1>t, <2>1, PathRead
  <2> QED BY <1>1, <1>t, <2>1, <2>2, <2>3, <2>4, <2>5
<1>6. CASE BrokerSends
  <2>1. /\ Len(pushed) < MaxIn
        /\ pushed' = Append(pushed, Len(pushed) + 1) /\ down' = Append(down, Len(pushed) + 1)
        /\ UNCHANGED <<runVars, up, stdin, stdout, inHand, outHand, told, emitted, heard, broke>>
    BY <1>6 DEF BrokerSends
  <2>2. Len(pushed) + 1 \in In
    BY <1>t, <2>1, SupervisorAssumption DEF In
  <2>3. pushed' \in Seq(In) /\ down' \in Seq(In)
    BY <1>t, <2>1, <2>2
  <2>4. pushed = Path(told, stdin, inHand, down) => pushed' = Path(told, stdin, inHand, down')
    <3>1. PICK e \in In : e = Len(pushed) + 1
      BY <2>2
    <3>2. pushed' = Add(pushed, e) /\ down' = Add(down, e)
      BY <2>1, <3>1 DEF Add
    <3>3. Path(told, stdin, inHand, Add(down, e)) = Add(Path(told, stdin, inHand, down), e)
      BY <1>t, PathWrite
    <3> QED BY <3>2, <3>3
  <2>5. Len(stdin') <= PipeCap /\ inHand' \in HandOf(In)
    BY <1>0, <2>1 DEF SupervisorTypeOK
  <2> QED BY <1>1, <1>t, <2>1, <2>3, <2>4, <2>5
<1> QED BY <1>2, <1>3, <1>4, <1>5, <1>6 DEF WsToStdin

(* Lines on their way from the child. *)
LEMMA OutwardSteps ==
    ASSUME BridgeInv, StdoutToWs \/ ChildWrites \/ TunnelReads
    PROVE  BridgeInv'
<1>0. /\ SupervisorTypeOK /\ RunInv /\ PathsInv /\ CleanExitLosesNothing
      /\ WorkspacePushedAfterChild /\ PathsTyped
  BY BridgeFacts
<1>t. /\ heard \in Seq(Out) /\ up \in Seq(Out) /\ outHand \in Seq(Out) /\ stdout \in Seq(Out)
      /\ emitted \in Seq(Out)
  BY <1>0 DEF PathsTyped
<1>1. ASSUME UNCHANGED <<runVars, stdin, down, inHand, pushed, told, broke>>,
             heard' \in Seq(Out), up' \in Seq(Out), outHand' \in HandOf(Out),
             stdout' \in Seq(Out), emitted' \in Seq(Out),
             spc # "bridge" => emitted' = emitted /\ heard' \o up' = heard \o up,
             sock \notin {"closed", "lost"} /\ emitted = Path(heard, up, outHand, stdout) =>
                emitted' = Path(heard', up', outHand', stdout')
      PROVE  BridgeInv'
  <2>1. UNCHANGED <<spc, exit, reaped, child, sock>>
    BY <1>1 DEF runVars
  <2>2. SupervisorTypeOK'
    BY <1>0, <1>1, <2>1 DEF SupervisorTypeOK
  <2>3. RunInv' /\ WorkspacePushedAfterChild'
    BY <1>0, <1>1, <2>1 DEF RunInv, WorkspacePushedAfterChild, Exited
  <2>4. CleanExitLosesNothing'
    BY <1>0, <1>1, <2>1 DEF RunInv, CleanExitLosesNothing
  <2>5. PathsInv'
    BY <1>0, <1>1, <2>1 DEF PathsInv
  <2> QED BY <2>2, <2>3, <2>4, <2>5 DEF BridgeInv
<1>2. CASE ReadStdout
  <2>1. /\ spc = "bridge" /\ outHand = <<>> /\ stdout # <<>>
        /\ outHand' = <<Head(stdout)>> /\ stdout' = Tail(stdout)
        /\ UNCHANGED <<runVars, down, up, stdin, inHand, pushed, told, emitted, heard, broke>>
    BY <1>2 DEF ReadStdout, historyVars
  <2>2. Head(stdout) \in Out /\ Tail(stdout) \in Seq(Out)
    BY <1>t, <2>1
  <2>3. outHand' \in HandOf(Out)
    BY <2>1, <2>2 DEF HandOf
  <2>4. Path(heard, up, <<Head(stdout)>>, Tail(stdout)) = Path(heard, up, <<>>, stdout)
    BY <1>t, <2>1, PathTake
  <2> QED BY <1>1, <1>t, <2>1, <2>2, <2>3, <2>4
<1>3. CASE ReadStdoutFails
  BY <1>3, BridgeEnds DEF ReadStdoutFails
<1>4. CASE SendSocket
  <2>1. CASE sock = "closed" /\ EndBridge("Error")
    BY <1>4, <2>1, BridgeEnds DEF SendSocket
  <2>2. CASE /\ outHand' = <<>>
             /\ up' = IF sock = "up" THEN up \o outHand ELSE up
             /\ UNCHANGED <<runVars, down, stdin, stdout, inHand, historyVars>>
    <3>1. /\ spc = "bridge"
          /\ UNCHANGED <<runVars, down, stdin, stdout, inHand, pushed, told, emitted, heard, broke>>
      BY <1>4, <2>2 DEF SendSocket, historyVars
    <3>2. up \o outHand \in Seq(Out)
      BY <1>t, ConcatProperties
    <3>3. Path(heard, up \o outHand, <<>>, stdout) = Path(heard, up, outHand, stdout)
      BY <1>t, PathPut
    <3>4. outHand' \in HandOf(Out)
      BY <2>2 DEF HandOf
    <3>5. sock \notin {"closed", "lost"} => up' = up \o outHand
      <4>1. sock \notin {"closed", "lost"} => sock = "up" \/ sock = "none"
        BY <1>0 DEF SupervisorTypeOK
      <4>2. sock # "none"
        BY <1>0, <3>1 DEF RunInv
      <4> QED BY <2>2, <4>1, <4>2
    <3>6. up' \in Seq(Out)
      BY <1>t, <2>2, <3>2
    <3> QED BY <1>1, <1>t, <2>2, <3>1, <3>3, <3>4, <3>5, <3>6
  <2> QED BY <1>4, <2>1, <2>2 DEF SendSocket
<1>5. CASE StdoutEnds
  BY <1>5, BridgeEnds DEF StdoutEnds
<1>6. CASE ChildWrites
  <2>1. /\ spc = "bridge" /\ Len(emitted) < MaxOut
        /\ emitted' = Append(emitted, Len(emitted) + 1) /\ stdout' = Append(stdout, Len(emitted) + 1)
        /\ UNCHANGED <<runVars, down, up, stdin, inHand, outHand, pushed, told, heard, broke>>
    BY <1>6 DEF ChildWrites
  <2>2. Len(emitted) + 1 \in Out
    BY <1>t, <2>1, SupervisorAssumption DEF Out
  <2>3. emitted' \in Seq(Out) /\ stdout' \in Seq(Out)
    BY <1>t, <2>1, <2>2
  <2>4. emitted = Path(heard, up, outHand, stdout) => emitted' = Path(heard, up, outHand, stdout')
    <3>1. PICK e \in Out : e = Len(emitted) + 1
      BY <2>2
    <3>2. emitted' = Add(emitted, e) /\ stdout' = Add(stdout, e)
      BY <2>1, <3>1 DEF Add
    <3>3. Path(heard, up, outHand, Add(stdout, e)) = Add(Path(heard, up, outHand, stdout), e)
      BY <1>t, PathWrite
    <3> QED BY <3>2, <3>3
  <2>5. outHand' \in HandOf(Out)
    BY <1>0, <2>1 DEF SupervisorTypeOK
  <2> QED BY <1>1, <1>t, <2>1, <2>3, <2>4, <2>5
<1>7. CASE TunnelReads
  <2>1. /\ up # <<>> /\ heard' = Append(heard, Head(up)) /\ up' = Tail(up)
        /\ UNCHANGED <<runVars, down, stdin, stdout, inHand, outHand, pushed, told, emitted, broke>>
    BY <1>7 DEF TunnelReads
  <2>2. heard' \in Seq(Out) /\ up' \in Seq(Out) /\ heard' \o up' = heard \o up
    BY SMTT(30), <1>t, <2>1, HeadMoves
  <2>3. Path(Append(heard, Head(up)), Tail(up), outHand, stdout) = Path(heard, up, outHand, stdout)
    BY <1>t, <2>1, PathRead
  <2>4. outHand' \in HandOf(Out)
    BY <1>0, <2>1 DEF SupervisorTypeOK
  <2> QED BY <1>1, <1>t, <2>1, <2>2, <2>3, <2>4
<1> QED BY <1>2, <1>3, <1>4, <1>5, <1>6, <1>7 DEF StdoutToWs

LEMMA SocketSteps ==
    ASSUME BridgeInv, SocketBreaks \/ LossNoticed
    PROVE  BridgeInv'
<1>0. /\ SupervisorTypeOK /\ RunInv /\ PathsInv /\ CleanExitLosesNothing
      /\ WorkspacePushedAfterChild /\ PathsTyped
  BY BridgeFacts
<1>1. CASE SocketBreaks
  <2>1. /\ sock = "up" /\ sock' \in {"closed", "lost"} /\ broke' = TRUE
        /\ down' \in {down, <<>>} /\ up' \in {up, <<>>}
        /\ UNCHANGED <<spc, exit, reaped, child, stdin, stdout, inHand, outHand, pushed, told,
                        emitted, heard>>
    BY <1>1 DEF SocketBreaks
  <2>2. down' \in Seq(In) /\ up' \in Seq(Out)
    <3>1. <<>> \in Seq(In) /\ <<>> \in Seq(Out)
      OBVIOUS
    <3> QED BY <1>0, <2>1, <3>1, Zenon DEF PathsTyped
  <2>3. SupervisorTypeOK'
    BY <1>0, <2>1, <2>2 DEF SupervisorTypeOK
  <2>4. RunInv' /\ PathsInv' /\ CleanExitLosesNothing' /\ WorkspacePushedAfterChild'
    BY <1>0, <2>1 DEF RunInv, PathsInv, CleanExitLosesNothing, WorkspacePushedAfterChild, Exited
  <2> QED BY <2>3, <2>4 DEF BridgeInv
<1>2. CASE LossNoticed
  <2>1. /\ sock = "lost" /\ sock' = "closed"
        /\ UNCHANGED <<spc, exit, reaped, child, down, up, stdin, stdout, inHand, outHand, pushed,
                        told, emitted, heard, broke>>
    BY <1>2 DEF LossNoticed, pipeVars, historyVars
  <2>2. SupervisorTypeOK'
    BY <1>0, <2>1 DEF SupervisorTypeOK
  <2>3. RunInv' /\ PathsInv' /\ CleanExitLosesNothing' /\ WorkspacePushedAfterChild'
    BY <1>0, <2>1 DEF RunInv, PathsInv, CleanExitLosesNothing, WorkspacePushedAfterChild, Exited
  <2> QED BY <2>2, <2>3 DEF BridgeInv
<1> QED BY <1>1, <1>2

LEMMA BridgeNextInv == BridgeInv /\ [Next]_vars => BridgeInv'
<1> SUFFICES ASSUME BridgeInv, [Next]_vars PROVE BridgeInv'
  OBVIOUS
<1>1. CASE UNCHANGED supervisorVars
  <2>1. UNCHANGED <<runVars, pipeVars, historyVars>>
    BY <1>1 DEF supervisorVars
  <2>2. UNCHANGED <<spc, exit, reaped, child, sock, down, up, stdin, stdout, inHand, outHand,
                    pushed, told, emitted, heard, broke>>
    BY <2>1 DEF runVars, pipeVars, historyVars
  <2>3. SupervisorTypeOK' /\ RunInv' /\ PathsInv' /\ CleanExitLosesNothing'
        /\ WorkspacePushedAfterChild'
    BY <2>2 DEF BridgeInv, SupervisorTypeOK, RunInv, PathsInv, CleanExitLosesNothing,
                WorkspacePushedAfterChild, Exited
  <2> QED BY <2>3 DEF BridgeInv
<1>2. CASE UNCHANGED vars
  BY <1>1, <1>2 DEF vars
<1> QED BY <1>1, <1>2, RunSteps, InwardSteps, OutwardSteps, SocketSteps DEF Next

LEMMA BridgeInit == Init => BridgeInv
<1> SUFFICES ASSUME Init PROVE BridgeInv
  OBVIOUS
<1>1. SupervisorInit
  BY DEF Init
<1>2. SupervisorTypeOK
  <2>1. <<>> \in HandOf(In) /\ <<>> \in HandOf(Out) /\ Len(<<>>) <= PipeCap
    BY SupervisorAssumption DEF HandOf
  <2>2. <<>> \in Seq(In) /\ <<>> \in Seq(Out)
    OBVIOUS
  <2> QED BY <1>1, <2>1, <2>2, Zenon DEF SupervisorInit, SupervisorTypeOK
<1>3. RunInv /\ CleanExitLosesNothing /\ WorkspacePushedAfterChild
  BY <1>1 DEF SupervisorInit, RunInv, CleanExitLosesNothing, WorkspacePushedAfterChild
<1>4. PathsInv
  <2>1. <<>> \o <<>> = <<>>
    BY ConcatEmptySeq
  <2>2. Path(<<>>, <<>>, <<>>, <<>>) = <<>>
    BY <2>1 DEF Path
  <2> QED BY <1>1, <2>2 DEF SupervisorInit, PathsInv
<1> QED BY <1>2, <1>3, <1>4 DEF BridgeInv

LEMMA BridgeCorrect == Spec => []BridgeInv
BY BridgeInit, BridgeNextInv, PTL DEF Spec

(* The workspace goes back only when the child has exited or an error of   *)
(* try_wait() or wait() kept that from being known, however the bridge     *)
(* ended and whether or not the child could be killed (run.rs 87-110).     *)
THEOREM PushedAfterChild == Spec => []WorkspacePushedAfterChild
<1>1. BridgeInv => WorkspacePushedAfterChild
  BY DEF BridgeInv
<1> QED BY <1>1, BridgeCorrect, PTL

-----------------------------------------------------------------------------
(* The fan-out.                                                            *)

LEMMA StreamedFinite ==
    ASSUME NEW n \in Nat
    PROVE  IsFiniteSet({f \in Streamed : f <= n}) /\ Rank(n) \in Nat
<1>1. IsFiniteSet(1..MaxOut)
  BY FS_Interval, SupervisorAssumption
<1>2. {f \in Streamed : f <= n} \subseteq 1..MaxOut
  BY StreamedAssumption DEF Out
<1>3. IsFiniteSet({f \in Streamed : f <= n})
  BY <1>1, <1>2, FS_Subset
<1> QED BY <1>3, FS_CardinalityType DEF Rank

LEMMA RankStep ==
    ASSUME NEW n \in Nat
    PROVE  Rank(n + 1) = IF n + 1 \in Streamed THEN Rank(n) + 1 ELSE Rank(n)
<1> DEFINE R == {f \in Streamed : f <= n}
           Q == {f \in Streamed : f <= n + 1}
<1>1. \A f \in Streamed : f \in Nat
  BY StreamedAssumption DEF Out
<1>2. IsFiniteSet(R) /\ Rank(n) = Cardinality(R) /\ Rank(n + 1) = Cardinality(Q) /\ n + 1 \notin R
  BY StreamedFinite DEF Rank
<1>3. CASE n + 1 \in Streamed
  <2>1. Q = R \cup {n + 1}
    BY <1>1, <1>3
  <2>2. Cardinality(R \cup {n + 1}) = Cardinality(R) + 1
    <3> HIDE DEF R
    <3> QED BY <1>2, FS_AddElement
  <2> HIDE DEF R, Q
  <2> QED BY <1>2, <1>3, <2>1, <2>2
<1>4. CASE n + 1 \notin Streamed
  <2>1. Q = R
    BY <1>1, <1>4
  <2> HIDE DEF R, Q
  <2> QED BY <1>2, <1>4, <2>1
<1> QED BY <1>3, <1>4

LEMMA RankZero == Rank(0) = 0
<1>0. \A f \in Streamed : f \in Nat /\ f >= 1
  BY StreamedAssumption, SupervisorAssumption DEF Out
<1>1. {f \in Streamed : f <= 0} = {}
  BY <1>0
<1> QED BY <1>1, FS_EmptySet DEF Rank

LEMMA PublishSteps ==
    ASSUME FanoutTypeOK(Out), SeenInv, NEW f \in Out, Publish(f)
    PROVE  FanoutTypeOK(Out)' /\ SeenInv'
<1>1. /\ bus \in Seq(Out) /\ Len(bus) \in Nat
      /\ joined \in [Subscribers -> 0..Len(bus)] /\ cursor \in [Subscribers -> 0..Len(bus)]
      /\ seen \in [Subscribers -> Seq(Out)] /\ lagged \subseteq Subscribers
      /\ \A s \in Subscribers : joined[s] <= cursor[s]
  BY DEF FanoutTypeOK
<1>2. /\ bus' \in Seq(Out) /\ Len(bus') = Len(bus) + 1 /\ \A i \in 1..Len(bus) : bus'[i] = bus[i]
      /\ lagged' = lagged \cup {s \in listening : Behind(s) >= StreamBuffer}
      /\ UNCHANGED <<joined, cursor, listening, seen>>
  BY <1>1 DEF Publish
<1>3. FanoutTypeOK(Out)'
  <2>1. joined' \in [Subscribers -> 0..Len(bus')] /\ cursor' \in [Subscribers -> 0..Len(bus')]
    BY <1>1, <1>2
  <2> QED BY <1>1, <1>2, <2>1 DEF FanoutTypeOK
<1>4. ASSUME NEW s \in Subscribers \ lagged'
      PROVE  /\ s \in listening' => Behind(s)' <= StreamBuffer
             /\ Len(seen'[s]) = cursor'[s] - joined'[s]
             /\ \A k \in 1..Len(seen'[s]) : seen'[s][k] = bus'[joined'[s] + k]
  <2>1. s \in Subscribers \ lagged /\ (s \in listening => ~(Behind(s) >= StreamBuffer))
    BY <1>2
  <2>2. cursor[s] \in Nat /\ cursor[s] <= Len(bus) /\ joined[s] \in Nat /\ joined[s] <= cursor[s]
    BY <1>1
  <2>3. s \in listening' => Behind(s)' <= StreamBuffer
    BY <1>1, <1>2, <2>1, <2>2, FanoutAssumption DEF Behind
  <2>4. /\ Len(seen[s]) = cursor[s] - joined[s]
        /\ \A k \in 1..Len(seen[s]) : seen[s][k] = bus[joined[s] + k]
    BY <2>1 DEF SeenInv
  <2>5. \A k \in 1..Len(seen[s]) : joined[s] + k \in 1..Len(bus)
    BY <1>1, <2>2, <2>4
  <2> QED BY <1>2, <2>3, <2>4, <2>5
<1> QED BY <1>3, <1>4 DEF SeenInv

LEMMA SubscriberSteps ==
    ASSUME FanoutTypeOK(Out), SeenInv, NEW s \in Subscribers,
           Subscribe(s) \/ Receive(s) \/ Unsubscribe(s)
    PROVE  FanoutTypeOK(Out)' /\ SeenInv' /\ bus' = bus
<1>1. /\ bus \in Seq(Out) /\ Len(bus) \in Nat
      /\ joined \in [Subscribers -> 0..Len(bus)] /\ cursor \in [Subscribers -> 0..Len(bus)]
      /\ seen \in [Subscribers -> Seq(Out)] /\ lagged \subseteq Subscribers
      /\ \A u \in Subscribers : joined[u] <= cursor[u]
      /\ listening \subseteq Subscribers
  BY DEF FanoutTypeOK
<1>2. CASE Subscribe(s)
  <2>1. /\ listening' = listening \cup {s} /\ joined' = [joined EXCEPT ![s] = Len(bus)]
        /\ cursor' = [cursor EXCEPT ![s] = Len(bus)] /\ seen' = [seen EXCEPT ![s] = <<>>]
        /\ lagged' = lagged \ {s} /\ bus' = bus
    BY <1>2 DEF Subscribe
  <2>2. FanoutTypeOK(Out)'
    BY <1>1, <2>1 DEF FanoutTypeOK
  <2>3. SeenInv'
    BY <1>1, <2>1, FanoutAssumption DEF SeenInv, Behind
  <2> QED BY <2>1, <2>2, <2>3
<1>3. CASE Unsubscribe(s)
  <2>1. listening' = listening \ {s} /\ UNCHANGED <<bus, joined, cursor, seen, lagged>>
    BY <1>3 DEF Unsubscribe
  <2>2. FanoutTypeOK(Out)'
    BY <1>1, <2>1 DEF FanoutTypeOK
  <2>3. SeenInv'
    BY <2>1 DEF SeenInv, Behind
  <2> QED BY <2>1, <2>2, <2>3
<1>4. CASE Receive(s)
  <2>1. PICK next : /\ next = IF Behind(s) > StreamBuffer THEN Len(bus) - StreamBuffer + 1 ELSE cursor[s] + 1
                    /\ s \in listening /\ Behind(s) > 0
                    /\ seen' = [seen EXCEPT ![s] = Append(@, bus[next])]
                    /\ cursor' = [cursor EXCEPT ![s] = next]
                    /\ UNCHANGED <<bus, joined, listening, lagged>>
    BY <1>4 DEF Receive
  <2>2. cursor[s] \in Nat /\ cursor[s] < Len(bus) /\ joined[s] \in Nat /\ joined[s] <= cursor[s]
    BY <1>1, <2>1 DEF Behind
  <2>3. next \in 1..Len(bus) /\ next > cursor[s]
    BY <1>1, <2>1, <2>2, FanoutAssumption DEF Behind
  <2>4. bus[next] \in Out /\ seen[s] \in Seq(Out)
    BY <1>1, <2>3
  <2>5. FanoutTypeOK(Out)'
    BY <1>1, <2>1, <2>2, <2>3, <2>4 DEF FanoutTypeOK
  <2>6. ASSUME NEW u \in Subscribers \ lagged', u # s
        PROVE  /\ u \in listening' => Behind(u)' <= StreamBuffer
               /\ Len(seen'[u]) = cursor'[u] - joined'[u]
               /\ \A k \in 1..Len(seen'[u]) : seen'[u][k] = bus'[joined'[u] + k]
    BY <1>1, <2>1, <2>6 DEF SeenInv, Behind
  <2>7. ASSUME s \notin lagged
        PROVE  /\ Behind(s)' <= StreamBuffer
               /\ Len(seen'[s]) = cursor'[s] - joined'[s]
               /\ \A k \in 1..Len(seen'[s]) : seen'[s][k] = bus'[joined'[s] + k]
    <3>1. /\ Behind(s) <= StreamBuffer /\ Len(seen[s]) = cursor[s] - joined[s]
          /\ \A k \in 1..Len(seen[s]) : seen[s][k] = bus[joined[s] + k]
      BY <2>1, <2>7 DEF SeenInv
    <3>2. next = cursor[s] + 1
      BY <1>1, <2>1, <2>2, <3>1, FanoutAssumption DEF Behind
    <3>3. cursor'[s] = cursor[s] + 1 /\ seen'[s] = Append(seen[s], bus[next])
      BY <1>1, <2>1, <3>2
    <3>4. Behind(s)' <= StreamBuffer
      BY <1>1, <2>1, <2>2, <3>1, <3>3, FanoutAssumption DEF Behind
    <3>5. /\ Len(seen'[s]) = Len(seen[s]) + 1 /\ seen'[s][Len(seen[s]) + 1] = bus[next]
          /\ \A k \in 1..Len(seen[s]) : seen'[s][k] = seen[s][k]
      BY <2>4, <3>3
    <3>6. joined[s] + (Len(seen[s]) + 1) = next
      BY <2>2, <3>1, <3>2
    <3>7. Len(seen'[s]) = cursor'[s] - joined'[s]
      BY <2>1, <2>2, <3>1, <3>3, <3>5
    <3>8. ASSUME NEW k \in 1..Len(seen'[s]) PROVE seen'[s][k] = bus'[joined'[s] + k]
      <4>1. k \in 1..Len(seen[s]) \/ k = Len(seen[s]) + 1
        BY <2>4, <3>5
      <4> QED BY <2>1, <3>1, <3>5, <3>6, <4>1
    <3> QED BY <3>4, <3>7, <3>8
  <2>8. SeenInv'
    BY <2>1, <2>6, <2>7 DEF SeenInv
  <2> QED BY <2>1, <2>5, <2>8
<1> QED BY <1>2, <1>3, <1>4

-----------------------------------------------------------------------------
(* The whole session.                                                      *)

Begins(s, a, b) ==
    Len(a \o b) <= Len(s) /\ \A i \in 1..Len(a \o b) : s[i] = (a \o b)[i]

LEMMA PathPrefix ==
    ASSUME NEW S, NEW a \in Seq(S), NEW b \in Seq(S), NEW c \in Seq(S), NEW d \in Seq(S)
    PROVE  Begins(Path(a, b, c, d), a, b)
<1>1. PICK p \in Seq(S) : p = a \o b
  BY ConcatProperties
<1>2. PICK q \in Seq(S) : q = p \o c
  BY ConcatProperties
<1>3. /\ Len(p \o c) = Len(p) + Len(c)
      /\ \A i \in 1..Len(p) + Len(c) : (p \o c)[i] = IF i <= Len(p) THEN p[i] ELSE c[i - Len(p)]
  BY ConcatProperties
<1>4. /\ Len(q \o d) = Len(q) + Len(d)
      /\ \A i \in 1..Len(q) + Len(d) : (q \o d)[i] = IF i <= Len(q) THEN q[i] ELSE d[i - Len(q)]
  BY ConcatProperties
<1>5. Len(p) \in Nat /\ Len(q) \in Nat /\ Len(c) \in Nat /\ Len(d) \in Nat
  OBVIOUS
<1>6. Len(q) = Len(p) + Len(c) /\ \A i \in 1..Len(p) : q[i] = p[i]
  BY <1>2, <1>3, <1>5
<1>7. Len(p) <= Len(q \o d) /\ \A i \in 1..Len(p) : (q \o d)[i] = p[i]
  BY <1>4, <1>5, <1>6
<1> QED BY <1>1, <1>2, <1>7 DEF Path, Begins

LEMMA NumbersNext ==
    ASSUME BridgeInv, BridgeInv', NumbersInv, [Next]_vars
    PROVE  NumbersInv'
<1>0. RunInv /\ PathsInv' /\ SupervisorTypeOK /\ SupervisorTypeOK'
  BY DEF BridgeInv
<1>1. /\ heard \in Seq(Out) /\ up \in Seq(Out) /\ emitted \in Seq(Out)
      /\ heard' \in Seq(Out) /\ up' \in Seq(Out) /\ stdout' \in Seq(Out)
      /\ emitted' \in Seq(Out) /\ outHand' \in HandOf(Out)
  BY <1>0 DEF SupervisorTypeOK
<1>2. outHand' \in Seq(Out)
  BY <1>1, HandType
<1> USE DEF runVars, pipeVars, historyVars
<1>3. emitted' = emitted \/ emitted' = Append(emitted, Len(emitted) + 1)
  <2>1. CASE UNCHANGED vars \/ UNCHANGED supervisorVars
    BY <2>1 DEF vars, supervisorVars
  <2>2. CASE TunnelReads
    BY <2>2 DEF TunnelReads
  <2>3. CASE RunStep \/ WaitFails \/ ChildLeaves \/ ChildExits \/ BrokerSends \/ SocketBreaks
             \/ LossNoticed \/ ChildReads
    BY <2>3 DEF RunStep, Pull, ConnectWithRetry, Spawn, ReapChild, WaitChild, WaitFails, PushBack,
                ChildLeaves, ChildExits, BrokerSends, SocketBreaks, LossNoticed, ChildReads
  <2>4. CASE WsToStdin \/ StdoutToWs
    BY <2>4 DEF WsToStdin, StdoutToWs, ReadSocket, WriteStdin, SocketEnds, ReadStdout,
                ReadStdoutFails, SendSocket, StdoutEnds, EndBridge
  <2>5. CASE ChildWrites
    BY <2>5 DEF ChildWrites
  <2> QED BY <2>1, <2>2, <2>3, <2>4, <2>5 DEF Next
<1>4. /\ \A i \in 1..Len(emitted') : emitted'[i] = i
      /\ Len(emitted) <= Len(emitted') /\ Len(emitted) \in Nat /\ Len(emitted') \in Nat
  <2>1. Len(emitted) + 1 \in Nat
    BY <1>1
  <2>2. \A i \in 1..Len(emitted) : emitted[i] = i
    BY DEF NumbersInv
  <2>3. CASE emitted' = Append(emitted, Len(emitted) + 1)
    <3>1. /\ Len(emitted') = Len(emitted) + 1 /\ emitted'[Len(emitted) + 1] = Len(emitted) + 1
          /\ \A i \in 1..Len(emitted) : emitted'[i] = emitted[i]
      BY <1>1, <2>3
    <3>2. \A i \in 1..Len(emitted') : i \in 1..Len(emitted) \/ i = Len(emitted) + 1
      BY <1>1, <3>1
    <3>3. \A i \in 1..Len(emitted') : emitted'[i] = i
      BY <2>2, <3>1, <3>2
    <3>4. Len(emitted) \in Nat
      BY <1>1
    <3>5. Len(emitted) <= Len(emitted') /\ Len(emitted') \in Nat
      BY <3>1, <3>4
    <3> QED BY <3>3, <3>4, <3>5
  <2>4. CASE emitted' = emitted
    BY <1>1, <2>2, <2>4
  <2> QED BY <1>3, <2>3, <2>4
<1>5. CASE sock' \notin {"closed", "lost"}
  <2>1. emitted' = Path(heard', up', outHand', stdout')
    BY <1>0, <1>5 DEF PathsInv
  <2>2. /\ Len(heard' \o up') <= Len(emitted')
        /\ \A i \in 1..Len(heard' \o up') : emitted'[i] = (heard' \o up')[i]
    <3>1. Begins(emitted', heard', up')
      BY <1>1, <1>2, <2>1, PathPrefix
    <3> QED BY <3>1 DEF Begins
  <2>3. heard' \o up' \in Seq(Out)
    BY <1>1, ConcatProperties
  <2>4. \A i \in 1..Len(heard' \o up') : i \in 1..Len(emitted')
    BY <1>4, <2>2, <2>3
  <2>5. \A i \in 1..Len(heard' \o up') : (heard' \o up')[i] = i
    BY <1>4, <2>2, <2>4
  <2> QED BY <1>4, <2>2, <2>5 DEF NumbersInv
<1>6. CASE sock' \in {"closed", "lost"}
  <2>1. heard' \o up' = heard \o up \/ (heard' = heard /\ up' = <<>>)
    <3>1. CASE UNCHANGED vars \/ UNCHANGED supervisorVars
      BY <3>1 DEF vars, supervisorVars
    <3>2. CASE TunnelReads
      <4>1. up # <<>> /\ heard' = Append(heard, Head(up)) /\ up' = Tail(up)
        BY <3>2 DEF TunnelReads
      <4>2. heard \in Seq(Out) /\ up \in Seq(Out)
        BY <1>1
      <4>3. Append(heard, Head(up)) \o Tail(up) = heard \o up
        BY <4>1, <4>2, HeadMoves
      <4> QED BY <4>1, <4>3
    <3>3. CASE RunStep \/ WaitFails \/ ChildLeaves \/ ChildExits \/ BrokerSends \/ SocketBreaks
               \/ LossNoticed \/ ChildReads \/ ChildWrites
      BY <3>3 DEF RunStep, Pull, ConnectWithRetry, Spawn, ReapChild, WaitChild, WaitFails, PushBack,
                  ChildLeaves, ChildExits, BrokerSends, SocketBreaks, LossNoticed, ChildReads,
                  ChildWrites
    <3>4. CASE WsToStdin \/ StdoutToWs
      BY <1>6, <3>4 DEF WsToStdin, StdoutToWs, ReadSocket, WriteStdin, SocketEnds, ReadStdout,
                        ReadStdoutFails, SendSocket, StdoutEnds, EndBridge
    <3> QED BY <3>1, <3>2, <3>3, <3>4 DEF Next
  <2>2. CASE heard' \o up' = heard \o up
    <3>1. heard \o up \in Seq(Out)
      BY <1>1, ConcatProperties
    <3>2. PICK p \in Seq(Out) : p = heard \o up
      BY <3>1
    <3>3. Len(p) <= Len(emitted) /\ \A i \in 1..Len(p) : p[i] = i
      BY <3>2 DEF NumbersInv
    <3>4. Len(p) <= Len(emitted')
      BY <1>4, <3>3
    <3> QED BY <1>4, <2>2, <3>2, <3>3, <3>4 DEF NumbersInv
  <2>3. CASE heard' = heard /\ up' = <<>>
    <3>1. heard' \o up' = heard
      BY <1>1, <2>3, ConcatEmptySeq
    <3>2. /\ Len(heard) <= Len(heard \o up)
          /\ \A i \in 1..Len(heard) : i \in 1..Len(heard \o up) /\ heard[i] = (heard \o up)[i]
      BY <1>1, ConcatProperties
    <3>3. Len(heard) <= Len(emitted) /\ \A i \in 1..Len(heard) : heard[i] = i
      <4>1. PICK p \in Seq(Out) : p = heard \o up
        BY <1>1, ConcatProperties
      <4>2. Len(p) <= Len(emitted) /\ \A i \in 1..Len(p) : p[i] = i
        BY <4>1 DEF NumbersInv
      <4> QED BY <1>1, <3>2, <4>1, <4>2
    <3> QED BY <1>1, <1>4, <3>1, <3>3 DEF NumbersInv
  <2> QED BY <2>1, <2>2, <2>3
<1> QED BY <1>5, <1>6

(* The line the broker reads next, and how many it has read. *)
LEMMA ReadIsNext ==
    ASSUME BridgeInv, NumbersInv, up # <<>>
    PROVE  /\ Len(heard) \in Nat /\ Head(up) = Len(heard) + 1 /\ Head(up) \in Out
           /\ Len(Append(heard, Head(up))) = Len(heard) + 1
<1>1. heard \in Seq(Out) /\ up \in Seq(Out)
  BY DEF BridgeInv, SupervisorTypeOK
<1>2. Len(heard) + 1 \in 1..Len(heard \o up) /\ (heard \o up)[Len(heard) + 1] = up[1]
  BY <1>1, ConcatProperties
<1>3. \A i \in 1..Len(heard \o up) : (heard \o up)[i] = i
  BY DEF NumbersInv
<1>4. Head(up) = up[1] /\ Head(up) \in Out /\ Len(heard) \in Nat
  BY <1>1
<1>5. Len(Append(heard, Head(up))) = Len(heard) + 1
  BY <1>1, <1>4
<1> QED BY <1>2, <1>3, <1>4, <1>5

LEMMA HeardBounded ==
    ASSUME BridgeInv, NumbersInv
    PROVE  Len(heard) \in Nat /\ Len(heard) <= Len(emitted)
<1>1. heard \in Seq(Out) /\ up \in Seq(Out) /\ emitted \in Seq(Out)
  BY DEF BridgeInv, SupervisorTypeOK
<1>2. Len(heard \o up) = Len(heard) + Len(up)
  BY <1>1, ConcatProperties
<1>3. Len(heard) + Len(up) <= Len(emitted)
  BY <1>2 DEF NumbersInv
<1> QED BY <1>1, <1>3

LEMMA BusSteps ==
    ASSUME SessionInv, TunnelReads
    PROVE  FanoutTypeOK(Out)' /\ BusInv' /\ SeenInv'
<1>0. BridgeInv /\ NumbersInv /\ FanoutTypeOK(Out) /\ BusInv /\ SeenInv
  BY DEF SessionInv
<1>1. /\ up # <<>> /\ heard' = Append(heard, Head(up))
      /\ IF Head(up) \in Streamed THEN Publish(Head(up)) ELSE UNCHANGED fanoutVars
  BY DEF TunnelReads
<1>2. /\ Len(heard) \in Nat /\ Head(up) = Len(heard) + 1 /\ Head(up) \in Out
      /\ Len(heard') = Len(heard) + 1
  BY <1>0, <1>1, ReadIsNext
<1>3. /\ Len(bus) = Rank(Len(heard)) /\ bus \in Seq(Out) /\ Len(bus) \in Nat
      /\ \A k \in 1..Len(bus) : bus[k] \in Streamed /\ bus[k] <= Len(heard) /\ Rank(bus[k]) = k
  BY <1>0 DEF BusInv, FanoutTypeOK
<1>4. \A f \in Streamed : f \in Nat
  BY StreamedAssumption DEF Out
<1>5. CASE Head(up) \in Streamed
  <2>1. Publish(Head(up))
    BY <1>1, <1>5
  <2>2. FanoutTypeOK(Out)' /\ SeenInv'
    BY <1>0, <1>2, <2>1, PublishSteps
  <2>3. Rank(Len(heard) + 1) = Rank(Len(heard)) + 1
    BY <1>2, <1>5, RankStep
  <2>4. /\ Len(bus') = Len(bus) + 1 /\ bus'[Len(bus) + 1] = Len(heard) + 1
        /\ \A k \in 1..Len(bus) : bus'[k] = bus[k]
    <3>1. bus' = Append(bus, Head(up))
      BY <2>1 DEF Publish
    <3> QED BY <1>2, <1>3, <3>1
  <2>5. ASSUME NEW k \in 1..Len(bus')
        PROVE  bus'[k] \in Streamed /\ bus'[k] <= Len(heard') /\ Rank(bus'[k]) = k
    <3>1. CASE k \in 1..Len(bus)
      BY <1>2, <1>3, <1>4, <2>4, <3>1
    <3>2. CASE k = Len(bus) + 1
      BY <1>2, <1>3, <1>5, <2>3, <2>4, <3>2
    <3> QED BY <1>3, <2>4, <3>1, <3>2
  <2>6. Len(bus') = Rank(Len(heard'))
    BY <1>2, <1>3, <2>3, <2>4
  <2> QED BY <2>2, <2>5, <2>6 DEF BusInv
<1>6. CASE Head(up) \notin Streamed
  <2>1. UNCHANGED <<bus, joined, cursor, listening, seen, lagged>>
    BY <1>1, <1>6 DEF fanoutVars
  <2>2. FanoutTypeOK(Out)' /\ SeenInv'
    BY <1>0, <2>1 DEF FanoutTypeOK, SeenInv, Behind
  <2>3. Rank(Len(heard) + 1) = Rank(Len(heard))
    BY <1>2, <1>6, RankStep
  <2>4. BusInv'
    BY <1>2, <1>3, <1>4, <2>1, <2>3 DEF BusInv
  <2> QED BY <2>2, <2>4
<1> QED BY <1>5, <1>6

LEMMA SessionNextInv == SessionInv /\ [Next]_vars => SessionInv'
<1> SUFFICES ASSUME SessionInv, [Next]_vars PROVE SessionInv'
  OBVIOUS
<1>0. BridgeInv /\ NumbersInv /\ FanoutTypeOK(Out) /\ BusInv /\ SeenInv
  BY DEF SessionInv
<1>1. BridgeInv'
  BY <1>0, BridgeNextInv
<1>2. NumbersInv'
  BY <1>0, <1>1, NumbersNext
<1>3. ASSUME UNCHANGED fanoutVars, heard' = heard
      PROVE  FanoutTypeOK(Out)' /\ BusInv' /\ SeenInv'
  <2>1. UNCHANGED <<bus, joined, cursor, listening, seen, lagged>>
    BY <1>3 DEF fanoutVars
  <2>2. FanoutTypeOK(Out)' /\ SeenInv'
    BY <1>0, <2>1 DEF FanoutTypeOK, SeenInv, Behind
  <2>3. BusInv'
    BY <1>0, <1>3, <2>1 DEF BusInv
  <2> QED BY <2>2, <2>3
<1>4. ASSUME NEW s \in Subscribers, Subscribe(s) \/ Receive(s) \/ Unsubscribe(s),
             UNCHANGED supervisorVars
      PROVE  FanoutTypeOK(Out)' /\ BusInv' /\ SeenInv'
  <2>1. FanoutTypeOK(Out)' /\ SeenInv' /\ bus' = bus
    BY <1>0, <1>4, SubscriberSteps
  <2>2. heard' = heard
    BY <1>4 DEF supervisorVars, historyVars
  <2>3. BusInv'
    BY <1>0, <2>1, <2>2 DEF BusInv
  <2> QED BY <2>1, <2>3
<1>5. ASSUME \/ RunStep \/ WaitFails \/ WsToStdin \/ StdoutToWs
             \/ ChildReads \/ ChildWrites \/ ChildLeaves \/ ChildExits
             \/ BrokerSends \/ SocketBreaks \/ LossNoticed
      PROVE  heard' = heard
  <2> USE DEF historyVars
  <2>1. CASE RunStep \/ WaitFails \/ ChildLeaves \/ ChildExits \/ BrokerSends \/ SocketBreaks
             \/ LossNoticed \/ ChildReads \/ ChildWrites
    BY <2>1 DEF RunStep, Pull, ConnectWithRetry, Spawn, ReapChild, WaitChild, WaitFails, PushBack,
                ChildLeaves, ChildExits, BrokerSends, SocketBreaks, LossNoticed, ChildReads,
                ChildWrites
  <2>2. CASE WsToStdin \/ StdoutToWs
    BY <2>2 DEF WsToStdin, StdoutToWs, ReadSocket, WriteStdin, SocketEnds, ReadStdout,
                ReadStdoutFails, SendSocket, StdoutEnds, EndBridge
  <2> QED BY <1>5, <2>1, <2>2
<1>6. ASSUME UNCHANGED vars PROVE FanoutTypeOK(Out)' /\ BusInv' /\ SeenInv'
  <2>1. UNCHANGED fanoutVars /\ heard' = heard
    BY <1>6 DEF vars, supervisorVars, historyVars
  <2> QED BY <1>3, <2>1
<1>7. FanoutTypeOK(Out)' /\ BusInv' /\ SeenInv'
  BY <1>3, <1>4, <1>5, <1>6, BusSteps DEF Next
<1> QED BY <1>1, <1>2, <1>7 DEF SessionInv

LEMMA SessionInit == Init => SessionInv
<1> SUFFICES ASSUME Init PROVE SessionInv
  OBVIOUS
<1>1. BridgeInv
  BY BridgeInit
<1>2. /\ heard = <<>> /\ up = <<>> /\ emitted = <<>>
      /\ bus = <<>> /\ joined = [s \in Subscribers |-> 0] /\ cursor = [s \in Subscribers |-> 0]
      /\ listening = {} /\ lagged = {} /\ seen = [s \in Subscribers |-> <<>>]
  BY DEF Init, SupervisorInit, FanoutInit
<1>3. NumbersInv
  <2>1. heard \o up = <<>>
    BY <1>2, ConcatEmptySeq
  <2> QED BY <1>2, <2>1 DEF NumbersInv
<1>4. FanoutTypeOK(Out)
  BY <1>2 DEF FanoutTypeOK
<1>5. BusInv
  BY <1>2, RankZero DEF BusInv
<1>6. SeenInv
  BY <1>2 DEF SeenInv
<1> QED BY <1>1, <1>3, <1>4, <1>5, <1>6 DEF SessionInv

LEMMA SessionCorrect == Spec => []SessionInv
BY SessionInit, SessionNextInv, PTL DEF Spec

(* However the two halves of the select! interleave, and whatever pipe and *)
(* number of frames, nothing is lost, repeated or reordered between child  *)
(* and broker while the tunnel is whole, and a child that exits cleanly    *)
(* has been heard to the end (bridge.rs 24-126).                           *)
THEOREM BridgeFaithful == Spec => []BridgeOK
<1>1. SessionInv => BridgeOK
  <2> SUFFICES ASSUME SessionInv PROVE BridgeOK
    OBVIOUS
  <2>1. BridgeInv /\ SessionTypeOK /\ CleanExitLosesNothing /\ RunInv /\ PathsInv
    BY DEF SessionInv, BridgeInv, SessionTypeOK
  <2>2. BridgeConserves
    <3> SUFFICES ASSUME spc = "bridge", ~broke
                 PROVE  /\ pushed = told \o stdin \o inHand \o down
                        /\ emitted = heard \o up \o outHand \o stdout
      BY DEF BridgeConserves
    <3>1. sock = "up"
      BY <2>1 DEF RunInv
    <3>2. pushed = Path(told, stdin, inHand, down) /\ emitted = Path(heard, up, outHand, stdout)
      BY <2>1, <3>1 DEF PathsInv
    <3> QED BY <3>2 DEF Path
  <2> QED BY <2>1, <2>2 DEF BridgeOK
<1> QED BY <1>1, SessionCorrect, PTL

(* Any number of subscribers that come and go, over a tunnel that may      *)
(* break: who has not fallen behind by more than the buffer has exactly    *)
(* the stream notifications the child wrote, in its order, from the moment *)
(* of joining (broker.rs, run.rs, bridge.rs).                              *)
THEOREM GapsOnlyByLag == Spec => []GapOnlyByLag
<1>1. SessionInv => GapOnlyByLag
  <2> SUFFICES ASSUME SessionInv, NEW s \in Subscribers \ lagged
               PROVE  /\ Len(seen[s]) = cursor[s] - joined[s]
                      /\ \A k \in 1..Len(seen[s]) :
                            /\ seen[s][k] \in Streamed /\ seen[s][k] <= Len(emitted)
                            /\ Rank(seen[s][k]) = joined[s] + k
    BY DEF GapOnlyByLag
  <2>1. Len(heard) \in Nat /\ Len(heard) <= Len(emitted) /\ Len(emitted) \in Nat
    BY HeardBounded DEF SessionInv, BridgeInv, SupervisorTypeOK
  <2>2. /\ Len(seen[s]) = cursor[s] - joined[s]
        /\ \A k \in 1..Len(seen[s]) : seen[s][k] = bus[joined[s] + k]
    BY DEF SessionInv, SeenInv
  <2>3. /\ joined[s] \in Nat /\ cursor[s] \in Nat /\ cursor[s] <= Len(bus) /\ joined[s] <= cursor[s]
        /\ Len(bus) \in Nat
    BY DEF SessionInv, FanoutTypeOK
  <2>4. \A k \in 1..Len(seen[s]) : joined[s] + k \in 1..Len(bus)
    BY <2>2, <2>3
  <2>5. \A i \in 1..Len(bus) : bus[i] \in Streamed /\ bus[i] <= Len(heard) /\ Rank(bus[i]) = i
    BY DEF SessionInv, BusInv
  <2>6. \A f \in Streamed : f \in Nat
    BY StreamedAssumption DEF Out
  <2> QED BY <2>1, <2>2, <2>4, <2>5, <2>6
<1> QED BY <1>1, SessionCorrect, PTL
=============================================================================
