--------------------------- MODULE AgentLoopProofs ---------------------------
(***************************************************************************)
(* Theorems about the agent process, for any number of messages, cancels,  *)
(* iterations, tool calls and boot histories: what it makes of the lines   *)
(* on its stdin, and the context it calls the LLM with.                    *)
(***************************************************************************)
EXTENDS AgentLoop, CompactionProofs, SequenceTheorems

-----------------------------------------------------------------------------
(* The loop uses the client only through its operations.                   *)

Lines == {l \in [push : BOOLEAN, line : Pushes \cup Values, id : Nat] :
             IF l.push THEN l.line \in Pushes ELSE l.line \in Values}

AcpTypeOK ==
    /\ stdin \in Seq(Lines) /\ eof \in BOOLEAN /\ stdout \in BOOLEAN
    /\ pending \in Seq(Pushes) /\ taken \in Seq(Pushes) /\ arrived \in Seq(Pushes)
    /\ asked \in Seq(Nat) /\ lastId \in Nat
    /\ reply \in {"none", "waiting"} \cup Values

AcpStep ==
    \/ SendRequest \/ BufferNotification \/ ReadResponse
    \/ \E values \in SUBSET Values : Returned(values)
    \/ \E p \in Pushes : RecvNotification(p) \/ PeerPushes(p)
    \/ \E v \in Values : PeerAnswers(v)
    \/ CloseStdin \/ BreakStdout
    \/ UNCHANGED acpVars

LEMMA LoopStepIsAcpStep == [Next]_vars => AcpStep
<1> SUFFICES ASSUME [Next]_vars PROVE AcpStep
  OBVIOUS
<1>1. Values \in SUBSET Values /\ {"yes", "no"} \in SUBSET Values /\ {"error"} \in SUBSET Values
      /\ {"yes", "error"} \in SUBSET Values /\ {"no"} \in SUBSET Values
  BY DEF Values
<1>2. ASSUME NEW values \in SUBSET Values, Returned(values) PROVE AcpStep
  BY <1>2 DEF AcpStep
<1>3. CASE UNCHANGED vars
  BY <1>3 DEF vars, AcpStep
<1>4. CASE Request \/ AwaitResponse
  BY <1>4 DEF Request, AwaitResponse, AcpStep
<1>5. CASE ToolsListed \/ Initialized \/ QuotaChecked \/ QuotaUpdated \/ AcpToolReturned
  BY <1>1, <1>2, <1>5 DEF ToolsListed, Initialized, QuotaChecked, QuotaUpdated, AcpToolReturned
<1>6. CASE \/ \E p \in Users : StartTurn(p)
           \/ \E p \in BadUsers \cup Cancels : Leave(p)
  BY <1>6 DEF StartTurn, Leave, AcpStep, Pushes
<1>7. CASE \/ ReadFails \/ Check \/ SkipCompaction \/ CompactFails
           \/ Scaffold \/ LlmFails \/ Absorb \/ CallAcpTool \/ TurnEnd
  BY <1>7 DEF ReadFails, RecvFails, Check, SkipCompaction, CompactFails, Scaffold, LlmFails, Absorb,
              CallAcpTool, TurnEnd, AcpStep
<1>8. CASE \/ \E s \in {"text", "empty"} : Compact(s)
           \/ \E r \in Responses : LlmAnswers(r)
           \/ RejectArguments \/ RunLocalTool
  BY <1>8 DEF Compact, LlmAnswers, RejectArguments, RunLocalTool, AcpStep
<1>9. CASE Broker \/ (\E p \in Pushes : PeerPushes(p)) \/ CloseStdin \/ BreakStdout
  BY <1>9 DEF Broker, AcpStep
<1> QED BY <1>3, <1>4, <1>5, <1>6, <1>7, <1>8, <1>9 DEF Next, Agent

-----------------------------------------------------------------------------
(* Lines taken from the front of stdin and written at its end.             *)

FromStdin(a, b) == a # <<>> /\ b = Tail(a)
WrittenTo(a, b, l) == b = Append(a, l)

LEMMA TailOfLines ==
    ASSUME NEW S, NEW a \in Seq(S), NEW b, FromStdin(a, b)
    PROVE  /\ b \in Seq(S) /\ Len(a) = Len(b) + 1 /\ Len(b) \in Nat
           /\ Head(a) = a[1] /\ Head(a) \in S
           /\ \A i \in 1..Len(b) : b[i] = a[i + 1]
BY DEF FromStdin

LEMMA AppendToLines ==
    ASSUME NEW S, NEW a \in Seq(S), NEW b, NEW l \in S, WrittenTo(a, b, l)
    PROVE  /\ b \in Seq(S) /\ Len(b) = Len(a) + 1 /\ Len(a) \in Nat
           /\ b[Len(b)] = l
           /\ \A i \in 1..Len(a) : b[i] = a[i]
BY DEF WrittenTo

(* Type correctness of the client. *)
LEMMA AcpTypeCorrect == Spec => []AcpTypeOK
<1>1. Init => AcpTypeOK
  <2>1. <<>> \in Seq(Lines) /\ <<>> \in Seq(Pushes) /\ <<>> \in Seq(Nat)
    OBVIOUS
  <2>2. 0 \in Nat
    OBVIOUS
  <2> QED BY <2>1, <2>2, Zenon DEF Init, AcpInit, AcpTypeOK
<1>2. AcpTypeOK /\ [Next]_vars => AcpTypeOK'
  <2> SUFFICES ASSUME AcpTypeOK, AcpStep PROVE AcpTypeOK'
    BY LoopStepIsAcpStep
  <2>1. CASE SendRequest
    <3>1. (lastId + 1) % IdSpan \in Nat
      BY AcpAssumption DEF AcpTypeOK
    <3>2. Append(asked, (lastId + 1) % IdSpan) \in Seq(Nat)
      BY <3>1 DEF AcpTypeOK
    <3>3. asked' \in Seq(Nat)
      BY <2>1, <3>2, Zenon DEF SendRequest, AcpTypeOK
    <3> QED BY <2>1, <3>1, <3>3 DEF SendRequest, AcpTypeOK, Values
  <2>2. ASSUME stdin # <<>>
        PROVE  /\ Tail(stdin) \in Seq(Lines) /\ Head(stdin) \in Lines
               /\ Head(stdin).push => Head(stdin).line \in Pushes
               /\ ~Head(stdin).push => Head(stdin).line \in Values
    <3>1. Tail(stdin) \in Seq(Lines) /\ Head(stdin) \in Lines
      BY <2>2 DEF AcpTypeOK
    <3> QED BY <3>1 DEF Lines
  <2>3. CASE BufferNotification
    BY <2>2, <2>3 DEF BufferNotification, AcpTypeOK
  <2>4. CASE ReadResponse
    <3>1. reply' \in Values
      BY <2>2, <2>4 DEF ReadResponse, Values
    <3>2. stdin' \in Seq(Lines)
      BY <2>2, <2>4 DEF ReadResponse, AcpTypeOK
    <3> QED BY <2>4, <3>1, <3>2 DEF ReadResponse, AcpTypeOK
  <2>5. CASE \E values \in SUBSET Values : Returned(values)
    BY <2>5 DEF Returned, AcpTypeOK
  <2>6. ASSUME NEW p \in Pushes, RecvNotification(p) PROVE AcpTypeOK'
    <3>1. stdin' \in Seq(Lines)
      BY <2>2, <2>6 DEF RecvNotification, AcpTypeOK
    <3>2. pending' \in Seq(Pushes)
      <4>1. pending # <<>> => Tail(pending) \in Seq(Pushes)
        BY DEF AcpTypeOK
      <4> QED BY <2>6, <4>1, Zenon DEF RecvNotification, AcpTypeOK
    <3>3. Append(taken, p) \in Seq(Pushes)
      BY DEF AcpTypeOK
    <3>4. taken' \in Seq(Pushes)
      BY <2>6, <3>3, Zenon DEF RecvNotification
    <3> QED BY <2>6, <3>1, <3>2, <3>4 DEF RecvNotification, AcpTypeOK
  <2>7. ASSUME NEW p \in Pushes, PeerPushes(p) PROVE AcpTypeOK'
    <3>1. Push(p) \in Lines
      BY DEF Push, Lines
    <3>2. stdin' \in Seq(Lines) /\ arrived' \in Seq(Pushes)
      BY <2>7, <3>1 DEF PeerPushes, AcpTypeOK
    <3> QED BY <2>7, <3>2 DEF PeerPushes, AcpTypeOK
  <2>8. ASSUME NEW v \in Values, PeerAnswers(v) PROVE AcpTypeOK'
    <3>1. Head(asked) \in Nat /\ Tail(asked) \in Seq(Nat)
      BY <2>8 DEF PeerAnswers, AcpTypeOK
    <3>2. Response(Head(asked), v) \in Lines
      BY <3>1 DEF Response, Lines
    <3>3. stdin' \in Seq(Lines)
      BY <2>8, <3>2 DEF PeerAnswers, AcpTypeOK
    <3> QED BY <2>8, <3>1, <3>3 DEF PeerAnswers, AcpTypeOK
  <2>9. CASE CloseStdin \/ BreakStdout \/ UNCHANGED acpVars
    BY <2>9 DEF CloseStdin, BreakStdout, acpVars, AcpTypeOK
  <2> QED BY <2>1, <2>3, <2>4, <2>5, <2>6, <2>7, <2>8, <2>9 DEF AcpStep
<1> QED BY <1>1, <1>2, PTL DEF Spec

-----------------------------------------------------------------------------
(* Responses under way on stdin: none, or one, to the given request.       *)

NoResponseOn(s) == \A i \in 1..Len(s) : s[i].push
OneResponseOn(s, id) ==
    \E i \in 1..Len(s) : /\ ~s[i].push /\ s[i].id = id
                         /\ \A k \in 1..Len(s) \ {i} : s[k].push

LEMMA ReadingAPush ==
    ASSUME NEW a \in Seq(Lines), NEW b, FromStdin(a, b), Head(a).push
    PROVE  /\ NoResponseOn(a) => NoResponseOn(b)
           /\ \A id : OneResponseOn(a, id) => OneResponseOn(b, id)
<1>1. /\ Len(a) = Len(b) + 1 /\ Len(b) \in Nat /\ Head(a) = a[1]
      /\ \A i \in 1..Len(b) : b[i] = a[i + 1]
  BY TailOfLines
<1>2. NoResponseOn(a) => NoResponseOn(b)
  BY <1>1 DEF NoResponseOn
<1>3. ASSUME NEW id, OneResponseOn(a, id) PROVE OneResponseOn(b, id)
  <2>1. PICK i \in 1..Len(a) : /\ ~a[i].push /\ a[i].id = id
                               /\ \A k \in 1..Len(a) \ {i} : a[k].push
    BY <1>3, Zenon DEF OneResponseOn
  <2>2. i # 1 /\ i - 1 \in 1..Len(b)
    BY <1>1, <2>1
  <2>3. b[i - 1] = a[i]
    BY <1>1, <2>1, <2>2
  <2>4. \A k \in 1..Len(b) \ {i - 1} : b[k].push
    BY <1>1, <2>1, <2>2
  <2> QED BY <2>1, <2>2, <2>3, <2>4 DEF OneResponseOn
<1> QED BY <1>2, <1>3

LEMMA ReadingAResponse ==
    ASSUME NEW a \in Seq(Lines), NEW b, FromStdin(a, b), ~Head(a).push
    PROVE  /\ ~NoResponseOn(a)
           /\ \A id : OneResponseOn(a, id) => NoResponseOn(b)
<1>1. /\ Len(a) = Len(b) + 1 /\ Len(b) \in Nat /\ Head(a) = a[1]
      /\ \A i \in 1..Len(b) : b[i] = a[i + 1]
  BY TailOfLines
<1>2. ~NoResponseOn(a)
  BY <1>1 DEF NoResponseOn
<1>3. ASSUME NEW id, OneResponseOn(a, id) PROVE NoResponseOn(b)
  <2>1. PICK i \in 1..Len(a) : \A k \in 1..Len(a) \ {i} : a[k].push
    BY <1>3, Zenon DEF OneResponseOn
  <2>2. i = 1
    BY <1>1, <2>1
  <2>3. \A k \in 1..Len(b) : k + 1 \in 1..Len(a) \ {i}
    BY <1>1, <2>2
  <2> QED BY <1>1, <2>1, <2>3 DEF NoResponseOn
<1> QED BY <1>2, <1>3

LEMMA WritingALine ==
    ASSUME NEW a \in Seq(Lines), NEW b, NEW l \in Lines, WrittenTo(a, b, l)
    PROVE  /\ l.push /\ NoResponseOn(a) => NoResponseOn(b)
           /\ ~l.push /\ NoResponseOn(a) => OneResponseOn(b, l.id)
           /\ \A id : l.push /\ OneResponseOn(a, id) => OneResponseOn(b, id)
<1>1. /\ Len(b) = Len(a) + 1 /\ Len(a) \in Nat /\ b[Len(b)] = l
      /\ \A i \in 1..Len(a) : b[i] = a[i]
  BY AppendToLines
<1>2. \A i \in 1..Len(b) : i # Len(b) => i \in 1..Len(a) /\ b[i] = a[i]
  BY <1>1
<1>3. 1..Len(a) \subseteq 1..Len(b) /\ Len(b) \in 1..Len(b) /\ Len(b) \notin 1..Len(a)
  BY <1>1
<1>4. l.push /\ NoResponseOn(a) => NoResponseOn(b)
  BY <1>1, <1>2 DEF NoResponseOn
<1>5. ~l.push /\ NoResponseOn(a) => OneResponseOn(b, l.id)
  BY <1>1, <1>2, <1>3, Zenon DEF NoResponseOn, OneResponseOn
<1>6. ASSUME NEW id, l.push, OneResponseOn(a, id) PROVE OneResponseOn(b, id)
  <2>1. PICK i \in 1..Len(a) : /\ ~a[i].push /\ a[i].id = id
                               /\ \A k \in 1..Len(a) \ {i} : a[k].push
    BY <1>6, Zenon DEF OneResponseOn
  <2>2. i \in 1..Len(b) /\ b[i] = a[i]
    BY <1>1, <1>3, <2>1
  <2>3. \A k \in 1..Len(b) \ {i} : b[k].push
    BY <1>1, <1>2, <1>6, <2>1
  <2> QED BY <2>1, <2>2, <2>3, Zenon DEF OneResponseOn
<1> QED BY <1>4, <1>5, <1>6

(* OwnAnswer, by the position of the request. *)
LEMMA OwnAnswerCases ==
    OwnAnswer <=>
        (~eof => \/ reply # "waiting" /\ asked = <<>> /\ NoResponseOn(stdin)
                 \/ reply = "waiting" /\ asked = <<lastId>> /\ NoResponseOn(stdin)
                 \/ reply = "waiting" /\ asked = <<>> /\ OneResponseOn(stdin, lastId))
BY Zenon DEF OwnAnswer, NoResponseOn, OneResponseOn

(* The client reads the next response without looking at its id            *)
(* (acp.rs 126-157), and it is always the one to the request it waits for, *)
(* whatever the agent asks, however its turns end and whenever the peer    *)
(* pushes: while stdin is open, no response is ever left behind.           *)
THEOREM OwnAnswers == Spec => []OwnAnswer
<1>1. Init => OwnAnswer
  BY DEF Init, AcpInit, OwnAnswer
<1>2. AcpTypeOK /\ AcpTypeOK' /\ OwnAnswer /\ [Next]_vars => OwnAnswer'
  <2> SUFFICES ASSUME AcpTypeOK, AcpTypeOK', OwnAnswer, AcpStep PROVE OwnAnswer'
    BY LoopStepIsAcpStep
  <2>e. eof => eof'
    BY DEF AcpStep, SendRequest, BufferNotification, ReadResponse, Returned, RecvNotification,
           PeerPushes, PeerAnswers, CloseStdin, BreakStdout, acpVars
  <2>f. eof' => OwnAnswer'
    BY DEF OwnAnswer
  <2> SUFFICES ASSUME ~eof, ~eof' PROVE OwnAnswer'
    BY <2>e, <2>f
  <2> DEFINE Idle == reply # "waiting" /\ asked = <<>> /\ NoResponseOn(stdin)
             Sent == reply = "waiting" /\ asked = <<lastId>> /\ NoResponseOn(stdin)
             Answered == reply = "waiting" /\ asked = <<>> /\ OneResponseOn(stdin, lastId)
  <2>a. Idle \/ Sent \/ Answered
    BY OwnAnswerCases
  <2>b. Idle' \/ Sent' \/ Answered' => OwnAnswer'
    BY OwnAnswerCases, PTL
  <2>t. /\ stdin \in Seq(Lines)
        /\ \A v \in Values : v # "waiting"
    BY DEF AcpTypeOK, Values
  <2> HIDE DEF Idle, Sent, Answered
  <2> SUFFICES Idle' \/ Sent' \/ Answered'
    BY <2>b
  <2>1. CASE SendRequest
    <3>1. Idle
      BY <2>a, <2>1 DEF SendRequest, Idle, Sent, Answered
    <3>2. CASE stdout
      BY <2>1, <3>1, <3>2 DEF SendRequest, Idle, Sent
    <3>3. CASE ~stdout
      BY <2>1, <3>1, <3>3 DEF SendRequest, Idle
    <3> QED BY <3>2, <3>3
  <2>2. CASE BufferNotification
    <3>1. FromStdin(stdin, stdin') /\ Head(stdin).push
      BY <2>2 DEF BufferNotification, FromStdin
    <3>2. /\ NoResponseOn(stdin) => NoResponseOn(stdin')
          /\ OneResponseOn(stdin, lastId) => OneResponseOn(stdin', lastId)
      BY <2>t, <3>1, ReadingAPush
    <3> QED BY <2>a, <2>2, <3>2 DEF BufferNotification, Idle, Sent, Answered
  <2>3. CASE ReadResponse
    <3>1. FromStdin(stdin, stdin') /\ ~Head(stdin).push
      BY <2>3 DEF ReadResponse, FromStdin
    <3>2. ~NoResponseOn(stdin) /\ (OneResponseOn(stdin, lastId) => NoResponseOn(stdin'))
      BY <2>t, <3>1, ReadingAResponse
    <3>3. reply' # "waiting"
      <4>1. Head(stdin) \in Lines
        BY <2>t, <3>1, TailOfLines
      <4> QED BY <2>t, <2>3, <3>1, <4>1 DEF ReadResponse, Lines
    <3> QED BY <2>a, <2>3, <3>2, <3>3 DEF ReadResponse, Idle, Sent, Answered
  <2>4. CASE \E values \in SUBSET Values : Returned(values)
    BY <2>a, <2>t, <2>4 DEF Returned, Idle, Sent, Answered
  <2>5. ASSUME NEW p \in Pushes, RecvNotification(p) PROVE Idle' \/ Sent' \/ Answered'
    <3>1. stdin' = stdin \/ (FromStdin(stdin, stdin') /\ Head(stdin).push)
      <4>1. Push(p).push
        BY DEF Push
      <4> QED BY <2>5, <4>1 DEF RecvNotification, FromStdin
    <3>2. /\ NoResponseOn(stdin) => NoResponseOn(stdin')
          /\ OneResponseOn(stdin, lastId) => OneResponseOn(stdin', lastId)
      BY <2>t, <3>1, ReadingAPush
    <3> QED BY <2>a, <2>5, <3>2 DEF RecvNotification, Idle, Sent, Answered
  <2>6. ASSUME NEW p \in Pushes, PeerPushes(p) PROVE Idle' \/ Sent' \/ Answered'
    <3>1. Push(p) \in Lines /\ Push(p).push
      BY DEF Push, Lines
    <3>2. WrittenTo(stdin, stdin', Push(p))
      BY <2>6 DEF PeerPushes, WrittenTo
    <3>3. /\ NoResponseOn(stdin) => NoResponseOn(stdin')
          /\ OneResponseOn(stdin, lastId) => OneResponseOn(stdin', lastId)
      BY <2>t, <3>1, <3>2, WritingALine
    <3> QED BY <2>a, <2>6, <3>3 DEF PeerPushes, Idle, Sent, Answered
  <2>7. ASSUME NEW v \in Values, PeerAnswers(v) PROVE Idle' \/ Sent' \/ Answered'
    <3>1. Sent
      BY <2>a, <2>7 DEF PeerAnswers, Idle, Sent, Answered
    <3>2. Head(asked) = lastId /\ Tail(asked) = <<>> /\ lastId \in Nat
      BY <3>1 DEF Sent, AcpTypeOK
    <3>3. /\ Response(lastId, v) \in Lines
          /\ ~Response(lastId, v).push /\ Response(lastId, v).id = lastId
      BY <3>2 DEF Response, Lines
    <3>4. WrittenTo(stdin, stdin', Response(lastId, v))
      BY <2>7, <3>2 DEF PeerAnswers, WrittenTo
    <3>5. OneResponseOn(stdin', lastId)
      <4>1. NoResponseOn(stdin)
        BY <3>1 DEF Sent
      <4> QED BY <2>t, <3>3, <3>4, <4>1, WritingALine
    <3> QED BY <2>7, <3>1, <3>2, <3>5 DEF PeerAnswers, Sent, Answered
  <2>8. CASE CloseStdin \/ BreakStdout \/ UNCHANGED acpVars
    BY <2>a, <2>8 DEF CloseStdin, BreakStdout, acpVars, Idle, Sent, Answered
  <2> QED BY <2>1, <2>2, <2>3, <2>4, <2>5, <2>6, <2>7, <2>8 DEF AcpStep
<1> QED BY <1>1, <1>2, AcpTypeCorrect, PTL DEF Spec

-----------------------------------------------------------------------------
(* What stdin holds of the notifications that arrived: all but the first   *)
(* `read', in their order.                                                 *)

Distinct(arr) == \A i, k \in 1..Len(arr) : arr[i] = arr[k] => i = k
OnStdin(s, read, arr) ==
    /\ \A i \in 1..Len(s) : s[i].push => \E j \in (read + 1)..Len(arr) : s[i].line = arr[j]
    /\ \A j \in (read + 1)..Len(arr) : \E i \in 1..Len(s) : s[i].push /\ s[i].line = arr[j]
    /\ \A i, k \in 1..Len(s), j, l \in 1..Len(arr) :
          s[i].push /\ s[k].push /\ i < k /\ s[i].line = arr[j] /\ s[k].line = arr[l] => j < l
Handed(t, p, arr) ==
    /\ Len(t) + Len(p) <= Len(arr)
    /\ \A j \in 1..Len(t) : t[j] = arr[j]
    /\ \A j \in 1..Len(p) : p[j] = arr[Len(t) + j]

LEMMA OrderOnStdin ==
    ASSUME NEW s, NEW read, NEW arr, OnStdin(s, read, arr),
           NEW i \in 1..Len(s), NEW k \in 1..Len(s), NEW j \in 1..Len(arr), NEW l \in 1..Len(arr),
           s[i].push, s[k].push, i < k, s[i].line = arr[j], s[k].line = arr[l]
    PROVE  j < l
BY Zenon DEF OnStdin

LEMMA PushOnStdin ==
    ASSUME NEW s, NEW read, NEW arr, OnStdin(s, read, arr), NEW i \in 1..Len(s), s[i].push
    PROVE  \E j \in (read + 1)..Len(arr) : s[i].line = arr[j]
BY Zenon DEF OnStdin

(* A response goes, or comes. *)
LEMMA ResponseTaken ==
    ASSUME NEW a \in Seq(Lines), NEW b, FromStdin(a, b), ~Head(a).push,
           NEW arr \in Seq(Pushes), NEW read \in Nat, OnStdin(a, read, arr)
    PROVE  OnStdin(b, read, arr)
<1>1. /\ Len(a) = Len(b) + 1 /\ Len(b) \in Nat /\ Head(a) = a[1]
      /\ \A i \in 1..Len(b) : b[i] = a[i + 1]
  BY TailOfLines
<1>2. \A i \in 1..Len(b) : i + 1 \in 1..Len(a)
  BY <1>1
<1>3. ASSUME NEW i \in 1..Len(b), b[i].push
      PROVE  \E j \in (read + 1)..Len(arr) : b[i].line = arr[j]
  <2>1. i + 1 \in 1..Len(a) /\ b[i] = a[i + 1]
    BY <1>1, <1>2
  <2>2. \E j \in (read + 1)..Len(arr) : a[i + 1].line = arr[j]
    BY <1>3, <2>1, PushOnStdin
  <2> QED BY <2>1, <2>2
<1>4. ASSUME NEW j \in (read + 1)..Len(arr) PROVE \E i \in 1..Len(b) : b[i].push /\ b[i].line = arr[j]
  <2>1. PICK i \in 1..Len(a) : a[i].push /\ a[i].line = arr[j]
    BY <1>4, Zenon DEF OnStdin
  <2>2. i - 1 \in 1..Len(b) /\ b[i - 1] = a[i]
    BY <1>1, <2>1
  <2> QED BY <2>1, <2>2
<1>5. ASSUME NEW i \in 1..Len(b), NEW k \in 1..Len(b), NEW j \in 1..Len(arr), NEW l \in 1..Len(arr),
             b[i].push /\ b[k].push /\ i < k /\ b[i].line = arr[j] /\ b[k].line = arr[l]
      PROVE  j < l
  <2>1. /\ b[i] = a[i + 1] /\ b[k] = a[k + 1] /\ i + 1 < k + 1
        /\ i + 1 \in 1..Len(a) /\ k + 1 \in 1..Len(a)
    BY <1>1, <1>2, <1>5
  <2> QED BY <1>5, <2>1, OrderOnStdin
<1> QED BY <1>3, <1>4, <1>5 DEF OnStdin

LEMMA ResponseWritten ==
    ASSUME NEW a \in Seq(Lines), NEW b, NEW l \in Lines, WrittenTo(a, b, l), ~l.push,
           NEW arr \in Seq(Pushes), NEW read \in Nat, OnStdin(a, read, arr)
    PROVE  OnStdin(b, read, arr)
<1>1. /\ Len(b) = Len(a) + 1 /\ Len(a) \in Nat /\ b[Len(b)] = l
      /\ \A i \in 1..Len(a) : b[i] = a[i]
  BY AppendToLines
<1>2. \A i \in 1..Len(b) : b[i].push => i \in 1..Len(a) /\ b[i] = a[i]
  BY <1>1
<1>3. \A i \in 1..Len(a) : i \in 1..Len(b) /\ b[i] = a[i]
  BY <1>1
<1>4. ASSUME NEW i \in 1..Len(b), b[i].push
      PROVE  \E j \in (read + 1)..Len(arr) : b[i].line = arr[j]
  <2>1. i \in 1..Len(a) /\ b[i] = a[i]
    BY <1>2, <1>4
  <2>2. \E j \in (read + 1)..Len(arr) : a[i].line = arr[j]
    BY <1>4, <2>1, PushOnStdin
  <2> QED BY <2>1, <2>2
<1>5. \A j \in (read + 1)..Len(arr) : \E i \in 1..Len(b) : b[i].push /\ b[i].line = arr[j]
  BY SMTT(30), <1>3 DEF OnStdin
<1>6. ASSUME NEW i \in 1..Len(b), NEW k \in 1..Len(b), NEW j \in 1..Len(arr), NEW m \in 1..Len(arr),
             b[i].push /\ b[k].push /\ i < k /\ b[i].line = arr[j] /\ b[k].line = arr[m]
      PROVE  j < m
  BY <1>2, <1>6 DEF OnStdin
<1> QED BY <1>4, <1>5, <1>6 DEF OnStdin

(* The first notification on stdin is the next one to hand on. *)
LEMMA PushTaken ==
    ASSUME NEW a \in Seq(Lines), NEW b, FromStdin(a, b), Head(a).push,
           NEW arr \in Seq(Pushes), Distinct(arr), NEW read \in Nat, OnStdin(a, read, arr)
    PROVE  /\ read < Len(arr) /\ Head(a).line = arr[read + 1]
           /\ OnStdin(b, read + 1, arr)
<1>1. /\ Len(a) = Len(b) + 1 /\ Len(b) \in Nat /\ Head(a) = a[1]
      /\ \A i \in 1..Len(b) : b[i] = a[i + 1]
  BY TailOfLines
<1>2. \A i \in 1..Len(b) : i + 1 \in 1..Len(a)
  BY <1>1
<1>3. Len(arr) \in Nat /\ 1 \in 1..Len(a)
  BY <1>1
<1>4. PICK f \in (read + 1)..Len(arr) : a[1].line = arr[f]
  BY <1>1, <1>3, Zenon DEF OnStdin
<1>5. f = read + 1
  <2>1. read + 1 \in (read + 1)..Len(arr)
    BY <1>3, <1>4
  <2>2. PICK i \in 1..Len(a) : a[i].push /\ a[i].line = arr[read + 1]
    BY <2>1, Zenon DEF OnStdin
  <2>3. f \in 1..Len(arr) /\ read + 1 \in 1..Len(arr)
    BY <1>3, <1>4, <2>1
  <2>4. CASE i = 1
    BY <1>4, <2>2, <2>3, <2>4, Zenon DEF Distinct
  <2>5. CASE i # 1
    <3>1. 1 < i
      BY <2>5
    <3>2. f < read + 1
      BY ZenonT(30), <1>1, <1>3, <1>4, <2>2, <2>3, <3>1, OrderOnStdin
    <3> QED BY <1>3, <1>4, <3>2
  <2> QED BY <2>4, <2>5
<1>6. ASSUME NEW i \in 1..Len(b), b[i].push
      PROVE  \E j \in (read + 1 + 1)..Len(arr) : b[i].line = arr[j]
  <2>1. i + 1 \in 1..Len(a) /\ a[i + 1].push /\ b[i] = a[i + 1] /\ 1 < i + 1
    BY <1>1, <1>2, <1>6
  <2>2. PICK j \in (read + 1)..Len(arr) : a[i + 1].line = arr[j]
    BY <2>1, Zenon DEF OnStdin
  <2>3. j \in 1..Len(arr) /\ f \in 1..Len(arr)
    BY <1>3, <1>4, <2>2
  <2>4. f < j
    <3>1. a[1].push
      BY <1>1
    <3>2. PICK k \in 1..Len(a) : k = i + 1
      BY <2>1
    <3>3. a[k].push /\ a[k].line = arr[j] /\ 1 < k
      BY <2>1, <2>2, <3>2
    <3> QED BY <1>3, <1>4, <2>3, <3>1, <3>3, OrderOnStdin
  <2> QED BY <1>3, <1>5, <2>1, <2>2, <2>4
<1>7. ASSUME NEW j \in (read + 1 + 1)..Len(arr)
      PROVE  \E i \in 1..Len(b) : b[i].push /\ b[i].line = arr[j]
  <2>1. j \in (read + 1)..Len(arr) /\ j # f /\ j \in 1..Len(arr) /\ f \in 1..Len(arr)
    BY <1>3, <1>5, <1>7
  <2>2. PICK i \in 1..Len(a) : a[i].push /\ a[i].line = arr[j]
    BY <2>1, Zenon DEF OnStdin
  <2>3. i # 1
    BY <1>4, <2>1, <2>2, Zenon DEF Distinct
  <2>4. i - 1 \in 1..Len(b) /\ b[i - 1] = a[i]
    BY <1>1, <2>3
  <2> QED BY <2>2, <2>4
<1>8. ASSUME NEW i \in 1..Len(b), NEW k \in 1..Len(b), NEW j \in 1..Len(arr), NEW l \in 1..Len(arr),
             b[i].push /\ b[k].push /\ i < k /\ b[i].line = arr[j] /\ b[k].line = arr[l]
      PROVE  j < l
  <2>1. /\ b[i] = a[i + 1] /\ b[k] = a[k + 1] /\ i + 1 < k + 1
        /\ i + 1 \in 1..Len(a) /\ k + 1 \in 1..Len(a)
    <3>1. i < k => i + 1 < k + 1
      OBVIOUS
    <3> QED BY <1>1, <1>2, <1>8, <3>1, Zenon
  <2> QED BY <1>8, <2>1, OrderOnStdin
<1>9. OnStdin(b, read + 1, arr)
  BY <1>6, <1>7, <1>8, Zenon DEF OnStdin
<1> QED BY <1>1, <1>3, <1>4, <1>5, <1>9

(* A notification that is new goes to the end. *)
LEMMA PushWritten ==
    ASSUME NEW a \in Seq(Lines), NEW b, NEW p \in Pushes, WrittenTo(a, b, Push(p)),
           NEW arr \in Seq(Pushes), NEW arr2, WrittenTo(arr, arr2, p),
           Distinct(arr), \A i \in 1..Len(arr) : arr[i] # p,
           NEW read \in Nat, read <= Len(arr), OnStdin(a, read, arr)
    PROVE  Distinct(arr2) /\ OnStdin(b, read, arr2)
<1>0. Push(p) \in Lines /\ Push(p).push /\ Push(p).line = p
  BY DEF Push, Lines
<1> HIDE DEF Push
<1>1. /\ Len(b) = Len(a) + 1 /\ Len(a) \in Nat /\ b[Len(b)] = Push(p)
      /\ \A i \in 1..Len(a) : b[i] = a[i]
  BY <1>0, AppendToLines
<1>2. /\ Len(arr2) = Len(arr) + 1 /\ Len(arr) \in Nat /\ arr2[Len(arr2)] = p
      /\ \A i \in 1..Len(arr) : arr2[i] = arr[i]
  BY AppendToLines
<1>3. Distinct(arr2)
  BY <1>2 DEF Distinct
<1>4. /\ \A i \in 1..Len(b) : i = Len(b) \/ (i \in 1..Len(a) /\ b[i] = a[i])
      /\ \A i \in 1..Len(a) : i \in 1..Len(b) /\ b[i] = a[i] /\ i < Len(b)
      /\ Len(b) \in 1..Len(b)
  BY <1>1
<1>5. /\ \A i \in 1..Len(arr2) : i = Len(arr2) \/ (i \in 1..Len(arr) /\ arr2[i] = arr[i])
      /\ \A i \in (read + 1)..Len(arr2) :
            i = Len(arr2) \/ (i \in (read + 1)..Len(arr) /\ arr2[i] = arr[i])
      /\ \A i \in (read + 1)..Len(arr) : /\ i \in (read + 1)..Len(arr2) /\ arr2[i] = arr[i]
                                         /\ i < Len(arr2) /\ i \in 1..Len(arr)
      /\ Len(arr2) \in (read + 1)..Len(arr2)
      /\ \A i \in 1..Len(arr) : i < Len(arr2)
  BY <1>2
<1>6. ASSUME NEW i \in 1..Len(b), b[i].push
      PROVE  \E j \in (read + 1)..Len(arr2) : b[i].line = arr2[j]
  <2>1. CASE i = Len(b)
    BY <1>0, <1>1, <1>2, <1>5, <2>1
  <2>2. CASE i \in 1..Len(a)
    <3>1. PICK j \in (read + 1)..Len(arr) : a[i].line = arr[j]
      BY <1>1, <1>6, <2>2 DEF OnStdin
    <3> QED BY <1>1, <1>5, <2>2, <3>1
  <2> QED BY <1>4, <2>1, <2>2
<1>7. ASSUME NEW j \in (read + 1)..Len(arr2)
      PROVE  \E i \in 1..Len(b) : b[i].push /\ b[i].line = arr2[j]
  <2>1. CASE j = Len(arr2)
    BY <1>0, <1>1, <1>2, <1>4, <2>1
  <2>2. CASE j \in (read + 1)..Len(arr)
    <3>1. PICK i \in 1..Len(a) : a[i].push /\ a[i].line = arr[j]
      BY <2>2, Zenon DEF OnStdin
    <3> QED BY <1>4, <1>5, <2>2, <3>1
  <2> QED BY <1>5, <2>1, <2>2
<1>8. ASSUME NEW i \in 1..Len(b), NEW k \in 1..Len(b), NEW j \in 1..Len(arr2), NEW l \in 1..Len(arr2),
             b[i].push /\ b[k].push /\ i < k /\ b[i].line = arr2[j] /\ b[k].line = arr2[l]
      PROVE  j < l
  <2>1. i \in 1..Len(a) /\ b[i] = a[i]
    BY <1>1, <1>8
  <2>2. PICK m \in (read + 1)..Len(arr) : a[i].line = arr[m]
    BY <1>8, <2>1 DEF OnStdin
  <2>3. j = m /\ j \in 1..Len(arr)
    <3>1. m \in 1..Len(arr2) /\ arr2[m] = arr[m] /\ m \in 1..Len(arr)
      BY <1>2, <1>5, <2>2
    <3>2. arr2[j] = arr2[m]
      BY <1>8, <2>1, <2>2, <3>1
    <3> QED BY <1>3, <3>1, <3>2, Zenon DEF Distinct
  <2>4. CASE k = Len(b)
    <3>1. arr2[l] = p
      BY <1>0, <1>1, <1>8, <2>4
    <3>2. l = Len(arr2)
      BY <1>5, <3>1
    <3> QED BY <1>5, <2>3, <3>2
  <2>5. CASE k \in 1..Len(a)
    <3>1. b[k] = a[k]
      BY <1>1, <2>5
    <3>2. PICK n \in (read + 1)..Len(arr) : a[k].line = arr[n]
      BY <1>8, <2>5, <3>1 DEF OnStdin
    <3>3. n \in 1..Len(arr2) /\ arr2[n] = arr[n] /\ n \in 1..Len(arr)
      BY <1>2, <1>5, <3>2
    <3>4. l = n
      <4>1. arr2[l] = arr2[n]
        BY <1>8, <3>1, <3>2, <3>3
      <4> QED BY <1>3, <3>3, <4>1, Zenon DEF Distinct
    <3>5. arr2[j] = arr[j]
      BY <1>2, <2>3
    <3>6. /\ a[i].push /\ a[k].push /\ i < k
          /\ a[i].line = arr[j] /\ a[k].line = arr[l] /\ l \in 1..Len(arr)
      BY <1>8, <2>1, <3>1, <3>2, <3>4, <3>5, <3>3
    <3> QED BY <2>1, <2>3, <2>5, <3>6, OrderOnStdin
  <2> QED BY <1>4, <2>4, <2>5
<1>9. OnStdin(b, read, arr2)
  BY <1>6, <1>7, <1>8, Zenon DEF OnStdin
<1> QED BY <1>3, <1>9

-----------------------------------------------------------------------------
(* recv_notification's two sources. *)

LEMMA PendingTaken ==
    ASSUME NEW t \in Seq(Pushes), NEW p \in Seq(Pushes), NEW arr \in Seq(Pushes), Handed(t, p, arr),
           NEW t2, NEW p2, FromStdin(p, p2), WrittenTo(t, t2, Head(p))
    PROVE  Handed(t2, p2, arr) /\ Len(t2) + Len(p2) = Len(t) + Len(p)
<1>1. /\ Len(p) = Len(p2) + 1 /\ Len(p2) \in Nat /\ Head(p) = p[1] /\ Head(p) \in Pushes
      /\ \A i \in 1..Len(p2) : p2[i] = p[i + 1]
  BY TailOfLines
<1>2. /\ Len(t2) = Len(t) + 1 /\ Len(t) \in Nat /\ t2[Len(t2)] = Head(p)
      /\ \A i \in 1..Len(t) : t2[i] = t[i]
  BY <1>1, AppendToLines
<1>3. Len(arr) \in Nat /\ p[1] = arr[Len(t) + 1]
  BY <1>1, <1>2 DEF Handed
<1>4. \A j \in 1..Len(t2) : t2[j] = arr[j]
  <2>1. \A j \in 1..Len(t2) : j = Len(t2) \/ j \in 1..Len(t)
    BY <1>2
  <2> QED BY <1>1, <1>2, <1>3, <2>1 DEF Handed
<1>5. ASSUME NEW j \in 1..Len(p2) PROVE p2[j] = arr[Len(t2) + j]
  <2>1. j + 1 \in 1..Len(p) /\ Len(t) + (j + 1) = Len(t2) + j
    <3>1. Len(p) = Len(p2) + 1 /\ Len(p2) \in Nat /\ Len(t2) = Len(t) + 1 /\ Len(t) \in Nat
      BY <1>1, <1>2
    <3> QED BY <3>1
  <2>2. p[j + 1] = arr[Len(t) + (j + 1)]
    BY <2>1, Zenon DEF Handed
  <2> QED BY <1>1, <2>1, <2>2
<1>6. Len(t2) + Len(p2) = Len(t) + Len(p) /\ Len(t2) + Len(p2) <= Len(arr)
  BY <1>1, <1>2, <1>3 DEF Handed
<1> QED BY <1>4, <1>5, <1>6, Zenon DEF Handed

LEMMA PendingGrows ==
    ASSUME NEW t \in Seq(Pushes), NEW p \in Seq(Pushes), NEW arr \in Seq(Pushes), Handed(t, p, arr),
           Len(t) + Len(p) < Len(arr),
           NEW p2, WrittenTo(p, p2, arr[Len(t) + Len(p) + 1])
    PROVE  Handed(t, p2, arr) /\ Len(t) + Len(p2) = Len(t) + Len(p) + 1
<1>1. arr[Len(t) + Len(p) + 1] \in Pushes /\ Len(t) \in Nat /\ Len(arr) \in Nat
  OBVIOUS
<1>2. /\ Len(p2) = Len(p) + 1 /\ Len(p) \in Nat /\ p2[Len(p2)] = arr[Len(t) + Len(p) + 1]
      /\ \A i \in 1..Len(p) : p2[i] = p[i]
  BY <1>1, AppendToLines
<1>3. ASSUME NEW j \in 1..Len(p2) PROVE p2[j] = arr[Len(t) + j]
  <2>1. CASE j = Len(p2)
    <3>1. Len(t) + j = Len(t) + Len(p) + 1
      BY <1>1, <1>2, <2>1
    <3> QED BY <1>2, <2>1, <3>1
  <2>2. CASE j # Len(p2)
    <3>1. j \in 1..Len(p)
      BY <1>2, <2>2
    <3> QED BY <1>2, <3>1 DEF Handed
  <2> QED BY <2>1, <2>2
<1>4. Len(t) + Len(p2) = Len(t) + Len(p) + 1 /\ Len(t) + Len(p2) <= Len(arr)
  BY <1>1, <1>2
<1>5. \A j \in 1..Len(t) : t[j] = arr[j]
  BY Zenon DEF Handed
<1> QED BY <1>3, <1>4, <1>5, Zenon DEF Handed

LEMMA TakenGrows ==
    ASSUME NEW t \in Seq(Pushes), NEW arr \in Seq(Pushes), Handed(t, <<>>, arr),
           Len(t) < Len(arr), NEW t2, WrittenTo(t, t2, arr[Len(t) + 1])
    PROVE  Handed(t2, <<>>, arr) /\ Len(t2) = Len(t) + 1
<1>1. arr[Len(t) + 1] \in Pushes /\ Len(arr) \in Nat
  OBVIOUS
<1>2. /\ Len(t2) = Len(t) + 1 /\ Len(t) \in Nat /\ t2[Len(t2)] = arr[Len(t) + 1]
      /\ \A i \in 1..Len(t) : t2[i] = t[i]
  BY <1>1, AppendToLines
<1>3. ASSUME NEW j \in 1..Len(t2) PROVE t2[j] = arr[j]
  <2>1. j = Len(t) + 1 \/ j \in 1..Len(t)
    BY <1>2
  <2> QED BY <1>2, <2>1 DEF Handed
<1>4. Len(t2) + Len(<<>>) <= Len(arr) /\ 1..Len(<<>>) = {}
  BY <1>1, <1>2
<1> QED BY <1>2, <1>3, <1>4 DEF Handed

LEMMA ArrivedGrows ==
    ASSUME NEW t \in Seq(Pushes), NEW p \in Seq(Pushes), NEW arr \in Seq(Pushes), Handed(t, p, arr),
           NEW x \in Pushes, NEW arr2, WrittenTo(arr, arr2, x)
    PROVE  Handed(t, p, arr2)
<1>1. /\ Len(arr2) = Len(arr) + 1 /\ Len(arr) \in Nat
      /\ \A i \in 1..Len(arr) : arr2[i] = arr[i]
  BY AppendToLines
<1>2. Len(t) \in Nat /\ Len(p) \in Nat /\ Len(t) + Len(p) <= Len(arr)
  BY DEF Handed
<1>3. \A j \in 1..Len(t) : j \in 1..Len(arr)
  BY <1>1, <1>2
<1>4. \A j \in 1..Len(p) : Len(t) + j \in 1..Len(arr)
  BY <1>1, <1>2
<1>5. Len(t) + Len(p) <= Len(arr2)
  BY <1>1, <1>2
<1>6. \A j \in 1..Len(t) : t[j] = arr2[j]
  BY <1>1, <1>3, Zenon DEF Handed
<1>7. \A j \in 1..Len(p) : p[j] = arr2[Len(t) + j]
  BY <1>1, <1>4, Zenon DEF Handed
<1> QED BY <1>5, <1>6, <1>7, Zenon DEF Handed

(* The invariant: PushesInOrder, and no notification arrives twice. *)
HandedInv ==
    /\ Handed(taken, pending, arrived)
    /\ OnStdin(stdin, Len(taken) + Len(pending), arrived)
    /\ Distinct(arrived)

LEMMA InvIsInOrder == AcpTypeOK /\ HandedInv => PushesInOrder
<1> SUFFICES ASSUME AcpTypeOK, HandedInv PROVE PushesInOrder
  OBVIOUS
<1> DEFINE read == Len(taken) + Len(pending)
           unread == {i \in 1..Len(stdin) : stdin[i].push}
<1>1. read <= Len(arrived) /\ Len(taken) \in Nat /\ Len(pending) \in Nat
  BY DEF HandedInv, Handed, AcpTypeOK
<1>2. ASSUME NEW j \in 1..read PROVE (taken \o pending)[j] = arrived[j]
  <2>1. CASE j <= Len(taken)
    <3>1. j \in 1..Len(taken) /\ (taken \o pending)[j] = taken[j]
      BY <1>1, <2>1 DEF AcpTypeOK
    <3> QED BY <3>1 DEF HandedInv, Handed
  <2>2. CASE ~(j <= Len(taken))
    <3>1. /\ (taken \o pending)[j] = pending[j - Len(taken)]
          /\ j - Len(taken) \in 1..Len(pending) /\ Len(taken) + (j - Len(taken)) = j
      BY <1>1, <2>2 DEF AcpTypeOK
    <3>2. pending[j - Len(taken)] = arrived[Len(taken) + (j - Len(taken))]
      BY <3>1, Zenon DEF HandedInv, Handed
    <3> QED BY <3>1, <3>2
  <2> QED BY <2>1, <2>2
<1>3. {stdin[i].line : i \in unread} = {arrived[j] : j \in (read + 1)..Len(arrived)}
  <2>1. \A i \in unread : \E j \in (read + 1)..Len(arrived) : stdin[i].line = arrived[j]
    BY Zenon DEF HandedInv, OnStdin
  <2>2. \A j \in (read + 1)..Len(arrived) : \E i \in unread : stdin[i].line = arrived[j]
    BY Zenon DEF HandedInv, OnStdin
  <2> HIDE DEF read, unread
  <2> QED BY <2>1, <2>2
<1>4. \A i, k \in unread, j, l \in 1..Len(arrived) :
         i < k /\ stdin[i].line = arrived[j] /\ stdin[k].line = arrived[l] => j < l
  BY Zenon DEF HandedInv, OnStdin
<1> QED BY <1>1, <1>2, <1>3, <1>4, Zenon DEF PushesInOrder

(* The order in which the broker pushed is the order in which the agent    *)
(* handles, none lost and none twice, although every request the agent     *)
(* makes in between moves what it meets from stdin to                      *)
(* pending_notifications (acp.rs 130-144 and 182-197).                     *)
THEOREM PushesKeepOrder == Spec => []PushesInOrder
<1>1. Init => HandedInv
  BY DEF Init, AcpInit, HandedInv, Handed, OnStdin, Distinct
<1>2. AcpTypeOK /\ HandedInv /\ [Next]_vars => HandedInv'
  <2> SUFFICES ASSUME AcpTypeOK, HandedInv, AcpStep PROVE HandedInv'
    BY LoopStepIsAcpStep
  <2> DEFINE read == Len(taken) + Len(pending)
  <2>t. /\ stdin \in Seq(Lines) /\ taken \in Seq(Pushes) /\ pending \in Seq(Pushes)
        /\ arrived \in Seq(Pushes)
    BY DEF AcpTypeOK
  <2>r. read \in Nat
    BY <2>t
  <2>i. Handed(taken, pending, arrived) /\ OnStdin(stdin, read, arrived) /\ Distinct(arrived)
    BY DEF HandedInv
  <2> HIDE DEF read
  <2>1. CASE UNCHANGED <<stdin, pending, taken, arrived>>
    BY <2>1 DEF HandedInv
  <2>2. CASE BufferNotification
    <3>1. FromStdin(stdin, stdin') /\ Head(stdin).push /\ WrittenTo(pending, pending', Head(stdin).line)
      BY <2>2 DEF BufferNotification, FromStdin, WrittenTo
    <3>2. /\ read < Len(arrived) /\ Head(stdin).line = arrived[read + 1]
          /\ OnStdin(stdin', read + 1, arrived)
      BY <2>t, <2>r, <2>i, <3>1, PushTaken
    <3>3. Handed(taken, pending', arrived) /\ Len(taken) + Len(pending') = read + 1
      BY <2>t, <2>i, <3>1, <3>2, PendingGrows DEF read
    <3>4. taken' = taken /\ arrived' = arrived
      BY <2>2 DEF BufferNotification
    <3> QED BY <2>i, <3>2, <3>3, <3>4, Zenon DEF HandedInv
  <2>3. CASE /\ stdin # <<>> /\ ~Head(stdin).push /\ stdin' = Tail(stdin)
             /\ UNCHANGED <<pending, taken, arrived>>
    <3>1. FromStdin(stdin, stdin') /\ ~Head(stdin).push
      BY <2>3 DEF FromStdin
    <3>2. OnStdin(stdin', read, arrived)
      BY <2>t, <2>r, <2>i, <3>1, ResponseTaken
    <3>3. pending' = pending /\ taken' = taken /\ arrived' = arrived
      BY <2>3
    <3> QED BY <2>i, <3>2, <3>3, Zenon DEF HandedInv, read
  <2>4. ASSUME NEW p \in Pushes, RecvNotification(p) PROVE HandedInv'
    <3>1. CASE pending # <<>>
      <4>1. /\ FromStdin(pending, pending') /\ WrittenTo(taken, taken', Head(pending))
            /\ stdin' = stdin /\ arrived' = arrived
        BY <2>4, <3>1 DEF RecvNotification, FromStdin, WrittenTo
      <4>2. Handed(taken', pending', arrived) /\ Len(taken') + Len(pending') = read
        BY <2>t, <2>i, <4>1, PendingTaken DEF read
      <4> QED BY <2>i, <4>1, <4>2, Zenon DEF HandedInv
    <3>2. CASE pending = <<>>
      <4>1. /\ FromStdin(stdin, stdin') /\ Head(stdin) = Push(p) /\ WrittenTo(taken, taken', p)
            /\ pending' = pending /\ arrived' = arrived
        BY <2>4, <3>2 DEF RecvNotification, FromStdin, WrittenTo
      <4>2. Head(stdin).push /\ Head(stdin).line = p
        BY <4>1 DEF Push
      <4>3. /\ read < Len(arrived) /\ p = arrived[read + 1]
            /\ OnStdin(stdin', read + 1, arrived)
        BY <2>t, <2>r, <2>i, <4>1, <4>2, PushTaken
      <4>4. read = Len(taken)
        BY <2>t, <3>2 DEF read
      <4>5. Handed(taken', <<>>, arrived) /\ Len(taken') = read + 1
        BY <2>t, <2>i, <3>2, <4>1, <4>3, <4>4, TakenGrows
      <4>6. Len(taken') + Len(pending') = read + 1
        BY <2>r, <3>2, <4>1, <4>5
      <4> QED BY <2>i, <3>2, <4>1, <4>3, <4>5, <4>6 DEF HandedInv
    <3> QED BY <3>1, <3>2
  <2>5. ASSUME NEW p \in Pushes, PeerPushes(p) PROVE HandedInv'
    <3>1. /\ WrittenTo(stdin, stdin', Push(p)) /\ WrittenTo(arrived, arrived', p)
          /\ taken' = taken /\ pending' = pending
      BY <2>5 DEF PeerPushes, WrittenTo
    <3>2. \A i \in 1..Len(arrived) : arrived[i] # p
      BY <2>t, <2>5 DEF PeerPushes, ToSet
    <3>3. read <= Len(arrived)
      BY <2>i DEF Handed, read
    <3>4. Distinct(arrived') /\ OnStdin(stdin', read, arrived')
      BY <2>t, <2>r, <2>i, <3>1, <3>2, <3>3, PushWritten
    <3>5. Handed(taken, pending, arrived')
      BY <2>t, <2>i, <3>1, ArrivedGrows
    <3> QED BY <3>1, <3>4, <3>5, Zenon DEF HandedInv, read
  <2>6. ASSUME NEW v \in Values, PeerAnswers(v) PROVE HandedInv'
    <3>1. Head(asked) \in Nat
      BY <2>6 DEF PeerAnswers, AcpTypeOK
    <3>2. Response(Head(asked), v) \in Lines /\ ~Response(Head(asked), v).push
      BY <3>1 DEF Response, Lines
    <3>3. /\ WrittenTo(stdin, stdin', Response(Head(asked), v))
          /\ pending' = pending /\ taken' = taken /\ arrived' = arrived
      BY <2>6 DEF PeerAnswers, WrittenTo
    <3>4. OnStdin(stdin', read, arrived)
      BY <2>t, <2>r, <2>i, <3>2, <3>3, ResponseWritten
    <3> QED BY <2>i, <3>3, <3>4, Zenon DEF HandedInv, read
  <2>7. CASE ReadResponse
    BY <2>1, <2>3, <2>7 DEF ReadResponse
  <2>8. CASE \/ SendRequest \/ CloseStdin \/ BreakStdout \/ UNCHANGED acpVars
             \/ \E values \in SUBSET Values : Returned(values)
    BY <2>1, <2>8 DEF SendRequest, CloseStdin, BreakStdout, acpVars, Returned
  <2> QED BY <2>2, <2>4, <2>5, <2>6, <2>7, <2>8 DEF AcpStep
<1> QED BY <1>1, <1>2, AcpTypeCorrect, InvIsInOrder, PTL DEF Spec

-----------------------------------------------------------------------------
(* The working context, completed with the results still to come of the    *)
(* calls in `todo', is a valid history: the results come in order.         *)

DistinctCalls(calls) ==
    calls \in Seq(Nat) /\ \A k, l \in 1..Len(calls) : calls[k] = calls[l] => k = l
Completed(ms, calls) == ValidHistory(ms \o ResultsOf(calls))
Prompted(ms) ==
    /\ ms # <<>> /\ PromptLeads(ms)
    /\ \A i \in 2..Len(ms) : ms[i].kind = "summary" => i = 2

LEMMA NothingToComplete ==
    ASSUME NEW ms \in Histories(Nat)
    PROVE  DistinctCalls(<<>>) /\ (Completed(ms, <<>>) <=> ValidHistory(ms))
<1>1. ResultsOf(<<>>) = <<>>
  BY DEF ResultsOf
<1>2. ms \o <<>> = ms
  BY DEF Histories
<1>3. DistinctCalls(<<>>)
  BY DEF DistinctCalls
<1> QED BY <1>1, <1>2, <1>3 DEF Completed

LEMMA ResultsFacts ==
    ASSUME NEW calls, DistinctCalls(calls)
    PROVE  /\ ResultsOf(calls) \in Histories(Nat) /\ Len(ResultsOf(calls)) = Len(calls)
           /\ \A i \in 1..Len(calls) : ResultsOf(calls)[i] = ToolMessage(calls[i])
<1>1. calls \in Seq(Nat) /\ Len(calls) \in Nat
      /\ \A k, l \in 1..Len(calls) : calls[k] = calls[l] => k = l
  BY DEF DistinctCalls
<1>2. ResultsOf(calls) \in Histories(Nat)
  BY <1>1, Exchange
<1>3. Len(ResultsOf(calls)) = Len(calls)
  BY <1>1 DEF ResultsOf
<1>4. \A i \in 1..Len(calls) : ResultsOf(calls)[i] = ToolMessage(calls[i])
  BY DEF ResultsOf
<1> QED BY <1>2, <1>3, <1>4

(* An assistant message with its calls to answer. *)
LEMMA CallsMade ==
    ASSUME NEW ms \in Histories(Nat), ValidHistory(ms), NEW calls, DistinctCalls(calls)
    PROVE  /\ Append(ms, AssistantMessage(calls)) \in Histories(Nat)
           /\ Completed(Append(ms, AssistantMessage(calls)), calls)
<1>1. PICK a : a = <<AssistantMessage(calls)>>
  OBVIOUS
<1>2. PICK r : r = ResultsOf(calls)
  OBVIOUS
<1>3. a \in Histories(Nat) /\ r \in Histories(Nat) /\ ValidHistory(a \o r)
  BY <1>1, <1>2, Exchange DEF DistinctCalls
<1>4. Append(ms, AssistantMessage(calls)) = ms \o a
  BY <1>1 DEF Histories
<1>5. (ms \o a) \o r = ms \o (a \o r)
  BY <1>3 DEF Histories
<1>6. a \o r \in Histories(Nat) /\ ms \o a \in Histories(Nat)
  BY <1>3, AppendedFacts
<1>7. ValidHistory(ms \o (a \o r))
  BY <1>3, <1>6, ValidConcat
<1> QED BY <1>2, <1>4, <1>5, <1>6, <1>7 DEF Completed

(* The result of the first of them. *)
LEMMA ResultGiven ==
    ASSUME NEW ms \in Histories(Nat), NEW calls, DistinctCalls(calls), calls # <<>>,
           Completed(ms, calls)
    PROVE  /\ Append(ms, ToolMessage(Head(calls))) \in Histories(Nat)
           /\ DistinctCalls(Tail(calls))
           /\ Completed(Append(ms, ToolMessage(Head(calls))), Tail(calls))
<1>1. /\ calls \in Seq(Nat) /\ Len(calls) \in Nat /\ Len(calls) > 0 /\ Head(calls) = calls[1]
      /\ calls[1] \in Nat
  BY DEF DistinctCalls
<1>2. PICK rest : rest = Tail(calls)
  OBVIOUS
<1>3. /\ rest \in Seq(Nat) /\ Len(rest) = Len(calls) - 1
      /\ \A i \in 1..Len(rest) : rest[i] = calls[i + 1]
  BY <1>1, <1>2
<1>4. DistinctCalls(rest)
  <2>1. ASSUME NEW k \in 1..Len(rest), NEW l \in 1..Len(rest), rest[k] = rest[l] PROVE k = l
    <3>1. /\ k + 1 \in 1..Len(calls) /\ l + 1 \in 1..Len(calls)
          /\ rest[k] = calls[k + 1] /\ rest[l] = calls[l + 1]
      BY SMTT(30), <1>1, <1>3
    <3>2. k + 1 = l + 1
      BY <2>1, <3>1, Zenon DEF DistinctCalls
    <3> QED BY <3>2
  <2> QED BY <1>3, <2>1 DEF DistinctCalls
<1>5. ToolMessage(calls[1]) \in WellFormed(Nat)
  BY <1>1 DEF ToolMessage, WellFormed, Kinds
<1>6. <<ToolMessage(calls[1])>> \in Histories(Nat)
  BY <1>5 DEF Histories
<1>7. ResultsOf(calls) = <<ToolMessage(calls[1])>> \o ResultsOf(rest)
  <2>1. PICK t : t = ToolMessage(calls[1])
    OBVIOUS
  <2>2. PICK r : r = ResultsOf(rest)
    OBVIOUS
  <2>3. /\ Len(r) = Len(calls) - 1 /\ r \in Histories(Nat)
        /\ \A i \in 1..(Len(calls) - 1) : r[i] = ToolMessage(calls[i + 1])
    <3>1. /\ Len(r) = Len(rest) /\ r \in Histories(Nat)
          /\ \A i \in 1..Len(rest) : r[i] = ToolMessage(rest[i])
      BY <1>4, <2>2, ResultsFacts
    <3> QED BY <1>1, <1>3, <3>1
  <2>4. PICK c : c = <<t>> \o r
    OBVIOUS
  <2>5. /\ c \in Histories(Nat) /\ Len(c) = Len(calls)
        /\ \A i \in 1..Len(calls) : c[i] = IF i = 1 THEN t ELSE r[i - 1]
    BY <1>1, <1>6, <2>1, <2>3, <2>4 DEF Histories
  <2>6. /\ ResultsOf(calls) \in Histories(Nat) /\ Len(ResultsOf(calls)) = Len(calls)
        /\ \A i \in 1..Len(calls) : ResultsOf(calls)[i] = ToolMessage(calls[i])
    BY ResultsFacts
  <2>7. ASSUME NEW i \in 1..Len(calls) PROVE c[i] = ResultsOf(calls)[i]
    <3>1. CASE i = 1
      BY <2>1, <2>5, <2>6, <3>1
    <3>2. CASE i # 1
      <4>1. i - 1 \in 1..(Len(calls) - 1) /\ (i - 1) + 1 = i
        BY <1>1, <3>2
      <4> QED BY <2>3, <2>5, <2>6, <3>2, <4>1
    <3> QED BY <3>1, <3>2
  <2>8. c = ResultsOf(calls)
    BY <2>5, <2>6, <2>7 DEF Histories
  <2> QED BY <2>1, <2>2, <2>4, <2>8
<1>8. PICK t : t = <<ToolMessage(calls[1])>>
  OBVIOUS
<1>9. PICK r : r = ResultsOf(rest)
  OBVIOUS
<1>10. r \in Histories(Nat)
  BY <1>4, <1>9, Exchange DEF DistinctCalls
<1>11. (ms \o t) \o r = ms \o (t \o r)
  BY <1>6, <1>8, <1>10 DEF Histories
<1>12. Append(ms, ToolMessage(calls[1])) = ms \o t
  BY <1>8 DEF Histories
<1>13. ms \o t \in Histories(Nat)
  BY <1>6, <1>8, AppendedFacts
<1>14. ValidHistory((ms \o t) \o r)
  BY <1>7, <1>8, <1>9, <1>11 DEF Completed
<1> QED BY <1>1, <1>2, <1>4, <1>9, <1>12, <1>13, <1>14 DEF Completed

(* The prompt stays in front, and no summary comes later.                  *)
LEMMA StillPrompted ==
    ASSUME NEW ms \in Histories(Nat), Prompted(ms), NEW m, m.kind # "summary"
    PROVE  Prompted(Append(ms, m))
<1>1. PICK c : c = Append(ms, m)
  OBVIOUS
<1>2. /\ Len(c) = Len(ms) + 1 /\ Len(ms) \in Nat /\ c[Len(c)] = m
      /\ \A i \in 1..Len(ms) : c[i] = ms[i]
  BY <1>1 DEF Histories
<1>3. Len(ms) > 0 /\ Head(ms) = ms[1]
  BY DEF Prompted, Histories
<1>4. c # <<>> /\ Head(c) = ms[1]
  <2>1. c # <<>> /\ Head(c) = c[1]
    BY <1>1, <1>3 DEF Histories
  <2> QED BY <1>2, <1>3, <2>1
<1>5. \A i \in 2..Len(c) : i = Len(c) \/ i \in 2..Len(ms)
  BY <1>2
<1>6. PromptLeads(c)
  BY <1>3, <1>4 DEF Prompted, PromptLeads
<1> QED BY <1>1, <1>2, <1>3, <1>4, <1>5, <1>6 DEF Prompted

(* A message of the agent's own, or pushed. *)
Context(ms) == ms \in Histories(Nat) /\ ValidHistory(ms) /\ Prompted(ms)

LEMMA ContextGrows ==
    ASSUME NEW ms, Context(ms), NEW kind \in Kinds \ {"tool", "summary"}
    PROVE  Context(Append(ms, Message(kind)))
<1>1. <<Message(kind)>> \in Histories(Nat) /\ ValidHistory(<<Message(kind)>>)
  BY WrittenMessage
<1>2. Append(ms, Message(kind)) = ms \o <<Message(kind)>>
  BY DEF Context, Histories
<1>3. ms \o <<Message(kind)>> \in Histories(Nat) /\ ValidHistory(ms \o <<Message(kind)>>)
  BY <1>1, AppendedFacts, ValidConcat DEF Context
<1>4. Message(kind).kind # "summary"
  BY DEF Message
<1>5. Prompted(Append(ms, Message(kind)))
  BY <1>4, StillPrompted DEF Context
<1> QED BY <1>2, <1>3, <1>5 DEF Context

(* Compaction keeps the prompt and folds an earlier summary into its own.  *)
LEMMA ContextCompacted ==
    ASSUME NEW ms, Context(ms), NEW split, split = SplitPoint(ms, KeepRecent), split # 0
    PROVE  Context(Rebuilt(ms, split)) /\ ValidHistory(Recent(ms, split))
<1>1. ms \in Histories(Nat) /\ ValidHistory(ms) /\ Prompted(ms)
  BY DEF Context
<1>2. ms # <<>> /\ Head(ms) = ms[1] /\ Len(ms) \in Nat
  BY <1>1 DEF Histories, Prompted
<1>3. SystemCount(ms) = 1
  <2>1. Head(ms).kind \in SystemRole
    BY <1>1 DEF Prompted, PromptLeads, SystemRole
  <2> QED BY <1>2, <2>1 DEF SystemCount
<1>4. split \in 2..(Len(ms) - KeepRecent) /\ NoCut(ms, split) /\ KeepRecent \in Nat
  BY <1>1, <1>3, SplitFacts, LoopAssumption
<1>5. split \in (SystemCount(ms) + 1)..Len(ms) /\ split \in 0..Len(ms)
  BY <1>2, <1>3, <1>4
<1>6. /\ Rebuilt(ms, split) \in Histories(Nat) /\ ValidHistory(Rebuilt(ms, split))
      /\ Recent(ms, split) \in Histories(Nat) /\ ValidHistory(Recent(ms, split))
  BY <1>1, <1>4, <1>5, RebuiltFacts
<1>7. Prompted(Rebuilt(ms, split))
  <2>1. PICK h : h = SubSeq(ms, 1, 1)
    OBVIOUS
  <2>2. h \in Histories(Nat) /\ Len(h) = 1 /\ h[1] = ms[1]
    BY <1>1, <1>2, <2>1 DEF Histories
  <2>3. PICK q : q = Message("summary")
    OBVIOUS
  <2>4. <<q>> \in Histories(Nat) /\ q.kind = "summary"
    BY <2>3, WrittenMessage DEF Kinds, SystemRole, Scaffolding, Message
  <2>5. PICK r : r = Recent(ms, split)
    OBVIOUS
  <2>6. /\ r \in Histories(Nat) /\ Len(r) = Len(ms) - split
        /\ \A i \in 1..(Len(ms) - split) : r[i] = ms[split + i]
    BY <1>1, <1>5, <2>5, RecentFacts
  <2>7. PICK c : c = h \o <<q>> \o r
    OBVIOUS
  <2>8. c \in Histories(Nat) /\ Len(c) = 2 + Len(r) /\ c[1] = ms[1]
        /\ \A i \in 1..Len(r) : c[2 + i] = r[i]
    <3>1. PICK d : d = h \o <<q>>
      OBVIOUS
    <3>2. d \in Histories(Nat) /\ Len(d) = 2 /\ d[1] = ms[1]
      <4>1. Len(<<q>>) = 1
        OBVIOUS
      <4>2. d \in Histories(Nat) /\ Len(d) = Len(h) + Len(<<q>>) /\ \A i \in 1..Len(h) : d[i] = h[i]
        BY ZenonT(30), <2>2, <2>4, <3>1, AppendedFacts
      <4> QED BY <2>2, <4>1, <4>2
    <3>3. c = d \o r
      BY <2>7, <3>1
    <3>4. /\ c \in Histories(Nat) /\ Len(c) = Len(d) + Len(r)
          /\ \A i \in 1..Len(d) : c[i] = d[i]
          /\ \A i \in 1..Len(r) : c[Len(d) + i] = r[i]
      <4>1. d \in Histories(Nat) /\ r \in Histories(Nat)
        BY <2>6, <3>2
      <4>2. /\ d \o r \in Histories(Nat) /\ Len(d \o r) = Len(d) + Len(r)
            /\ \A i \in 1..Len(d) : (d \o r)[i] = d[i]
            /\ \A i \in 1..Len(r) : (d \o r)[Len(d) + i] = r[i]
        BY <4>1, AppendedFacts
      <4> QED BY <3>3, <4>2
    <3> QED BY <3>2, <3>4
  <2>9. c = Rebuilt(ms, split)
    BY <1>3, <2>1, <2>3, <2>5, <2>7 DEF Rebuilt
  <2>10. Len(r) \in Nat
    BY <1>2, <1>4, <2>6
  <2>11. c # <<>> /\ PromptLeads(c)
    <3>1. c # <<>> /\ Head(c) = c[1]
      BY <2>8, <2>10 DEF Histories
    <3>2. Head(c) = Head(ms)
      BY <1>2, <2>8, <3>1
    <3> QED BY <1>1, <3>1, <3>2 DEF Prompted, PromptLeads
  <2>12. ASSUME NEW i \in 2..Len(c), c[i].kind = "summary", i # 2 PROVE FALSE
    <3>1. i # 1
      BY <2>8, <2>10
    <3>2. i - 2 \in 1..Len(r) /\ 2 + (i - 2) = i
      BY <2>8, <2>10, <2>12, <3>1
    <3>3. c[i] = r[i - 2]
      BY <2>8, <3>2
    <3>4. r[i - 2] = ms[split + (i - 2)]
      BY <2>6, <3>2
    <3>5. split + (i - 2) \in 2..Len(ms) /\ split + (i - 2) # 2
      BY <1>2, <1>4, <2>6, <3>2
    <3>6. ms[split + (i - 2)].kind = "summary"
      BY <2>12, <3>3, <3>4
    <3> QED BY <1>1, <3>5, <3>6, Zenon DEF Prompted
  <2> QED BY <2>9, <2>11, <2>12 DEF Prompted
<1> QED BY <1>6, <1>7 DEF Context

(* What the agent makes of the history it boots with. *)
LEMMA BootContext ==
    ASSUME NEW boot \in BootHistories
    PROVE  Context(WithPrompt(boot))
<1>1. /\ boot \in Histories(Nat) /\ ValidHistory(boot)
      /\ \A i \in 2..Len(boot) : boot[i].kind # "summary"
  BY BootAssumption DEF Histories
<1>2. CASE boot # <<>> /\ Head(boot).kind \in SystemRole
  <2>1. PromptLeads(boot)
    BY <1>2 DEF PromptLeads, SystemRole
  <2>2. Prompted(boot)
    BY <1>1, <1>2, <2>1 DEF Prompted
  <2> QED BY <1>1, <1>2, <2>2 DEF Context, WithPrompt
<1>3. CASE ~(boot # <<>> /\ Head(boot).kind \in SystemRole)
  <2>1. PICK h : h = <<Message("system")>>
    OBVIOUS
  <2>2. h \in Histories(Nat) /\ ValidHistory(h)
    BY <2>1, WrittenMessage DEF Kinds, SystemRole
  <2>3. PICK c : c = h \o boot
    OBVIOUS
  <2>4. c \in Histories(Nat) /\ ValidHistory(c)
    BY <1>1, <2>2, <2>3, AppendedFacts, ValidConcat
  <2>5. Len(h) = 1 /\ h[1].kind = "system" /\ Len(boot) \in Nat
    BY <1>1, <2>1 DEF Message, Histories
  <2>6. /\ Len(c) = 1 + Len(boot) /\ c[1] = h[1]
        /\ \A i \in 1..Len(boot) : c[1 + i] = boot[i]
    <3>1. /\ Len(c) = Len(h) + Len(boot)
          /\ \A i \in 1..Len(h) : c[i] = h[i]
          /\ \A i \in 1..Len(boot) : c[Len(h) + i] = boot[i]
      BY <1>1, <2>2, <2>3, AppendedFacts
    <3> QED BY <2>5, <3>1
  <2>7. c # <<>> /\ Head(c).kind = "system"
    <3>1. c # <<>> /\ Head(c) = c[1]
      BY <2>4, <2>5, <2>6 DEF Histories
    <3> QED BY <2>5, <2>6, <3>1
  <2>8. ASSUME NEW i \in 2..Len(c) PROVE c[i].kind # "summary"
    <3>1. i - 1 \in 1..Len(boot) /\ 1 + (i - 1) = i
      BY <2>5, <2>6
    <3>2. c[i] = boot[i - 1]
      BY <2>6, <3>1
    <3>3. CASE i = 2
      <4>1. boot # <<>> /\ Head(boot) = boot[1]
        BY <1>1, <3>1 DEF Histories
      <4> QED BY <1>3, <3>2, <3>3, <4>1 DEF SystemRole, Scaffolding
    <3>4. CASE i # 2
      <4>1. i - 1 \in 2..Len(boot)
        BY <3>1, <3>4
      <4> QED BY <1>1, <3>2, <4>1
    <3> QED BY <3>3, <3>4
  <2>9. Prompted(c)
    BY <2>7, <2>8 DEF Prompted, PromptLeads
  <2>10. WithPrompt(boot) = c
    BY <1>3, <2>1, <2>3 DEF WithPrompt
  <2> QED BY <2>4, <2>9, <2>10 DEF Context
<1> QED BY <1>2, <1>3

-----------------------------------------------------------------------------
(* The invariant of the turn loop.                                         *)

ControlInv ==
    /\ pc \in RequestPC \cup InTurn \cup {"next_push", "exit"}
    /\ iteration \in 0..MaxIterations /\ compactions \in 0..MaxCompactions
    /\ pc \in InTurn \ {"check", "turn_end"} => iteration < MaxIterations

MessagesInv ==
    /\ messages \in Histories(Nat)
    /\ DistinctCalls(todo) /\ DistinctCalls(resp.calls)
    /\ todo # <<>> <=> pc \in {"tools", "tools_call"}
    /\ Completed(messages, todo)
    /\ pc \notin {"tools_list", "initialize", "exit"} => Prompted(messages)
    /\ ValidHistory(canonical)

ContextInv == ControlInv /\ MessagesInv

LEMMA ControlStep == ControlInv /\ [Next]_vars => ControlInv'
<1> SUFFICES ASSUME ControlInv, [Next]_vars PROVE ControlInv'
  OBVIOUS
<1> USE DEF ControlInv
<1> USE LoopAssumption
<1>1. CASE UNCHANGED loopVars
  BY <1>1 DEF loopVars, turnVars
<1>2. CASE \/ ToolsListed \/ Initialized \/ ReadFails \/ QuotaChecked \/ SkipCompaction \/ CompactFails
           \/ LlmFails \/ QuotaUpdated \/ CallAcpTool \/ TurnEnd
           \/ (\E p \in BadUsers \cup Cancels : Leave(p)) \/ (\E r \in Responses : LlmAnswers(r))
  <2>1. iteration' = iteration /\ compactions' = compactions
    BY <1>2 DEF ToolsListed, Initialized, ReadFails, QuotaChecked, SkipCompaction, CompactFails,
                LlmFails, QuotaUpdated, CallAcpTool, TurnEnd, Leave, LlmAnswers, turnVars
  <2>2. /\ pc' \in RequestPC \cup InTurn \cup {"next_push", "exit"}
        /\ pc' \in InTurn \ {"check", "turn_end"} => pc \in InTurn \ {"check", "turn_end"}
    BY <1>2 DEF ToolsListed, Initialized, ReadFails, QuotaChecked, SkipCompaction, CompactFails,
                LlmFails, QuotaUpdated, CallAcpTool, TurnEnd, Leave, LlmAnswers, BreakWithNotice,
                RequestPC, InTurn
  <2> QED BY <2>1, <2>2
<1>3. CASE \E p \in Users : StartTurn(p)
  BY <1>3 DEF StartTurn, InTurn
<1>4. CASE Check
  BY <1>4 DEF Check, BreakWithNotice, turnVars, RequestPC, InTurn
<1>5. CASE \E s \in {"text", "empty"} : Compact(s)
  BY <1>5 DEF Compact, InTurn
<1>6. CASE Scaffold
  BY <1>6 DEF Scaffold, InTurn
<1>7. CASE Absorb
  BY <1>7 DEF Absorb, BreakWithNotice, InTurn
<1>8. CASE RejectArguments \/ RunLocalTool \/ AcpToolReturned
  BY <1>8 DEF RejectArguments, RunLocalTool, AcpToolReturned, AppendResult, InTurn
<1>9. CASE Request \/ AwaitResponse
  BY <1>1, <1>9 DEF Request, AwaitResponse
<1> QED BY <1>1, <1>2, <1>3, <1>4, <1>5, <1>6, <1>7, <1>8, <1>9 DEF Next, Agent, vars

(* What the LLM answers has calls with ids of their own. *)
LEMMA ResponseCalls ==
    /\ DistinctCalls(NoResponse.calls)
    /\ \A r \in Responses : DistinctCalls(r.calls)
<1>1. ASSUME NEW n \in Nat PROVE DistinctCalls([i \in 1..n |-> i])
  <2>1. [i \in 1..n |-> i] \in Seq(Nat) /\ Len([i \in 1..n |-> i]) = n
    OBVIOUS
  <2> QED BY <2>1 DEF DistinctCalls
<1>2. ASSUME NEW r \in Responses PROVE DistinctCalls(r.calls)
  <2>1. r.calls \in {[i \in 1..n |-> i] : n \in 0..MaxCalls}
    BY DEF Responses
  <2>2. PICK n \in 0..MaxCalls : r.calls = [i \in 1..n |-> i]
    BY <2>1
  <2>3. n \in Nat
    BY LoopAssumption
  <2> QED BY <1>1, <2>2, <2>3
<1>3. DistinctCalls(NoResponse.calls)
  BY DEF NoResponse, DistinctCalls
<1> QED BY <1>2, <1>3

(* Nothing to answer: the context is valid as it is. *)
LEMMA ContextOutsideTools ==
    ASSUME MessagesInv, pc \notin {"tools", "tools_call"}
    PROVE  /\ todo = <<>> /\ ValidHistory(messages)
           /\ pc \notin {"tools_list", "initialize", "exit"} => Context(messages)
<1>1. todo = <<>> /\ messages \in Histories(Nat) /\ Completed(messages, todo)
  BY DEF MessagesInv
<1>2. ValidHistory(messages)
  BY <1>1, NothingToComplete
<1> QED BY <1>1, <1>2 DEF MessagesInv, Context

LEMMA ContextLeft ==
    ASSUME MessagesInv, Context(messages'), todo = <<>>, todo' = <<>>,
           DistinctCalls(resp'.calls), pc' \notin {"tools", "tools_call"}, ValidHistory(canonical')
    PROVE  MessagesInv'
<1>1. PICK ms : ms = messages'
  OBVIOUS
<1>2. ms \in Histories(Nat) /\ ValidHistory(ms) /\ Prompted(ms)
  BY <1>1 DEF Context
<1>3. DistinctCalls(<<>>) /\ Completed(ms, <<>>)
  BY <1>2, NothingToComplete
<1> QED BY <1>1, <1>2, <1>3 DEF MessagesInv

LEMMA MessagesStep == MessagesInv /\ [Next]_vars => MessagesInv'
<1> SUFFICES ASSUME MessagesInv, [Next]_vars PROVE MessagesInv'
  OBVIOUS
<1>1. CASE UNCHANGED <<pc, messages, resp, todo, canonical>>
  BY <1>1 DEF MessagesInv
<1>2. ASSUME UNCHANGED <<messages, todo, canonical>>, DistinctCalls(resp'.calls),
             pc \in {"tools", "tools_call"} <=> pc' \in {"tools", "tools_call"},
             pc \in {"tools_list", "initialize", "exit"} => pc' \in {"tools_list", "initialize", "exit"}
      PROVE  MessagesInv'
  BY <1>2 DEF MessagesInv
<1>3. DistinctCalls(resp.calls) /\ ValidHistory(canonical)
  BY DEF MessagesInv
<1>4. CASE \/ ToolsListed \/ ReadFails \/ Check \/ QuotaChecked \/ SkipCompaction \/ CompactFails
           \/ LlmFails \/ QuotaUpdated \/ CallAcpTool \/ TurnEnd
           \/ \E p \in BadUsers \cup Cancels : Leave(p)
  <2>1. UNCHANGED <<messages, todo, canonical, resp>>
    BY <1>4 DEF ToolsListed, ReadFails, Check, QuotaChecked, SkipCompaction, CompactFails,
                LlmFails, QuotaUpdated, CallAcpTool, TurnEnd, Leave, noteVars
  <2>2. /\ pc \in {"tools", "tools_call"} <=> pc' \in {"tools", "tools_call"}
        /\ pc \in {"tools_list", "initialize", "exit"} => pc' \in {"tools_list", "initialize", "exit"}
    BY <1>4 DEF ToolsListed, ReadFails, Check, QuotaChecked, SkipCompaction, CompactFails,
                LlmFails, QuotaUpdated, CallAcpTool, TurnEnd, Leave, BreakWithNotice
  <2> QED BY <1>2, <1>3, <2>1, <2>2
<1>5. ASSUME NEW r \in Responses, LlmAnswers(r) PROVE MessagesInv'
  <2>1. UNCHANGED <<messages, todo, canonical>> /\ resp' = r
    BY <1>5 DEF LlmAnswers, noteVars
  <2>2. pc = "llm" /\ pc' \in {"quota_update", "absorb"}
    BY <1>5 DEF LlmAnswers
  <2> QED BY <1>2, <2>1, <2>2, ResponseCalls
<1>6. CASE Initialized
  <2>1. pc = "initialize" /\ UNCHANGED <<resp, todo, canonical>>
    BY <1>6 DEF Initialized, noteVars
  <2>2. todo = <<>>
    BY <2>1, ContextOutsideTools
  <2>3. CASE pc' = "exit" /\ UNCHANGED messages
    BY <1>2, <1>3, <2>1, <2>3
  <2>4. CASE pc' = "next_push" /\ \E boot \in BootHistories : messages' = WithPrompt(boot)
    <3>1. Context(messages')
      BY <2>4, BootContext
    <3> QED BY <1>3, <2>1, <2>2, <2>4, <3>1, ContextLeft
  <2> QED BY <1>6, <2>3, <2>4 DEF Initialized
<1>7. ASSUME NEW p \in Users, StartTurn(p) PROVE MessagesInv'
  <2>1. /\ pc = "next_push" /\ pc' = "check" /\ UNCHANGED <<resp, todo, canonical>>
        /\ messages' = Append(messages, PushedMessage(p))
    BY <1>7 DEF StartTurn
  <2>2. todo = <<>> /\ Context(messages)
    BY <2>1, ContextOutsideTools
  <2>3. PICK kind \in Kinds \ {"tool", "summary"} : PushedMessage(p) = Message(kind)
    BY RoleAssumption DEF PushedMessage, Kinds, SystemRole
  <2>4. Context(messages')
    BY <2>1, <2>2, <2>3, ContextGrows
  <2> QED BY <1>3, <2>1, <2>2, <2>4, ContextLeft
<1>8. ASSUME NEW s \in {"text", "empty"}, Compact(s) PROVE MessagesInv'
  <2>1. /\ pc = "compact" /\ pc' = "scaffold" /\ UNCHANGED <<resp, todo>>
    BY <1>8 DEF Compact
  <2>2. todo = <<>> /\ Context(messages)
    BY <2>1, ContextOutsideTools
  <2>3. PICK split : split = SplitPoint(messages, KeepRecent)
    OBVIOUS
  <2>4. /\ split # 0 /\ messages' = Rebuilt(messages, split)
        /\ canonical' = Recent(messages, split) \/ canonical' = canonical
    BY <1>8, <2>3 DEF Compact
  <2>5. Context(Rebuilt(messages, split)) /\ ValidHistory(Recent(messages, split))
    BY <2>2, <2>3, <2>4, ContextCompacted
  <2>6. Context(messages') /\ ValidHistory(canonical')
    BY <1>3, <2>4, <2>5
  <2> QED BY <1>3, <2>1, <2>2, <2>6, ContextLeft
<1>9. CASE Scaffold
  <2>1. /\ pc = "scaffold" /\ pc' = "llm" /\ UNCHANGED <<resp, todo, canonical>>
    BY <1>9 DEF Scaffold, noteVars
  <2>2. todo = <<>> /\ Context(messages)
    BY <2>1, ContextOutsideTools
  <2>3. ASSUME NEW ms, Context(ms), NEW kind \in {"wind_down", "nudge"}, NEW P
        PROVE  Context(ms \o (IF P THEN <<Message(kind)>> ELSE <<>>))
    <3>1. ms \o <<Message(kind)>> = Append(ms, Message(kind)) /\ ms \o <<>> = ms
      BY <2>3 DEF Context, Histories
    <3>2. Context(Append(ms, Message(kind)))
      BY <2>3, ContextGrows DEF Kinds, SystemRole, Scaffolding
    <3> QED BY <2>3, <3>1, <3>2
  <2>4. PICK ms : ms = messages \o (IF MaxIterations - iteration = WindDownIters
                                    THEN <<Message("wind_down")>> ELSE <<>>)
    OBVIOUS
  <2>5. Context(ms)
    BY <2>2, <2>3, <2>4
  <2>6. messages' = ms \o (IF silent >= SilenceLimit THEN <<Message("nudge")>> ELSE <<>>)
    BY <1>9, <2>4 DEF Scaffold
  <2>7. Context(messages')
    BY <2>3, <2>5, <2>6
  <2> QED BY <1>3, <2>1, <2>2, <2>7, ContextLeft
<1>10. CASE Absorb
  <2>1. /\ pc = "absorb" /\ canonical' = canonical /\ todo' = resp.calls /\ resp' = NoResponse
        /\ messages' = Append(messages, AssistantMessage(resp.calls))
        /\ resp.calls # <<>> => pc' = "tools"
        /\ resp.calls = <<>> => pc' \in {"turn_end", "next_push", "check"}
    BY <1>10 DEF Absorb, BreakWithNotice, noteVars
  <2>2. Context(messages)
    BY <2>1, ContextOutsideTools
  <2>3. messages' \in Histories(Nat) /\ Completed(messages', todo')
    BY <1>3, <2>1, <2>2, CallsMade DEF Context
  <2>4. Prompted(messages')
    <3>1. AssistantMessage(resp.calls).kind # "summary"
      BY DEF AssistantMessage
    <3> QED BY <2>1, <2>2, <3>1, StillPrompted DEF Context
  <2>5. DistinctCalls(todo') /\ DistinctCalls(resp'.calls)
    BY <1>3, <2>1, ResponseCalls
  <2>6. (todo # <<>> <=> pc \in {"tools", "tools_call"})'
    BY <2>1
  <2> QED BY <1>3, <2>1, <2>3, <2>4, <2>5, <2>6 DEF MessagesInv
<1>11. CASE RejectArguments \/ RunLocalTool \/ AcpToolReturned
  <2>1. /\ pc \in {"tools", "tools_call"} /\ canonical' = canonical /\ resp' = resp
        /\ AppendResult
    BY <1>11 DEF RejectArguments, RunLocalTool, AcpToolReturned, noteVars
  <2>2. /\ messages' = Append(messages, ToolMessage(Head(todo))) /\ todo' = Tail(todo)
        /\ pc' = IF Len(todo) = 1 THEN "check" ELSE "tools"
    BY <2>1 DEF AppendResult
  <2>3. /\ messages \in Histories(Nat) /\ DistinctCalls(todo) /\ todo # <<>>
        /\ Completed(messages, todo) /\ Prompted(messages)
    BY <2>1 DEF MessagesInv
  <2>4. messages' \in Histories(Nat) /\ DistinctCalls(todo') /\ Completed(messages', todo')
    BY <2>2, <2>3, ResultGiven
  <2>5. Prompted(messages')
    <3>1. ToolMessage(Head(todo)).kind # "summary"
      BY DEF ToolMessage
    <3> QED BY <2>2, <2>3, <3>1, StillPrompted
  <2>6. (todo # <<>> <=> pc \in {"tools", "tools_call"})'
    <3>1. Tail(todo) = <<>> <=> Len(todo) = 1
      <4>1. todo \in Seq(Nat) /\ todo # <<>>
        BY <2>3 DEF DistinctCalls
      <4>2. Tail(todo) \in Seq(Nat) /\ Len(Tail(todo)) = Len(todo) - 1 /\ Len(todo) \in Nat
        BY <4>1
      <4>3. Tail(todo) = <<>> <=> Len(Tail(todo)) = 0
        BY <4>2
      <4> QED BY SMTT(30), <4>2, <4>3
    <3> QED BY <2>2, <3>1
  <2>7. DistinctCalls(resp'.calls) /\ ValidHistory(canonical')
    BY <1>3, <2>1
  <2> QED BY <2>4, <2>5, <2>6, <2>7 DEF MessagesInv
<1>12. CASE Request \/ AwaitResponse \/ UNCHANGED loopVars
  BY <1>1, <1>12 DEF Request, AwaitResponse, loopVars, noteVars
<1> QED BY <1>1, <1>4, <1>5, <1>6, <1>7, <1>8, <1>9, <1>10, <1>11, <1>12 DEF Next, Agent, vars

LEMMA ContextInvHolds == Spec => []ContextInv
<1>1. Init => ContextInv
  <2> SUFFICES ASSUME Init PROVE ControlInv /\ MessagesInv
    BY DEF ContextInv
  <2>1. ControlInv
    BY LoopAssumption DEF Init, ControlInv, RequestPC, InTurn
  <2>2. messages = <<>> /\ todo = <<>> /\ canonical = <<>> /\ resp = NoResponse /\ pc = "tools_list"
    BY DEF Init
  <2>3. <<>> \in Histories(Nat) /\ ValidHistory(<<>>)
    BY NoMessages
  <2>4. DistinctCalls(<<>>) /\ Completed(<<>>, <<>>) /\ DistinctCalls(NoResponse.calls)
    BY <2>3, NothingToComplete, ResponseCalls
  <2> QED BY <2>1, <2>2, <2>3, <2>4 DEF MessagesInv
<1>2. ContextInv /\ [Next]_vars => ContextInv'
  BY ControlStep, MessagesStep DEF ContextInv
<1> QED BY <1>1, <1>2, PTL DEF Spec

-----------------------------------------------------------------------------
(* Messages of role tool that answer nothing.                              *)

LEMMA StrayAdded ==
    ASSUME NEW ms \in Histories(Nat), NEW m, HasStray(Append(ms, m))
    PROVE  HasStray(ms) \/ m.kind = "stray"
<1>1. PICK c : c = Append(ms, m)
  OBVIOUS
<1>2. /\ Len(c) = Len(ms) + 1 /\ Len(ms) \in Nat /\ c[Len(c)] = m
      /\ \A i \in 1..Len(ms) : c[i] = ms[i]
  BY <1>1 DEF Histories
<1>3. PICK i \in 1..Len(c) : c[i].kind = "stray"
  BY <1>1 DEF HasStray
<1>4. i = Len(c) \/ i \in 1..Len(ms)
  BY <1>2
<1> QED BY <1>2, <1>3, <1>4 DEF HasStray

LEMMA StrayJoined ==
    ASSUME NEW a \in Histories(Nat), NEW b \in Histories(Nat), HasStray(a \o b)
    PROVE  HasStray(a) \/ HasStray(b)
<1>1. PICK c : c = a \o b
  OBVIOUS
<1>2. /\ Len(c) = Len(a) + Len(b) /\ Len(a) \in Nat /\ Len(b) \in Nat
      /\ \A i \in 1..Len(a) : c[i] = a[i]
      /\ \A i \in 1..Len(b) : c[Len(a) + i] = b[i]
  BY <1>1, AppendedFacts DEF Histories
<1>3. PICK i \in 1..Len(c) : c[i].kind = "stray"
  BY <1>1 DEF HasStray
<1>4. CASE i \in 1..Len(a)
  BY <1>2, <1>3, <1>4 DEF HasStray
<1>5. CASE i \notin 1..Len(a)
  <2>1. i - Len(a) \in 1..Len(b) /\ Len(a) + (i - Len(a)) = i
    BY <1>2, <1>5
  <2> QED BY <1>2, <1>3, <2>1 DEF HasStray
<1> QED BY <1>4, <1>5

(* A message the agent writes is none. *)
LEMMA WrittenIsNoStray ==
    ASSUME NEW kind \in Kinds \ {"tool", "stray"}
    PROVE  <<Message(kind)>> \in Histories(Nat) /\ ~HasStray(<<Message(kind)>>)
<1>1. <<Message(kind)>>[1].kind # "stray" /\ Len(<<Message(kind)>>) = 1
  BY DEF Message
<1> QED BY <1>1, WrittenMessage DEF HasStray

(* Compaction adds none. *)
LEMMA StrayKept ==
    ASSUME NEW ms, Context(ms), NEW split, split = SplitPoint(ms, KeepRecent), split # 0
    PROVE  HasStray(Rebuilt(ms, split)) \/ HasStray(Recent(ms, split)) => HasStray(ms)
<1>1. ms \in Histories(Nat) /\ ValidHistory(ms)
  BY DEF Context
<1>2. Len(ms) \in Nat /\ SystemCount(ms) \in 0..1 /\ SystemCount(ms) \in 0..Len(ms)
  BY <1>1, SystemCountFacts DEF Histories
<1>3. split \in 0..Len(ms)
  <2>1. split \in (SystemCount(ms) + 1)..(Len(ms) - KeepRecent) /\ KeepRecent \in Nat
    BY <1>1, SplitFacts, LoopAssumption
  <2> QED BY <1>2, <2>1
<1>4. PICK r : r = Recent(ms, split)
  OBVIOUS
<1>5. r \in Histories(Nat) /\ (HasStray(r) => HasStray(ms))
  <2>1. /\ r \in Histories(Nat) /\ Len(r) = Len(ms) - split
        /\ \A i \in 1..(Len(ms) - split) : r[i] = ms[split + i]
    BY <1>1, <1>3, <1>4, RecentFacts
  <2>2. \A i \in 1..Len(r) : split + i \in 1..Len(ms)
    BY <1>2, <1>3, <2>1
  <2> QED BY <2>1, <2>2 DEF HasStray
<1>6. PICK n \in 0..Len(ms) : n = SystemCount(ms)
  BY <1>2
<1>7. PICK h : h = SubSeq(ms, 1, n)
  OBVIOUS
<1>8. h \in Histories(Nat) /\ (HasStray(h) => HasStray(ms))
  <2>1. h \in Histories(Nat) /\ Len(h) = n /\ \A i \in 1..n : h[i] = ms[i]
    BY <1>1, <1>2, <1>6, <1>7 DEF Histories
  <2>2. \A i \in 1..Len(h) : i \in 1..Len(ms)
    BY <1>2, <1>6, <2>1
  <2> QED BY <2>1, <2>2 DEF HasStray
<1>9. PICK q : q = <<Message("summary")>>
  OBVIOUS
<1>10. q \in Histories(Nat) /\ ~HasStray(q)
  BY <1>9, WrittenIsNoStray DEF Kinds, SystemRole, Scaffolding
<1>11. PICK d : d = h \o q
  OBVIOUS
<1>12. d \in Histories(Nat) /\ (HasStray(d) => HasStray(ms))
  BY <1>8, <1>10, <1>11, AppendedFacts, StrayJoined
<1>13. HasStray(d \o r) => HasStray(ms)
  BY <1>5, <1>12, StrayJoined
<1>14. Rebuilt(ms, split) = d \o r
  BY <1>4, <1>6, <1>7, <1>9, <1>11 DEF Rebuilt
<1> QED BY <1>4, <1>5, <1>13, <1>14

StrayInv == HasStray(messages) \/ HasStray(canonical) => ToolPushed

(* What was taken stays taken. *)
LEMMA ToolStaysPushed ==
    ASSUME AcpTypeOK, [Next]_vars, ToolPushed
    PROVE  ToolPushed'
<1>1. AcpStep /\ taken \in Seq(Pushes)
  BY LoopStepIsAcpStep DEF AcpTypeOK
<1>2. taken' = taken \/ \E p \in Pushes : taken' = Append(taken, p)
  BY <1>1 DEF AcpStep, SendRequest, BufferNotification, ReadResponse, Returned, RecvNotification,
              PeerPushes, PeerAnswers, CloseStdin, BreakStdout, acpVars
<1>3. \A i \in 1..Len(taken) : i \in 1..Len(taken') /\ taken'[i] = taken[i]
  BY <1>1, <1>2
<1> QED BY <1>3 DEF ToolPushed

LEMMA StrayStep == AcpTypeOK /\ MessagesInv /\ StrayInv /\ [Next]_vars => StrayInv'
<1> SUFFICES ASSUME AcpTypeOK, MessagesInv, StrayInv, [Next]_vars,
                    HasStray(messages') \/ HasStray(canonical')
             PROVE  ToolPushed'
  BY DEF StrayInv
<1>1. SUFFICES ASSUME ~HasStray(messages), ~HasStray(canonical) PROVE ToolPushed'
  BY ToolStaysPushed DEF StrayInv
<1>2. messages \in Histories(Nat)
  BY DEF MessagesInv
<1>3. CASE UNCHANGED <<messages, canonical>>
  BY <1>1, <1>3
<1>4. CASE \/ ToolsListed \/ ReadFails \/ Check \/ QuotaChecked \/ SkipCompaction \/ CompactFails
           \/ LlmFails \/ QuotaUpdated \/ CallAcpTool \/ TurnEnd \/ Request \/ AwaitResponse
           \/ UNCHANGED loopVars
           \/ (\E p \in BadUsers \cup Cancels : Leave(p)) \/ (\E r \in Responses : LlmAnswers(r))
  BY <1>3, <1>4 DEF ToolsListed, ReadFails, Check, QuotaChecked, SkipCompaction, CompactFails,
                    LlmFails, QuotaUpdated, CallAcpTool, TurnEnd, Request, AwaitResponse, Leave,
                    LlmAnswers, noteVars, loopVars
<1>5. CASE Initialized
  <2>1. /\ canonical' = canonical
        /\ messages' = messages \/ \E boot \in BootHistories : messages' = WithPrompt(boot)
    BY <1>5 DEF Initialized, noteVars
  <2>2. PICK boot \in BootHistories : messages' = WithPrompt(boot) /\ HasStray(messages')
    BY <1>1, <2>1
  <2>3. PICK h : h = <<Message("system")>>
    OBVIOUS
  <2>4. boot \in Histories(Nat) /\ h \in Histories(Nat) /\ ~HasStray(h)
    BY <2>3, BootAssumption, WrittenIsNoStray DEF Histories, Kinds, SystemRole
  <2>5. WithPrompt(boot) = boot \/ WithPrompt(boot) = h \o boot
    BY <2>3 DEF WithPrompt
  <2>6. HasStray(boot)
    BY <2>2, <2>4, <2>5, StrayJoined
  <2> QED BY <2>6 DEF ToolPushed
<1>6. ASSUME NEW p \in Users, StartTurn(p) PROVE ToolPushed'
  <2>1. /\ canonical' = canonical /\ messages' = Append(messages, PushedMessage(p))
        /\ taken' = Append(taken, p) /\ taken \in Seq(Pushes) /\ p \in Pushes
    BY <1>6 DEF StartTurn, RecvNotification, AcpTypeOK, Pushes
  <2>2. PushedMessage(p).kind = "stray"
    BY <1>1, <1>2, <2>1, StrayAdded
  <2>3. RoleOf[p] = "tool"
    BY <2>2, RoleAssumption DEF PushedMessage, Message
  <2>4. Len(taken') \in 1..Len(taken') /\ taken'[Len(taken')] = p
    BY <2>1
  <2> QED BY <2>3, <2>4 DEF ToolPushed
<1>7. ASSUME NEW s \in {"text", "empty"}, Compact(s) PROVE ToolPushed'
  <2>1. PICK split : split = SplitPoint(messages, KeepRecent)
    OBVIOUS
  <2>2. /\ pc = "compact" /\ split # 0 /\ messages' = Rebuilt(messages, split)
        /\ canonical' = Recent(messages, split) \/ canonical' = canonical
    BY <1>7, <2>1 DEF Compact
  <2>3. Context(messages)
    BY <2>2, ContextOutsideTools
  <2> QED BY <1>1, <2>1, <2>2, <2>3, StrayKept
<1>8. CASE Scaffold
  <2>1. canonical' = canonical
    BY <1>8 DEF Scaffold, noteVars
  <2>2. PICK w : w = IF MaxIterations - iteration = WindDownIters THEN <<Message("wind_down")>> ELSE <<>>
    OBVIOUS
  <2>3. PICK n : n = IF silent >= SilenceLimit THEN <<Message("nudge")>> ELSE <<>>
    OBVIOUS
  <2>4. w \in Histories(Nat) /\ n \in Histories(Nat) /\ ~HasStray(w) /\ ~HasStray(n)
    <3>1. <<>> \in Histories(Nat) /\ ~HasStray(<<>>)
      BY NoMessages DEF HasStray
    <3>2. /\ <<Message("wind_down")>> \in Histories(Nat) /\ ~HasStray(<<Message("wind_down")>>)
          /\ <<Message("nudge")>> \in Histories(Nat) /\ ~HasStray(<<Message("nudge")>>)
      BY WrittenIsNoStray DEF Kinds, SystemRole, Scaffolding
    <3> QED BY <2>2, <2>3, <3>1, <3>2
  <2>5. messages' = (messages \o w) \o n
    BY <1>8, <2>2, <2>3 DEF Scaffold
  <2>6. PICK m : m = messages \o w
    OBVIOUS
  <2>7. m \in Histories(Nat) /\ ~HasStray(m)
    BY <1>1, <1>2, <2>4, <2>6, AppendedFacts, StrayJoined
  <2>8. ~HasStray(m \o n)
    BY <2>4, <2>7, StrayJoined
  <2> QED BY <1>1, <2>1, <2>5, <2>6, <2>8
<1>9. CASE Absorb
  <2>1. canonical' = canonical /\ messages' = Append(messages, AssistantMessage(resp.calls))
    BY <1>9 DEF Absorb, noteVars
  <2>2. AssistantMessage(resp.calls).kind # "stray"
    BY DEF AssistantMessage
  <2> QED BY <1>1, <1>2, <2>1, <2>2, StrayAdded
<1>10. CASE RejectArguments \/ RunLocalTool \/ AcpToolReturned
  <2>1. canonical' = canonical /\ messages' = Append(messages, ToolMessage(Head(todo)))
    BY <1>10 DEF RejectArguments, RunLocalTool, AcpToolReturned, AppendResult, noteVars
  <2>2. ToolMessage(Head(todo)).kind # "stray"
    BY DEF ToolMessage
  <2> QED BY <1>1, <1>2, <2>1, <2>2, StrayAdded
<1>11. CASE UNCHANGED vars
  BY <1>3, <1>11 DEF vars, loopVars, noteVars
<1> QED BY <1>4, <1>5, <1>6, <1>7, <1>8, <1>9, <1>10, <1>11 DEF Next, Agent

LEMMA StrayInvHolds == Spec => []StrayInv
<1>1. Init => StrayInv
  BY DEF Init, StrayInv, HasStray
<1>2. AcpTypeOK /\ ContextInv /\ StrayInv /\ [Next]_vars => StrayInv'
  BY StrayStep DEF ContextInv
<1> QED BY <1>1, <1>2, AcpTypeCorrect, ContextInvHolds, PTL DEF Spec

(* Whatever the turns before did - failed tools, compactions, failed       *)
(* turns - the context the LLM is called with has the result of every tool *)
(* call right behind it, is led by the prompt or by what led the history   *)
(* it started from, and holds at most one summary made since; and what the *)
(* operator was last told to persist is a valid history too.  A message of *)
(* role tool that answers no call is in neither unless one was pushed, or  *)
(* booted with (agentic_loop.rs 86-357, compaction.rs 40-110, acp.rs       *)
(* 351-374).                                                               *)
THEOREM ContextIsOK == Spec => []ContextOK
<1>1. AcpTypeOK /\ ContextInv /\ StrayInv => ContextOK
  <2> SUFFICES ASSUME AcpTypeOK, ContextInv, StrayInv PROVE ContextOK
    OBVIOUS
  <2>1. ToSet(pending) \cup ToSet(taken) \subseteq Pushes
    BY DEF AcpTypeOK, ToSet
  <2>2. \A i \in 1..Len(messages) : messages[i].kind \in Kinds
    <3>1. messages \in Histories(Nat)
      BY DEF ContextInv, MessagesInv
    <3> QED BY <3>1, HistoryFacts
  <2>3. LoopTypeOK
    BY <2>1, <2>2 DEF LoopTypeOK, AcpTypeOK, ContextInv, ControlInv
  <2>4. ASSUME pc = "llm"
        PROVE  Context(messages) /\ ValidHistory(canonical)
    BY <2>4, ContextOutsideTools DEF ContextInv, MessagesInv
  <2>5. ContextIsValid /\ PromptAndOneSummary
    BY <2>4 DEF ContextIsValid, PromptAndOneSummary, Context, Prompted, StrayInv
  <2> QED BY <2>3, <2>5 DEF ContextOK
<1> QED BY <1>1, AcpTypeCorrect, ContextInvHolds, StrayInvHolds, PTL
=============================================================================
