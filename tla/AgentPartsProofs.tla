--------------------------- MODULE AgentPartsProofs ---------------------------
(***************************************************************************)
(* Theorems about parts of the agent process that share no state: the      *)
(* limiter of error reports, a call of the LLM client, tracing, the table  *)
(* of tools and the builtin ones.  Each is about the part's own            *)
(* specification.                                                          *)
(***************************************************************************)
EXTENDS LlmClient, ToolRegistry, BuiltinTools, Tracing, RateLimit, FiniteSetTheorems, TLAPS

-----------------------------------------------------------------------------
(* The limiter of error reports.                                           *)

ReportKeys == {EventKey(e) : e \in Event}

Verdicts == [key : ReportKeys, at : Nat, sent : BOOLEAN]

Waiting(t) == events[t] # NoReport

LimitTypeOK ==
    /\ clock \in Nat
    /\ DOMAIN lastSeen \subseteq ReportKeys
    /\ \A k \in DOMAIN lastSeen : lastSeen[k] \in Nat
    /\ events \in [Threads -> [key : ReportKeys \cup {<<>>}, at : Nat]]
    /\ verdicts \in Seq(Verdicts)

(* How far a thread at the lock is behind the clock. *)
DelayOK ==
    \A t \in Threads : Waiting(t) =>
        /\ events[t].key \in ReportKeys
        /\ events[t].at <= clock /\ clock <= events[t].at + MaxDelay

(* An entry is the reading of a report that was sent. *)
EntrySent ==
    \A k \in DOMAIN lastSeen : \E i \in 1..Len(verdicts) :
        verdicts[i].sent /\ verdicts[i].key = k /\ verdicts[i].at = lastSeen[k]

(* A report that was sent is still covered by the entry of its key, unless *)
(* it is too old for any event that can still reach the lock.              *)
Covered(v, seen, now) ==
    \/ v.key \in DOMAIN seen /\ v.at <= seen[v.key]
    \/ v.at + Window + MaxDelay <= now

SentCovered ==
    \A i \in 1..Len(verdicts) : verdicts[i].sent => Covered(verdicts[i], lastSeen, clock)

LimitInv == LimitTypeOK /\ DelayOK /\ EntrySent /\ SentCovered /\ ReportsAreLimited

LEMMA VerdictAt ==
    ASSUME LimitTypeOK, NEW i \in 1..Len(verdicts)
    PROVE  verdicts[i] \in Verdicts
<1>1. verdicts \in Seq(Verdicts)
  BY DEF LimitTypeOK
<1> QED BY <1>1

LEMMA LimitShouldSend ==
    ASSUME LimitInv, NEW t \in Threads, ShouldSend(t)
    PROVE  LimitInv'
<1> DEFINE key == events[t].key
           now == events[t].at
           kept == Pruned(now)
           sent == ~(key \in DOMAIN kept /\ Since(now, kept[key]) < Window)
           v == [key |-> key, at |-> now, sent |-> sent]
           n == Len(verdicts)
<1>1. /\ key \in ReportKeys /\ now \in Nat /\ now <= clock /\ clock <= now + MaxDelay
      /\ sent \in BOOLEAN /\ n \in Nat /\ clock \in Nat
  BY DEF ShouldSend, LimitInv, LimitTypeOK, DelayOK, Waiting
<1>2. /\ DOMAIN kept \subseteq DOMAIN lastSeen
      /\ \A k \in DOMAIN kept : kept[k] = lastSeen[k]
      /\ \A k \in DOMAIN lastSeen : k \notin DOMAIN kept => Since(now, lastSeen[k]) >= PruneAfter
  <2>1. \A k \in DOMAIN lastSeen : Since(now, lastSeen[k]) \in Nat
    BY <1>1 DEF LimitInv, LimitTypeOK, Since
  <2> QED BY <2>1, LimitAssumption DEF Pruned
<1>3. /\ sent => lastSeen' = [k \in DOMAIN kept \cup {key} |-> IF k = key THEN now ELSE kept[k]]
      /\ ~sent => lastSeen' = kept
      /\ verdicts' = Append(verdicts, v)
      /\ events' = [events EXCEPT ![t] = NoReport]
      /\ clock' = clock
  BY Zenon DEF ShouldSend
<1>4. /\ v.key = key /\ v.at = now /\ (v.sent <=> sent)
      /\ v \in Verdicts
  BY <1>1 DEF Verdicts
<1> HIDE DEF key, now, kept, sent, v
<1>5. /\ Len(verdicts') = n + 1 /\ verdicts'[n + 1] = v
      /\ \A i \in 1..n : verdicts'[i] = verdicts[i]
      /\ verdicts' \in Seq(Verdicts)
  BY <1>3, <1>4 DEF LimitInv, LimitTypeOK
<1> HIDE DEF n
<1>6. ASSUME NEW i \in 1..(n + 1)
      PROVE  \/ i \in 1..n /\ verdicts'[i] = verdicts[i]
             \/ i = n + 1 /\ verdicts'[i] = v
  BY <1>1, <1>5
<1>a. ASSUME NEW i \in 1..n
      PROVE  verdicts[i].key \in ReportKeys /\ verdicts[i].at \in Nat
  <2>1. verdicts[i] \in Verdicts
    BY VerdictAt DEF LimitInv, n
  <2> QED BY <2>1 DEF Verdicts
<1>7. LimitTypeOK'
  <2>1. DOMAIN lastSeen' \subseteq ReportKeys
    BY <1>1, <1>2, <1>3 DEF LimitInv, LimitTypeOK
  <2>2. ASSUME NEW k \in DOMAIN lastSeen' PROVE lastSeen'[k] \in Nat
    BY <1>1, <1>2, <1>3 DEF LimitInv, LimitTypeOK
  <2>3. events' \in [Threads -> [key : ReportKeys \cup {<<>>}, at : Nat]]
    BY <1>3 DEF LimitInv, LimitTypeOK, NoReport
  <2> QED BY <1>1, <1>3, <1>5, <2>1, <2>2, <2>3 DEF LimitTypeOK
<1>8. DelayOK'
  BY <1>3 DEF LimitInv, LimitTypeOK, DelayOK, Waiting
<1>9. EntrySent'
  <2> SUFFICES ASSUME NEW k \in DOMAIN lastSeen'
               PROVE  \E i \in 1..(n + 1) : verdicts'[i].sent /\ verdicts'[i].key = k
                                            /\ verdicts'[i].at = lastSeen'[k]
    BY <1>5 DEF EntrySent
  <2>1. CASE sent /\ k = key
    BY <1>1, <1>3, <1>4, <1>5, <2>1
  <2>2. CASE ~(sent /\ k = key)
    <3>1. k \in DOMAIN lastSeen /\ lastSeen'[k] = lastSeen[k]
      BY <1>2, <1>3, <2>2
    <3>2. PICK i \in 1..n : verdicts[i].sent /\ verdicts[i].key = k
                            /\ verdicts[i].at = lastSeen[k]
      BY <3>1 DEF LimitInv, EntrySent, n
    <3> QED BY <1>1, <1>5, <3>1, <3>2
  <2> QED BY <2>1, <2>2
<1>10. ASSUME NEW i \in 1..n, verdicts[i].sent, verdicts[i].key = key, sent
       PROVE  now >= verdicts[i].at + Window
  <2>1. Covered(verdicts[i], lastSeen, clock)
    BY <1>10 DEF LimitInv, SentCovered, n
  <2>2. CASE verdicts[i].at + Window + MaxDelay <= clock
    BY <1>1, <1>a, <2>2, LimitAssumption
  <2>3. CASE key \in DOMAIN lastSeen /\ verdicts[i].at <= lastSeen[key]
    <3>1. lastSeen[key] \in Nat
      BY <2>3 DEF LimitInv, LimitTypeOK
    <3>2. Since(now, lastSeen[key]) >= Window
      <4>1. CASE key \in DOMAIN kept
        BY <1>1, <1>2, <1>10, <3>1, <4>1, LimitAssumption DEF sent, Since
      <4>2. CASE key \notin DOMAIN kept
        BY <1>1, <1>2, <2>3, <3>1, <4>2, LimitAssumption DEF Since
      <4> QED BY <4>1, <4>2
    <3> QED BY <1>1, <1>a, <2>3, <3>1, <3>2, LimitAssumption DEF Since
  <2> QED BY <1>10, <2>1, <2>2, <2>3 DEF Covered
<1>11. SentCovered'
  <2> SUFFICES ASSUME NEW i \in 1..(n + 1), verdicts'[i].sent
               PROVE  Covered(verdicts'[i], lastSeen', clock')
    BY <1>5 DEF SentCovered
  <2>1. CASE i = n + 1
    BY <1>1, <1>3, <1>4, <1>5, <2>1 DEF Covered
  <2>2. CASE i \in 1..n
    <3> DEFINE u == verdicts[i]
    <3>1. verdicts'[i] = u /\ u.at \in Nat /\ u.key \in ReportKeys
      BY <1>5, <1>a, <2>2
    <3>2. Covered(u, lastSeen, clock) /\ u.sent
      BY <2>2, <3>1 DEF LimitInv, SentCovered, n
    <3>3. sent /\ u.key = key => now >= u.at + Window
      BY <1>10, <2>2, <3>2
    <3> HIDE DEF u
    <3>4. CASE u.at + Window + MaxDelay <= clock
      BY <1>3, <3>1, <3>4 DEF Covered
    <3>5. CASE u.key \in DOMAIN lastSeen /\ u.at <= lastSeen[u.key]
      <4>0. lastSeen[u.key] \in Nat
        BY <3>5 DEF LimitInv, LimitTypeOK
      <4>1. CASE sent /\ u.key = key
        BY <1>1, <1>3, <3>1, <3>3, <4>1, LimitAssumption DEF Covered
      <4>2. CASE ~(sent /\ u.key = key) /\ u.key \in DOMAIN kept
        BY <1>1, <1>2, <1>3, <3>1, <3>5, <4>2 DEF Covered
      <4>3. CASE u.key \notin DOMAIN kept
        <5>1. Since(now, lastSeen[u.key]) >= PruneAfter
          BY <1>2, <3>5, <4>3
        <5>2. u.at + Window + MaxDelay <= clock
          BY <1>1, <3>1, <3>5, <4>0, <5>1, LimitAssumption DEF Since
        <5> QED BY <1>3, <3>1, <5>2 DEF Covered
      <4> QED BY <4>1, <4>2, <4>3
    <3> QED BY <3>2, <3>4, <3>5 DEF Covered
  <2> QED BY <1>1, <2>1, <2>2
<1>12. ReportsAreSpaced'
  <2> SUFFICES ASSUME NEW i \in 1..(n + 1), NEW j \in 1..(n + 1), i < j,
                      verdicts'[i].sent, verdicts'[j].sent,
                      verdicts'[i].key = verdicts'[j].key
               PROVE  verdicts'[j].at >= verdicts'[i].at + Window
    BY <1>5 DEF ReportsAreSpaced
  <2>1. i \in 1..n /\ verdicts'[i] = verdicts[i]
    BY <1>1, <1>5
  <2>2. CASE j \in 1..n
    BY <1>5, <2>1, <2>2 DEF LimitInv, ReportsAreLimited, ReportsAreSpaced, n
  <2>3. CASE j = n + 1
    BY <1>4, <1>5, <1>10, <2>1, <2>3
  <2> QED BY <1>1, <2>2, <2>3
<1>13. DroppedForASentOne'
  <2> SUFFICES ASSUME NEW j \in 1..(n + 1), ~verdicts'[j].sent
               PROVE  \E i \in 1..(j - 1) :
                         /\ verdicts'[i].sent /\ verdicts'[i].key = verdicts'[j].key
                         /\ verdicts'[j].at < verdicts'[i].at + Window
    BY <1>5 DEF DroppedForASentOne
  <2>1. CASE j \in 1..n
    <3>1. PICK i \in 1..(j - 1) : /\ verdicts[i].sent /\ verdicts[i].key = verdicts[j].key
                                  /\ verdicts[j].at < verdicts[i].at + Window
      BY <1>5, <2>1 DEF LimitInv, ReportsAreLimited, DroppedForASentOne, n
    <3>2. i \in 1..n
      BY <1>1, <2>1
    <3> QED BY <1>5, <2>1, <3>1, <3>2
  <2>2. CASE j = n + 1
    <3>1. ~sent
      BY <1>4, <1>5, <2>2
    <3>2. key \in DOMAIN lastSeen /\ Since(now, lastSeen[key]) < Window
      BY <1>2, <3>1 DEF sent
    <3>3. PICK i \in 1..n : verdicts[i].sent /\ verdicts[i].key = key
                            /\ verdicts[i].at = lastSeen[key]
      BY <3>2 DEF LimitInv, EntrySent, n
    <3>4. now < verdicts[i].at + Window
      BY <1>1, <1>a, <3>2, <3>3, LimitAssumption DEF Since
    <3>5. i \in 1..(j - 1)
      BY <1>1, <2>2
    <3> QED BY <1>4, <1>5, <2>2, <3>3, <3>4, <3>5
  <2> QED BY <1>1, <2>1, <2>2
<1> QED BY <1>7, <1>8, <1>9, <1>11, <1>12, <1>13 DEF LimitInv, ReportsAreLimited

LEMMA LimitNextInv == LimitInv /\ [LimitNext]_limitVars => LimitInv'
<1> SUFFICES ASSUME LimitInv, [LimitNext]_limitVars PROVE LimitInv'
  OBVIOUS
<1>1. ASSUME NEW t \in Threads, NEW e \in Event, ReadClock(t, e) PROVE LimitInv'
  <2>1. EventKey(e) \in ReportKeys
    BY DEF ReportKeys
  <2>2. UNCHANGED <<clock, lastSeen, verdicts>>
    BY <1>1 DEF ReadClock
  <2>3. LimitTypeOK' /\ DelayOK'
    BY <1>1, <2>1, LimitAssumption DEF ReadClock, LimitInv, LimitTypeOK, DelayOK, Waiting
  <2>4. EntrySent' /\ SentCovered' /\ ReportsAreLimited'
    BY <2>2 DEF LimitInv, EntrySent, SentCovered, Covered, ReportsAreLimited,
                ReportsAreSpaced, DroppedForASentOne
  <2> QED BY <2>3, <2>4 DEF LimitInv
<1>2. CASE LimitTick
  <2>1. /\ clock' = clock + 1 /\ UNCHANGED <<lastSeen, events, verdicts>>
        /\ \A t \in Threads : events[t] # NoReport => clock - events[t].at < MaxDelay
    BY <1>2 DEF LimitTick
  <2>2. LimitTypeOK' /\ DelayOK'
    BY <2>1, LimitAssumption DEF LimitInv, LimitTypeOK, DelayOK, Waiting
  <2>3. SentCovered'
    <3> SUFFICES ASSUME NEW i \in 1..Len(verdicts), verdicts[i].sent
                 PROVE  Covered(verdicts[i], lastSeen', clock')
      BY <2>1 DEF SentCovered
    <3>0. verdicts[i] \in Verdicts
      BY VerdictAt DEF LimitInv
    <3>1. verdicts[i].at \in Nat /\ clock \in Nat
      BY <3>0 DEF LimitInv, LimitTypeOK, Verdicts
    <3>2. Covered(verdicts[i], lastSeen, clock)
      BY DEF LimitInv, SentCovered
    <3> QED BY <2>1, <3>1, <3>2, LimitAssumption DEF Covered
  <2>4. EntrySent' /\ ReportsAreLimited'
    BY <2>1 DEF LimitInv, EntrySent, ReportsAreLimited, ReportsAreSpaced, DroppedForASentOne
  <2> QED BY <2>2, <2>3, <2>4 DEF LimitInv
<1>3. CASE UNCHANGED limitVars
  BY <1>3 DEF limitVars, LimitInv, LimitTypeOK, DelayOK, Waiting, EntrySent, SentCovered,
              Covered, ReportsAreLimited, ReportsAreSpaced, DroppedForASentOne
<1> QED BY <1>1, <1>2, <1>3, LimitShouldSend DEF LimitNext

(* Of one key, reports that are sent are a window apart by the clocks they *)
(* read, and a dropped one has a sent one within a window, for any number  *)
(* of threads racing for the lock (sentry_rate_limit.rs 36-60): the pruning*)
(* age leaves room for the slowest thread.                                 *)
THEOREM ReportsLimited == LimitSpec => []ReportsAreLimited
<1>1. LimitInit => LimitInv
  BY LimitAssumption DEF LimitInit, LimitInv, LimitTypeOK, DelayOK, Waiting, NoReport, EntrySent,
     SentCovered, ReportsAreLimited, ReportsAreSpaced, DroppedForASentOne
<1>2. LimitInv => ReportsAreLimited
  BY DEF LimitInv
<1> QED BY <1>1, <1>2, LimitNextInv, PTL DEF LimitSpec

-----------------------------------------------------------------------------
(* A call of the LLM client.                                               *)

ClientTypeOK ==
    /\ pc \in {"post", "stream", "failed", "sleep", "ok", "err"}
    /\ escalated \in BOOLEAN /\ emitted \in BOOLEAN
    /\ attempt \in 1..5 /\ exponent \in 0..4
    /\ failure \in Failures
    /\ output \in Seq(1..5)
    /\ waits \in Seq([escalated : BOOLEAN, ms : Nat])

(* What the caller has is of the attempt under way, and a failure that     *)
(* will be retried left nothing there.                                     *)
OutputInv ==
    /\ ~emitted => output = <<>>
    /\ \A i \in 1..Len(output) : output[i] = attempt
    /\ pc \in {"post", "sleep"} => ~emitted
    /\ pc = "failed" /\ failure.retryable => ~emitted

BudgetInv ==
    /\ UsesItsBudget
    /\ pc = "sleep" => attempt < MaxAttempts(escalated)
    /\ exponent < attempt

(* The delay that next_delay() would give now is the base delay before the *)
(* first sleep, and twice the last one after it.                           *)
BackoffInv ==
    LET n == Len(waits)
        delay == DelayFor(escalated, exponent)
    IN  /\ pc = "sleep" => n > 0 /\ waits[n].escalated = escalated /\ waits[n].ms = delay
        /\ pc \in {"post", "stream", "failed"} =>
              \/ n = 0 /\ exponent = 0 /\ ~escalated
              \/ n > 0 /\ waits[n].escalated = escalated /\ delay = 2 * waits[n].ms

ClientInv == ClientTypeOK /\ OutputInv /\ BudgetInv /\ BackoffInv /\ BackoffDoubles

LEMMA DelayDoubles ==
    ASSUME NEW u \in BOOLEAN
    PROVE  /\ \A e \in 0..4 : DelayFor(u, e) \in Nat
           /\ DelayFor(u, 0) = BaseDelay(u)
           /\ \A e \in 0..3 : DelayFor(u, e + 1) = 2 * DelayFor(u, e)
<1>1. BaseDelay(u) = 2000 \/ BaseDelay(u) = 500
  BY DEF BaseDelay
<1>2. 2 ^ 0 = 1 /\ 2 ^ 1 = 2 /\ 2 ^ 2 = 4 /\ 2 ^ 3 = 8 /\ 2 ^ 4 = 16
  BY SMT
<1>3. /\ DelayFor(u, 0) = BaseDelay(u) * 1 /\ DelayFor(u, 1) = BaseDelay(u) * 2
      /\ DelayFor(u, 2) = BaseDelay(u) * 4 /\ DelayFor(u, 3) = BaseDelay(u) * 8
      /\ DelayFor(u, 4) = BaseDelay(u) * 16
  BY <1>2, Zenon DEF DelayFor
<1>4. /\ \A e \in 0..4 : e = 0 \/ e = 1 \/ e = 2 \/ e = 3 \/ e = 4
      /\ 0 + 1 = 1 /\ 1 + 1 = 2 /\ 2 + 1 = 3 /\ 3 + 1 = 4
  OBVIOUS
<1>5. ASSUME NEW e \in 0..4 PROVE DelayFor(u, e) \in Nat
  BY <1>1, <1>3, <1>4
<1>6. ASSUME NEW e \in 0..3 PROVE DelayFor(u, e + 1) = 2 * DelayFor(u, e)
  <2>1. e = 0 \/ e = 1 \/ e = 2 \/ e = 3
    BY <1>4
  <2> QED BY <1>1, <1>3, <1>4, <2>1
<1> QED BY <1>1, <1>3, <1>5, <1>6

(* handle_failure() that goes to sleep: the sleep is the base delay of the *)
(* budget, or twice the one before under it.                               *)
LEMMA ClientHandleFailure == ASSUME ClientInv, HandleFailure PROVE ClientInv'
<1> DEFINE upgraded == escalated \/ failure.keyword
           exp == IF upgraded /\ ~escalated THEN 0 ELSE exponent
           w == [escalated |-> upgraded, ms |-> DelayFor(upgraded, exp)]
           n == Len(waits)
<1>0. ClientTypeOK /\ OutputInv /\ BudgetInv /\ BackoffInv /\ BackoffDoubles
  BY DEF ClientInv
<1>1. upgraded \in BOOLEAN /\ exp \in 0..4 /\ exp < attempt /\ (escalated => upgraded)
  BY <1>0 DEF ClientTypeOK, Failures, BudgetInv
<1>2. /\ pc = "failed" /\ escalated' = upgraded
      /\ UNCHANGED <<kind, attempt, emitted, failure, output>>
      /\ \/ /\ ~failure.retryable \/ attempt >= MaxAttempts(upgraded)
            /\ pc' = "err"
            /\ UNCHANGED <<exponent, waits>>
         \/ /\ failure.retryable /\ attempt < MaxAttempts(upgraded)
            /\ exponent' = exp
            /\ waits' = Append(waits, w)
            /\ pc' = "sleep"
  BY DEF HandleFailure
<1>3. MaxAttempts(upgraded) \in {3, 5} /\ attempt <= MaxAttempts(upgraded)
  BY <1>0, <1>1 DEF BudgetInv, UsesItsBudget, MaxAttempts, ClientTypeOK
<1>4. w \in [escalated : BOOLEAN, ms : Nat]
  BY <1>1, DelayDoubles
<1>5. (w.escalated <=> upgraded) /\ w.ms = DelayFor(upgraded, exp)
  OBVIOUS
<1>6. OutputInv'
  BY <1>0, <1>2 DEF OutputInv
<1>7. CASE pc' = "err"
  <2>1. UNCHANGED <<exponent, waits>> /\ (~failure.retryable \/ attempt >= MaxAttempts(upgraded))
    BY <1>2, <1>7
  <2>2. ClientTypeOK'
    BY <1>0, <1>1, <1>2, <1>7, <2>1 DEF ClientTypeOK
  <2>3. BudgetInv'
    BY <1>0, <1>1, <1>2, <1>3, <1>7, <2>1 DEF BudgetInv, UsesItsBudget, ClientTypeOK
  <2>4. BackoffInv' /\ BackoffDoubles'
    BY <1>0, <1>7, <2>1 DEF BackoffInv, BackoffDoubles
  <2> QED BY <1>6, <2>2, <2>3, <2>4 DEF ClientInv
<1>8. CASE pc' = "sleep"
  <2>1. /\ failure.retryable /\ attempt < MaxAttempts(upgraded) /\ exponent' = exp
        /\ waits' = Append(waits, w)
    BY <1>2, <1>8
  <2>2. waits \in Seq([escalated : BOOLEAN, ms : Nat]) /\ n \in Nat
    BY <1>0 DEF ClientTypeOK
  <2>3. w.ms = IF n > 0 /\ waits[n].escalated = upgraded THEN 2 * waits[n].ms
               ELSE BaseDelay(upgraded)
    <3>1. CASE upgraded /\ ~escalated
      <4>1. exp = 0 /\ w.ms = BaseDelay(upgraded)
        BY <1>1, <1>5, <3>1, DelayDoubles
      <4>2. n > 0 => waits[n].escalated = FALSE
        BY <1>0, <1>2, <3>1 DEF BackoffInv, ClientTypeOK
      <4> QED BY <3>1, <4>1, <4>2
    <3>2. CASE ~(upgraded /\ ~escalated)
      <4>1. upgraded = escalated /\ exp = exponent
        BY <1>0, <1>1, <3>2 DEF ClientTypeOK
      <4>2. CASE n = 0 /\ exponent = 0
        <5>1. w.ms = DelayFor(upgraded, 0)
          BY <1>5, <4>1, <4>2
        <5>2. DelayFor(upgraded, 0) = BaseDelay(upgraded)
          BY <1>1, DelayDoubles
        <5> QED BY <4>2, <5>1, <5>2
      <4>3. CASE n > 0 /\ waits[n].escalated = escalated
                 /\ DelayFor(escalated, exponent) = 2 * waits[n].ms
        BY <1>5, <4>1, <4>3
      <4> QED BY <1>0, <1>2, <4>2, <4>3 DEF BackoffInv
    <3> QED BY <3>1, <3>2
  <2> HIDE DEF w, upgraded, exp
  <2>4. /\ Len(waits') = n + 1 /\ waits'[n + 1] = w
        /\ \A i \in 1..n : waits'[i] = waits[i]
        /\ waits' \in Seq([escalated : BOOLEAN, ms : Nat])
    BY <1>4, <2>1, <2>2
  <2> HIDE DEF n
  <2>5. ClientTypeOK'
    BY <1>0, <1>1, <1>2, <1>8, <2>1, <2>4 DEF ClientTypeOK
  <2>6. BudgetInv'
    BY <1>0, <1>1, <1>2, <1>3, <1>8, <2>1 DEF BudgetInv, UsesItsBudget, ClientTypeOK
  <2>7. BackoffInv'
    BY <1>1, <1>2, <1>5, <1>8, <2>1, <2>2, <2>4 DEF BackoffInv
  <2>8. BackoffDoubles'
    <3> SUFFICES ASSUME NEW i \in 1..(n + 1)
                 PROVE  waits'[i].ms = IF i > 1 /\ waits'[i - 1].escalated = waits'[i].escalated
                                       THEN 2 * waits'[i - 1].ms
                                       ELSE BaseDelay(waits'[i].escalated)
      BY <2>4 DEF BackoffDoubles
    <3>1. CASE i \in 1..n
      <4>1. waits'[i] = waits[i] /\ (i > 1 => waits'[i - 1] = waits[i - 1])
        BY <2>2, <2>4, <3>1
      <4> QED BY <1>0, <3>1, <4>1 DEF BackoffDoubles, n
    <3>2. CASE i = n + 1
      <4>1. waits'[i] = w /\ (n > 0 => waits'[i - 1] = waits[n])
        <5>1. n \in Nat /\ i - 1 = n /\ (n > 0 => n \in 1..n)
          BY <1>4, <3>2 DEF n
        <5>2. waits'[i] = w
          BY <2>4, <3>2, Zenon
        <5>3. n > 0 => waits'[n] = waits[n]
          BY <2>4, <5>1, Zenon
        <5> QED BY <5>1, <5>2, <5>3
      <4>2. w.escalated = upgraded
        BY DEF w
      <4>3. n > 0 <=> i > 1
        BY <2>2, <3>2
      <4> QED BY <2>3, <4>1, <4>2, <4>3
    <3> QED BY <2>2, <3>1, <3>2
  <2> QED BY <1>6, <2>5, <2>6, <2>7, <2>8 DEF ClientInv
<1> QED BY <1>2, <1>7, <1>8

LEMMA ClientNextInv == ClientInv /\ [ClientNext]_clientVars => ClientInv'
<1> SUFFICES ASSUME ClientInv, [ClientNext]_clientVars PROVE ClientInv'
  OBVIOUS
<1>0. ClientTypeOK /\ OutputInv /\ BudgetInv /\ BackoffInv /\ BackoffDoubles
  BY DEF ClientInv
<1> USE DEF ClientInv
<1>1. CASE PostSucceeds \/ ReadSucceeds
  <2>1. /\ \/ pc = "post" /\ pc' = "stream"
           \/ pc = "stream" /\ pc' = "ok"
        /\ UNCHANGED <<kind, escalated, attempt, exponent, emitted, failure, output, waits>>
    BY <1>1, Zenon DEF PostSucceeds, ReadSucceeds
  <2>2. ClientTypeOK' /\ OutputInv'
    BY <1>0, <2>1 DEF ClientTypeOK, OutputInv
  <2>3. BudgetInv'
    BY <1>0, <2>1 DEF BudgetInv, UsesItsBudget
  <2>4. BackoffInv' /\ BackoffDoubles'
    BY <1>0, <2>1 DEF BackoffInv, BackoffDoubles
  <2> QED BY <2>2, <2>3, <2>4
<1>2. ASSUME NEW f \in Failures, PostFails(f) PROVE ClientInv'
  BY <1>0, <1>2 DEF PostFails, ClientTypeOK, OutputInv, BudgetInv, UsesItsBudget,
                    BackoffInv, BackoffDoubles
<1>3. ASSUME NEW f \in Failures, ReadFails(f) PROVE ClientInv'
  <2>1. [f EXCEPT !.retryable = @ /\ ~emitted] \in Failures
        /\ ([f EXCEPT !.retryable = @ /\ ~emitted].retryable => ~emitted)
    BY DEF Failures
  <2> QED BY <1>0, <1>3, <2>1 DEF ReadFails, ClientTypeOK, OutputInv, BudgetInv, UsesItsBudget,
                                  BackoffInv, BackoffDoubles
<1>4. CASE Delta
  <2>1. OutputInv' /\ output' \in Seq(1..5)
    BY <1>0, <1>4 DEF Delta, OutputInv, ClientTypeOK
  <2> QED BY <1>0, <1>4, <2>1 DEF Delta, ClientTypeOK, BudgetInv, UsesItsBudget, BackoffInv,
                                  BackoffDoubles
<1>5. CASE Advance
  <2>0. pc = "sleep" /\ pc' = "post" /\ attempt' = attempt + 1 /\ exponent' = exponent + 1
        /\ emitted' = FALSE /\ UNCHANGED <<kind, escalated, failure, output, waits>>
    BY <1>5 DEF Advance
  <2>1. attempt < 5 /\ exponent < 4 /\ attempt + 1 <= MaxAttempts(escalated)
    BY <1>0, <2>0 DEF BudgetInv, ClientTypeOK, MaxAttempts
  <2>2. ClientTypeOK'
    <3>1. attempt + 1 \in 1..5 /\ exponent + 1 \in 0..4
      BY <1>0, <2>1 DEF ClientTypeOK
    <3> QED BY <1>0, <2>0, <3>1, Zenon DEF ClientTypeOK
  <2>3. OutputInv'
    BY <1>0, <2>0 DEF OutputInv, ClientTypeOK
  <2>4. BudgetInv'
    BY <1>0, <2>0, <2>1 DEF BudgetInv, UsesItsBudget, ClientTypeOK
  <2>5. DelayFor(escalated, exponent + 1) = 2 * DelayFor(escalated, exponent)
    <3>1. escalated \in BOOLEAN /\ exponent \in 0..3
      BY <1>0, <2>1 DEF ClientTypeOK
    <3> QED BY <3>1, DelayDoubles
  <2>6. BackoffInv'
    BY <1>0, <2>0, <2>5 DEF BackoffInv
  <2>7. BackoffDoubles'
    BY <1>0, <2>0 DEF BackoffDoubles
  <2> QED BY <2>2, <2>3, <2>4, <2>6, <2>7
<1>6. CASE UNCHANGED clientVars
  BY <1>0, <1>6 DEF clientVars, ClientTypeOK, OutputInv, BudgetInv, UsesItsBudget,
                    BackoffInv, BackoffDoubles
<1> QED BY <1>1, <1>2, <1>3, <1>4, <1>5, <1>6, ClientHandleFailure DEF ClientNext

(* However the attempts of a call fail, its caller has the output of one   *)
(* attempt, retries go on to the end of the budget of the failure at hand  *)
(* and delays double within it (client.rs 41-136, retry.rs 232-263).       *)
THEOREM RetriesSound == ClientSpec => []RetriesAreSound
<1>1. ClientInit => ClientInv
  <2> SUFFICES ASSUME ClientInit PROVE ClientInv
    OBVIOUS
  <2>1. ClientTypeOK
    <3>1. 1 \in 1..5 /\ 0 \in 0..4 /\ <<>> \in Seq(1..5)
          /\ <<>> \in Seq([escalated : BOOLEAN, ms : Nat])
          /\ [retryable |-> FALSE, keyword |-> FALSE] \in Failures
      BY DEF Failures
    <3> QED BY <3>1, Zenon DEF ClientInit, ClientTypeOK
  <2>2. OutputInv /\ BudgetInv
    BY DEF ClientInit, OutputInv, BudgetInv, UsesItsBudget, MaxAttempts
  <2>3. BackoffInv /\ BackoffDoubles
    BY DEF ClientInit, BackoffInv, BackoffDoubles
  <2> QED BY <2>1, <2>2, <2>3 DEF ClientInv
<1>2. ClientInv => RetriesAreSound
  BY DEF ClientInv, OutputInv, BudgetInv, RetriesAreSound, OutputOfOneAttempt
<1> QED BY <1>1, <1>2, ClientNextInv, PTL DEF ClientSpec

-----------------------------------------------------------------------------
(* Tracing.                                                                *)

TraceEvents == [type : {"trace", "generation", "span"}, trace : Nat, of : Nat, n : Nat,
                field : {"input", "output", "DEFAULT", "ERROR"}, total : Nat]

TraceTypeOK ==
    /\ enabled \in BOOLEAN
    /\ turnPc \in {"idle", "running", "finalize", "exited"}
    /\ turn \in Nat /\ toolCount \in Nat /\ records \in Nat
    /\ posts \subseteq TraceEvents /\ ingested \subseteq TraceEvents

Spans(t) == {s \in ingested \cup posts : s.type = "span" /\ s.of = t}

(* No event is of a turn to come; the spans of the turn under way have     *)
(* been counted; totals exist of a turn that will record nothing more, and *)
(* cover its spans, wherever either of them is.                            *)
TraceInv ==
    /\ TraceTypeOK
    /\ \A e \in ingested \cup posts : e.trace = e.of /\ e.of <= turn
    /\ \A t \in 0..turn : IsFiniteSet(Spans(t))
    /\ Cardinality(Spans(turn)) <= toolCount
    /\ \A e \in ingested \cup posts : e.type = "trace" /\ e.field = "output" =>
          /\ Cardinality(Spans(e.of)) <= e.total
          /\ e.of = turn => turnPc \in {"idle", "exited"}

LEMMA SpanCounting ==
    ASSUME NEW S, IsFiniteSet(S)
    PROVE  /\ Cardinality(S) \in Nat
           /\ \A x : IsFiniteSet(S \cup {x}) /\ Cardinality(S \cup {x}) <= Cardinality(S) + 1
           /\ \A R \in SUBSET S : IsFiniteSet(R) /\ Cardinality(R) <= Cardinality(S)
<1>1. Cardinality(S) \in Nat
  BY FS_CardinalityType
<1>2. ASSUME NEW x
      PROVE  IsFiniteSet(S \cup {x}) /\ Cardinality(S \cup {x}) <= Cardinality(S) + 1
  <2>1. IsFiniteSet(S \cup {x})
        /\ Cardinality(S \cup {x}) = IF x \in S THEN Cardinality(S) ELSE Cardinality(S) + 1
    BY FS_AddElement
  <2> QED BY <1>1, <2>1
<1>3. ASSUME NEW R \in SUBSET S PROVE IsFiniteSet(R) /\ Cardinality(R) <= Cardinality(S)
  BY FS_Subset
<1> QED BY <1>1, <1>2, <1>3

(* Where an event is, at Langfuse or on its way there, does not matter to  *)
(* the invariant: a step that only moves or loses events keeps it.         *)
LEMMA TraceEventsMove ==
    ASSUME TraceInv, TraceTypeOK',
           UNCHANGED <<turn, toolCount>>,
           turnPc' \in {"idle", "exited"} \/ turnPc' = turnPc
              \/ (turnPc = "running" /\ turnPc' = "finalize"),
           (ingested \cup posts)' \subseteq ingested \cup posts
    PROVE  TraceInv'
<1>1. \A t \in Nat : Spans(t)' \subseteq Spans(t)
  BY DEF Spans
<1>2. ASSUME NEW t \in 0..turn
      PROVE  IsFiniteSet(Spans(t)') /\ Cardinality(Spans(t)') \in Nat
             /\ Cardinality(Spans(t)) \in Nat /\ Cardinality(Spans(t)') <= Cardinality(Spans(t))
  <2>1. IsFiniteSet(Spans(t)) /\ t \in Nat
    BY DEF TraceInv, TraceTypeOK
  <2> QED BY <1>1, <2>1, SpanCounting
<1>3. \A t \in 0..turn' : IsFiniteSet(Spans(t)')
  BY <1>2
<1>4. Cardinality(Spans(turn)') <= toolCount'
  <2>1. turn \in 0..turn /\ turn' = turn /\ toolCount \in Nat
    BY DEF TraceInv, TraceTypeOK
  <2>2. Cardinality(Spans(turn)) <= toolCount
    BY DEF TraceInv
  <2> QED BY <1>2, <2>1, <2>2
<1>5. ASSUME NEW e \in (ingested \cup posts)'
      PROVE  /\ e.trace = e.of /\ e.of <= turn
             /\ e.type = "trace" /\ e.field = "output" =>
                   /\ Cardinality(Spans(e.of)') <= e.total
                   /\ e.of = turn => turnPc' \in {"idle", "exited"}
  <2>1. e \in ingested \cup posts /\ e \in TraceEvents
    BY DEF TraceInv, TraceTypeOK
  <2>2. e.of \in 0..turn /\ e.total \in Nat
    BY <2>1 DEF TraceInv, TraceTypeOK, TraceEvents
  <2> QED BY <1>2, <2>1, <2>2 DEF TraceInv
<1> QED BY <1>3, <1>4, <1>5 DEF TraceInv

LEMMA TraceTypeNext == TraceTypeOK /\ [TracingNext]_tracingVars => TraceTypeOK'
<1> SUFFICES ASSUME TraceTypeOK, [TracingNext]_tracingVars PROVE TraceTypeOK'
  OBVIOUS
<1> USE DEF TraceTypeOK
<1>0. ASSUME NEW n \in Nat, NEW t \in Nat, NEW type \in {"trace", "generation", "span"},
             NEW field \in {"input", "output", "DEFAULT", "ERROR"}, NEW total \in Nat
      PROVE  [type |-> type, trace |-> t, of |-> t, n |-> n, field |-> field, total |-> total]
                \in TraceEvents
  BY DEF TraceEvents
<1>1. CASE CreateTrace
  <2>1. [TraceEvent("trace", 0, "input", 0) EXCEPT !.trace = turn', !.of = turn'] \in TraceEvents
    <3>1. turn' \in Nat /\ turn \in Nat
      BY <1>1 DEF CreateTrace
    <3> QED BY <3>1 DEF TraceEvent, TraceEvents
  <2> QED BY <1>1, <2>1 DEF CreateTrace
<1>2. ASSUME NEW level \in {"DEFAULT", "ERROR"}, RecordGeneration(level) PROVE TraceTypeOK'
  <2>1. TraceEvent("generation", records', level, 0) \in TraceEvents
    BY <1>0, <1>2 DEF RecordGeneration, TraceEvent
  <2> QED BY <1>2, <2>1 DEF RecordGeneration, SpawnPost
<1>3. ASSUME NEW level \in {"DEFAULT", "ERROR"}, RecordToolSpan(level) PROVE TraceTypeOK'
  <2>1. TraceEvent("span", records', level, 0) \in TraceEvents
    BY <1>0, <1>3 DEF RecordToolSpan, TraceEvent
  <2> QED BY <1>3, <2>1 DEF RecordToolSpan, SpawnPost
<1>4. CASE LeaveLoop
  BY <1>4 DEF LeaveLoop
<1>5. CASE Finalize
  <2>1. TraceEvent("trace", 0, "output", toolCount) \in TraceEvents
    BY <1>0 DEF TraceEvent
  <2> QED BY <1>5, <2>1 DEF Finalize, SpawnPost
<1>6. ASSUME NEW p \in posts, PostAccepted(p) \/ PostLost(p) PROVE TraceTypeOK'
  BY <1>6 DEF PostAccepted, PostLost
<1>7. CASE Exit
  BY <1>7 DEF Exit
<1>8. CASE UNCHANGED tracingVars
  BY <1>8 DEF tracingVars
<1> QED BY <1>1, <1>2, <1>3, <1>4, <1>5, <1>6, <1>7, <1>8 DEF TracingNext, Turning

(* What a step does that records the event x: it may post it. *)
Records(x) == ingested' = ingested /\ posts' \subseteq posts \cup {x}

LEMMA TraceRecord ==
    ASSUME TraceInv, TraceTypeOK', NEW x \in TraceEvents, Records(x),
           turn' \in {turn, turn + 1}, x.trace = turn', x.of = turn',
           \/ turn' = turn /\ turnPc \in {"running", "finalize"} /\ toolCount' >= toolCount
           \/ turn' = turn + 1 /\ toolCount' >= 0,
           x.type = "span" => turn' = turn /\ toolCount' = toolCount + 1,
           x.type = "trace" /\ x.field = "output" =>
              turn' = turn /\ x.total = toolCount /\ turnPc' = "idle"
    PROVE  TraceInv'
<1>0. turn \in Nat /\ toolCount \in Nat /\ toolCount' \in Nat /\ turn' \in Nat
  BY DEF TraceInv, TraceTypeOK
<1>1. \A e \in (ingested \cup posts)' : e \in ingested \cup posts \/ e = x
  BY DEF Records
<1>2. \A e \in ingested \cup posts : e \in TraceEvents /\ e.of \in 0..turn /\ e.total \in Nat
  BY <1>0 DEF TraceInv, TraceTypeOK, TraceEvents
<1>3. \A t \in Nat : IF x.type = "span" /\ t = turn' THEN Spans(t)' \subseteq Spans(t) \cup {x}
                     ELSE Spans(t)' \subseteq Spans(t)
  BY <1>1 DEF Spans
<1>4. \A t \in 0..turn : IsFiniteSet(Spans(t)) /\ Cardinality(Spans(t)) \in Nat
  BY SpanCounting DEF TraceInv
<1>5. turn' = turn + 1 => Spans(turn') = {} /\ x.type # "span"
  BY <1>0, <1>2 DEF Spans
<1>6. ASSUME NEW t \in 0..turn' PROVE IsFiniteSet(Spans(t)') /\ Cardinality(Spans(t)') \in Nat
  <2>1. CASE t \in 0..turn
    <3>1. IsFiniteSet(Spans(t) \cup {x})
      BY <1>4, <2>1, SpanCounting
    <3>2. Spans(t)' \subseteq Spans(t) \cup {x}
      BY <1>0, <1>3
    <3> QED BY <3>1, <3>2, SpanCounting
  <2>2. CASE t = turn' /\ turn' = turn + 1
    <3>1. Spans(t)' \subseteq {}
      BY <1>0, <1>3, <1>5, <2>2
    <3>2. IsFiniteSet({})
      BY FS_EmptySet
    <3> QED BY <3>1, <3>2, SpanCounting
  <2> QED BY <1>0, <2>1, <2>2
<1>7. ASSUME NEW t \in 0..turn, ~(x.type = "span" /\ t = turn')
      PROVE  Cardinality(Spans(t)') <= Cardinality(Spans(t))
  <2>1. Spans(t)' \subseteq Spans(t)
    BY <1>0, <1>3, <1>7
  <2> QED BY <1>4, <2>1, SpanCounting
<1>8. ASSUME NEW t \in Nat, t = turn' PROVE Cardinality(Spans(t)') <= toolCount'
  <2>1. CASE turn' = turn + 1
    <3>1. Spans(t)' = {}
      BY <1>0, <1>3, <1>5, <1>8, <2>1
    <3> QED BY <1>0, <3>1, FS_EmptySet
  <2>2. CASE turn' = turn
    <3>1. t \in 0..turn /\ Cardinality(Spans(t)) <= toolCount
      BY <1>0, <1>8, <2>2 DEF TraceInv
    <3>2. CASE x.type = "span"
      <4>1. Spans(t)' \subseteq Spans(t) \cup {x}
        BY <1>3, <1>8, <3>2
      <4>2. IsFiniteSet(Spans(t) \cup {x}) /\ Cardinality(Spans(t) \cup {x}) \in Nat
            /\ Cardinality(Spans(t) \cup {x}) <= Cardinality(Spans(t)) + 1
        BY <1>4, <3>1, SpanCounting
      <4>3. Cardinality(Spans(t)') <= Cardinality(Spans(t) \cup {x})
        BY <4>1, <4>2, SpanCounting
      <4>4. Cardinality(Spans(t)') \in Nat /\ Cardinality(Spans(t)) \in Nat
        BY <1>4, <1>6, <1>8, <3>1, <2>2
      <4> QED BY <1>0, <3>1, <3>2, <4>2, <4>3, <4>4
    <3>3. CASE x.type # "span"
      <4>1. Cardinality(Spans(t)') <= Cardinality(Spans(t))
        BY <1>7, <3>1, <3>3
      <4>2. Cardinality(Spans(t)') \in Nat /\ Cardinality(Spans(t)) \in Nat
        BY <1>4, <1>6, <1>8, <3>1, <2>2
      <4>3. toolCount' >= toolCount
        BY <1>0, <2>2
      <4> QED BY <1>0, <3>1, <4>1, <4>2, <4>3
    <3> QED BY <3>2, <3>3
  <2> QED BY <2>1, <2>2
<1>9. ASSUME NEW e \in (ingested \cup posts)'
      PROVE  e.trace = e.of /\ e.of <= turn'
  BY <1>0, <1>1, <1>2 DEF TraceInv
<1>10. ASSUME NEW e \in (ingested \cup posts)', e.type = "trace", e.field = "output"
       PROVE  Cardinality(Spans(e.of)') <= e.total
              /\ (e.of = turn' => turnPc' \in {"idle", "exited"})
  <2>1. CASE e \in ingested \cup posts
    <3>1. /\ Cardinality(Spans(e.of)) <= e.total /\ e.of \in 0..turn /\ e.total \in Nat
          /\ e.of = turn => turnPc \in {"idle", "exited"}
      BY <1>2, <1>10, <2>1 DEF TraceInv
    <3>2. e.of # turn'
      BY <1>0, <3>1
    <3>3. Cardinality(Spans(e.of)') <= Cardinality(Spans(e.of))
      BY <1>7, <3>1, <3>2
    <3>4. Cardinality(Spans(e.of)') \in Nat /\ Cardinality(Spans(e.of)) \in Nat
      <4>1. e.of \in 0..turn'
        BY <1>0, <3>1
      <4> QED BY <1>4, <1>6, <3>1, <4>1
    <3> QED BY <3>1, <3>2, <3>3, <3>4
  <2>2. CASE e = x
    <3>1. turn' = turn /\ e.total = toolCount /\ turnPc' = "idle" /\ e.of = turn
      BY <1>10, <2>2
    <3>2. Cardinality(Spans(e.of)) <= toolCount /\ e.of \in 0..turn
      BY <1>0, <3>1 DEF TraceInv
    <3>3. Cardinality(Spans(e.of)') <= Cardinality(Spans(e.of))
      BY <1>7, <1>10, <2>2, <3>2
    <3>4. Cardinality(Spans(e.of)') \in Nat /\ Cardinality(Spans(e.of)) \in Nat
      BY <1>4, <1>6, <3>1, <3>2
    <3> QED BY <1>0, <3>1, <3>2, <3>3, <3>4
  <2> QED BY <1>1, <2>1, <2>2
<1> QED BY <1>0, <1>6, <1>8, <1>9, <1>10 DEF TraceInv

LEMMA TraceNextInv == TraceInv /\ [TracingNext]_tracingVars => TraceInv'
<1> SUFFICES ASSUME TraceInv, [TracingNext]_tracingVars PROVE TraceInv'
  OBVIOUS
<1>0. TraceTypeOK /\ TraceTypeOK'
  BY TraceTypeNext DEF TraceInv
<1>a. turn \in Nat /\ toolCount \in Nat /\ records \in Nat
  BY <1>0 DEF TraceTypeOK
<1>1. CASE CreateTrace
  <2> DEFINE x == [TraceEvent("trace", 0, "input", 0) EXCEPT !.trace = turn', !.of = turn']
  <2>1. turn' = turn + 1 /\ toolCount' = 0 /\ turn' \in Nat
    BY <1>1, <1>a DEF CreateTrace
  <2>2. x \in TraceEvents /\ x.trace = turn' /\ x.of = turn' /\ x.type = "trace"
        /\ x.field = "input"
    BY <1>a, <2>1 DEF TraceEvent, TraceEvents
  <2>3. Records(x)
    BY <1>1 DEF CreateTrace, Records
  <2> HIDE DEF x
  <2> QED BY <1>0, <2>1, <2>2, <2>3, TraceRecord
<1>2. ASSUME NEW level \in {"DEFAULT", "ERROR"}, RecordGeneration(level) PROVE TraceInv'
  <2> DEFINE x == TraceEvent("generation", records', level, 0)
  <2>1. turn' = turn /\ toolCount' = toolCount /\ turnPc = "running" /\ records' = records + 1
    BY <1>2 DEF RecordGeneration
  <2>2. x \in TraceEvents /\ x.trace = turn' /\ x.of = turn' /\ x.type = "generation"
    BY <1>a, <2>1 DEF TraceEvent, TraceEvents
  <2>3. Records(x)
    BY <1>2 DEF RecordGeneration, SpawnPost, Records
  <2> HIDE DEF x
  <2> QED BY <1>0, <1>a, <2>1, <2>2, <2>3, TraceRecord
<1>3. ASSUME NEW level \in {"DEFAULT", "ERROR"}, RecordToolSpan(level) PROVE TraceInv'
  <2> DEFINE x == TraceEvent("span", records', level, 0)
  <2>1. turn' = turn /\ toolCount' = toolCount + 1 /\ turnPc = "running"
        /\ records' = records + 1
    BY <1>3 DEF RecordToolSpan
  <2>2. x \in TraceEvents /\ x.trace = turn' /\ x.of = turn' /\ x.type = "span"
    BY <1>a, <2>1 DEF TraceEvent, TraceEvents
  <2>3. Records(x)
    BY <1>3 DEF RecordToolSpan, SpawnPost, Records
  <2> HIDE DEF x
  <2> QED BY <1>0, <1>a, <2>1, <2>2, <2>3, TraceRecord
<1>4. CASE Finalize
  <2> DEFINE x == TraceEvent("trace", 0, "output", toolCount)
  <2>1. turn' = turn /\ toolCount' = toolCount /\ turnPc = "finalize" /\ turnPc' = "idle"
    BY <1>4 DEF Finalize
  <2>2. x \in TraceEvents /\ x.trace = turn' /\ x.of = turn' /\ x.type = "trace"
        /\ x.total = toolCount
    BY <1>a, <2>1 DEF TraceEvent, TraceEvents
  <2>3. Records(x)
    BY <1>4 DEF Finalize, SpawnPost, Records
  <2> HIDE DEF x
  <2> QED BY <1>0, <1>a, <2>1, <2>2, <2>3, TraceRecord
<1>5. CASE LeaveLoop
  BY <1>0, <1>5, TraceEventsMove DEF LeaveLoop
<1>6. ASSUME NEW p \in posts, PostAccepted(p) \/ PostLost(p) PROVE TraceInv'
  BY <1>0, <1>6, TraceEventsMove DEF PostAccepted, PostLost
<1>7. CASE Exit
  BY <1>0, <1>7, TraceEventsMove DEF Exit
<1>8. CASE UNCHANGED tracingVars
  BY <1>0, <1>8, TraceEventsMove DEF tracingVars
<1> QED BY <1>1, <1>2, <1>3, <1>4, <1>5, <1>6, <1>7, <1>8 DEF TracingNext, Turning

(* A trace has the events of its own turn, and where its totals have       *)
(* arrived they cover its spans, however posts of overlapping turns are    *)
(* reordered or lost (langfuse.rs 113-317, agentic_loop.rs 320-376).       *)
THEOREM TracesCorrect == TracingSpec => []TracesOK
<1>1. TracingInit => TraceInv
  <2> SUFFICES ASSUME TracingInit PROVE TraceInv
    OBVIOUS
  <2>1. \A t \in Nat : Spans(t) = {}
    BY DEF TracingInit, Spans
  <2>2. IsFiniteSet({}) /\ Cardinality({}) = 0
    BY FS_EmptySet
  <2> QED BY <2>1, <2>2 DEF TracingInit, TraceInv, TraceTypeOK
<1>2. TraceInv => TracesOK
  BY DEF TraceInv, TracesOK, FiledUnderItsTurn, TotalsCoverSpans, Spans
<1> QED BY <1>1, <1>2, TraceNextInv, PTL DEF TracingSpec

-----------------------------------------------------------------------------
(* The table of tools.                                                     *)

(* A client's session was opened at its server and is at most its latest,  *)
(* and the table names, for a tool, the client of the server that listed   *)
(* it.                                                                     *)
TableInv ==
    /\ ToolsTypeOK
    /\ toolPc \in {"initialize", "list"} <=> at <= ServerCount
    /\ toolPc = "list" => session \in 1..epoch[at]
    /\ mcpTools \in [Names -> [client : Nat, server : Nat]]
    /\ \A i \in 1..Len(clients) : clients[i].session <= epoch[clients[i].server]
    /\ \A n \in Names : IsMcpTool(n) =>
          /\ mcpTools[n].client \in 1..Len(clients)
          /\ clients[mcpTools[n].client].server = mcpTools[n].server

(* A call is made when the table is complete, and went where the table,    *)
(* which no longer changes, still says.                                    *)
CallInv ==
    /\ call # NoCall => call.name \in Names /\ toolPc = "ready"
    /\ call.result = "no session" => call.by[2] \in Servers
    /\ RunsWhatWasShown /\ SessionHolds

ToolsInv == TableInv /\ CallInv

Clients == [server : Servers, session : 1..(MaxRestarts + 1)]

LEMMA ClientAt ==
    ASSUME ToolsTypeOK, NEW i \in 1..Len(clients)
    PROVE  /\ clients[i] \in Clients /\ clients[i].server \in Servers
           /\ clients[i].session \in Nat /\ clients[i].session >= 1
<1>1. clients \in Seq(Clients)
  BY DEF ToolsTypeOK, Clients
<1>2. clients[i] \in Clients
  BY <1>1
<1> QED BY <1>2, ToolsAssumption DEF Clients

LEMMA TableListTools ==
    ASSUME TableInv, NEW tools \in SUBSET Names, ListTools(tools)
    PROVE  TableInv'
<1> DEFINE c == [server |-> at, session |-> session]
           n == Len(clients)
<1>1. /\ toolPc = "list" /\ session = epoch[at] /\ toolPc' = StartAt(at + 1) /\ at' = at + 1
      /\ mcpTools' = [m \in Names |-> IF m \in tools THEN [client |-> n + 1, server |-> at]
                                      ELSE mcpTools[m]]
      /\ clients' = Append(clients, c)
      /\ UNCHANGED epoch
  BY DEF ListTools, RegisterTools
<1>2. at \in Servers /\ at \in Nat /\ at >= 1 /\ ServerCount \in Nat
  BY <1>1, ToolsAssumption DEF TableInv, ToolsTypeOK, Servers
<1>3. epoch[at] \in 1..(MaxRestarts + 1)
  BY <1>2 DEF TableInv, ToolsTypeOK
<1>4. c \in Clients /\ c.server = at /\ c.session = epoch[at]
  BY <1>1, <1>2, <1>3 DEF Clients
<1>5. clients \in Seq(Clients) /\ n \in Nat
  BY DEF TableInv, ToolsTypeOK, Clients
<1> HIDE DEF c
<1>6. /\ clients' \in Seq(Clients) /\ Len(clients') = n + 1 /\ clients'[n + 1] = c
      /\ \A i \in 1..n : clients'[i] = clients[i]
  BY <1>1, <1>4, <1>5
<1> HIDE DEF n
<1>7. ASSUME NEW m \in Names
      PROVE  \/ m \in tools /\ mcpTools'[m] = [client |-> n + 1, server |-> at]
             \/ m \notin tools /\ mcpTools'[m] = mcpTools[m]
  BY <1>1
<1>8. mcpTools' \in [Names -> [client : Nat, server : Nat]]
  BY <1>1, <1>2, <1>5 DEF TableInv
<1>9. toolPc' \in {"initialize", "acp"} /\ (toolPc' = "initialize" <=> at' <= ServerCount)
      /\ at' \in 1..(ServerCount + 1)
  BY <1>1, <1>2 DEF StartAt, Servers
<1>10. \A m \in Names : mcpTools'[m].client \in 0..Len(clients')
  <2>1. \A m \in Names : mcpTools[m].client \in 0..n
    BY DEF TableInv, ToolsTypeOK, n
  <2> QED BY <1>5, <1>6, <1>7, <2>1
<1>11. ToolsTypeOK'
  BY <1>1, <1>6, <1>9, <1>10 DEF TableInv, ToolsTypeOK, Clients
<1>12. ASSUME NEW i \in 1..Len(clients')
       PROVE  clients'[i].session <= epoch'[clients'[i].server]
  <2>1. CASE i \in 1..n
    BY <1>1, <1>6, <2>1 DEF TableInv, n
  <2>2. CASE i = n + 1
    BY <1>1, <1>3, <1>4, <1>6, <2>2, ToolsAssumption
  <2> QED BY <1>5, <1>6, <2>1, <2>2
<1>13. ASSUME NEW m \in Names, mcpTools'[m] # NoTool
       PROVE  /\ mcpTools'[m].client \in 1..Len(clients')
              /\ clients'[mcpTools'[m].client].server = mcpTools'[m].server
  <2>1. CASE m \in tools
    BY <1>4, <1>5, <1>6, <1>7, <2>1
  <2>2. CASE m \notin tools
    <3>1. mcpTools[m].client \in 1..n /\ clients[mcpTools[m].client].server = mcpTools[m].server
      BY <1>7, <1>13, <2>2 DEF TableInv, IsMcpTool, n
    <3> QED BY <1>5, <1>6, <1>7, <2>2, <3>1
  <2> QED BY <2>1, <2>2
<1> QED BY <1>8, <1>9, <1>11, <1>12, <1>13 DEF TableInv, IsMcpTool

(* A session that a response names is one of the client's own server. *)
LEMMA TableCallMcp ==
    ASSUME TableInv, NEW n \in Names, CallMcp(n)
    PROVE  TableInv'
<1>1. PICK k : k = mcpTools[n].client
  OBVIOUS
<1>2. PICK c : c = clients[k]
  OBVIOUS
<1>3. /\ IsMcpTool(n) /\ UNCHANGED <<toolPc, at, session, mcpTools, epoch>>
      /\ clients' \in {clients, [clients EXCEPT ![k].session = epoch[c.server]]}
  BY <1>1, <1>2 DEF CallMcp, Calls
<1>4. k \in 1..Len(clients) /\ ToolsTypeOK
  BY <1>1, <1>3 DEF TableInv
<1>5. c \in Clients /\ c.server \in Servers /\ clients \in Seq(Clients)
  BY <1>2, <1>4, ClientAt DEF ToolsTypeOK, Clients
<1>6. epoch[c.server] \in 1..(MaxRestarts + 1) /\ epoch[c.server] \in Nat
  BY <1>4, <1>5, ToolsAssumption DEF ToolsTypeOK
<1>7. PICK d : d = [c EXCEPT !.session = epoch[c.server]]
  OBVIOUS
<1>8. d \in Clients /\ d.server = c.server /\ d.session = epoch[c.server]
  BY <1>5, <1>6, <1>7 DEF Clients
<1>9. clients' = clients \/ clients' = [clients EXCEPT ![k] = d]
  BY <1>2, <1>3, <1>7
<1>10. /\ clients' \in Seq(Clients) /\ Len(clients') = Len(clients)
       /\ \A i \in 1..Len(clients) : clients'[i] = clients[i] \/ (i = k /\ clients'[i] = d)
  BY <1>4, <1>5, <1>8, <1>9
<1>11. ASSUME NEW i \in 1..Len(clients)
       PROVE  clients'[i].server = clients[i].server /\ clients'[i].session <= epoch[clients'[i].server]
  <2>1. CASE clients'[i] = clients[i]
    BY <2>1 DEF TableInv
  <2>2. CASE i = k /\ clients'[i] = d
    <3>1. d.session <= epoch[d.server]
      BY <1>6, <1>8
    <3> QED BY <1>2, <1>8, <2>2, <3>1
  <2> QED BY <1>10, <2>1, <2>2
<1>12. ToolsTypeOK'
  BY <1>3, <1>4, <1>10 DEF ToolsTypeOK, Clients
<1>13. \A m \in Names : IsMcpTool(m)' =>
          /\ mcpTools'[m].client \in 1..Len(clients')
          /\ clients'[mcpTools'[m].client].server = mcpTools'[m].server
  BY <1>3, <1>10, <1>11 DEF TableInv, IsMcpTool
<1>14. \A i \in 1..Len(clients') : clients'[i].session <= epoch'[clients'[i].server]
  BY <1>3, <1>10, <1>11
<1> QED BY <1>3, <1>12, <1>13, <1>14 DEF TableInv

LEMMA TableNext == TableInv /\ [ToolsNext]_toolVars => TableInv'
<1> SUFFICES ASSUME TableInv, [ToolsNext]_toolVars PROVE TableInv'
  OBVIOUS
<1> USE DEF TableInv, ToolsTypeOK, IsMcpTool
<1>1. CASE ConnectFails
  <2>1. at \in Nat /\ at <= ServerCount /\ ServerCount \in Nat
    BY <1>1, ToolsAssumption DEF ConnectFails
  <2> QED BY <1>1, <2>1 DEF ConnectFails, StartAt
<1>2. CASE Initialize
  <2>1. at \in Servers
    BY <1>2, ToolsAssumption DEF Initialize, Servers
  <2>2. epoch[at] \in 1..(MaxRestarts + 1)
    BY <2>1
  <2>3. epoch[at] \in 1..epoch[at]
    BY <2>2, ToolsAssumption
  <2> QED BY <1>2, <2>3 DEF Initialize
<1>3. ASSUME NEW s \in Servers, RestartServer(s) PROVE TableInv'
  <2>1. /\ epoch[s] \in 1..(MaxRestarts + 1) /\ epoch[s] <= MaxRestarts
        /\ epoch' = [epoch EXCEPT ![s] = epoch[s] + 1]
        /\ UNCHANGED <<toolPc, at, clients, session, mcpTools>>
    BY <1>3 DEF RestartServer
  <2>2. epoch' \in [Servers -> 1..(MaxRestarts + 1)]
    BY <2>1, ToolsAssumption
  <2>3. \A r \in Servers : epoch[r] \in Nat /\ epoch'[r] \in Nat /\ epoch[r] <= epoch'[r]
    BY <2>1, ToolsAssumption
  <2>4. ASSUME NEW i \in 1..Len(clients)
        PROVE  clients[i].session <= epoch'[clients[i].server]
    <3>1. clients[i].server \in Servers /\ clients[i].session \in Nat
      BY ClientAt
    <3>2. clients[i].session <= epoch[clients[i].server]
      OBVIOUS
    <3> QED BY SMTT(30), <2>3, <3>1, <3>2
  <2>5. toolPc = "list" => session \in 1..epoch'[at]
    <3> SUFFICES ASSUME toolPc = "list" PROVE session \in 1..epoch'[at]
      OBVIOUS
    <3>1. at \in Servers
      BY ToolsAssumption DEF Servers
    <3> QED BY <2>3, <3>1
  <2> QED BY <2>1, <2>2, <2>4, <2>5
<1>4. ASSUME NEW n \in Names \cup {"no name"}, NEW k \in Names \cup {"no name"},
             SetAcpTools(<<n, k>>)
      PROVE  TableInv'
  BY <1>4 DEF SetAcpTools
<1>5. ASSUME NEW n \in Names, CallAcp(n) \/ CallBuiltin(n) \/ CallMcp(n) \/ CallUnknown(n)
      PROVE  TableInv'
  <2>1. UNCHANGED <<toolPc, at, session, mcpTools, epoch>>
    BY <1>5, Zenon DEF CallAcp, CallBuiltin, CallMcp, CallUnknown, Calls
  <2>2. CASE UNCHANGED clients
    BY <2>1, <2>2
  <2>3. CASE ~ UNCHANGED clients
    <3>1. CallMcp(n)
      BY <1>5, <2>3, Zenon DEF CallAcp, CallBuiltin, CallUnknown
    <3> QED BY <3>1, TableCallMcp
  <2> QED BY <2>2, <2>3
<1>6. CASE UNCHANGED toolVars
  BY <1>6 DEF toolVars
<1> QED BY <1>1, <1>2, <1>3, <1>4, <1>5, <1>6, TableListTools DEF ToolsNext

(* What a call relies on of the table, and what it leaves behind. *)
Went(n, by, result) ==
    LET shown == Definitions[n]
    IN  /\ \/ shown = {} /\ by[1] = "unknown"
           \/ by[1] = "acp" /\ \E d \in shown : d[1] = "acp"
           \/ by \in shown
           \/ n \in Builtins /\ IsMcpTool(n) /\ by[1] = "builtin"
        /\ result = "no session" => by[2] \in Servers /\ epoch[by[2]] > 1

LEMMA CallsKeep ==
    ASSUME ToolsInv, NEW n \in Names, NEW by, NEW result, toolPc = "ready",
           Calls(n, by, result), Went(n, by, result)
    PROVE  CallInv'
<1>1. /\ call' = [name |-> n, by |-> by, result |-> result]
      /\ UNCHANGED <<toolPc, mcpTools, acpDefs, epoch>>
  BY DEF Calls
<1>2. call'.name = n /\ call'.by = by /\ call'.result = result
  BY <1>1
<1>3. Definitions' = Definitions /\ IsMcpTool(n)' = IsMcpTool(n)
  BY <1>1, Zenon DEF Definitions, IsAcpTool, IsMcpTool
<1>4. RunsWhatWasShown'
  BY <1>2, <1>3, Zenon DEF RunsWhatWasShown, Went, IsMcpTool
<1> QED BY <1>1, <1>2, <1>4 DEF CallInv, SessionHolds, Went

LEMMA CallNext ==
    ASSUME ToolsInv, NEW n \in Names, CallAcp(n) \/ CallBuiltin(n) \/ CallMcp(n) \/ CallUnknown(n)
    PROVE  CallInv'
<1>0. /\ Definitions[n] = IF IsAcpTool(n)
                          THEN {<<"acp", i>> : i \in {j \in 1..Len(acpDefs) : acpDefs[j] = n}}
                          ELSE IF IsMcpTool(n) THEN {<<"mcp", mcpTools[n].server>>}
                          ELSE IF n \in Builtins THEN {<<"builtin", 0>>}
                          ELSE {}
  BY DEF Definitions
<1>1. CASE CallAcp(n)
  <2>1. toolPc = "ready" /\ IsAcpTool(n)
    BY <1>1 DEF CallAcp
  <2>2. PICK r \in {"ok", "error"} : Calls(n, <<"acp", 0>>, r)
    BY <1>1 DEF CallAcp
  <2>3. PICK i \in 1..Len(acpDefs) : acpDefs[i] = n
    BY <2>1 DEF IsAcpTool
  <2>4. <<"acp", i>> \in Definitions[n]
    BY <1>0, <2>1, <2>3
  <2>5. Went(n, <<"acp", 0>>, r)
    BY <2>4 DEF Went
  <2> QED BY <2>1, <2>2, <2>5, CallsKeep
<1>2. CASE CallBuiltin(n)
  <2>1. toolPc = "ready" /\ ~IsAcpTool(n) /\ n \in Builtins
    BY <1>2 DEF CallBuiltin
  <2>2. PICK r \in {"ok", "error"} : Calls(n, <<"builtin", 0>>, r)
    BY <1>2 DEF CallBuiltin
  <2>3. Went(n, <<"builtin", 0>>, r)
    BY <1>0, <2>1 DEF Went
  <2> QED BY <2>1, <2>2, <2>3, CallsKeep
<1>3. CASE CallMcp(n)
  <2> DEFINE c == clients[mcpTools[n].client]
  <2>1. toolPc = "ready" /\ ~IsAcpTool(n) /\ IsMcpTool(n)
    BY <1>3 DEF CallMcp
  <2>3. mcpTools[n].client \in 1..Len(clients) /\ c.server = mcpTools[n].server
    BY <2>1 DEF ToolsInv, TableInv
  <2>4. /\ c.server \in Servers /\ c.session \in Nat /\ c.session >= 1
        /\ c.session <= epoch[c.server]
    BY <2>3, ClientAt DEF ToolsInv, TableInv
  <2>5. epoch[c.server] \in Nat
    BY <2>4, ToolsAssumption DEF ToolsInv, TableInv, ToolsTypeOK
  <2>6. <<"mcp", c.server>> \in Definitions[n]
    BY <1>0, <2>1, <2>3
  <2>8. c.session # epoch[c.server] => epoch[c.server] > 1
    BY <2>4, <2>5
  <2>2. PICK r \in {"ok", "error", "no session"} :
           /\ Calls(n, <<"mcp", c.server>>, r)
           /\ r = "no session" => c.session # epoch[c.server]
    BY <1>3 DEF CallMcp
  <2>7. Went(n, <<"mcp", c.server>>, r)
    <3>2. <<"mcp", c.server>>[2] = c.server
      OBVIOUS
    <3> HIDE DEF c
    <3> QED BY <2>2, <2>4, <2>6, <2>8, <3>2, Zenon DEF Went
  <2> QED BY <2>1, <2>2, <2>7, CallsKeep
<1>4. CASE CallUnknown(n)
  <2>1. toolPc = "ready" /\ Calls(n, <<"unknown", 0>>, "error") /\ Definitions[n] = {}
    BY <1>0, <1>4 DEF CallUnknown
  <2>2. Went(n, <<"unknown", 0>>, "error")
    BY <2>1 DEF Went
  <2> QED BY <2>1, <2>2, CallsKeep
<1> QED BY <1>1, <1>2, <1>3, <1>4

LEMMA ToolsNextInv == ToolsInv /\ [ToolsNext]_toolVars => ToolsInv'
<1> SUFFICES ASSUME ToolsInv, [ToolsNext]_toolVars PROVE CallInv'
  BY TableNext DEF ToolsInv
<1>1. ASSUME toolPc # "ready", UNCHANGED <<call, epoch>> PROVE CallInv'
  <2>1. call = NoCall /\ call' = NoCall
    BY <1>1 DEF ToolsInv, CallInv
  <2> QED BY <2>1 DEF CallInv, RunsWhatWasShown, SessionHolds, NoCall
<1>2. CASE ConnectFails \/ Initialize \/ \E tools \in SUBSET Names : ListTools(tools)
  <2>1. toolPc # "ready" /\ UNCHANGED <<call, epoch>>
    BY <1>2 DEF ConnectFails, Initialize, ListTools
  <2> QED BY <1>1, <2>1
<1>3. ASSUME NEW n \in Names \cup {"no name"}, NEW k \in Names \cup {"no name"},
             SetAcpTools(<<n, k>>)
      PROVE  CallInv'
  BY <1>1, <1>3 DEF SetAcpTools
<1>4. ASSUME NEW s \in Servers, RestartServer(s) PROVE CallInv'
  <2>1. UNCHANGED <<toolPc, mcpTools, acpDefs, call>>
    BY <1>4 DEF RestartServer
  <2>2. Definitions' = Definitions
    BY <2>1, Zenon DEF Definitions, IsAcpTool, IsMcpTool
  <2>3. RunsWhatWasShown'
    BY <2>1, <2>2, Zenon DEF ToolsInv, CallInv, RunsWhatWasShown, IsMcpTool
  <2>4. \A r \in Servers : epoch[r] > 1 => epoch'[r] > 1
    <3>1. /\ epoch \in [Servers -> 1..(MaxRestarts + 1)]
          /\ epoch' = [epoch EXCEPT ![s] = epoch[s] + 1]
      BY <1>4 DEF RestartServer, ToolsInv, TableInv, ToolsTypeOK
    <3> QED BY <3>1, ToolsAssumption
  <2> QED BY <2>1, <2>3, <2>4 DEF ToolsInv, CallInv, SessionHolds
<1>5. CASE UNCHANGED toolVars
  <2>1. UNCHANGED <<toolPc, mcpTools, acpDefs, call, epoch>>
    BY <1>5 DEF toolVars
  <2>2. Definitions' = Definitions
    BY <2>1, Zenon DEF Definitions, IsAcpTool, IsMcpTool
  <2>3. RunsWhatWasShown'
    BY <2>1, <2>2, Zenon DEF ToolsInv, CallInv, RunsWhatWasShown, IsMcpTool
  <2> QED BY <2>1, <2>3 DEF ToolsInv, CallInv, SessionHolds
<1> QED BY <1>2, <1>3, <1>4, <1>5, CallNext DEF ToolsNext

(* definitions() shows a name once unless the operator listed it twice. *)
LEMMA NamesShownOnce == ShownOnce
<1> SUFFICES ASSUME NEW n \in Names,
                    ~ \E i, j \in 1..Len(acpDefs) : i # j /\ acpDefs[i] = n /\ acpDefs[j] = n
             PROVE  ~(Cardinality(Definitions[n]) > 1)
  BY DEF ShownOnce
<1>1. \A x, y \in Definitions[n] : x = y
  BY DEF Definitions
<1>2. Definitions[n] = {} \/ \E x : Definitions[n] = {x}
  BY <1>1
<1>3. Cardinality({}) = 0 /\ \A x : Cardinality({x}) = 1
  BY FS_EmptySet, FS_Singleton
<1>4. Cardinality(Definitions[n]) = 0 \/ Cardinality(Definitions[n]) = 1
  BY <1>2, <1>3
<1> QED BY <1>4

(* For any servers, tools and failures to connect: what the LLM is shown   *)
(* is what runs, at the server that listed it, and a server refuses for    *)
(* want of a session only after a restart (registry.rs 136-226, client.rs  *)
(* 58-159).                                                                *)
THEOREM ToolsCorrect == ToolsSpec => []ToolsOK
<1>1. ToolsInit => ToolsInv
  <2> SUFFICES ASSUME ToolsInit PROVE ToolsInv
    OBVIOUS
  <2>1. \A n \in Names : mcpTools[n] = NoTool /\ mcpTools[n].client = 0
    BY DEF ToolsInit, NoTool
  <2>2. ToolsTypeOK
    BY <2>1, ToolsAssumption DEF ToolsInit, ToolsTypeOK, StartAt
  <2>3. TableInv
    BY <2>1, <2>2, ToolsAssumption DEF ToolsInit, TableInv, IsMcpTool, StartAt, NoTool
  <2>4. CallInv
    BY DEF ToolsInit, CallInv, RunsWhatWasShown, SessionHolds, NoCall
  <2> QED BY <2>3, <2>4 DEF ToolsInv
<1>2. ToolsInv => ToolsOK
  BY NamesShownOnce DEF ToolsInv, TableInv, CallInv, ToolsOK
<1> QED BY <1>1, <1>2, ToolsNextInv, PTL DEF ToolsSpec

-----------------------------------------------------------------------------
(* The builtin tools.                                                      *)

LEMMA ModFacts ==
    ASSUME NEW x \in Nat, NEW n \in Nat \ {0}
    PROVE  /\ x < n => x % n = x
           /\ n <= x /\ x < n + n => x % n = x - n
OBVIOUS

LEMMA MinOfTwo ==
    ASSUME NEW x \in Int, NEW y \in Int
    PROVE  Min({x, y}) = IF x <= y THEN x ELSE y
BY DEF Min

FileRecord == [lines : -1..MaxFileLines, version : Nat]
PageRecord == [of : FileRecord, offset : Nat, numbers : Seq(Nat)]

BuiltinTypeOK ==
    /\ file \in FileRecord /\ pages \in Seq(PageRecord)
    /\ running \in Nat

(* Pages are of versions up to the current one, so that a rewritten file   *)
(* has none of its own yet; a reading of one version stays within it.      *)
BuiltinInv ==
    /\ BuiltinTypeOK /\ PagesFitTogether
    /\ \A i \in 1..Len(pages) : pages[i].of.version <= file.version
    /\ (\A i \in 1..Len(pages) : pages[i].of = file) => \A i \in 1..Len(pages) : PageEnd(i) <= file.lines

(* What a page shows, with the arithmetic of usize: a sum that wraps is    *)
(* less than its first term, so that the slice panics (builtin.rs 27-36).  *)
LEMMA PageShows ==
    ASSUME NEW lines \in 0..MaxFileLines, lines = file.lines, NEW offset \in Nat,
           NEW start, start = IF offset <= lines THEN offset ELSE lines, NEW limit \in Limits,
           Page(offset, limit) # Panic, NEW page, page = Page(offset, limit)
    PROVE  /\ page \in Seq(Nat) /\ Len(page) \in Nat /\ start + Len(page) <= lines
           /\ \A k \in 1..Len(page) : page[k] = start + k
           /\ page = <<>> /\ limit # 0 => start = lines
<1>0. limit \in Nat /\ limit <= UsizeMax /\ UsizeMax \in Nat /\ lines \in Nat /\ lines <= UsizeMax
      /\ start \in Nat /\ start <= lines
  BY BuiltinAssumption
<1>1. Min({offset, lines}) = start
  BY <1>0, MinOfTwo
<1>2. PICK sum \in Nat : sum = (start + limit) % (UsizeMax + 1)
  BY <1>0
<1>3. sum = start + limit \/ sum < start
  <2>1. start + limit \in Nat /\ UsizeMax + 1 \in Nat \ {0}
    BY <1>0
  <2>2. CASE start + limit < UsizeMax + 1
    BY <1>2, <2>1, <2>2, ModFacts
  <2>3. CASE ~(start + limit < UsizeMax + 1)
    <3>1. UsizeMax + 1 <= start + limit /\ start + limit < (UsizeMax + 1) + (UsizeMax + 1)
      BY <1>0, <2>3
    <3>2. sum = (start + limit) - (UsizeMax + 1)
      BY <1>2, <2>1, <3>1, ModFacts
    <3> QED BY <1>0, <3>2
  <2> QED BY <2>2, <2>3
<1>4. PICK end \in Nat : end = IF sum <= lines THEN sum ELSE lines
  BY <1>0
<1>5. Min({sum, lines}) = end
  BY <1>0, <1>4, MinOfTwo
<1>6. page = IF end < start THEN Panic ELSE [i \in 1..(end - start) |-> start + i]
  BY <1>1, <1>2, <1>5 DEF Page
<1>7. end >= start /\ page = [i \in 1..(end - start) |-> start + i]
  BY <1>6
<1>8. end - start \in Nat /\ end <= lines
  BY SMTT(30), <1>0, <1>4, <1>7
<1>9. PICK n \in Nat : n = end - start
  BY <1>8
<1>10. page = [i \in 1..n |-> start + i]
  BY <1>7, <1>9
<1>11. page \in Seq(Nat) /\ Len(page) = n /\ \A k \in 1..n : page[k] = start + k
  BY <1>10
<1>12. page = <<>> => n = 0
  BY <1>11
<1>13. n = 0 /\ limit # 0 => start = lines
  BY <1>0, <1>3, <1>4, <1>7, <1>9
<1> QED BY <1>8, <1>9, <1>11, <1>12, <1>13

PageFits(p) ==
    /\ \A k \in 1..Len(p.numbers) : p.numbers[k] = p.offset + k
    /\ p.numbers # <<>> => p.offset + Len(p.numbers) <= p.of.lines
    /\ p.numbers = <<>> /\ 0 \notin Limits => p.offset >= p.of.lines
EndOf(p) == p.offset + Len(p.numbers)

LEMMA FitIs ==
    PagesFitTogether <=>
        (pages # <<>> =>
            /\ pages[1].offset = 0
            /\ \A i \in 1..Len(pages) : (i > 1 => pages[i].offset = EndOf(pages[i - 1])) /\ PageFits(pages[i]))
BY Zenon DEF PagesFitTogether, PageEnd, EndOf, PageFits

(* The page that a read adds. *)
LEMMA NewPageFits ==
    ASSUME file \in FileRecord, file.lines # -1, NEW offset \in Nat, NEW limit \in Limits,
           Page(offset, limit) # Panic,
           NEW new, new = [of |-> file, offset |-> offset, numbers |-> Page(offset, limit)]
    PROVE  /\ new \in PageRecord /\ PageFits(new)
           /\ offset <= file.lines => EndOf(new) <= file.lines
<1>1. file.lines \in 0..MaxFileLines /\ MaxFileLines \in Nat
  BY BuiltinAssumption DEF FileRecord
<1>2. PICK start, page : /\ start = IF offset <= file.lines THEN offset ELSE file.lines
                         /\ page = Page(offset, limit)
  OBVIOUS
<1>3. /\ page \in Seq(Nat) /\ Len(page) \in Nat /\ start + Len(page) <= file.lines
      /\ \A k \in 1..Len(page) : page[k] = start + k
      /\ page = <<>> /\ limit # 0 => start = file.lines
  BY <1>1, <1>2, PageShows
<1>4. new = [of |-> file, offset |-> offset, numbers |-> page]
  BY <1>2
<1>5. new \in PageRecord /\ new.of = file /\ new.offset = offset /\ new.numbers = page
  BY <1>3, <1>4 DEF PageRecord
<1>6. PICK n : n = Len(page) /\ n \in Nat
  BY <1>3
<1>7. CASE offset <= file.lines
  <2>1. start = offset
    BY <1>2, <1>7
  <2>2. page = <<>> /\ 0 \notin Limits => offset >= file.lines
    BY <1>1, <1>3, <2>1
  <2>3. offset + Len(page) <= file.lines /\ \A k \in 1..Len(page) : page[k] = offset + k
    BY <1>3, <2>1
  <2>4. PageFits(new)
    BY <1>5, <2>2, <2>3, Zenon DEF PageFits
  <2> QED BY <1>5, <2>3, <2>4 DEF EndOf
<1>8. CASE ~(offset <= file.lines)
  <2>1. start = file.lines
    BY <1>2, <1>8
  <2>2. n = 0 /\ offset >= file.lines
    BY <1>1, <1>3, <1>6, <1>8, <2>1
  <2>5. Len(page) = 0
    BY <1>6, <2>2
  <2>3. page = <<>>
    BY <1>3, <2>5
  <2>4. \A k \in 1..Len(page) : page[k] = offset + k
    BY <2>5
  <2> QED BY <1>5, <1>8, <2>2, <2>3, <2>4 DEF PageFits
<1> QED BY <1>7, <1>8

(* A write, by whomever. *)
LEMMA RewriteInv ==
    ASSUME BuiltinInv, NEW n \in -1..MaxFileLines, Rewrite(n), UNCHANGED pages, running' \in Nat
    PROVE  BuiltinInv'
<1>t. /\ file \in FileRecord /\ file.version \in Nat /\ pages \in Seq(PageRecord)
      /\ \A i \in 1..Len(pages) : pages[i].of.version <= file.version
      /\ PagesFitTogether
  BY DEF BuiltinInv, BuiltinTypeOK, FileRecord
<1>1. file' = [lines |-> n, version |-> file.version + 1]
  BY DEF Rewrite
<1>2. file' \in FileRecord /\ file'.version = file.version + 1
  BY <1>t, <1>1 DEF FileRecord
<1>3. \A i \in 1..Len(pages) : pages[i].of.version \in Nat
  <2>1. ASSUME NEW i \in 1..Len(pages) PROVE pages[i].of.version \in Nat
    <3>1. pages[i] \in PageRecord
      BY <1>t
    <3> QED BY <3>1 DEF PageRecord, FileRecord
  <2> QED BY <2>1
<1>4. \A i \in 1..Len(pages) : pages[i].of.version < file.version + 1
  BY <1>t, <1>3
<1>5. ASSUME NEW i \in 1..Len(pages) PROVE pages[i].of.version <= file'.version /\ pages[i].of # file'
  <2>1. pages[i].of.version < file'.version
    BY <1>2, <1>4
  <2>2. pages[i].of.version \in Nat /\ file'.version \in Nat
    BY <1>t, <1>2, <1>3
  <2> QED BY <2>1, <2>2
<1>6. PagesFitTogether'
  BY <1>t, Zenon DEF PagesFitTogether, PageEnd
<1>7. BuiltinTypeOK'
  BY <1>t, <1>2 DEF BuiltinTypeOK
<1> QED BY <1>5, <1>6, <1>7, Zenon DEF BuiltinInv

LEMMA SameFileInv ==
    ASSUME BuiltinInv, UNCHANGED <<file, pages>>, running' \in Nat
    PROVE  BuiltinInv'
<1>1. BuiltinTypeOK'
  BY DEF BuiltinInv, BuiltinTypeOK
<1>2. PagesFitTogether'
  BY Zenon DEF BuiltinInv, PagesFitTogether, PageEnd
<1> QED BY <1>1, <1>2, Zenon DEF BuiltinInv, PageEnd

LEMMA ReadInv ==
    ASSUME BuiltinInv, NEW offset \in {0, Cursor}, NEW limit \in Limits, ToolRead(offset, limit)
    PROVE  BuiltinInv'
<1>t. /\ file \in FileRecord /\ file.lines \in Int /\ file.version \in Nat /\ pages \in Seq(PageRecord)
      /\ \A i \in 1..Len(pages) : pages[i].of.version <= file.version
      /\ UNCHANGED <<file, running>> /\ running \in Nat
  BY DEF BuiltinInv, BuiltinTypeOK, FileRecord, ToolRead
<1> DEFINE new == [of |-> file, offset |-> offset, numbers |-> Page(offset, limit)]
<1>1. CASE UNCHANGED pages
  BY <1>1, <1>t, SameFileInv
<1>2. CASE /\ file.lines # -1 /\ Page(offset, limit) # Panic
           /\ pages' = IF offset = 0 THEN <<new>> ELSE Append(pages, new)
  <2>1. new.of = file /\ new.offset = offset
    OBVIOUS
  <2>2. ASSUME offset \in Nat
        PROVE  /\ new \in PageRecord /\ PageFits(new)
               /\ offset <= file.lines => EndOf(new) <= file.lines
    BY <1>2, <1>t, <2>2, NewPageFits
  <2> HIDE DEF new
  <2>3. CASE offset = 0
    <3>1. /\ pages' = <<new>> /\ new \in PageRecord /\ PageFits(new) /\ EndOf(new) <= file.lines
          /\ new.offset = 0
      BY <1>2, <1>t, <2>1, <2>2, <2>3 DEF FileRecord
    <3>2. pages' \in Seq(PageRecord) /\ Len(pages') = 1 /\ pages'[1] = new /\ \A i \in 1..Len(pages') : i = 1
      BY <3>1
    <3>3. PagesFitTogether'
      BY <3>1, <3>2 DEF PagesFitTogether, PageEnd, PageFits
    <3>4. BuiltinTypeOK'
      BY <1>t, <3>2 DEF BuiltinTypeOK
    <3>5. \A i \in 1..Len(pages') : pages'[i].of.version <= file'.version
      BY <1>t, <2>1, <3>2
    <3>6. \A i \in 1..Len(pages') : pages'[i].offset + Len(pages'[i].numbers) <= file'.lines
      BY <1>t, <3>1, <3>2 DEF EndOf
    <3> QED BY <3>3, <3>4, <3>5, <3>6, Zenon DEF BuiltinInv, PageEnd
  <2>4. CASE offset # 0
    <3>1. offset = Cursor /\ pages' = Append(pages, new) /\ pages # <<>>
      BY <1>2, <2>4 DEF Cursor
    <3>2. Len(pages) \in Nat /\ Len(pages) > 0 /\ pages[Len(pages)] \in PageRecord
      BY <1>t, <3>1
    <3>3. offset = EndOf(pages[Len(pages)])
      BY <3>1 DEF Cursor, Last, EndOf
    <3>4. offset \in Nat
      BY <3>2, <3>3 DEF EndOf, PageRecord
    <3>5. new \in PageRecord /\ PageFits(new) /\ (offset <= file.lines => EndOf(new) <= file.lines)
      BY <2>2, <3>4
    <3>6. /\ pages' \in Seq(PageRecord) /\ Len(pages') = Len(pages) + 1 /\ pages'[Len(pages')] = new
          /\ \A i \in 1..Len(pages) : pages'[i] = pages[i]
      BY <1>t, <3>1, <3>5
    <3>7. /\ pages[1].offset = 0
          /\ \A i \in 1..Len(pages) : (i > 1 => pages[i].offset = EndOf(pages[i - 1])) /\ PageFits(pages[i])
      BY <3>1, FitIs DEF BuiltinInv
    <3>8. ASSUME NEW i \in 1..Len(pages')
          PROVE  /\ i > 1 => pages'[i].offset = EndOf(pages'[i - 1])
                 /\ PageFits(pages'[i])
                 /\ pages'[i].of.version <= file'.version
      <4>1. CASE i = Len(pages')
        <5>1. i - 1 = Len(pages) /\ i - 1 \in 1..Len(pages) /\ pages'[i] = new /\ pages'[i - 1] = pages[Len(pages)]
          BY <3>2, <3>6, <4>1
        <5> QED BY <1>t, <2>1, <3>3, <3>5, <5>1
      <4>2. CASE i # Len(pages')
        <5>1. i \in 1..Len(pages) /\ pages'[i] = pages[i] /\ (i > 1 => pages'[i - 1] = pages[i - 1])
          BY <3>2, <3>6, <4>2
        <5> QED BY <1>t, <3>7, <5>1
      <4> QED BY <4>1, <4>2
    <3>9. PagesFitTogether'
      <4>1. pages'[1].offset = 0
        BY <3>2, <3>6, <3>7
      <4> QED BY <3>8, <4>1, Zenon DEF PagesFitTogether, PageEnd, EndOf, PageFits
    <3>10. BuiltinTypeOK'
      BY <1>t, <3>6 DEF BuiltinTypeOK
    <3>11. ASSUME \A i \in 1..Len(pages') : pages'[i].of = file', NEW i \in 1..Len(pages')
           PROVE  pages'[i].offset + Len(pages'[i].numbers) <= file'.lines
      <4>1. ASSUME NEW k \in 1..Len(pages) PROVE pages[k].of = file /\ k \in 1..Len(pages')
        <5>1. k \in 1..Len(pages') /\ pages'[k] = pages[k]
          BY <3>2, <3>6
        <5> QED BY <1>t, <3>11, <5>1
      <4>2. \A k \in 1..Len(pages) : EndOf(pages[k]) <= file.lines
        BY <4>1, Zenon DEF BuiltinInv, PageEnd, EndOf
      <4>3. CASE i = Len(pages')
        <5>1. Len(pages) \in 1..Len(pages)
          BY <3>2
        <5>2. offset <= file.lines
          BY <3>3, <4>2, <5>1
        <5> QED BY <1>t, <3>5, <3>6, <4>3, <5>2 DEF EndOf
      <4>4. CASE i # Len(pages')
        <5>1. i \in 1..Len(pages) /\ pages'[i] = pages[i]
          BY <3>2, <3>6, <4>4
        <5> QED BY <1>t, <4>2, <5>1 DEF EndOf
      <4> QED BY <4>3, <4>4
    <3> QED BY <3>8, <3>9, <3>10, <3>11, Zenon DEF BuiltinInv, PageEnd
  <2> QED BY <2>3, <2>4
<1>3. \/ UNCHANGED pages
      \/ /\ file.lines # -1 /\ Page(offset, limit) # Panic
         /\ pages' = IF offset = 0 THEN <<new>> ELSE Append(pages, new)
  BY Zenon DEF ToolRead
<1> QED BY <1>1, <1>2, <1>3

LEMMA BuiltinNextInv == BuiltinInv /\ [BuiltinNext]_toolsVars => BuiltinInv'
<1> SUFFICES ASSUME BuiltinInv, [BuiltinNext]_toolsVars PROVE BuiltinInv'
  OBVIOUS
<1>t. running \in Nat /\ MaxFileLines \in Nat
  BY BuiltinAssumption DEF BuiltinInv, BuiltinTypeOK
<1>1. ASSUME NEW offset \in {0, Cursor}, NEW limit \in Limits, ToolRead(offset, limit) PROVE BuiltinInv'
  BY <1>1, ReadInv
<1>2. ASSUME NEW n \in 0..MaxFileLines, ToolWrite(n) PROVE BuiltinInv'
  <2>1. UNCHANGED <<pages, running>>
    BY <1>2 DEF ToolWrite
  <2>2. ASSUME NEW k \in 0..n, Rewrite(k) PROVE BuiltinInv'
    <3>1. k \in -1..MaxFileLines
      BY <1>t
    <3> QED BY <1>t, <2>1, <2>2, <3>1, RewriteInv
  <2>3. n \in 0..n
    BY <1>t
  <2>4. CASE UNCHANGED file
    BY <1>t, <2>1, <2>4, SameFileInv
  <2> QED BY <1>2, <2>2, <2>3, <2>4 DEF ToolWrite
<1>3. ASSUME NEW n \in -1..MaxFileLines, ToolExec(n) PROVE BuiltinInv'
  <2>1. /\ Rewrite(n) \/ UNCHANGED file
        /\ UNCHANGED pages /\ running' \in {running, running + 1}
    BY <1>3 DEF ToolExec
  <2>2. running' \in Nat
    BY <1>t, <2>1
  <2> QED BY <2>1, <2>2, RewriteInv, SameFileInv
<1>4. ASSUME NEW n \in -1..MaxFileLines, CommandWrites(n) PROVE BuiltinInv'
  BY <1>t, <1>4, RewriteInv DEF CommandWrites
<1>5. CASE CommandEnds
  <2>1. UNCHANGED <<file, pages>> /\ running' \in Nat
    BY <1>t, <1>5 DEF CommandEnds
  <2> QED BY <2>1, SameFileInv
<1>6. CASE ToolExecTimesOut
  <2>1. UNCHANGED <<file, pages>> /\ running' \in Nat
    BY <1>t, <1>6 DEF ToolExecTimesOut
  <2> QED BY <2>1, SameFileInv
<1>7. CASE \/ \E matches \in 0..(GrepLimit + 1) : ToolSearch(matches)
           \/ \E known \in BOOLEAN, size \in {MaxMedia, MaxMedia + 1} : ToolReadMedia(known, size)
           \/ UNCHANGED toolsVars
  <2>1. UNCHANGED <<file, pages, running>>
    BY <1>7 DEF ToolSearch, ToolReadMedia, toolsVars
  <2> QED BY <1>t, <2>1, SameFileInv
<1> QED BY <1>1, <1>2, <1>3, <1>4, <1>5, <1>6, <1>7 DEF BuiltinNext

LEMMA BuiltinInvGives == BuiltinInv => BuiltinsOK
<1> SUFFICES ASSUME BuiltinInv, pages # <<>>, Last(pages).numbers = <<>>, 0 \notin Limits,
                    \A i \in 1..Len(pages) : pages[i].of = file
             PROVE  PageEnd(Len(pages)) = file.lines
  BY DEF BuiltinInv, BuiltinsOK, ReadingIsWhole
<1>1. /\ Len(pages) \in 1..Len(pages) /\ pages[Len(pages)] \in PageRecord
      /\ pages[Len(pages)].numbers = <<>>
  BY DEF BuiltinInv, BuiltinTypeOK, Last
<1>2. PICK p : p = pages[Len(pages)]
  OBVIOUS
<1>3. p.of = file /\ p.numbers = <<>> /\ p \in PageRecord
  BY <1>1, <1>2
<1>4. p.offset >= p.of.lines
  BY <1>1, <1>2, <1>3, FitIs DEF BuiltinInv, PageFits
<1>5. PageEnd(Len(pages)) <= file.lines
  BY <1>1, Zenon DEF BuiltinInv
<1>6. PageEnd(Len(pages)) = p.offset
  BY <1>2, <1>3 DEF PageEnd, PageRecord
<1>7. p.offset \in Nat /\ file.lines \in Int
  BY <1>3 DEF PageRecord, FileRecord, BuiltinInv, BuiltinTypeOK
<1> QED BY <1>3, <1>4, <1>5, <1>6, <1>7

(* Pages that are read on from each other fit together and show what the   *)
(* file held, and an undisturbed reading shows all of it, for every file   *)
(* and page size that usize can count (a sum that wraps ends in a panic    *)
(* and never in a wrong page), whatever tools, failed writes and processes *)
(* left behind do to the file between two pages (builtin.rs 18-99).        *)
THEOREM BuiltinsCorrect == BuiltinSpec => []BuiltinsOK
<1>1. BuiltinInit => BuiltinInv
  <2> SUFFICES ASSUME BuiltinInit PROVE BuiltinInv
    OBVIOUS
  <2>1. file = [lines |-> -1, version |-> 0] /\ pages = <<>> /\ running = 0
    BY DEF BuiltinInit
  <2>2. BuiltinTypeOK
    <3>1. -1 \in -1..MaxFileLines
      BY BuiltinAssumption
    <3> QED BY <2>1, <3>1 DEF BuiltinTypeOK, FileRecord
  <2>3. PagesFitTogether
    BY <2>1 DEF PagesFitTogether
  <2>4. \A i \in 1..Len(pages) : FALSE
    BY <2>1
  <2> QED BY <2>2, <2>3, <2>4 DEF BuiltinInv
<1> QED BY <1>1, BuiltinInvGives, BuiltinNextInv, PTL DEF BuiltinSpec
=============================================================================
