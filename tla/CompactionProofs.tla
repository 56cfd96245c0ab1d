--------------------------- MODULE CompactionProofs ---------------------------
(***************************************************************************)
(* Theorems about compaction, for histories of any length, any call ids    *)
(* and any number of messages to keep.  What a recursive function computes *)
(* is shown by its least counterexample: LeastNat is the only induction.   *)
(***************************************************************************)
EXTENDS MCCompaction, WellFoundedInduction, TLAPS

-----------------------------------------------------------------------------
(* A set of naturals that is not empty has a least element.                *)
LEMMA LeastNat ==
    ASSUME NEW T \in SUBSET Nat, T # {}
    PROVE  \E n \in T : \A m \in T : n <= m
<1> DEFINE R == OpToRel(<, Nat)
<1>1. IsWellFoundedOn(R, Nat)
  BY NatLessThanWellFounded
<1>2. \A m, n \in Nat : m < n => <<m, n>> \in R
  BY DEF OpToRel
<1> HIDE DEF R
<1>3. PICK n \in T : \A y \in T : ~(<<y, n>> \in R)
  BY <1>1, WFMin
<1>4. ASSUME NEW m \in T PROVE n <= m
  <2>1. n \in Nat /\ m \in Nat
    OBVIOUS
  <2>2. ~(<<m, n>> \in R)
    BY <1>3
  <2>3. ~(m < n)
    BY <2>1, <2>2, <1>2
  <2> QED
    BY <2>1, <2>3
<1> QED BY <1>4

-----------------------------------------------------------------------------
(* Recursive functions over the naturals. *)

(* A function given by a first value and a step from each to the next. *)
HasRecursion(lo, n, S, x, step) ==
    \E g \in [lo..n -> S] : g[lo] = x /\ \A k \in lo..n : k # lo => g[k] = step[k][g[k - 1]]

LEMMA RecursionExists ==
    ASSUME NEW lo \in Nat, NEW N \in Nat, lo <= N, NEW S, NEW x \in S,
           NEW step \in [lo..N -> [S -> S]]
    PROVE  HasRecursion(lo, N, S, x, step)
<1> DEFINE Is(g, n) == g[lo] = x /\ \A k \in lo..n : k # lo => g[k] = step[k][g[k - 1]]
           T == {n \in lo..N : ~\E g \in [lo..n -> S] : Is(g, n)}
<1>1. T = {}
  <2> SUFFICES ASSUME T # {} PROVE FALSE
    OBVIOUS
  <2>1. PICK n \in T : \A m \in T : n <= m
    <3>1. T \in SUBSET Nat
      OBVIOUS
    <3> HIDE DEF T
    <3> QED BY <3>1, LeastNat
  <2>2. n \in lo..N /\ ~\E g \in [lo..n -> S] : Is(g, n)
    BY <2>1
  <2>3. CASE n = lo
    <3> DEFINE g == [k \in lo..n |-> x]
    <3>1. g \in [lo..n -> S]
      OBVIOUS
    <3>2. Is(g, n)
      BY <2>3
    <3> QED BY <2>2, <3>1, <3>2
  <2>4. CASE n # lo
    <3>1. n - 1 \in lo..N
      BY <2>2, <2>4
    <3>2. n - 1 \notin T
      <4> HIDE DEF T
      <4> QED BY <2>1, <2>2
    <3>3. PICK h \in [lo..(n - 1) -> S] : Is(h, n - 1)
      BY <3>1, <3>2
    <3> DEFINE g == [k \in lo..n |-> IF k = n THEN step[n][h[n - 1]] ELSE h[k]]
    <3>4. g \in [lo..n -> S]
      BY <2>2, <2>4, <3>1
    <3>5. g[lo] = x
      BY <2>2, <2>4, <3>3
    <3>6. ASSUME NEW k \in lo..n, k # lo PROVE g[k] = step[k][g[k - 1]]
      <4>1. CASE k = n
        BY <2>2, <2>4, <3>1, <3>6, <4>1
      <4>2. CASE k # n
        BY <2>2, <3>3, <3>6, <4>2
      <4> QED BY <4>1, <4>2
    <3> HIDE DEF g
    <3> QED BY <2>2, <3>4, <3>5, <3>6
  <2> QED BY <2>3, <2>4
<1>2. PICK g \in [lo..N -> S] : Is(g, N)
  <2>1. N \in lo..N /\ N \notin T
    BY <1>1
  <2> QED BY <2>1
<1> QED BY <1>2 DEF HasRecursion

LEMMA MaxOfTwo ==
    ASSUME NEW a \in Int, NEW b \in Int
    PROVE  Max({a, b}) = IF a >= b THEN a ELSE b
<1>1. \E x \in {a, b} : \A y \in {a, b} : x >= y
  OBVIOUS
<1>2. Max({a, b}) \in {a, b} /\ \A y \in {a, b} : Max({a, b}) >= y
  BY <1>1 DEF Max
<1> QED BY <1>2

-----------------------------------------------------------------------------
(* What the loop over a slice leaves unanswered: calls no later message of *)
(* the slice answers.                                                      *)

Asks(ms, i, id) == ms[i].kind = "assistant" /\ id \in ToSet(ms[i].calls)
Responds(ms, j, id) == ms[j].kind = "tool" /\ ms[j].id = id
OpenAt(ms, start, k) ==
    {id \in UNION {ToSet(ms[i].calls) : i \in (start + 1)..k} :
        \E i \in (start + 1)..k : Asks(ms, i, id) /\ \A j \in (i + 1)..k : ~Responds(ms, j, id)}

LEMMA OpenIff ==
    ASSUME NEW ms, NEW start, NEW k, NEW id
    PROVE  id \in OpenAt(ms, start, k) <=>
             \E i \in (start + 1)..k : Asks(ms, i, id) /\ \A j \in (i + 1)..k : ~Responds(ms, j, id)
BY DEF OpenAt, Asks

LEMMA TrackIff ==
    ASSUME NEW ms, NEW k, NEW open, NEW id
    PROVE  id \in Track(open, ms[k]) <=>
             Asks(ms, k, id) \/ (id \in open /\ ~Responds(ms, k, id))
BY DEF Track, Asks, Responds

LEMMA OpenStep ==
    ASSUME NEW ms, NEW start \in Nat, NEW k \in Nat, k > start
    PROVE  OpenAt(ms, start, k) = Track(OpenAt(ms, start, k - 1), ms[k])
<1>1. ASSUME NEW id PROVE id \in OpenAt(ms, start, k) <=> id \in Track(OpenAt(ms, start, k - 1), ms[k])
  <2>1. ASSUME NEW i \in (start + 1)..k, Asks(ms, i, id), \A j \in (i + 1)..k : ~Responds(ms, j, id)
        PROVE  Asks(ms, k, id) \/ (id \in OpenAt(ms, start, k - 1) /\ ~Responds(ms, k, id))
    <3>1. CASE i = k
      BY <2>1, <3>1
    <3>2. CASE i # k
      <4>1. i \in (start + 1)..(k - 1) /\ k \in (i + 1)..k /\ \A j \in (i + 1)..(k - 1) : j \in (i + 1)..k
        BY <3>2
      <4>2. id \in OpenAt(ms, start, k - 1)
        BY <2>1, <4>1, OpenIff
      <4> QED BY <2>1, <4>1, <4>2
    <3> QED BY <3>1, <3>2
  <2>2. ASSUME Asks(ms, k, id) PROVE id \in OpenAt(ms, start, k)
    <3>1. k \in (start + 1)..k /\ \A j \in (k + 1)..k : ~Responds(ms, j, id)
      OBVIOUS
    <3> QED BY <2>2, <3>1, OpenIff
  <2>3. ASSUME id \in OpenAt(ms, start, k - 1), ~Responds(ms, k, id) PROVE id \in OpenAt(ms, start, k)
    <3>1. PICK i \in (start + 1)..(k - 1) : Asks(ms, i, id) /\ \A j \in (i + 1)..(k - 1) : ~Responds(ms, j, id)
      BY <2>3, OpenIff
    <3>2. i \in (start + 1)..k /\ \A j \in (i + 1)..k : j = k \/ j \in (i + 1)..(k - 1)
      OBVIOUS
    <3>3. \A j \in (i + 1)..k : ~Responds(ms, j, id)
      BY <2>3, <3>1, <3>2
    <3> QED BY <3>1, <3>2, <3>3, OpenIff
  <2> QED BY <2>1, <2>2, <2>3, OpenIff, TrackIff
<1> QED BY <1>1

LEMMA UnansweredIs ==
    ASSUME NEW ms, Len(ms) \in Nat, NEW start \in 0..Len(ms), NEW k \in start..Len(ms)
    PROVE  Unanswered(ms, start)[k] = OpenAt(ms, start, k)
<1> DEFINE after == Unanswered(ms, start)
           open == [n \in start..Len(ms) |-> OpenAt(ms, start, n)]
<1>1. open = [n \in start..Len(ms) |-> IF n = start THEN {} ELSE Track(open[n - 1], ms[n])]
  <2>1. OpenAt(ms, start, start) = {}
    BY DEF OpenAt
  <2>2. ASSUME NEW n \in start..Len(ms), n # start PROVE OpenAt(ms, start, n) = Track(open[n - 1], ms[n])
    BY <2>2, OpenStep
  <2> QED BY <2>1, <2>2
<1>2. after = [n \in start..Len(ms) |-> IF n = start THEN {} ELSE Track(after[n - 1], ms[n])]
  <2> HIDE DEF open
  <2> QED BY <1>1 DEF Unanswered
<1> DEFINE T == {n \in start..Len(ms) : after[n] # open[n]}
<1>3. T = {}
  <2> SUFFICES ASSUME T # {} PROVE FALSE
    OBVIOUS
  <2>1. PICK n \in T : \A m \in T : n <= m
    <3>1. T \in SUBSET Nat
      OBVIOUS
    <3> HIDE DEF T
    <3> QED BY <3>1, LeastNat
  <2>2. n \in start..Len(ms) /\ after[n] # open[n]
    BY <2>1
  <2> HIDE DEF after, open
  <2>3. n # start
    BY <1>1, <1>2, <2>2
  <2>4. n - 1 \in start..Len(ms) /\ n - 1 \notin T
    BY <2>1, <2>2, <2>3
  <2>5. after[n - 1] = open[n - 1]
    BY <2>4
  <2> QED BY <1>1, <1>2, <2>2, <2>3, <2>5
<1>4. after[k] = open[k]
  <2> HIDE DEF after, open
  <2> QED BY <1>3
<1> QED BY <1>4

-----------------------------------------------------------------------------
(* Where the walk back from s stops. *)
Stops(ms, start, t) == ~(t > start /\ HasStraddlingPair(ms, start, t))
StopsFirstAt(ms, start, s, t) ==
    t \in 0..s /\ Stops(ms, start, t) /\ \A u \in (t + 1)..s : ~Stops(ms, start, u)

LEMMA SomeStop ==
    ASSUME NEW ms, NEW start \in Nat, NEW s \in Nat
    PROVE  \E t \in 0..s : StopsFirstAt(ms, start, s, t)
<1> DEFINE T == {n \in 0..s : Stops(ms, start, s - n)}
<1>1. T # {}
  <2>1. CASE s <= start
    BY <2>1 DEF Stops
  <2>2. CASE s > start
    <3>1. s - start \in 0..s /\ s - (s - start) = start
      BY <2>2
    <3>2. Stops(ms, start, start)
      BY DEF Stops
    <3> QED BY <3>1, <3>2
  <2> QED BY <2>1, <2>2
<1>2. T \in SUBSET Nat
  OBVIOUS
<1>3. PICK n \in T : \A m \in T : n <= m
  <2> HIDE DEF T
  <2> QED BY <1>1, <1>2, LeastNat
<1>4. n \in 0..s /\ Stops(ms, start, s - n)
  OBVIOUS
<1>5. ASSUME NEW u \in (s - n + 1)..s PROVE ~Stops(ms, start, u)
  <2>1. s - u \in 0..s /\ s - (s - u) = u /\ s - u < n /\ n \in Nat /\ s - u \in Nat
    BY <1>4
  <2>2. s - u \notin T
    <3> HIDE DEF T
    <3> QED BY <1>3, <2>1
  <2> QED BY <2>1, <2>2
<1>6. s - n \in 0..s
  BY <1>4
<1> QED BY <1>4, <1>5, <1>6 DEF StopsFirstAt

LEMMA OneStop ==
    ASSUME NEW ms, NEW start, NEW s \in Nat, NEW t, NEW u,
           StopsFirstAt(ms, start, s, t), StopsFirstAt(ms, start, s, u)
    PROVE  t = u
<1>1. /\ t \in 0..s /\ Stops(ms, start, t) /\ \A v \in (t + 1)..s : ~Stops(ms, start, v)
      /\ u \in 0..s /\ Stops(ms, start, u) /\ \A v \in (u + 1)..s : ~Stops(ms, start, v)
  BY DEF StopsFirstAt
<1>2. ~(t < u) /\ ~(u < t)
  BY <1>1
<1> QED BY <1>1, <1>2

LEMMA StopStep ==
    ASSUME NEW ms, NEW start \in Nat, NEW s \in Nat, ~Stops(ms, start, s), NEW t,
           StopsFirstAt(ms, start, s - 1, t)
    PROVE  s # 0 /\ StopsFirstAt(ms, start, s, t)
<1>1. s > start
  BY DEF Stops
<1>2. /\ t \in 0..(s - 1) /\ Stops(ms, start, t)
      /\ \A u \in (t + 1)..(s - 1) : ~Stops(ms, start, u)
  BY DEF StopsFirstAt
<1>3. \A u \in (t + 1)..s : u = s \/ u \in (t + 1)..(s - 1)
  BY <1>1, <1>2
<1> QED BY <1>1, <1>2, <1>3 DEF StopsFirstAt

(* The walk back ends at the latest place to stop. *)
LEMMA WalkBackStops ==
    ASSUME NEW ms, Len(ms) \in Nat, NEW start \in Nat, NEW s \in 0..Len(ms)
    PROVE  StopsFirstAt(ms, start, s, WalkBack(ms, start)[s])
<1> DEFINE L == Len(ms)
           stop(n) == CHOOSE t \in 0..n : StopsFirstAt(ms, start, n, t)
           best == [n \in 0..L |-> stop(n)]
           walk == WalkBack(ms, start)
<1>1. ASSUME NEW n \in 0..L PROVE StopsFirstAt(ms, start, n, stop(n))
  <2>1. n \in Nat
    OBVIOUS
  <2>2. \E t \in 0..n : StopsFirstAt(ms, start, n, t)
    <3> HIDE DEF L
    <3> QED BY <2>1, SomeStop, Zenon
  <2> QED BY <2>2
<1>2. ASSUME NEW n \in 0..L
      PROVE  best[n] = IF n > start /\ HasStraddlingPair(ms, start, n) THEN best[n - 1] ELSE n
  <2>1. CASE ~Stops(ms, start, n)
    <3>1. n # 0
      BY <2>1 DEF Stops
    <3>2. n - 1 \in 0..L
      BY <3>1
    <3>3. StopsFirstAt(ms, start, n - 1, stop(n - 1))
      BY <1>1, <3>2
    <3>4. StopsFirstAt(ms, start, n, stop(n - 1))
      <4> HIDE DEF stop
      <4> QED BY <2>1, <3>3, StopStep
    <3>5. stop(n) = stop(n - 1)
      <4> HIDE DEF stop
      <4> QED BY <1>1, <3>4, OneStop
    <3>6. best[n] = best[n - 1]
      <4> HIDE DEF stop
      <4> QED BY <3>2, <3>5
    <3> HIDE DEF best
    <3> QED BY <2>1, <3>6 DEF Stops
  <2>2. CASE Stops(ms, start, n)
    <3>1. StopsFirstAt(ms, start, n, n)
      BY <2>2 DEF StopsFirstAt
    <3>2. stop(n) = n
      <4> HIDE DEF stop
      <4> QED BY <1>1, <3>1, OneStop
    <3>3. best[n] = n
      <4> HIDE DEF stop
      <4> QED BY <3>2
    <3> HIDE DEF best
    <3> QED BY <2>2, <3>3 DEF Stops
  <2> QED BY <2>1, <2>2
<1>3. best = [n \in 0..L |-> IF n > start /\ HasStraddlingPair(ms, start, n) THEN best[n - 1] ELSE n]
  <2> DEFINE next == [n \in 0..L |-> IF n > start /\ HasStraddlingPair(ms, start, n)
                                     THEN best[n - 1] ELSE n]
  <2>1. \A n \in 0..L : best[n] = next[n]
    <3> HIDE DEF best
    <3> QED BY <1>2
  <2>2. best = [n \in 0..L |-> best[n]]
    <3> HIDE DEF stop
    <3> QED OBVIOUS
  <2> HIDE DEF best
  <2> QED BY <2>1, <2>2
<1>4. walk = [n \in 0..L |-> IF n > start /\ HasStraddlingPair(ms, start, n) THEN walk[n - 1] ELSE n]
  <2> HIDE DEF best
  <2> QED BY <1>3 DEF WalkBack
<1> DEFINE T == {n \in 0..L : walk[n] # best[n]}
<1>5. T = {}
  <2> SUFFICES ASSUME T # {} PROVE FALSE
    OBVIOUS
  <2>1. PICK n \in T : \A m \in T : n <= m
    <3>1. T \in SUBSET Nat
      OBVIOUS
    <3> HIDE DEF T
    <3> QED BY <3>1, LeastNat
  <2>2. n \in 0..L /\ walk[n] # best[n]
    BY <2>1
  <2> HIDE DEF walk, best
  <2>3. n > start
    BY <1>3, <1>4, <2>2
  <2>4. n - 1 \in 0..L /\ n - 1 \notin T
    BY <2>1, <2>2, <2>3
  <2>5. walk[n - 1] = best[n - 1]
    BY <2>4
  <2> QED BY <1>3, <1>4, <2>2, <2>5
<1>6. walk[s] = best[s]
  <2> HIDE DEF walk, best
  <2> QED BY <1>5
<1>7. best[s] = stop(s)
  <2> HIDE DEF stop
  <2> QED OBVIOUS
<1> HIDE DEF stop, best
<1> QED BY <1>1, <1>6, <1>7

-----------------------------------------------------------------------------
(* A valid history, message by message.                                    *)

AnsweredAt(ms, i, k) ==
    i + k \in 1..Len(ms) /\ ms[i + k].kind = "tool" /\ ms[i + k].id = ms[i].calls[k]
CallsAnswered(ms) == \A i \in 1..Len(ms) : \A k \in 1..Len(ms[i].calls) : AnsweredAt(ms, i, k)
CalledFor(ms, j) ==
    \E i \in 1..Len(ms) : \E k \in 1..Len(ms[i].calls) : i + k = j /\ ms[j].id = ms[i].calls[k]
ResultsCalled(ms) == \A j \in 1..Len(ms) : ms[j].kind = "tool" => CalledFor(ms, j)

LEMMA ValidIff ==
    ASSUME NEW ms
    PROVE  ValidHistory(ms) <=> CallsAnswered(ms) /\ ResultsCalled(ms)
<1> DEFINE expected == UNION {Group(ms, i) : i \in 1..Len(ms)}
           results == {<<i, ms[i].id>> : i \in {j \in 1..Len(ms) : ms[j].kind = "tool"}}
<1>1. ValidHistory(ms) <=> expected \subseteq results /\ results \subseteq expected
  <2>1. ValidHistory(ms) <=> expected = results
    BY DEF ValidHistory
  <2> HIDE DEF expected, results
  <2> QED BY <2>1
<1>2. expected \subseteq results <=>
        \A i \in 1..Len(ms) : \A k \in 1..Len(ms[i].calls) : <<i + k, ms[i].calls[k]>> \in results
  <2> HIDE DEF results
  <2> QED BY SMTT(30) DEF Group
<1>3. \A i \in 1..Len(ms) : \A k \in 1..Len(ms[i].calls) :
         <<i + k, ms[i].calls[k]>> \in results <=> AnsweredAt(ms, i, k)
  BY DEF AnsweredAt
<1>4. results \subseteq expected <=>
        \A j \in 1..Len(ms) : ms[j].kind = "tool" => <<j, ms[j].id>> \in expected
  <2> HIDE DEF expected
  <2> QED OBVIOUS
<1>5. \A j \in 1..Len(ms) : <<j, ms[j].id>> \in expected <=> CalledFor(ms, j)
  <2>1. ASSUME NEW e PROVE e \in expected <=> \E i \in 1..Len(ms) : e \in Group(ms, i)
    OBVIOUS
  <2> HIDE DEF expected, results
  <2>2. ASSUME NEW j, NEW i
        PROVE  <<j, ms[j].id>> \in Group(ms, i) <=>
                 \E k \in 1..Len(ms[i].calls) : i + k = j /\ ms[j].id = ms[i].calls[k]
    BY DEF Group
  <2> QED BY <2>1, <2>2 DEF CalledFor
<1> HIDE DEF expected, results
<1>6. expected \subseteq results <=> CallsAnswered(ms)
  BY <1>2, <1>3 DEF CallsAnswered
<1>7. results \subseteq expected <=> ResultsCalled(ms)
  BY <1>4, <1>5 DEF ResultsCalled
<1> QED BY <1>1, <1>6, <1>7

Histories(ids) == Seq(WellFormed(ids))

LEMMA HistoryFacts ==
    ASSUME NEW ids, NEW ms \in Histories(ids)
    PROVE  /\ Len(ms) \in Nat
           /\ \A i \in 1..Len(ms) :
                /\ ms[i] \in WellFormed(ids) /\ ms[i].kind \in Kinds
                /\ Len(ms[i].calls) \in Nat
                /\ ms[i].kind # "assistant" => Len(ms[i].calls) = 0
                /\ \A k, l \in 1..Len(ms[i].calls) : ms[i].calls[k] = ms[i].calls[l] => k = l
<1>1. Len(ms) \in Nat /\ \A i \in 1..Len(ms) : ms[i] \in WellFormed(ids)
  BY DEF Histories
<1>2. ASSUME NEW m \in WellFormed(ids)
      PROVE  /\ m.kind \in Kinds /\ Len(m.calls) \in Nat /\ (m.kind # "assistant" => Len(m.calls) = 0)
             /\ \A k, l \in 1..Len(m.calls) : m.calls[k] = m.calls[l] => k = l
  BY DEF WellFormed
<1> QED BY <1>1, <1>2

(* No tool exchange reaches beyond position s. *)
NoCut(ms, s) == \A i \in 1..Len(ms) : i <= s => i + Len(ms[i].calls) <= s

(* If nothing is left unanswered between start and s, no exchange that     *)
(* begins there goes on behind s: the results that are there come in the   *)
(* order of the calls, so the last call would still be unanswered.         *)
LEMMA NothingUnanswered ==
    ASSUME NEW ids, NEW ms \in Histories(ids), ValidHistory(ms),
           NEW start \in 0..Len(ms), NEW s \in start..Len(ms), NoCut(ms, start),
           ~HasStraddlingPair(ms, start, s)
    PROVE  NoCut(ms, s)
<1>1. CallsAnswered(ms)
  BY ValidIff
<1>2. Len(ms) \in Nat /\ start \in Nat /\ s \in Nat
  BY HistoryFacts
<1> SUFFICES ASSUME NEW i \in 1..Len(ms), i <= s, ~(i + Len(ms[i].calls) <= s) PROVE FALSE
  BY DEF NoCut
<1> DEFINE n == Len(ms[i].calls)
           id == ms[i].calls[n]
<1>3. n \in Nat /\ n > 0 /\ n \in 1..n /\ i + n > s
  BY <1>2, HistoryFacts
<1>4. ms[i].kind = "assistant"
  BY <1>3, HistoryFacts
<1>5. i \in (start + 1)..s
  <2>1. ~(i <= start)
    BY <1>2, <1>3 DEF NoCut
  <2> QED BY <1>2, <2>1
<1>6. Asks(ms, i, id)
  BY <1>3, <1>4 DEF Asks, ToSet
<1>7. ASSUME NEW j \in (i + 1)..s PROVE ~Responds(ms, j, id)
  <2>1. j - i \in 1..n /\ i + (j - i) = j /\ j - i # n
    BY <1>2, <1>3
  <2>2. ms[j].id = ms[i].calls[j - i]
    BY <1>1, <2>1 DEF CallsAnswered, AnsweredAt
  <2>3. ms[i].calls[j - i] # id
    BY SMTT(30), <1>3, <2>1, HistoryFacts
  <2> QED BY <2>2, <2>3 DEF Responds
<1>8. id \in OpenAt(ms, start, s)
  BY <1>5, <1>6, <1>7, OpenIff
<1>9. Unanswered(ms, start)[s] = OpenAt(ms, start, s)
  BY <1>2, UnansweredIs
<1> QED BY <1>8, <1>9 DEF HasStraddlingPair

LEMMA EverythingAnswered ==
    ASSUME NEW ids, NEW ms \in Histories(ids), ValidHistory(ms),
           NEW start \in 0..Len(ms), NEW s \in start..Len(ms), NoCut(ms, s)
    PROVE  ~HasStraddlingPair(ms, start, s)
<1>1. CallsAnswered(ms)
  BY ValidIff
<1>2. Len(ms) \in Nat /\ start \in Nat /\ s \in Nat
  BY HistoryFacts
<1>3. ASSUME NEW id \in OpenAt(ms, start, s) PROVE FALSE
  <2>1. PICK i \in (start + 1)..s : Asks(ms, i, id) /\ \A j \in (i + 1)..s : ~Responds(ms, j, id)
    BY <1>3, OpenIff
  <2>2. i \in 1..Len(ms) /\ Len(ms[i].calls) \in Nat /\ i <= s
    BY <1>2, <2>1, HistoryFacts
  <2>3. PICK k \in 1..Len(ms[i].calls) : ms[i].calls[k] = id
    BY <2>1, <2>2 DEF Asks, ToSet
  <2>4. i + k \in (i + 1)..s
    BY SMTT(30), <1>2, <2>2, <2>3 DEF NoCut
  <2>5. Responds(ms, i + k, id)
    BY <1>1, <2>2, <2>3 DEF CallsAnswered, AnsweredAt, Responds
  <2> QED BY <2>1, <2>4, <2>5
<1>4. Unanswered(ms, start)[s] = OpenAt(ms, start, s)
  BY <1>2, UnansweredIs
<1> QED BY <1>3, <1>4 DEF HasStraddlingPair

LEMMA RecentFacts ==
    ASSUME NEW ids, NEW ms \in Histories(ids), NEW s \in 0..Len(ms)
    PROVE  /\ Recent(ms, s) \in Histories(ids) /\ Len(Recent(ms, s)) = Len(ms) - s
           /\ \A i \in 1..(Len(ms) - s) : Recent(ms, s)[i] = ms[s + i]
BY DEF Recent, Histories

LEMMA RecentIsValid ==
    ASSUME NEW ids, NEW ms \in Histories(ids), ValidHistory(ms), NEW s \in 0..Len(ms), NoCut(ms, s)
    PROVE  ValidHistory(Recent(ms, s))
<1> DEFINE rs == Recent(ms, s)
<1>1. CallsAnswered(ms) /\ ResultsCalled(ms)
  BY ValidIff
<1>2. /\ Len(ms) \in Nat /\ s \in Nat /\ Len(rs) = Len(ms) - s
      /\ \A i \in 1..Len(rs) : rs[i] = ms[s + i] /\ s + i \in 1..Len(ms)
  <2>1. Len(ms) \in Nat /\ s \in Nat
    BY HistoryFacts
  <2>2. Len(rs) = Len(ms) - s /\ \A i \in 1..(Len(ms) - s) : rs[i] = ms[s + i]
    BY RecentFacts
  <2> HIDE DEF rs
  <2> QED BY <2>1, <2>2
<1> HIDE DEF rs
<1>3. CallsAnswered(rs)
  <2> SUFFICES ASSUME NEW i \in 1..Len(rs), NEW k \in 1..Len(rs[i].calls) PROVE AnsweredAt(rs, i, k)
    BY DEF CallsAnswered
  <2>1. rs[i] = ms[s + i] /\ s + i \in 1..Len(ms)
    BY <1>2
  <2>2. AnsweredAt(ms, s + i, k)
    BY <1>1, <2>1 DEF CallsAnswered
  <2>3. k \in Nat /\ k > 0
    BY <2>1, HistoryFacts
  <2>4. i + k \in 1..Len(rs) /\ s + (i + k) = s + i + k
    BY <1>2, <2>2, <2>3 DEF AnsweredAt
  <2> QED BY <1>2, <2>1, <2>2, <2>4 DEF AnsweredAt
<1>4. ResultsCalled(rs)
  <2> SUFFICES ASSUME NEW j \in 1..Len(rs), rs[j].kind = "tool" PROVE CalledFor(rs, j)
    BY DEF ResultsCalled
  <2>1. rs[j] = ms[s + j] /\ s + j \in 1..Len(ms)
    BY <1>2
  <2>2. CalledFor(ms, s + j)
    BY <1>1, <2>1 DEF ResultsCalled
  <2>3. PICK i \in 1..Len(ms) : \E k \in 1..Len(ms[i].calls) : i + k = s + j /\ ms[s + j].id = ms[i].calls[k]
    BY <2>2 DEF CalledFor
  <2>4. PICK k \in 1..Len(ms[i].calls) : i + k = s + j /\ ms[s + j].id = ms[i].calls[k]
    BY <2>3
  <2>5. Len(ms[i].calls) \in Nat
    BY HistoryFacts
  <2>6. i > s
    BY <1>2, <2>4, <2>5 DEF NoCut
  <2>7. i - s \in 1..Len(rs) /\ s + (i - s) = i /\ (i - s) + k = j
    <3>1. Len(ms) \in Nat /\ s \in Nat /\ Len(rs) = Len(ms) - s
      BY <1>2
    <3>2. k \in Nat /\ i \in Nat /\ j \in Nat /\ i <= Len(ms)
      BY <2>5
    <3> QED BY <2>4, <2>6, <3>1, <3>2
  <2>8. rs[i - s] = ms[i]
    BY <1>2, <2>7
  <2> QED BY <2>1, <2>4, <2>7, <2>8 DEF CalledFor
<1>5. ValidHistory(rs)
  BY <1>3, <1>4, ValidIff
<1> QED BY <1>5 DEF rs

LEMMA ValidTailCutsNothing ==
    ASSUME NEW ids, NEW ms \in Histories(ids), ValidHistory(ms), NEW s \in 0..Len(ms),
           ValidHistory(Recent(ms, s))
    PROVE  NoCut(ms, s)
<1> DEFINE rs == Recent(ms, s)
<1>1. CallsAnswered(ms) /\ ResultsCalled(rs)
  BY ValidIff
<1>2. /\ Len(ms) \in Nat /\ s \in Nat /\ Len(rs) = Len(ms) - s
      /\ \A i \in 1..Len(rs) : rs[i] = ms[s + i] /\ s + i \in 1..Len(ms)
  <2>1. Len(ms) \in Nat /\ s \in Nat
    BY HistoryFacts
  <2>2. Len(rs) = Len(ms) - s /\ \A i \in 1..(Len(ms) - s) : rs[i] = ms[s + i]
    BY RecentFacts
  <2> HIDE DEF rs
  <2> QED BY <2>1, <2>2
<1> HIDE DEF rs
<1> SUFFICES ASSUME NEW i \in 1..Len(ms), i <= s, ~(i + Len(ms[i].calls) <= s) PROVE FALSE
  BY DEF NoCut
<1>3. Len(ms[i].calls) \in Nat
  BY HistoryFacts
<1> DEFINE k == s + 1 - i
<1>4. k \in 1..Len(ms[i].calls) /\ i + k = s + 1
  BY <1>2, <1>3
<1>5. AnsweredAt(ms, i, k)
  BY <1>1, <1>4 DEF CallsAnswered
<1>6. s + 1 \in 1..Len(ms) /\ ms[s + 1].kind = "tool"
  BY <1>4, <1>5 DEF AnsweredAt
<1>7. 1 \in 1..Len(rs) /\ rs[1].kind = "tool"
  BY <1>2, <1>6
<1>8. CalledFor(rs, 1)
  BY <1>1, <1>7 DEF ResultsCalled
<1>9. PICK l \in 1..Len(rs) : \E m \in 1..Len(rs[l].calls) : l + m = 1
  BY <1>8 DEF CalledFor
<1>10. Len(rs[l].calls) \in Nat
  BY <1>2, <1>9, HistoryFacts
<1> QED BY <1>2, <1>9, <1>10

LEMMA AppendedFacts ==
    ASSUME NEW ids, NEW a \in Histories(ids), NEW b \in Histories(ids)
    PROVE  /\ a \o b \in Histories(ids) /\ Len(a \o b) = Len(a) + Len(b)
           /\ \A i \in 1..Len(a) : (a \o b)[i] = a[i]
           /\ \A i \in 1..Len(b) : (a \o b)[Len(a) + i] = b[i]
BY DEF Histories

(* Valid histories one after the other make a valid one.                   *)
LEMMA ValidConcat ==
    ASSUME NEW ids, NEW a \in Histories(ids), NEW b \in Histories(ids),
           ValidHistory(a), ValidHistory(b)
    PROVE  ValidHistory(a \o b)
<1>1. PICK c : c = a \o b
  OBVIOUS
<1>2. /\ c \in Histories(ids) /\ Len(c) = Len(a) + Len(b)
      /\ \A i \in 1..Len(a) : c[i] = a[i]
      /\ \A i \in 1..Len(b) : c[Len(a) + i] = b[i]
  BY <1>1, AppendedFacts
<1>3. Len(a) \in Nat /\ Len(b) \in Nat
  BY HistoryFacts
<1>4. CallsAnswered(a) /\ ResultsCalled(a) /\ CallsAnswered(b) /\ ResultsCalled(b)
  BY ValidIff
<1>5. ASSUME NEW i \in 1..Len(c), NEW k \in 1..Len(c[i].calls) PROVE AnsweredAt(c, i, k)
  <2>1. CASE i <= Len(a)
    <3>1. i \in 1..Len(a) /\ c[i] = a[i]
      BY <1>2, <1>3, <2>1
    <3>2. AnsweredAt(a, i, k)
      BY <1>4, <3>1 DEF CallsAnswered
    <3>3. i + k \in 1..Len(a) /\ i + k \in 1..Len(c)
      BY <1>2, <1>3, <3>2 DEF AnsweredAt
    <3>4. c[i + k] = a[i + k]
      BY <1>2, <3>3
    <3> QED BY <3>1, <3>2, <3>3, <3>4 DEF AnsweredAt
  <2>2. CASE ~(i <= Len(a))
    <3>1. PICK j \in 1..Len(b) : i = Len(a) + j
      <4>1. i - Len(a) \in 1..Len(b) /\ i = Len(a) + (i - Len(a))
        BY <1>2, <1>3, <2>2
      <4> QED BY <4>1
    <3>2. c[i] = b[j]
      BY <1>2, <3>1
    <3>3. AnsweredAt(b, j, k) /\ Len(b[j].calls) \in Nat
      BY <1>4, <3>2, HistoryFacts DEF CallsAnswered
    <3>4. i + k = Len(a) + (j + k) /\ i + k \in 1..Len(c) /\ j + k \in 1..Len(b)
      BY <1>2, <1>3, <3>1, <3>2, <3>3 DEF AnsweredAt
    <3>5. c[i + k] = b[j + k]
      BY <1>2, <3>4
    <3> QED BY <3>2, <3>3, <3>4, <3>5 DEF AnsweredAt
  <2> QED BY <2>1, <2>2
<1>6. ASSUME NEW j \in 1..Len(c), c[j].kind = "tool" PROVE CalledFor(c, j)
  <2>1. CASE j <= Len(a)
    <3>1. j \in 1..Len(a) /\ c[j] = a[j]
      BY <1>2, <1>3, <2>1
    <3>2. CalledFor(a, j)
      BY <1>4, <1>6, <3>1 DEF ResultsCalled
    <3>3. PICK i \in 1..Len(a) : \E k \in 1..Len(a[i].calls) : i + k = j /\ a[j].id = a[i].calls[k]
      BY <3>2 DEF CalledFor
    <3>4. i \in 1..Len(c) /\ c[i] = a[i]
      BY <1>2, <1>3, <3>3
    <3> QED BY <3>1, <3>3, <3>4 DEF CalledFor
  <2>2. CASE ~(j <= Len(a))
    <3>1. PICK l \in 1..Len(b) : j = Len(a) + l
      <4>1. j - Len(a) \in 1..Len(b) /\ j = Len(a) + (j - Len(a))
        BY <1>2, <1>3, <2>2
      <4> QED BY <4>1
    <3>2. c[j] = b[l]
      BY <1>2, <3>1
    <3>3. CalledFor(b, l)
      BY <1>4, <1>6, <3>2 DEF ResultsCalled
    <3>4. PICK i \in 1..Len(b) : \E k \in 1..Len(b[i].calls) : i + k = l /\ b[l].id = b[i].calls[k]
      BY <3>3 DEF CalledFor
    <3>5. PICK k \in 1..Len(b[i].calls) : i + k = l /\ b[l].id = b[i].calls[k]
      BY <3>4
    <3>6. c[Len(a) + i] = b[i] /\ Len(a) + i \in 1..Len(c)
      BY <1>2, <1>3
    <3>7. Len(a) + i + k = j
      <4>1. Len(b[i].calls) \in Nat
        BY HistoryFacts
      <4> QED BY <1>3, <3>1, <3>5, <4>1
    <3> QED BY <3>2, <3>5, <3>6, <3>7 DEF CalledFor
  <2> QED BY <2>1, <2>2
<1>7. CallsAnswered(c) /\ ResultsCalled(c)
  BY <1>5, <1>6 DEF CallsAnswered, ResultsCalled
<1> QED BY <1>1, <1>7, ValidIff

(* A message that neither calls tools nor answers a call, and an exchange. *)
ResultsOf(calls) == [i \in 1..Len(calls) |-> ToolMessage(calls[i])]

LEMMA PlainMessage ==
    ASSUME NEW ids, NEW m \in WellFormed(ids), m.kind # "tool", m.calls = <<>>
    PROVE  <<m>> \in Histories(ids) /\ ValidHistory(<<m>>)
<1>1. Len(m.calls) = 0
  OBVIOUS
<1>2. CallsAnswered(<<m>>) /\ ResultsCalled(<<m>>)
  BY <1>1 DEF CallsAnswered, ResultsCalled
<1> QED BY <1>2, ValidIff DEF Histories

LEMMA WrittenMessage ==
    ASSUME NEW ids, NEW kind \in Kinds \ {"tool"}
    PROVE  <<Message(kind)>> \in Histories(ids) /\ ValidHistory(<<Message(kind)>>)
<1>1. Message(kind) \in WellFormed(ids) /\ Message(kind).kind = kind /\ Message(kind).calls = <<>>
  BY DEF Message, WellFormed
<1> QED BY <1>1, PlainMessage

LEMMA NoMessages == ASSUME NEW ids PROVE <<>> \in Histories(ids) /\ ValidHistory(<<>>)
BY ValidIff DEF Histories, CallsAnswered, ResultsCalled

LEMMA Exchange ==
    ASSUME NEW ids, NEW calls \in Seq(ids),
           \A k, l \in 1..Len(calls) : calls[k] = calls[l] => k = l
    PROVE  /\ <<AssistantMessage(calls)>> \in Histories(ids) /\ ResultsOf(calls) \in Histories(ids)
           /\ ValidHistory(<<AssistantMessage(calls)>> \o ResultsOf(calls))
<1>1. Len(calls) \in Nat /\ \A k \in 1..Len(calls) : calls[k] \in ids
  OBVIOUS
<1>2. AssistantMessage(calls) \in WellFormed(ids)
  BY DEF AssistantMessage, WellFormed, Kinds
<1>3. ASSUME NEW k \in 1..Len(calls) PROVE ToolMessage(calls[k]) \in WellFormed(ids)
  BY <1>1 DEF ToolMessage, WellFormed, Kinds
<1>4. <<AssistantMessage(calls)>> \in Histories(ids)
  BY <1>2 DEF Histories
<1>5. ResultsOf(calls) \in Histories(ids) /\ Len(ResultsOf(calls)) = Len(calls)
  BY <1>1, <1>3 DEF ResultsOf, Histories
<1>6. PICK c : c = <<AssistantMessage(calls)>> \o ResultsOf(calls)
  OBVIOUS
<1>7. /\ Len(c) = Len(calls) + 1 /\ c[1] = AssistantMessage(calls)
      /\ \A k \in 1..Len(calls) : c[1 + k] = ToolMessage(calls[k])
  <2>1. Len(<<AssistantMessage(calls)>>) = 1 /\ <<AssistantMessage(calls)>>[1] = AssistantMessage(calls)
    OBVIOUS
  <2>2. \A k \in 1..Len(calls) : ResultsOf(calls)[k] = ToolMessage(calls[k])
    BY DEF ResultsOf
  <2>3. /\ Len(c) = 1 + Len(calls) /\ c[1] = <<AssistantMessage(calls)>>[1]
        /\ \A k \in 1..Len(calls) : c[1 + k] = ResultsOf(calls)[k]
    BY <1>4, <1>5, <1>6, <2>1, AppendedFacts
  <2> QED BY <1>1, <2>1, <2>2, <2>3
<1>8. \A i \in 1..Len(c) : i = 1 \/ \E k \in 1..Len(calls) : i = 1 + k
  <2>1. \A i \in 1..Len(c) : i # 1 => i - 1 \in 1..Len(calls) /\ i = 1 + (i - 1)
    BY <1>1, <1>7
  <2> QED BY <2>1
<1>9. CallsAnswered(c)
  <2>1. ASSUME NEW i \in 1..Len(c), NEW k \in 1..Len(c[i].calls) PROVE AnsweredAt(c, i, k)
    <3>1. i = 1
      <4>1. ASSUME NEW l \in 1..Len(calls), i = 1 + l PROVE FALSE
        <5>1. c[i] = ToolMessage(calls[l])
          BY <1>7, <4>1
        <5>2. Len(c[i].calls) = 0
          BY <5>1 DEF ToolMessage
        <5> QED BY <5>2
      <4> QED BY <1>8, <4>1
    <3>2. k \in 1..Len(calls) /\ c[1].calls = calls
      BY <1>7, <3>1 DEF AssistantMessage
    <3>3. c[1 + k] = ToolMessage(calls[k]) /\ 1 + k \in 1..Len(c)
      BY <1>1, <1>7, <3>2
    <3>4. c[1 + k].kind = "tool" /\ c[1 + k].id = calls[k]
      BY <3>3 DEF ToolMessage
    <3> QED BY <3>1, <3>2, <3>3, <3>4 DEF AnsweredAt
  <2> QED BY <2>1 DEF CallsAnswered
<1>10. ResultsCalled(c)
  <2>1. ASSUME NEW j \in 1..Len(c), c[j].kind = "tool" PROVE CalledFor(c, j)
    <3>1. j # 1 /\ c[1].calls = calls
      BY <1>7, <2>1 DEF AssistantMessage
    <3>2. PICK k \in 1..Len(calls) : j = 1 + k
      BY <1>8, <3>1
    <3>3. c[j].id = calls[k]
      <4>1. c[j] = ToolMessage(calls[k])
        BY <1>7, <3>2
      <4> QED BY <4>1 DEF ToolMessage
    <3>4. 1 \in 1..Len(c)
      BY <1>1, <1>7
    <3> QED BY <3>1, <3>2, <3>3, <3>4 DEF CalledFor
  <2> QED BY <2>1 DEF ResultsCalled
<1> QED BY <1>4, <1>5, <1>6, <1>9, <1>10, ValidIff

-----------------------------------------------------------------------------
(* Where compact_messages splits.                                          *)

LEMMA SystemCountFacts ==
    ASSUME NEW ids, NEW ms \in Histories(ids)
    PROVE  SystemCount(ms) \in 0..1 /\ SystemCount(ms) \in 0..Len(ms) /\ NoCut(ms, SystemCount(ms))
<1>1. Len(ms) \in Nat /\ \A i \in 1..Len(ms) : i \in Nat
  BY HistoryFacts
<1>2. CASE ms # <<>> /\ Head(ms).kind \in SystemRole
  <2>1. SystemCount(ms) = 1
    BY <1>2 DEF SystemCount
  <2>2. 1 \in 1..Len(ms) /\ ms[1] = Head(ms)
    BY <1>2 DEF Histories
  <2>3. Len(ms[1].calls) = 0
    BY <1>2, <2>2, HistoryFacts DEF SystemRole, Scaffolding
  <2> QED BY <1>1, <2>1, <2>2, <2>3 DEF NoCut
<1>3. CASE ~(ms # <<>> /\ Head(ms).kind \in SystemRole)
  <2>1. SystemCount(ms) = 0
    BY <1>3 DEF SystemCount
  <2> QED BY <1>1, <2>1 DEF NoCut
<1> QED BY <1>2, <1>3

LEMMA SplitFacts ==
    ASSUME NEW ids, NEW ms \in Histories(ids), ValidHistory(ms), NEW keep \in Nat
    PROVE  /\ SplitPoint(ms, keep) # 0 =>
                 /\ SplitPoint(ms, keep) \in (SystemCount(ms) + 1)..(Len(ms) - keep)
                 /\ NoCut(ms, SplitPoint(ms, keep))
           /\ Len(ms) > keep + 2 =>
                 \A s \in (SystemCount(ms) + 1)..(Len(ms) - keep) :
                    NoCut(ms, s) => s <= SplitPoint(ms, keep)
<1>1. PICK start \in 0..1 : start = SystemCount(ms) /\ start \in 0..Len(ms) /\ NoCut(ms, start)
  BY SystemCountFacts
<1>2. PICK L \in Nat : L = Len(ms)
  BY HistoryFacts
<1>3. PICK split : split = SplitPoint(ms, keep)
  OBVIOUS
<1>4. CASE L <= keep + 2
  BY <1>2, <1>4 DEF SplitPoint
<1>5. CASE ~(L <= keep + 2)
  <2>1. L - keep \in 0..L /\ L - keep \in Nat
    BY <1>5
  <2>2. PICK w : w = FindSafeSplit(ms, start, L - keep)
    OBVIOUS
  <2>3. w = WalkBack(ms, start)[L - keep]
    <3>1. L - keep < L \/ L - keep = L
      BY <2>1
    <3> QED BY <1>2, <2>2, <3>1 DEF FindSafeSplit
  <2>4. StopsFirstAt(ms, start, L - keep, w)
    BY <1>2, <2>1, <2>3, WalkBackStops
  <2>5. /\ w \in 0..(L - keep) /\ Stops(ms, start, w)
        /\ \A u \in (w + 1)..(L - keep) : ~Stops(ms, start, u)
    BY <2>4 DEF StopsFirstAt
  <2>6. split = IF w <= start THEN 0 ELSE w
    BY <1>1, <1>2, <1>3, <1>5, <2>2 DEF SplitPoint
  <2>7. ASSUME split # 0 PROVE split \in (start + 1)..(L - keep) /\ NoCut(ms, split)
    <3>1. split = w /\ w > start /\ w \in start..L /\ w \in 0..L
      BY <1>1, <2>1, <2>5, <2>6, <2>7
    <3>2. ~HasStraddlingPair(ms, start, w)
      BY <2>5, <3>1 DEF Stops
    <3>3. NoCut(ms, w)
      BY <1>1, <1>2, <3>1, <3>2, NothingUnanswered
    <3> QED BY <2>5, <3>1, <3>3
  <2>8. ASSUME NEW s \in (start + 1)..(L - keep), NoCut(ms, s) PROVE s <= split
    <3>1. s \in start..L /\ s \in Nat /\ s > start
      BY <2>1
    <3>2. ~HasStraddlingPair(ms, start, s)
      BY <1>1, <1>2, <2>8, <3>1, EverythingAnswered
    <3>3. Stops(ms, start, s)
      BY <3>2 DEF Stops
    <3>4. s <= w
      BY <2>5, <3>1, <3>3
    <3> QED BY <2>5, <2>6, <3>1, <3>4
  <2> QED BY <1>1, <1>2, <1>3, <2>7, <2>8
<1> QED BY <1>4, <1>5

(* What the split leaves of the working context, and of the canonical one. *)
LEMMA RebuiltFacts ==
    ASSUME NEW ids, NEW ms \in Histories(ids), ValidHistory(ms),
           NEW split \in (SystemCount(ms) + 1)..Len(ms), NoCut(ms, split)
    PROVE  /\ Rebuilt(ms, split) \in Histories(ids) /\ ValidHistory(Rebuilt(ms, split))
           /\ Recent(ms, split) \in Histories(ids) /\ ValidHistory(Recent(ms, split))
<1>1. PICK start \in 0..1 : start = SystemCount(ms) /\ start \in 0..Len(ms)
  BY SystemCountFacts
<1>2. split \in 0..Len(ms) /\ Len(ms) \in Nat
  BY <1>1, HistoryFacts
<1>3. Recent(ms, split) \in Histories(ids) /\ ValidHistory(Recent(ms, split))
  BY <1>2, RecentFacts, RecentIsValid
<1>4. SubSeq(ms, 1, start) \in Histories(ids) /\ ValidHistory(SubSeq(ms, 1, start))
  <2>1. CASE start = 0
    <3>1. SubSeq(ms, 1, 0) = <<>>
      BY DEF Histories
    <3> QED BY <2>1, <3>1, NoMessages
  <2>2. CASE start = 1
    <3>1. ms # <<>> /\ Head(ms).kind \in SystemRole
      BY <1>1, <2>2 DEF SystemCount
    <3>2. SubSeq(ms, 1, 1) = <<ms[1]>> /\ ms[1] = Head(ms) /\ ms[1] \in WellFormed(ids)
      <4>1. ms \in Seq(WellFormed(ids)) /\ Len(ms) \in Nat /\ 1 \in 1..Len(ms)
        BY <3>1 DEF Histories
      <4>2. ms[1] = Head(ms) /\ ms[1] \in WellFormed(ids)
        BY <3>1, <4>1
      <4>3. PICK t : t = SubSeq(ms, 1, 1)
        OBVIOUS
      <4>4. t \in Seq(WellFormed(ids)) /\ Len(t) = 1 /\ t[1] = ms[1]
        BY <4>1, <4>3
      <4>5. t = <<t[1]>>
        BY <4>4
      <4> QED BY <4>2, <4>3, <4>4, <4>5
    <3>3. ms[1].kind # "tool" /\ ms[1].calls = <<>>
      BY <3>1, <3>2 DEF SystemRole, Scaffolding, WellFormed
    <3> QED BY <2>2, <3>2, <3>3, PlainMessage
  <2> QED BY <2>1, <2>2
<1>5. <<Message("summary")>> \in Histories(ids) /\ ValidHistory(<<Message("summary")>>)
  BY WrittenMessage DEF Kinds, SystemRole, Scaffolding
<1>6. /\ SubSeq(ms, 1, start) \o <<Message("summary")>> \in Histories(ids)
      /\ ValidHistory(SubSeq(ms, 1, start) \o <<Message("summary")>>)
  BY <1>4, <1>5, ValidConcat, AppendedFacts
<1>7. /\ SubSeq(ms, 1, start) \o <<Message("summary")>> \o Recent(ms, split) \in Histories(ids)
      /\ ValidHistory(SubSeq(ms, 1, start) \o <<Message("summary")>> \o Recent(ms, split))
  BY <1>3, <1>6, ValidConcat, AppendedFacts
<1> QED BY <1>1, <1>3, <1>7 DEF Rebuilt

(* Any history the extensions build is valid and of well-formed messages.  *)
HistoryOK == history \in Histories(Ids) /\ ValidHistory(history)

LEMMA ExtensionFacts ==
    ASSUME NEW e \in Extensions
    PROVE  e \in Histories(Ids) /\ ValidHistory(e)
<1>1. CASE e \in {<<Message(k)>> : k \in {"user", "nudge"}}
  <2>1. {"user", "nudge"} \subseteq Kinds \ {"assistant", "tool"}
    BY DEF Kinds, SystemRole, Scaffolding
  <2> QED BY <1>1, <2>1, WrittenMessage
<1>2. ASSUME NEW cs, cs \in Seq(Ids), \A k, l \in 1..Len(cs) : cs[k] = cs[l] => k = l,
             e = <<AssistantMessage(cs)>> \o [i \in 1..Len(cs) |-> ToolMessage(cs[i])]
      PROVE  e \in Histories(Ids) /\ ValidHistory(e)
  <2>1. e = <<AssistantMessage(cs)>> \o ResultsOf(cs)
    BY <1>2 DEF ResultsOf
  <2>2. /\ <<AssistantMessage(cs)>> \in Histories(Ids) /\ ResultsOf(cs) \in Histories(Ids)
        /\ ValidHistory(<<AssistantMessage(cs)>> \o ResultsOf(cs))
    BY <1>2, Exchange
  <2> QED BY <2>1, <2>2, AppendedFacts
<1>3. ASSUME NEW cs \in {<<>>} \cup {<<a>> : a \in Ids}
                       \cup {<<p[1], p[2]>> : p \in {q \in Ids \X Ids : q[1] # q[2]}}
      PROVE  cs \in Seq(Ids) /\ \A k, l \in 1..Len(cs) : cs[k] = cs[l] => k = l
  <2>1. CASE cs = <<>>
    BY <2>1
  <2>2. CASE \E a \in Ids : cs = <<a>>
    BY <2>2
  <2>3. CASE \E a, b \in Ids : a # b /\ cs = <<a, b>>
    BY <2>3
  <2> QED BY <2>1, <2>2, <2>3
<1> QED BY <1>1, <1>2, <1>3 DEF Extensions

LEMMA HistoriesAreValid == HistorySpec => []HistoryOK
<1>1. HistoryInit => HistoryOK
  <2>1. "system" \in Kinds \ {"assistant", "tool"}
    BY DEF Kinds, SystemRole
  <2> QED BY <2>1, WrittenMessage, NoMessages DEF HistoryInit, HistoryOK
<1>2. HistoryOK /\ [HistoryNext]_history => HistoryOK'
  <2> SUFFICES ASSUME HistoryOK, HistoryNext PROVE HistoryOK'
    BY DEF HistoryOK
  <2>1. PICK e \in Extensions : history' = history \o e
    BY DEF HistoryNext
  <2> QED BY <2>1, ExtensionFacts, ValidConcat, AppendedFacts DEF HistoryOK
<1> QED BY <1>1, <1>2, PTL DEF HistorySpec

(* Compaction splits a history, also one whose call ids repeat, where no   *)
(* tool exchange is cut, and nowhere later would do: the working context   *)
(* and what the operator is told to persist are histories a provider       *)
(* accepts (compaction.rs 36-198).                                         *)
THEOREM SplitsAreBest == HistorySpec => []SplitIsBest
<1>1. HistoryOK => SplitIsBest
  <2> SUFFICES ASSUME HistoryOK, NEW keep \in Keeps
               PROVE  LET split == SplitPoint(history, keep)
                          start == SystemCount(history)
                      IN  /\ split # 0 => /\ ValidHistory(Rebuilt(history, split))
                                          /\ ValidHistory(Recent(history, split))
                          /\ Len(history) > keep + 2 =>
                                \A s \in (start + 1)..(Len(history) - keep) :
                                    ValidHistory(Recent(history, s)) => s <= split
    BY DEF SplitIsBest, CompactedIsValid, CompactsAsMuchAsPossible
  <2>1. keep \in Nat
    BY HistoryAssumption DEF Keeps
  <2>2. history \in Histories(Ids) /\ ValidHistory(history)
    BY DEF HistoryOK
  <2>3. PICK split : split = SplitPoint(history, keep)
    OBVIOUS
  <2>4. PICK start \in 0..1 : start = SystemCount(history)
    BY <2>2, SystemCountFacts
  <2>5. Len(history) \in Nat
    BY <2>2, HistoryFacts
  <2>6. ASSUME split # 0
        PROVE  ValidHistory(Rebuilt(history, split)) /\ ValidHistory(Recent(history, split))
    <3>1. split \in (start + 1)..(Len(history) - keep) /\ NoCut(history, split)
      BY <2>1, <2>2, <2>3, <2>4, <2>6, SplitFacts
    <3>2. split \in (SystemCount(history) + 1)..Len(history)
      BY <2>1, <2>4, <2>5, <3>1
    <3> QED BY <2>2, <3>1, <3>2, RebuiltFacts
  <2>7. ASSUME Len(history) > keep + 2, NEW s \in (start + 1)..(Len(history) - keep),
               ValidHistory(Recent(history, s))
        PROVE  s <= split
    <3>1. s \in 0..Len(history)
      BY <2>1, <2>5
    <3>2. NoCut(history, s)
      BY <2>2, <2>7, <3>1, ValidTailCutsNothing
    <3> QED BY <2>1, <2>2, <2>3, <2>4, <2>7, <3>2, SplitFacts
  <2> QED BY <2>3, <2>4, <2>6, <2>7
<1> QED BY <1>1, HistoriesAreValid, PTL
=============================================================================
