----------------------------- MODULE TextProofs -----------------------------
(***************************************************************************)
(* Theorems about what is read from text: the content of messages as it is *)
(* cut and joined, streamed responses as their chunks come in, and         *)
(* configuration values.  What a recursive function computes is shown by   *)
(* its least counterexample, as in CompactionProofs.                       *)
(***************************************************************************)
EXTENDS Content, StreamParser, ConfigReference, CompactionProofs, SequenceTheorems

-----------------------------------------------------------------------------
(* Content: the bytes of the characters up to a position. *)

(* Where characters come from, and those that are no media. *)
Pieces == {"text", "placeholder", "newline", "answer"}
PlainPieces == {"text", "placeholder", "newline"}
Char == [width : 1..4, of : Pieces]
PlainChar == [width : 1..4, of : PlainPieces]

LEMMA CharAt ==
    ASSUME NEW c \in Seq(Char), NEW k \in 1..Len(c)
    PROVE  c[k] \in Char /\ c[k].width \in 1..4 /\ c[k].of \in Pieces
<1>1. c[k] \in Char
  OBVIOUS
<1> QED BY <1>1 DEF Char

LEMMA BytesIs ==
    ASSUME NEW c \in Seq(Char)
    PROVE  /\ BytesUpTo(c) \in [0..Len(c) -> Nat]
           /\ Bytes(c, 0) = 0
           /\ \A k \in 1..Len(c) : Bytes(c, k) = Bytes(c, k - 1) + c[k].width
<1> DEFINE f == BytesUpTo(c)
           n == Len(c)
           Grows(g) == g = [k \in 0..n |-> IF k = 0 THEN 0 ELSE g[k - 1] + c[k].width]
           step == [k \in 0..n |-> [s \in Nat |-> IF k = 0 THEN s ELSE s + c[k].width]]
<1>0. n \in Nat
  OBVIOUS
<1>1. \A k \in 1..n : c[k].width \in 1..4
  BY CharAt
<1>2. PICK g \in [0..n -> Nat] : g[0] = 0 /\ \A k \in 0..n : k # 0 => g[k] = step[k][g[k - 1]]
  <2>1. step \in [0..n -> [Nat -> Nat]]
    BY <1>0, <1>1
  <2>2. 0 \in Nat /\ 0 <= n
    BY <1>0
  <2> HIDE DEF step, n
  <2>3. HasRecursion(0, n, Nat, 0, step)
    BY <1>0, <2>1, <2>2, RecursionExists
  <2> QED BY <2>3 DEF HasRecursion
<1>3. Grows(g)
  <2>1. ASSUME NEW k \in 1..n PROVE g[k] = g[k - 1] + c[k].width
    <3>1. k - 1 \in 0..n /\ g[k - 1] \in Nat /\ k \in 0..n /\ k # 0
      BY <1>0
    <3>2. step[k][g[k - 1]] = g[k - 1] + c[k].width
      BY <3>1
    <3> QED BY <1>2, <3>1, <3>2
  <2> QED BY <1>2, <2>1
<1>4. Grows(f)
  BY <1>3 DEF BytesUpTo
<1> HIDE DEF f, n
<1>5. f[0] = 0 /\ \A k \in 1..n : f[k] = f[k - 1] + c[k].width
  BY <1>0, <1>4
<1> DEFINE T == {k \in 0..n : f[k] \notin Nat}
<1>6. T = {}
  <2> SUFFICES ASSUME T # {} PROVE FALSE
    OBVIOUS
  <2>1. PICK k \in T : \A m \in T : k <= m
    <3>1. T \in SUBSET Nat
      BY <1>0
    <3> HIDE DEF T
    <3> QED BY <3>1, LeastNat
  <2>2. k \in 0..n /\ f[k] \notin Nat
    BY <2>1
  <2>3. k \in 1..n /\ k - 1 \in 0..n
    BY <1>0, <1>5, <2>2
  <2>4. k - 1 \notin T
    BY <2>1, <2>3
  <2>5. f[k - 1] \in Nat
    BY <2>3, <2>4
  <2>6. f[k] = f[k - 1] + c[k].width /\ c[k].width \in 1..4
    BY <1>1, <1>5, <2>3
  <2> QED BY SMTT(30), <2>2, <2>5, <2>6
<1>7. f \in [0..n -> Nat]
  BY <1>4, <1>6
<1> QED BY <1>5, <1>7 DEF Bytes, f, n

(* More characters are more bytes. *)
LEMMA BytesGrow ==
    ASSUME NEW c \in Seq(Char), NEW i \in 0..Len(c), NEW j \in 0..Len(c), i < j
    PROVE  Bytes(c, i) < Bytes(c, j)
<1> DEFINE T == {k \in (i + 1)..Len(c) : ~(Bytes(c, i) < Bytes(c, k))}
<1>0. /\ Len(c) \in Nat /\ i \in Nat
      /\ \A k \in 0..Len(c) : Bytes(c, k) \in Nat
      /\ \A k \in 1..Len(c) : Bytes(c, k) = Bytes(c, k - 1) + c[k].width /\ c[k].width \in 1..4
  <2>1. \A k \in 0..Len(c) : Bytes(c, k) \in Nat
    BY BytesIs DEF Bytes
  <2> QED BY <2>1, BytesIs, CharAt
<1>1. T = {}
  <2> SUFFICES ASSUME T # {} PROVE FALSE
    OBVIOUS
  <2>1. PICK k \in T : \A m \in T : k <= m
    <3>1. T \in SUBSET Nat
      BY <1>0
    <3> HIDE DEF T
    <3> QED BY <3>1, LeastNat
  <2>2. k \in (i + 1)..Len(c) /\ ~(Bytes(c, i) < Bytes(c, k))
    BY <2>1
  <2>0. k - 1 \notin T
    <3> HIDE DEF T
    <3> QED BY <1>0, <2>1, <2>2
  <2>5. k \in 1..Len(c) /\ Bytes(c, k) = Bytes(c, k - 1) + c[k].width /\ c[k].width \in 1..4
    BY <1>0, <2>2
  <2>6. Bytes(c, i) \in Nat /\ Bytes(c, k - 1) \in Nat
    BY SMTT(30), <1>0, <2>2
  <2>3. CASE k = i + 1
    <3>1. k - 1 = i
      BY <1>0, <2>3
    <3> QED BY <2>2, <2>5, <2>6, <3>1
  <2>4. CASE k # i + 1
    <3>1. k - 1 \in (i + 1)..Len(c) /\ k - 1 \in 0..Len(c) /\ k \in 1..Len(c)
      BY <1>0, <2>2, <2>4
    <3>2. Bytes(c, i) < Bytes(c, k - 1)
      BY <3>1, <2>0
    <3> QED BY <2>2, <2>5, <2>6, <3>2
  <2> QED BY <2>3, <2>4
<1> QED BY SMTT(30), <1>0, <1>1

(* A prefix has the bytes it had. *)
LEMMA BytesOfPrefix ==
    ASSUME NEW c \in Seq(Char), NEW p \in Seq(Char), Len(p) <= Len(c), \A k \in 1..Len(p) : p[k] = c[k]
    PROVE  \A k \in 0..Len(p) : Bytes(p, k) = Bytes(c, k)
<1> DEFINE T == {k \in 0..Len(p) : Bytes(p, k) # Bytes(c, k)}
<1>0. Len(c) \in Nat /\ Len(p) \in Nat
  OBVIOUS
<1>1. T = {}
  <2> SUFFICES ASSUME T # {} PROVE FALSE
    OBVIOUS
  <2>1. PICK k \in T : \A m \in T : k <= m
    <3>1. T \in SUBSET Nat
      BY <1>0
    <3> HIDE DEF T
    <3> QED BY <3>1, LeastNat
  <2>2. k \in 0..Len(p) /\ Bytes(p, k) # Bytes(c, k)
    BY <2>1
  <2>3. k # 0
    BY <2>2, BytesIs
  <2>4. k \in 1..Len(p) /\ k \in 1..Len(c) /\ k - 1 \in 0..Len(p) /\ k - 1 \notin T
    BY <1>0, <2>1, <2>2, <2>3
  <2>5. Bytes(p, k - 1) = Bytes(c, k - 1)
    BY <2>4
  <2>6. Bytes(p, k) = Bytes(p, k - 1) + p[k].width /\ Bytes(c, k) = Bytes(c, k - 1) + c[k].width
    BY <2>4, BytesIs
  <2> QED BY <2>2, <2>4, <2>5, <2>6
<1> QED BY <1>1

-----------------------------------------------------------------------------
(* Content: where a shortened text ends. *)

LEMMA EmptyIsBoundary ==
    ASSUME NEW c \in Seq(Char)
    PROVE  IsBoundary(c, 0)
<1>1. 0 \in 0..Len(c) /\ Bytes(c, 0) = 0
  BY BytesIs
<1> QED BY <1>1 DEF IsBoundary

(* The last boundary at or before a length. *)
IsLastBoundary(c, b, end) ==
    /\ b \in 0..end /\ IsBoundary(c, b)
    /\ \A e \in (b + 1)..end : ~IsBoundary(c, e)

LEMMA WalkIs ==
    ASSUME NEW c \in Seq(Char), NEW max \in Nat
    PROVE  IsLastBoundary(c, WalkToBoundary(c, max)[max], max)
<1> DEFINE f == WalkToBoundary(c, max)
           step == [e \in 0..max |-> [b \in Nat |-> IF IsBoundary(c, e) THEN e ELSE b]]
           Walks(g) == g = [e \in 0..max |-> IF IsBoundary(c, e) THEN e ELSE g[e - 1]]
<1>1. PICK g \in [0..max -> Nat] : g[0] = 0 /\ \A e \in 0..max : e # 0 => g[e] = step[e][g[e - 1]]
  <2>1. step \in [0..max -> [Nat -> Nat]]
    OBVIOUS
  <2>2. 0 \in Nat /\ 0 <= max
    OBVIOUS
  <2> HIDE DEF step
  <2>3. HasRecursion(0, max, Nat, 0, step)
    BY <2>1, <2>2, RecursionExists
  <2> QED BY <2>3 DEF HasRecursion
<1>2. Walks(g)
  <2>1. ASSUME NEW e \in 0..max PROVE g[e] = IF IsBoundary(c, e) THEN e ELSE g[e - 1]
    <3>1. CASE e = 0
      BY <1>1, <3>1, EmptyIsBoundary
    <3>2. CASE e # 0
      <4>1. g[e - 1] \in Nat
        BY <3>2
      <4>2. step[e][g[e - 1]] = IF IsBoundary(c, e) THEN e ELSE g[e - 1]
        BY <4>1
      <4> HIDE DEF step
      <4> QED BY <1>1, <3>2, <4>2
    <3> QED BY <3>1, <3>2
  <2> HIDE DEF step
  <2> QED BY <2>1
<1>3. Walks(f)
  BY <1>2 DEF WalkToBoundary
<1> HIDE DEF f, step
<1>4. \A e \in 0..max : f[e] = IF IsBoundary(c, e) THEN e ELSE f[e - 1]
  BY <1>3
<1> DEFINE T == {e \in 0..max : ~IsLastBoundary(c, f[e], e)}
<1>5. T = {}
  <2> SUFFICES ASSUME T # {} PROVE FALSE
    OBVIOUS
  <2>1. PICK e \in T : \A d \in T : e <= d
    <3>1. T \in SUBSET Nat
      OBVIOUS
    <3> HIDE DEF T
    <3> QED BY <3>1, LeastNat
  <2>2. e \in 0..max /\ ~IsLastBoundary(c, f[e], e)
    BY <2>1
  <2>3. CASE IsBoundary(c, e)
    BY <1>4, <2>2, <2>3 DEF IsLastBoundary
  <2>4. CASE ~IsBoundary(c, e)
    <3>1. e # 0 /\ f[e] = f[e - 1] /\ e - 1 \in 0..max
      BY <1>4, <2>2, <2>4, EmptyIsBoundary
    <3>2. e - 1 \notin T
      <4> HIDE DEF T
      <4> QED BY <2>1, <2>2
    <3>3. IsLastBoundary(c, f[e], e - 1)
      BY <3>1, <3>2
    <3>4. \A d \in (f[e] + 1)..e : d = e \/ d \in (f[e] + 1)..(e - 1)
      BY <2>2, <3>3 DEF IsLastBoundary
    <3> QED BY <2>2, <2>4, <3>1, <3>3, <3>4 DEF IsLastBoundary
  <2> QED BY <2>3, <2>4
<1> QED BY <1>5 DEF f

LEMMA TruncateIs ==
    ASSUME NEW c \in Seq(Char), NEW max \in Nat
    PROVE  \E k \in 0..Len(c) :
             /\ TruncateStr(c, max) = SubSeq(c, 1, k)
             /\ Bytes(c, k) <= max
             /\ k < Len(c) => Bytes(c, k + 1) > max
<1>0. Len(c) \in Nat /\ \A k \in 0..Len(c) : Bytes(c, k) \in Nat
  BY BytesIs DEF Bytes
<1>1. CASE Bytes(c, Len(c)) <= max
  <2>1. SubSeq(c, 1, Len(c)) = c
    OBVIOUS
  <2>2. TruncateStr(c, max) = c
    BY <1>1 DEF TruncateStr
  <2>3. Len(c) \in 0..Len(c) /\ ~(Len(c) < Len(c))
    BY <1>0
  <2> QED BY <1>1, <2>1, <2>2, <2>3
<1>2. CASE ~(Bytes(c, Len(c)) <= max)
  <2> DEFINE w == WalkToBoundary(c, max)[max]
             k == CHOOSE n \in 0..Len(c) : Bytes(c, n) = w
  <2>1. IsLastBoundary(c, w, max)
    BY WalkIs
  <2>2. TruncateStr(c, max) = SubSeq(c, 1, k)
    BY <1>2 DEF TruncateStr
  <2> HIDE DEF w
  <2>3. k \in 0..Len(c) /\ Bytes(c, k) = w
    BY <2>1 DEF IsLastBoundary, IsBoundary
  <2> HIDE DEF k
  <2>4. w \in Nat /\ w <= max
    BY <2>1 DEF IsLastBoundary
  <2>5. k < Len(c) => Bytes(c, k + 1) > max
    <3> SUFFICES ASSUME k < Len(c) PROVE Bytes(c, k + 1) > max
      OBVIOUS
    <3>1. k \in Nat /\ k + 1 \in 0..Len(c)
      BY <1>0, <2>3
    <3>2. Bytes(c, k) < Bytes(c, k + 1)
      BY <2>3, <3>1, BytesGrow
    <3>3. IsBoundary(c, Bytes(c, k + 1))
      BY <3>1 DEF IsBoundary
    <3>4. Bytes(c, k + 1) \in Nat
      BY <1>0, <3>1
    <3>5. Bytes(c, k + 1) \notin (w + 1)..max
      BY <2>1, <3>3 DEF IsLastBoundary
    <3> QED BY <2>3, <2>4, <3>2, <3>4, <3>5
  <2> QED BY <2>2, <2>3, <2>4, <2>5
<1> QED BY <1>1, <1>2

-----------------------------------------------------------------------------
(* Content: the text of a message. *)

Roles == {"system", "user", "assistant", "tool"}
BlockTypes == {"text", "image_url", "image", "input_audio", "video", "unknown"}
BlockUrls == {"file readable", "file missing", "file of no known type", "bare file", "http", "data", "none"}
BlockSet == [type : BlockTypes, ok : BOOLEAN, url : BlockUrls]
MessageSet == [role : Roles, text : Seq(1..4), of : TextKinds, blocks : Seq(BlockSet)]

LEMMA CharsAre ==
    ASSUME NEW w \in Seq(1..4), NEW of \in Pieces
    PROVE  Chars(w, of) \in Seq(Char)
<1>1. \A i \in 1..Len(w) : [width |-> w[i], of |-> of] \in Char
  BY DEF Char
<1> QED BY <1>1 DEF Chars

LEMMA PlainCharsAre ==
    ASSUME NEW w \in Seq(1..4), NEW of \in PlainPieces
    PROVE  Chars(w, of) \in Seq(PlainChar)
<1>1. \A i \in 1..Len(w) : [width |-> w[i], of |-> of] \in PlainChar
  BY DEF PlainChar
<1> QED BY <1>1 DEF Chars

LEMMA PlainIsText ==
    ASSUME NEW c \in Seq(PlainChar)
    PROVE  c \in Seq(Char)
<1>1. PlainChar \subseteq Char
  BY DEF PlainChar, Char, PlainPieces, Pieces
<1> QED BY <1>1

LEMMA BlockToTextIs ==
    ASSUME NEW block
    PROVE  BlockToText(block) \in Seq(PlainChar)
<1>1. <<2, 1>> \in Seq(1..4) /\ <<1, 1>> \in Seq(1..4) /\ "text" \in PlainPieces /\ "placeholder" \in PlainPieces
  BY DEF PlainPieces
<1>2. Chars(<<2, 1>>, "text") \in Seq(PlainChar)
  BY <1>1, PlainCharsAre
<1>3. Chars(<<1, 1>>, "placeholder") \in Seq(PlainChar)
  BY <1>1, PlainCharsAre
<1> QED BY <1>2, <1>3 DEF BlockToText

LEMMA JoinedIs ==
    ASSUME NEW blocks, Len(blocks) \in Nat, Len(blocks) # 0
    PROVE  Joined(blocks)[Len(blocks)] \in Seq(PlainChar)
<1> DEFINE f == Joined(blocks)
           n == Len(blocks)
           newline == Chars(<<1>>, "newline")
           step == [k \in 1..n |-> [out \in Seq(PlainChar) |-> out \o newline \o BlockToText(blocks[k])]]
           Joins(g) == g = [k \in 1..n |-> IF k = 1 THEN BlockToText(blocks[1])
                                            ELSE g[k - 1] \o newline \o BlockToText(blocks[k])]
<1>0. n \in Nat /\ 1 <= n /\ 1 \in Nat
  OBVIOUS
<1>1. newline \in Seq(PlainChar)
  <2>1. <<1>> \in Seq(1..4) /\ "newline" \in PlainPieces
    BY DEF PlainPieces
  <2> QED BY <2>1, PlainCharsAre
<1> HIDE DEF newline, n
<1>2. ASSUME NEW out \in Seq(PlainChar), NEW k PROVE out \o newline \o BlockToText(blocks[k]) \in Seq(PlainChar)
  <2>1. BlockToText(blocks[k]) \in Seq(PlainChar)
    BY BlockToTextIs
  <2> QED BY <1>1, <2>1
<1>3. PICK g \in [1..n -> Seq(PlainChar)] :
        g[1] = BlockToText(blocks[1]) /\ \A k \in 1..n : k # 1 => g[k] = step[k][g[k - 1]]
  <2>1. step \in [1..n -> [Seq(PlainChar) -> Seq(PlainChar)]]
    BY <1>2
  <2>2. BlockToText(blocks[1]) \in Seq(PlainChar)
    BY BlockToTextIs
  <2> HIDE DEF step
  <2>3. HasRecursion(1, n, Seq(PlainChar), BlockToText(blocks[1]), step)
    BY <1>0, <2>1, <2>2, RecursionExists
  <2> QED BY <2>3 DEF HasRecursion
<1>4. Joins(g)
  <2>1. ASSUME NEW k \in 1..n, k # 1 PROVE g[k] = g[k - 1] \o newline \o BlockToText(blocks[k])
    <3>1. g[k - 1] \in Seq(PlainChar)
      BY <1>0, <2>1
    <3>2. step[k][g[k - 1]] = g[k - 1] \o newline \o BlockToText(blocks[k])
      BY <3>1
    <3> HIDE DEF step
    <3> QED BY <1>3, <2>1, <3>2
  <2> HIDE DEF step
  <2> QED BY <1>3, <2>1
<1>5. Joins(f)
  BY <1>4 DEF Joined, n, newline
<1> HIDE DEF f, step
<1>6. f[1] = BlockToText(blocks[1])
  BY <1>0, <1>5
<1>7. \A k \in 1..n : k # 1 => f[k] = f[k - 1] \o newline \o BlockToText(blocks[k])
  BY <1>5
<1> DEFINE T == {k \in 1..n : f[k] \notin Seq(PlainChar)}
<1>8. T = {}
  <2> SUFFICES ASSUME T # {} PROVE FALSE
    OBVIOUS
  <2>1. PICK k \in T : \A m \in T : k <= m
    <3>1. T \in SUBSET Nat
      BY <1>0
    <3> HIDE DEF T
    <3> QED BY <3>1, LeastNat
  <2>2. k \in 1..n /\ f[k] \notin Seq(PlainChar)
    BY <2>1
  <2>3. k # 1
    BY <1>6, <2>2, BlockToTextIs
  <2>4. k - 1 \in 1..n /\ k - 1 \notin T
    <3>1. k - 1 \in 1..n
      BY <1>0, <2>2, <2>3
    <3> HIDE DEF T
    <3> QED BY <1>0, <2>1, <2>2, <3>1
  <2>5. f[k - 1] \in Seq(PlainChar)
    BY <2>4
  <2> QED BY <1>2, <1>7, <2>2, <2>3, <2>5
<1>9. n \in 1..n
  BY <1>0
<1> QED BY <1>8, <1>9 DEF f, n

LEMMA TextIs ==
    ASSUME NEW m \in MessageSet
    PROVE  /\ ContentToText(m) \in Seq(Char)
           /\ m.of = "text" => ContentToText(m) \in Seq(PlainChar)
<1>1. CASE m.blocks = <<>>
  <2>1. m.text \in Seq(1..4) /\ m.of \in Pieces /\ (m.of = "text" => m.of \in PlainPieces)
    BY DEF MessageSet, TextKinds, Pieces, PlainPieces
  <2> QED BY <1>1, <2>1, CharsAre, PlainCharsAre DEF ContentToText
<1>2. CASE m.blocks # <<>>
  <2>1. Len(m.blocks) \in Nat /\ Len(m.blocks) # 0
    BY <1>2 DEF MessageSet
  <2>2. ContentToText(m) \in Seq(PlainChar)
    BY <1>2, <2>1, JoinedIs DEF ContentToText
  <2> QED BY <2>2, PlainIsText
<1> QED BY <1>1, <1>2

-----------------------------------------------------------------------------
(* Content: what the snapshot shows of well-typed messages. *)

LEMMA TruncateBound ==
    ASSUME NEW m \in MessageSet, m.role # "user"
    PROVE  Truncate[m.role] \in Nat
BY ContentAssumption DEF MessageSet, Roles

LEMMA BodyIs ==
    ASSUME NEW m \in MessageSet
    PROVE  /\ Shown(m).role = m.role /\ Shown(m).body \in Seq(Char)
           /\ m.of = "text" => Shown(m).body \in Seq(PlainChar)
<1> DEFINE c == ContentToText(m)
<1>1. c \in Seq(Char) /\ (m.of = "text" => c \in Seq(PlainChar))
  BY TextIs
<1>2. CASE m.role = "user"
  BY <1>1, <1>2 DEF Shown
<1>3. CASE m.role # "user"
  <2> DEFINE max == Truncate[m.role]
  <2>1. max \in Nat /\ c \in Seq(Char)
    BY <1>1, <1>3, TruncateBound
  <2>4. Shown(m).role = m.role /\ Shown(m).body = TruncateStr(c, max)
    BY <1>3 DEF Shown
  <2> HIDE DEF c, max
  <2>2. PICK k \in 0..Len(c) : TruncateStr(c, max) = SubSeq(c, 1, k)
    BY <2>1, TruncateIs
  <2>3. TruncateStr(c, max) \in Seq(Char)
    BY <2>1, <2>2
  <2>5. c \in Seq(PlainChar) => TruncateStr(c, max) \in Seq(PlainChar)
    BY <2>2
  <2> QED BY <1>1, <2>3, <2>4, <2>5
<1> QED BY <1>2, <1>3

LEMMA CutsAre ==
    ASSUME context \in Seq(MessageSet)
    PROVE  CutsBetweenCharacters
<1> SUFFICES ASSUME NEW i \in 1..Len(context), context[i].role # "user"
             PROVE  LET all  == ContentToText(context[i])
                        body == Shown(context[i]).body
                        max  == Truncate[context[i].role]
                    IN  /\ IsPrefix(body, all) /\ Bytes(body, Len(body)) <= max
                        /\ body # all => Bytes(all, Len(body) + 1) > max
  BY DEF CutsBetweenCharacters
<1> DEFINE all  == ContentToText(context[i])
           body == Shown(context[i]).body
           max  == Truncate[context[i].role]
<1>1. context[i] \in MessageSet
  OBVIOUS
<1>2. all \in Seq(Char) /\ max \in Nat
  BY <1>1, TextIs, TruncateBound
<1>3. body = TruncateStr(all, max)
  BY DEF Shown
<1> HIDE DEF all, body, max
<1>4. PICK k \in 0..Len(all) :
        /\ TruncateStr(all, max) = SubSeq(all, 1, k)
        /\ Bytes(all, k) <= max
        /\ k < Len(all) => Bytes(all, k + 1) > max
  BY <1>2, TruncateIs
<1>5. /\ body = SubSeq(all, 1, k) /\ body \in Seq(Char) /\ Len(body) = k
      /\ \A j \in 1..k : body[j] = all[j]
  BY <1>2, <1>3, <1>4
<1>6. k \in Nat /\ Len(all) \in Nat /\ k <= Len(all)
  BY <1>2, <1>4
<1>7. IsPrefix(body, all)
  <2>1. SubSeq(body, 1, Len(body)) = body
    BY <1>5
  <2> QED BY <1>5, <1>6, <2>1 DEF IsPrefix
<1>8. Bytes(body, Len(body)) <= max
  <2>0. Len(body) <= Len(all) /\ k \in 0..Len(body) /\ \A j \in 1..Len(body) : body[j] = all[j]
    BY <1>5, <1>6
  <2>1. Bytes(body, k) = Bytes(all, k)
    BY <1>2, <1>5, <2>0, BytesOfPrefix
  <2> QED BY <1>4, <1>5, <2>1
<1>9. body # all => Bytes(all, Len(body) + 1) > max
  <2>1. SubSeq(all, 1, Len(all)) = all
    BY <1>2
  <2>2. body # all => k < Len(all)
    BY <1>5, <1>6, <2>1
  <2> QED BY <1>4, <1>5, <2>2
<1> QED BY <1>7, <1>8, <1>9 DEF all, body, max

LEMMA SnapshotAre ==
    ASSUME context \in Seq(MessageSet),
           \A i \in 1..Len(context) : context[i].of = "answer" => context[i].role = "tool"
    PROVE  SnapshotIsWhole /\ NoMediaInSnapshot
<1> DEFINE n == Len(context)
           start == DetailStart(n)
           count == Max({n - start, 0})
           s == Snapshot(context)
<1>1. n \in Nat /\ DetailTail \in Nat
  BY ContentAssumption
<1>2. start = IF n - DetailTail >= 1 THEN n - DetailTail ELSE 1
  BY <1>1, MaxOfTwo DEF DetailStart
<1>3. start \in Nat /\ start >= 1
  BY <1>1, <1>2
<1>4. count = IF n - start >= 0 THEN n - start ELSE 0
  BY <1>1, <1>3, MaxOfTwo
<1>5. Max({start - 1, 0}) = start - 1
  BY <1>3, MaxOfTwo
<1>6. s.skipped = start - 1 /\ s.shown = [i \in 1..count |-> Shown(context[start + i])]
  BY <1>5 DEF Snapshot
<1> HIDE DEF start, count
<1>7. count \in Nat /\ Len(s.shown) = count
  <2>1. count \in Nat
    BY <1>1, <1>3, <1>4
  <2> QED BY <1>6, <2>1
<1>8. \A i \in 1..count : start + i \in 1..n /\ context[start + i] \in MessageSet
  BY <1>1, <1>3, <1>4
<1>9. \A i \in 1..count : s.shown[i].role = context[start + i].role /\ s.shown[i].body \in Seq(Char)
  BY <1>6, <1>8, BodyIs
<1>12. \A i \in 1..count : s.shown[i].body = Shown(context[start + i]).body
  BY <1>6
<1>14. \A i \in 1..count : context[start + i].of = "text" => s.shown[i].body \in Seq(PlainChar)
  BY <1>8, <1>12, BodyIs
<1>13. s.skipped = start - 1
  BY <1>6
<1> HIDE DEF s
<1>10. SnapshotIsWhole
  <2> SUFFICES ASSUME context # <<>>
               PROVE  /\ s.skipped + Len(s.shown) = Len(context) - 1 /\ Len(s.shown) <= DetailTail
                      /\ \A i \in 1..Len(s.shown) : s.shown[i].role = context[1 + s.skipped + i].role
    BY DEF SnapshotIsWhole, s
  <2>1. n > 0
    BY <1>1
  <2>0. s.skipped = start - 1
    BY <1>6
  <2> HIDE DEF n
  <2>2. s.skipped + count = n - 1 /\ count <= DetailTail
    BY <1>1, <1>2, <1>3, <1>4, <2>0, <2>1
  <2>3. \A i \in 1..count : 1 + s.skipped + i = start + i
    BY <1>3, <1>6
  <2> QED BY <1>7, <1>9, <2>2, <2>3 DEF n
<1>11. NoMediaInSnapshot
  <2> SUFFICES ASSUME NEW i \in 1..Len(s.shown), NEW j \in 1..Len(s.shown[i].body)
               PROVE  \/ s.shown[i].body[j].of \in {"text", "placeholder", "newline"}
                      \/ /\ context[1 + s.skipped + i].of = "answer"
                         /\ Bytes(s.shown[i].body, Len(s.shown[i].body)) <= Truncate["tool"]
    BY DEF NoMediaInSnapshot, s
  <2>1. i \in 1..count /\ start + i \in 1..n /\ context[start + i] \in MessageSet
    BY <1>7, <1>8
  <2>2. 1 + s.skipped + i = start + i
    BY <1>3, <1>13, <2>1
  <2>3. CASE context[start + i].of = "text"
    <3>1. s.shown[i].body \in Seq(PlainChar)
      BY <1>14, <2>1, <2>3
    <3>2. s.shown[i].body[j] \in PlainChar
      BY <3>1
    <3> QED BY <3>2 DEF PlainChar, PlainPieces
  <2>4. CASE context[start + i].of = "answer"
    <3>1. context[start + i].role = "tool"
      BY <2>1, <2>4 DEF n
    <3>2. "tool" # "user"
      OBVIOUS
    <3>3. CutsBetweenCharacters
      BY CutsAre
    <3>4. Bytes(Shown(context[start + i]).body, Len(Shown(context[start + i]).body)) <= Truncate["tool"]
      BY <2>1, <3>1, <3>2, <3>3 DEF CutsBetweenCharacters, n
    <3>5. s.shown[i].body = Shown(context[start + i]).body
      BY <1>12, <2>1
    <3> QED BY <2>2, <2>4, <3>4, <3>5
  <2> QED BY <2>1, <2>3, <2>4 DEF MessageSet, TextKinds
<1> QED BY <1>10, <1>11

-----------------------------------------------------------------------------
(* Content: what comes in. *)

(* A message that may be in the context: no image of it is at a file URL,  *)
(* and only a tool's text is the JSON of an answer.                        *)
Sendable ==
    {m \in MessageSet :
        /\ \A j \in 1..Len(m.blocks) :
              m.blocks[j].type = "image_url" => m.blocks[j].url \notin FileUrls
        /\ m.of = "answer" => m.role = "tool"}

ContentInv ==
    /\ context \in Seq(Sendable)
    /\ acp # <<>> => \E a \in Answers : acp = <<a, ExtractAcpToolResult(a)>>

LEMMA TextIsSendable ==
    ASSUME NEW role \in Roles, NEW w \in Texts
    PROVE  /\ Text(role, w) \in Sendable
           /\ TextOf("tool", w, "answer") \in Sendable
<1>1. w \in Seq(1..4)
  BY ContentAssumption
<1> QED BY <1>1 DEF Text, TextOf, TextKinds, Roles, Sendable, MessageSet

LEMMA BlockIs ==
    ASSUME NEW type \in BlockTypes, NEW ok \in BOOLEAN, NEW url \in BlockUrls
    PROVE  [type |-> type, ok |-> ok, url |-> url] \in BlockSet
BY Zenon DEF BlockSet

LEMMA TypedIs ==
    ASSUME NEW json \in BlockSet
    PROVE  Typed(json) \in BlockSet /\ Typed(json).url = json.url
<1>1. CASE json.ok /\ json.type \in KnownTypes
  BY <1>1 DEF Typed
<1>2. CASE ~(json.ok /\ json.type \in KnownTypes)
  <2>1. Typed(json) = [json EXCEPT !.type = "unknown"]
    BY <1>2 DEF Typed
  <2>2. json = [type |-> json.type, ok |-> json.ok, url |-> json.url]
    BY DEF BlockSet, BlockTypes, BlockUrls
  <2>3. Typed(json) = [type |-> "unknown", ok |-> json.ok, url |-> json.url]
    BY <2>1, <2>2
  <2>4. json.ok \in BOOLEAN /\ json.url \in BlockUrls /\ "unknown" \in BlockTypes
    BY DEF BlockSet, BlockTypes
  <2>5. Typed(json) \in BlockSet
    BY <2>3, <2>4, BlockIs, Zenon
  <2>6. Typed(json).url = json.url
    BY <2>3
  <2> QED BY <2>5, <2>6
<1> QED BY <1>1, <1>2

LEMMA JsonIs ==
    ASSUME NEW type \in BlockTypes, NEW url \in BlockUrls
    PROVE  /\ Json(type, TRUE, url) \in BlockSet /\ Json(type, FALSE, url) \in BlockSet
           /\ Json(type, TRUE, url).type = type /\ Json(type, TRUE, url).url = url
BY DEF Json, BlockSet

LEMMA ToolOutputIsSendable ==
    ASSUME NEW output \in {<<"text">>, <<"image">>, <<"text", "image">>}, NEW said \in Texts
    PROVE  ToolOutputToContent(output, said) \in Sendable
<1>1. CASE output = <<"text">>
  <2>1. "tool" \in Roles
    BY DEF Roles
  <2> QED BY <1>1, <2>1, TextIsSendable DEF ToolOutputToContent
<1>2. CASE output # <<"text">>
  <2> DEFINE json(i) == IF output[i] = "image" THEN Json("image_url", TRUE, "data") ELSE Json("text", TRUE, "none")
             jsons == [i \in 1..Len(output) |-> json(i)]
  <2>1. Len(output) \in Nat /\ Len(jsons) = Len(output)
    BY <1>2
  <2>2. \A i \in 1..Len(output) : Typed(jsons[i]) \in BlockSet /\ Typed(jsons[i]).url \notin FileUrls
    <3> SUFFICES ASSUME NEW i \in 1..Len(output)
                 PROVE  Typed(json(i)) \in BlockSet /\ Typed(json(i)).url \notin FileUrls
      OBVIOUS
    <3>1. json(i) \in BlockSet /\ json(i).url \notin FileUrls
      BY ZenonT(30), JsonIs DEF FileUrls, BlockTypes, BlockUrls
    <3> HIDE DEF json
    <3> QED BY <3>1, TypedIs
  <2>3. ToolOutputToContent(output, said) = Blocks("tool", jsons)
    BY <1>2 DEF ToolOutputToContent
  <2> HIDE DEF jsons
  <2> DEFINE blocks == [i \in 1..Len(jsons) |-> Typed(jsons[i])]
  <2>4. blocks \in Seq(BlockSet) /\ \A i \in 1..Len(blocks) : blocks[i].url \notin FileUrls
    BY <2>1, <2>2
  <2> HIDE DEF blocks
  <2>5. [role |-> "tool", text |-> <<>>, of |-> "text", blocks |-> blocks] \in Sendable
    BY <2>4 DEF Sendable, MessageSet, Roles, TextKinds
  <2> QED BY <2>3, <2>5 DEF Blocks, blocks
<1> QED BY <1>1, <1>2

(* Whatever a user sends, resolved. *)
LEMMA ResolvedIsSendable ==
    ASSUME NEW m \in Incoming
    PROVE  Resolve(m) \in Sendable
<1>1. m \in MessageSet
  <2>1. CASE \E w \in Texts : m = Text("user", w)
    <3>1. "user" \in Roles
      BY DEF Roles
    <3> QED BY <2>1, <3>1, TextIsSendable DEF Sendable
  <2>2. CASE \E o \in Others, i \in Images : m = Blocks("user", <<o, i>>)
    <3>1. PICK o \in Others, i \in Images : m = Blocks("user", <<o, i>>)
      BY <2>2
    <3>2. Typed(o) \in BlockSet /\ Typed(i) \in BlockSet
      <4>1. o \in BlockSet
        <5>1. /\ \A u \in {"none", "file readable"} : u \in BlockUrls
              /\ \A t \in {"text", "image", "input_audio", "video"} : t \in BlockTypes
          BY DEF BlockTypes, BlockUrls
        <5>2. ASSUME NEW t \in {"text", "image", "input_audio", "video"}, NEW u \in {"none", "file readable"}
              PROVE  Json(t, TRUE, u) \in BlockSet /\ Json(t, FALSE, u) \in BlockSet
          BY <5>1, JsonIs, Zenon
        <5> QED BY <5>2, Zenon DEF Others
      <4>2. i \in BlockSet
        <5>1. "image_url" \in BlockTypes /\ \A u \in FileUrls \cup {"http", "bare file"} : u \in BlockUrls
          BY DEF FileUrls, BlockTypes, BlockUrls
        <5> QED BY <5>1, JsonIs, Zenon DEF Images
      <4> QED BY <4>1, <4>2, TypedIs
    <3> DEFINE jsons == <<o, i>>
    <3>3. Len(jsons) = 2 /\ \A k \in 1..2 : Typed(jsons[k]) \in BlockSet
      BY <3>2
    <3> HIDE DEF jsons
    <3>4. [k \in 1..Len(jsons) |-> Typed(jsons[k])] \in Seq(BlockSet)
      BY <3>3
    <3>5. m = Blocks("user", jsons)
      BY <3>1 DEF jsons
    <3> QED BY <3>4, <3>5 DEF Blocks, MessageSet, Roles, TextKinds
  <2> QED BY <2>1, <2>2 DEF Incoming
<1>2. ASSUME NEW b \in BlockSet
      PROVE  /\ ResolveBlock(b) \in BlockSet
             /\ ResolveBlock(b).type = "image_url" => ResolveBlock(b).url \notin FileUrls
  <2>1. CASE b.type = "image_url" /\ b.url \in FileUrls
    <3>1. CASE b.url = "file readable"
      <4>1. ResolveBlock(b) = [b EXCEPT !.url = "data"]
        BY <2>1, <3>1 DEF ResolveBlock
      <4>2. b = [type |-> b.type, ok |-> b.ok, url |-> b.url] /\ b.type \in BlockTypes /\ b.ok \in BOOLEAN
        BY DEF BlockSet, BlockTypes, BlockUrls
      <4>3. ResolveBlock(b) = [type |-> b.type, ok |-> b.ok, url |-> "data"]
        BY <4>1, <4>2
      <4>4. "data" \in BlockUrls
        BY DEF BlockUrls
      <4>5. ResolveBlock(b) \in BlockSet
        BY <4>2, <4>3, <4>4, BlockIs, Zenon
      <4>6. ResolveBlock(b).url = "data"
        BY <4>3
      <4> QED BY <4>5, <4>6 DEF FileUrls
    <3>2. CASE b.url # "file readable"
      <4>1. ResolveBlock(b) = Json("text", TRUE, "none")
        BY <2>1, <3>2 DEF ResolveBlock
      <4>2. "text" \in BlockTypes /\ "none" \in BlockUrls /\ "none" \notin FileUrls
        BY DEF FileUrls, BlockTypes, BlockUrls
      <4> QED BY <4>1, <4>2, JsonIs
    <3> QED BY <3>1, <3>2
  <2>2. CASE ~(b.type = "image_url" /\ b.url \in FileUrls)
    BY <2>2 DEF ResolveBlock
  <2> QED BY <2>1, <2>2
<1> DEFINE blocks == [i \in 1..Len(m.blocks) |-> ResolveBlock(m.blocks[i])]
<1>3. m.blocks \in Seq(BlockSet) /\ Len(m.blocks) \in Nat
  BY <1>1 DEF MessageSet
<1>4. /\ blocks \in Seq(BlockSet)
      /\ \A i \in 1..Len(blocks) : blocks[i].type = "image_url" => blocks[i].url \notin FileUrls
  BY <1>2, <1>3
<1>5. Resolve(m) = [role |-> m.role, text |-> m.text, of |-> m.of, blocks |-> blocks]
  <2>1. m = [role |-> m.role, text |-> m.text, of |-> m.of, blocks |-> m.blocks]
    BY <1>1 DEF MessageSet
  <2> QED BY <2>1 DEF Resolve
<1> HIDE DEF blocks
<1>6. m.of = "text"
  <2>1. \A w \in Texts : Text("user", w).of = "text"
    BY DEF Text, TextOf
  <2>2. \A o \in Others, i \in Images : Blocks("user", <<o, i>>).of = "text"
    BY DEF Blocks
  <2>3. (\E w \in Texts : m = Text("user", w)) \/ (\E o \in Others, i \in Images : m = Blocks("user", <<o, i>>))
    BY DEF Incoming
  <2> QED BY <2>1, <2>2, <2>3, Zenon
<1> QED BY <1>1, <1>4, <1>5, <1>6 DEF Sendable, MessageSet, TextKinds

LEMMA ContentInvStep ==
    ASSUME ContentInv, ContentNext
    PROVE  ContentInv'
<1> "system" \in Roles /\ "assistant" \in Roles /\ "tool" \in Roles
  BY DEF Roles
<1>1. ASSUME NEW m \in Incoming, BootContext(m)
      PROVE  ContentInv'
  <2>1. PICK prompt \in Texts : context' = <<Text("system", prompt), Resolve(m)>>
    BY <1>1 DEF BootContext
  <2>2. Text("system", prompt) \in Sendable /\ Resolve(m) \in Sendable
    BY TextIsSendable, ResolvedIsSendable
  <2>3. context' \in Seq(Sendable)
    BY <2>1, <2>2
  <2> QED BY <1>1, <2>3 DEF ContentInv, BootContext
<1>2. ASSUME NEW m \in Sendable, context' = Append(context, m), UNCHANGED acp
      PROVE  ContentInv'
  <2>1. context' \in Seq(Sendable)
    BY <1>2 DEF ContentInv
  <2> QED BY <1>2, <2>1 DEF ContentInv
<1>3. ASSUME NEW m \in Incoming, ReceiveUser(m)
      PROVE  ContentInv'
  BY <1>2, <1>3, ResolvedIsSendable DEF ReceiveUser
<1>4. ASSUME NEW said \in Texts, LlmText(said) \/ Nudge(said)
      PROVE  ContentInv'
  BY <1>2, <1>4, TextIsSendable DEF LlmText, Nudge
<1>5. ASSUME NEW said \in Texts, NEW out \in {<<"text">>, <<"image">>, <<"text", "image">>},
             ToolResult(out, said)
      PROVE  ContentInv'
  BY <1>2, <1>5, ToolOutputIsSendable DEF ToolResult
<1>6. ASSUME NEW said \in Texts, NEW a \in Answers, AcpResult(a, said)
      PROVE  ContentInv'
  <2> DEFINE of == IF ExtractAcpToolResult(a).from = "texts" THEN "text" ELSE "answer"
             m == TextOf("tool", said, of)
  <2>2. m \in Sendable
    BY TextIsSendable DEF Text
  <2> HIDE DEF of
  <2>3. context' = Append(context, m) /\ acp' = <<a, ExtractAcpToolResult(a)>>
    BY <1>6 DEF AcpResult, of
  <2> HIDE DEF m
  <2>4. context' \in Seq(Sendable)
    BY <2>2, <2>3 DEF ContentInv
  <2> QED BY <2>3, <2>4 DEF ContentInv
<1> QED BY <1>1, <1>3, <1>4, <1>5, <1>6 DEF ContentNext

LEMMA ContentInvGives ==
    ASSUME ContentInv
    PROVE  ContentOK
<1>1. context \in Seq(MessageSet)
  BY DEF ContentInv, Sendable
<1>2. NoFileUrlSent
  BY DEF ContentInv, Sendable, NoFileUrlSent
<1>4. \A i \in 1..Len(context) : context[i].of = "answer" => context[i].role = "tool"
  BY DEF ContentInv, Sendable
<1>3. AcpErrorsAreErrors
  <2> SUFFICES ASSUME acp # <<>> PROVE acp[2].error = acp[1].isError
    BY DEF AcpErrorsAreErrors
  <2>1. PICK a \in Answers : acp = <<a, ExtractAcpToolResult(a)>>
    BY DEF ContentInv
  <2>2. ExtractAcpToolResult(a).error = a.isError
    BY DEF ExtractAcpToolResult
  <2>3. acp[1] = a /\ acp[2] = ExtractAcpToolResult(a)
    BY <2>1
  <2> QED BY <2>2, <2>3
<1> QED BY <1>1, <1>2, <1>3, <1>4, SnapshotAre, CutsAre DEF ContentOK

(* What leaves the process holds for every context: no image_url that      *)
(* holds a string "url" reaches the LLM with a file URL, and a failed tool *)
(* is a failed tool; the snapshot is whole, has no block of media in it    *)
(* and is cut between characters, for texts of any length and limits of    *)
(* any size (resolve.rs, agentic_loop.rs 403-469, preview.rs).  The JSON   *)
(* of an operator's answer without a text is shown up to the limit.        *)
THEOREM ContentCorrect == ContentSpec => []ContentOK
<1>1. ContentInit => ContentInv
  BY DEF ContentInit, ContentInv
<1>2. ContentInv /\ [ContentNext]_contentVars => ContentInv'
  <2>1. ASSUME ContentInv, UNCHANGED contentVars PROVE ContentInv'
    BY <2>1 DEF ContentInv, contentVars
  <2> QED BY <2>1, ContentInvStep
<1>3. ContentInv => ContentOK
  BY ContentInvGives
<1> QED BY <1>1, <1>2, <1>3, PTL DEF ContentSpec

-----------------------------------------------------------------------------
(* Streamed responses: what a sequence of lines says, as a relation that a *)
(* further line extends.                                                   *)

IsLatest(m, ks, default) == (ks = {} /\ m = default) \/ (m \in ks /\ \A x \in ks : x <= m)

Partial == [id : Nat, args : Seq(Nat)]

TextSays(text, n, split) ==
    /\ text \in Seq(Nat \X BOOLEAN)
    /\ InOrder([i \in 1..Len(text) |-> text[i][1]], Of("text", n))
    /\ \A i \in 1..Len(text) : text[i][2] <=> text[i][1] \notin split

CallEnds(n) == {lines[k].index + 1 : k \in Of("open", n) \cup Of("args", n)}

CallSays(call, i, n) ==
    /\ IsLatest(call.id, Deltas("open", i - 1, n), 0)
    /\ InOrder(call.args, Deltas("args", i - 1, n))

CallsSay(calls, n) ==
    /\ calls \in Seq(Partial)
    /\ CallEnds(n) \subseteq Nat
    /\ IsLatest(Len(calls), CallEnds(n), 0)
    /\ \A i \in 1..Len(calls) : CallSays(calls[i], i, n)

UsageSays(usage, n) ==
    \/ Of("usage", n) = {} /\ usage = 0
    \/ \E k \in Of("usage", n) :
          /\ \A x \in Of("usage", n) : x <= k
          /\ usage = lines[k].flat + lines[k].nested

FlagsSay(finish, emitted, n) ==
    /\ finish <=> Of("stop", n) # {}
    /\ emitted <=> Of("text", n) \cup Of("open", n) \cup Of("args", n) # {}

Says(r, n, split) ==
    /\ TextSays(r.text, n, split)
    /\ CallsSay(r.calls, n)
    /\ UsageSays(r.usage, n)
    /\ FlagsSay(r.finish, r.emitted, n)

LEMMA SeqIsFunction ==
    ASSUME NEW S, NEW s \in Seq(S)
    PROVE  s = [i \in 1..Len(s) |-> s[i]]
OBVIOUS

LEMMA LatestIs ==
    ASSUME NEW ks \in SUBSET Nat, NEW default, NEW m, IsLatest(m, ks, default)
    PROVE  Latest(ks, default) = m
<1>1. CASE ks = {}
  BY <1>1 DEF IsLatest, Latest
<1>2. CASE ks # {}
  <2>1. m \in ks /\ \A x \in ks : m >= x
    BY <1>2 DEF IsLatest
  <2>2. Max(ks) \in ks /\ \A x \in ks : Max(ks) >= x
    BY <2>1 DEF Max
  <2>3. Max(ks) \in Nat /\ m \in Nat /\ Max(ks) >= m /\ m >= Max(ks)
    BY <2>1, <2>2
  <2>4. Max(ks) = m
    BY <2>3
  <2> QED BY <1>2, <2>4 DEF Latest
<1> QED BY <1>1, <1>2

LEMMA LineIs ==
    ASSUME StreamAssumption, lines \in Bodies
    PROVE  /\ Len(lines) \in Nat
           /\ \A k \in 1..Len(lines) :
                /\ lines[k].index \in Nat /\ lines[k].flat \in Nat /\ lines[k].nested \in Nat
                /\ lines[k].kind = "usage" =>
                     CachedTokens(lines[k].flat, lines[k].nested) = lines[k].flat + lines[k].nested
                /\ lines[k] = Done => k = Len(lines) /\ lines[k].kind = "done"
<1>1. PICK n \in 1..MaxLines : lines \in [1..n -> Plain \cup {Done}]
  BY DEF Bodies
<1>2. n \in Nat /\ Len(lines) = n
  BY <1>1 DEF StreamAssumption
<1>3. \A i \in 1..(Len(lines) - 1) : lines[i] # Done
  BY DEF Bodies
<1>4. ASSUME NEW k \in 1..Len(lines), lines[k] = Done PROVE k = Len(lines) /\ lines[k].kind = "done"
  BY <1>2, <1>3, <1>4 DEF Done, Line
<1>5. ASSUME NEW x \in Plain \cup {Done}
      PROVE  /\ x.index \in Nat /\ x.flat \in Nat /\ x.nested \in Nat
             /\ x.kind = "usage" => x.flat = 0 \/ x.nested = 0
  BY <1>5 DEF StreamAssumption, Plain, Done, Line
<1>6. ASSUME NEW a \in Nat, NEW b \in Nat, a = 0 \/ b = 0 PROVE CachedTokens(a, b) = a + b
  BY <1>6, MaxOfTwo DEF CachedTokens
<1>7. \A k \in 1..Len(lines) : lines[k] \in Plain \cup {Done}
  BY <1>1, <1>2
<1>8. ASSUME NEW k \in 1..Len(lines)
      PROVE  /\ lines[k].index \in Nat /\ lines[k].flat \in Nat /\ lines[k].nested \in Nat
             /\ lines[k].kind = "usage" =>
                  CachedTokens(lines[k].flat, lines[k].nested) = lines[k].flat + lines[k].nested
  BY <1>5, <1>6, <1>7
<1> QED BY <1>2, <1>4, <1>8

LEMMA OfStep ==
    ASSUME NEW kind, NEW n \in Nat
    PROVE  Of(kind, n + 1) = IF lines[n + 1].kind = kind THEN Of(kind, n) \cup {n + 1} ELSE Of(kind, n)
<1>1. 1..(n + 1) = (1..n) \cup {n + 1}
  OBVIOUS
<1> QED BY <1>1 DEF Of

LEMMA DeltasStep ==
    ASSUME NEW kind, NEW n \in Nat, NEW index
    PROVE  Deltas(kind, index, n + 1) =
             IF lines[n + 1].kind = kind /\ lines[n + 1].index = index
             THEN Deltas(kind, index, n) \cup {n + 1} ELSE Deltas(kind, index, n)
BY OfStep DEF Deltas

LEMMA OfBelow ==
    ASSUME NEW kind, NEW n \in Nat, NEW index
    PROVE  Of(kind, n) \subseteq 1..n /\ Deltas(kind, index, n) \subseteq 1..n
BY DEF Of, Deltas

LEMMA InOrderAppend ==
    ASSUME NEW s \in Seq(Nat), NEW n \in Nat, NEW ks \in SUBSET (1..n), InOrder(s, ks)
    PROVE  InOrder(Append(s, n + 1), ks \cup {n + 1})
<1>1. PICK t : t = Append(s, n + 1)
  OBVIOUS
<1>2. Len(t) = Len(s) + 1 /\ Len(s) \in Nat /\ t[Len(s) + 1] = n + 1 /\ \A i \in 1..Len(s) : t[i] = s[i]
  BY <1>1
<1>3. \A i \in 1..Len(s) : s[i] \in ks
  BY DEF InOrder
<1>4. 1..Len(t) = (1..Len(s)) \cup {Len(s) + 1}
  BY <1>2
<1>5. {t[i] : i \in 1..Len(t)} = ks \cup {n + 1}
  <2>1. {s[i] : i \in 1..Len(s)} = ks
    BY DEF InOrder
  <2> QED BY ZenonT(30), <1>2, <1>4, <2>1
<1>6. ASSUME NEW i \in 1..Len(t), NEW j \in 1..Len(t), i < j PROVE t[i] < t[j]
  <2>1. i \in 1..Len(s) /\ t[i] = s[i] /\ s[i] \in 1..n
    BY <1>2, <1>3, <1>6
  <2>2. CASE j \in 1..Len(s)
    BY <1>2, <1>6, <2>1, <2>2 DEF InOrder
  <2>3. CASE j = Len(s) + 1
    BY <1>2, <2>1, <2>3
  <2> QED BY <1>4, <2>2, <2>3
<1> QED BY <1>1, <1>5, <1>6 DEF InOrder

LEMMA LatestAdd ==
    ASSUME NEW n \in Nat, NEW ks \in SUBSET (1..n), NEW default
    PROVE  IsLatest(n + 1, ks \cup {n + 1}, default)
BY DEF IsLatest

LEMMA TextStep ==
    ASSUME NEW n \in Nat, NEW text, NEW split, TextSays(text, n, split), lines[n + 1].kind = "text",
           NEW whole \in BOOLEAN, whole <=> n + 1 \notin split
    PROVE  TextSays(Append(text, <<n + 1, whole>>), n + 1, split)
<1>1. PICK k \in Nat : k = n + 1
  OBVIOUS
<1>2. PICK x \in Nat \X BOOLEAN : x = <<k, whole>>
  BY Zenon
<1>3. PICK t : t = Append(text, x)
  OBVIOUS
<1>4. x[1] = k /\ (x[2] <=> k \notin split)
  BY <1>1, <1>2
<1>5. text \in Seq(Nat \X BOOLEAN)
  BY DEF TextSays
<1>6. /\ t \in Seq(Nat \X BOOLEAN) /\ Len(t) = Len(text) + 1 /\ Len(text) \in Nat
      /\ t[Len(text) + 1] = x /\ \A i \in 1..Len(text) : t[i] = text[i]
  BY <1>3, <1>5
<1> DEFINE firsts == [i \in 1..Len(text) |-> text[i][1]]
<1>7. firsts \in Seq(Nat) /\ Len(firsts) = Len(text)
  <2>1. \A i \in 1..Len(text) : text[i] \in Nat \X BOOLEAN
    BY <1>5
  <2>2. \A i \in 1..Len(text) : text[i][1] \in Nat
    BY <2>1
  <2> QED BY <1>6, <2>2
<1>8. [i \in 1..Len(t) |-> t[i][1]] = Append(firsts, k)
  <2>1. ASSUME NEW i \in 1..Len(t) PROVE t[i][1] = Append(firsts, k)[i]
    BY <1>4, <1>6, <1>7
  <2>2. Len(Append(firsts, k)) = Len(t) /\ Append(firsts, k) \in Seq(Nat)
    BY <1>1, <1>6, <1>7
  <2> DEFINE g == Append(firsts, k)
  <2> HIDE DEF firsts, g
  <2>3. g = [i \in 1..Len(g) |-> g[i]]
    BY <2>2, SeqIsFunction DEF g
  <2>4. g = [i \in 1..Len(t) |-> g[i]]
    BY <2>2, <2>3 DEF g
  <2>5. \A i \in 1..Len(t) : t[i][1] = g[i]
    BY <2>1 DEF g
  <2>6. [i \in 1..Len(t) |-> t[i][1]] = g
    BY <2>4, <2>5
  <2> QED BY <2>6 DEF g
<1>9. InOrder(Append(firsts, k), Of("text", k))
  <2>1. Of("text", k) = Of("text", n) \cup {n + 1}
    BY <1>1, OfStep
  <2>2. InOrder(firsts, Of("text", n)) /\ Of("text", n) \in SUBSET (1..n)
    BY OfBelow DEF TextSays
  <2> HIDE DEF firsts
  <2> QED BY <1>1, <1>7, <2>1, <2>2, InOrderAppend
<1>10. ASSUME NEW i \in 1..Len(t) PROVE t[i][2] <=> t[i][1] \notin split
  <2>1. CASE i = Len(text) + 1
    <3>1. t[i] = x
      BY <1>6, <2>1
    <3> QED BY <1>4, <3>1
  <2>2. CASE i # Len(text) + 1
    <3>1. i \in 1..Len(text) /\ t[i] = text[i]
      BY <1>6, <2>2
    <3> QED BY <3>1 DEF TextSays
  <2> QED BY <2>1, <2>2
<1>11. TextSays(t, k, split)
  <2> HIDE DEF firsts
  <2> QED BY <1>6, <1>8, <1>9, <1>10 DEF TextSays
<1> QED BY <1>1, <1>2, <1>3, <1>11

LEMMA TextKept ==
    ASSUME NEW n \in Nat, NEW text, NEW split, TextSays(text, n, split), lines[n + 1].kind # "text"
    PROVE  TextSays(text, n + 1, split)
<1>1. Of("text", n + 1) = Of("text", n)
  BY OfStep
<1> QED BY <1>1 DEF TextSays

LEMMA LatestJoin ==
    ASSUME NEW ks \in SUBSET Nat, NEW m \in Nat, IsLatest(m, ks, 0), NEW x \in Nat, x > 0
    PROVE  IsLatest(IF m >= x THEN m ELSE x, ks \cup {x}, 0)
<1>1. \A y \in ks : y \in Nat /\ y <= m
  BY DEF IsLatest
<1>2. CASE m >= x
  <2>1. m \in ks
    BY <1>2 DEF IsLatest
  <2> QED BY <1>1, <1>2, <2>1 DEF IsLatest
<1>3. CASE ~(m >= x)
  BY <1>1, <1>3 DEF IsLatest
<1> QED BY <1>2, <1>3

LEMMA EmptySays ==
    ASSUME NEW ids \in SUBSET Nat, ids = {}
    PROVE  IsLatest(0, ids, 0) /\ InOrder(<<>>, ids)
BY DEF IsLatest, InOrder

(* A call's list grows up to the index, and the call at the index takes    *)
(* the line.                                                               *)
LEMMA CallsStep ==
    ASSUME NEW n \in Nat, NEW calls, CallsSay(calls, n), NEW index \in Nat,
           lines[n + 1].kind \in {"open", "args"}, lines[n + 1].index = index
    PROVE  CallsSay(Accumulate(calls, index, n + 1), n + 1)
<1>1. PICK k \in Nat : k = n + 1
  OBVIOUS
<1>2. PICK len \in Nat : len = Max({Len(calls), index + 1})
  <2>1. Len(calls) \in Nat
    BY DEF CallsSay
  <2>2. Max({Len(calls), index + 1}) \in Nat
    BY <2>1, MaxOfTwo
  <2> QED BY <2>2
<1>3. /\ calls \in Seq(Partial) /\ Len(calls) \in Nat
      /\ len = IF Len(calls) >= index + 1 THEN Len(calls) ELSE index + 1
      /\ len >= Len(calls) /\ len >= index + 1
  BY <1>2, MaxOfTwo DEF CallsSay
<1> DEFINE before(i) == IF i <= Len(calls) THEN calls[i] ELSE NoPartial
           after(i) == IF i # index + 1 THEN before(i)
                       ELSE IF lines[k].kind = "open" THEN [before(i) EXCEPT !.id = k]
                       ELSE [before(i) EXCEPT !.args = Append(@, k)]
           all == [i \in 1..len |-> after(i)]
<1>4. Accumulate(calls, index, n + 1) = all
  BY <1>1, <1>2 DEF Accumulate
<1>5. CallEnds(k) = CallEnds(n) \cup {index + 1}
  <2>1. lines[k].kind = "open" => Of("open", k) = Of("open", n) \cup {k} /\ Of("args", k) = Of("args", n)
    BY <1>1, OfStep
  <2>2. lines[k].kind # "open" => Of("args", k) = Of("args", n) \cup {k} /\ Of("open", k) = Of("open", n)
    BY <1>1, OfStep
  <2>3. Of("open", k) \cup Of("args", k) = (Of("open", n) \cup Of("args", n)) \cup {k}
    BY <2>1, <2>2
  <2>4. lines[k].index = index
    BY <1>1
  <2> QED BY <2>3, <2>4 DEF CallEnds
<1>6. IsLatest(len, CallEnds(k), 0) /\ CallEnds(k) \subseteq Nat
  <2>1. IsLatest(Len(calls), CallEnds(n), 0) /\ CallEnds(n) \subseteq Nat
    BY DEF CallsSay
  <2>2. index + 1 \in Nat /\ index + 1 > 0
    OBVIOUS
  <2>3. IsLatest(len, CallEnds(n) \cup {index + 1}, 0)
    BY <1>3, <2>1, <2>2, LatestJoin
  <2> QED BY <1>5, <2>1, <2>2, <2>3
<1>7. ASSUME NEW i \in 1..len
      PROVE  before(i) \in Partial /\ CallSays(before(i), i, n)
  <2>1. CASE i <= Len(calls)
    <3>1. i \in 1..Len(calls) /\ before(i) = calls[i]
      BY <1>3, <2>1
    <3> HIDE DEF before
    <3> QED BY <1>3, <3>1 DEF CallsSay
  <2>2. CASE ~(i <= Len(calls))
    <3>1. before(i) = NoPartial
      BY <2>2
    <3>2. ASSUME NEW x \in Of("open", n) \cup Of("args", n), lines[x].index = i - 1 PROVE FALSE
      <4>1. lines[x].index + 1 \in CallEnds(n)
        BY DEF CallEnds
      <4>2. lines[x].index + 1 <= Len(calls)
        BY <4>1 DEF CallsSay, IsLatest
      <4> QED BY <1>3, <2>2, <3>2, <4>2
    <3>3. Deltas("open", i - 1, n) = {} /\ Deltas("args", i - 1, n) = {}
      BY <3>2 DEF Deltas
    <3>4. NoPartial.id = 0 /\ NoPartial.args = <<>> /\ NoPartial \in Partial
      BY DEF NoPartial, Partial
    <3>5. IsLatest(0, Deltas("open", i - 1, n), 0) /\ InOrder(<<>>, Deltas("args", i - 1, n))
      BY <3>3, EmptySays
    <3> HIDE DEF before
    <3> QED BY <3>1, <3>4, <3>5 DEF CallSays
  <2> QED BY <2>1, <2>2
<1>8. ASSUME NEW i \in 1..len
      PROVE  after(i) \in Partial /\ CallSays(after(i), i, k)
  <2>0. before(i) \in Partial /\ CallSays(before(i), i, n)
    BY <1>7
  <2>1. CASE i # index + 1
    <3>1. i - 1 # index
      BY <2>1
    <3>2. Deltas("open", i - 1, k) = Deltas("open", i - 1, n) /\ Deltas("args", i - 1, k) = Deltas("args", i - 1, n)
      BY ZenonT(30), <1>1, <3>1, DeltasStep
    <3>3. after(i) = before(i)
      BY <2>1
    <3> HIDE DEF before, after
    <3> QED BY <2>0, <3>2, <3>3 DEF CallSays
  <2>2. CASE i = index + 1 /\ lines[k].kind = "open"
    <3>1. i - 1 = index
      BY <2>2
    <3>2. /\ Deltas("open", i - 1, k) = Deltas("open", i - 1, n) \cup {k}
          /\ Deltas("args", i - 1, k) = Deltas("args", i - 1, n)
      <4>1. lines[n + 1].kind = "open" /\ lines[n + 1].index = i - 1
        BY <1>1, <2>2, <3>1
      <4>2. /\ Deltas("open", i - 1, n + 1) = Deltas("open", i - 1, n) \cup {n + 1}
            /\ Deltas("args", i - 1, n + 1) = Deltas("args", i - 1, n)
        <5>1. Deltas("open", i - 1, n + 1) = Deltas("open", i - 1, n) \cup {n + 1}
          BY <4>1, DeltasStep
        <5>2. Deltas("args", i - 1, n + 1) = Deltas("args", i - 1, n)
          BY <4>1, DeltasStep
        <5> QED BY <5>1, <5>2
      <4> QED BY <1>1, <4>2
    <3>3. after(i) = [before(i) EXCEPT !.id = k]
      BY <2>2
    <3> HIDE DEF before, after
    <3>4. after(i) \in Partial /\ after(i).id = k /\ after(i).args = before(i).args
      BY <2>0, <3>3 DEF Partial
    <3>5. IsLatest(k, Deltas("open", i - 1, n) \cup {k}, 0)
      BY <1>1, OfBelow, LatestAdd
    <3> QED BY <2>0, <3>2, <3>4, <3>5 DEF CallSays
  <2>3. CASE i = index + 1 /\ lines[k].kind # "open"
    <3>1. i - 1 = index /\ lines[k].kind = "args"
      BY <1>1, <2>3
    <3>2. /\ Deltas("open", i - 1, k) = Deltas("open", i - 1, n)
          /\ Deltas("args", i - 1, k) = Deltas("args", i - 1, n) \cup {k}
      <4>1. lines[n + 1].kind = "args" /\ lines[n + 1].index = i - 1
        BY <1>1, <2>3, <3>1
      <4>2. /\ Deltas("open", i - 1, n + 1) = Deltas("open", i - 1, n)
            /\ Deltas("args", i - 1, n + 1) = Deltas("args", i - 1, n) \cup {n + 1}
        <5>1. Deltas("open", i - 1, n + 1) = Deltas("open", i - 1, n)
          BY <4>1, DeltasStep
        <5>2. Deltas("args", i - 1, n + 1) = Deltas("args", i - 1, n) \cup {n + 1}
          BY <4>1, DeltasStep
        <5> QED BY <5>1, <5>2
      <4> QED BY <1>1, <4>2
    <3>3. after(i) = [before(i) EXCEPT !.args = Append(@, k)]
      BY <2>3
    <3> HIDE DEF before, after
    <3>4. before(i).args \in Seq(Nat)
      BY <2>0 DEF Partial
    <3>5. after(i) \in Partial /\ after(i).id = before(i).id /\ after(i).args = Append(before(i).args, k)
      <4>1. PICK c \in Partial : c = before(i)
        BY <2>0
      <4>2. c = [id |-> c.id, args |-> c.args] /\ c.id \in Nat /\ c.args \in Seq(Nat)
        BY DEF Partial
      <4>5. Append(c.args, k) \in Seq(Nat)
        BY <4>2
      <4>3. PICK more \in Seq(Nat) : more = Append(c.args, k)
        BY <4>5
      <4>4. after(i) = [id |-> c.id, args |-> more]
        BY <3>3, <4>1, <4>2, <4>3
      <4> QED BY <4>1, <4>2, <4>3, <4>4 DEF Partial
    <3>6. InOrder(Append(before(i).args, k), Deltas("args", i - 1, n) \cup {k})
      <4>1. InOrder(before(i).args, Deltas("args", i - 1, n)) /\ Deltas("args", i - 1, n) \in SUBSET (1..n)
        BY <2>0, OfBelow DEF CallSays
      <4> QED BY <1>1, <3>4, <4>1, InOrderAppend
    <3> QED BY <2>0, <3>2, <3>5, <3>6 DEF CallSays
  <2> QED BY <2>1, <2>2, <2>3
<1> HIDE DEF after
<1>9. all \in Seq(Partial) /\ Len(all) = len /\ \A i \in 1..len : all[i] = after(i)
  BY <1>8
<1> HIDE DEF all
<1>10. CallsSay(all, k)
  BY <1>6, <1>8, <1>9 DEF CallsSay
<1> QED BY <1>1, <1>4, <1>10

LEMMA CallsKept ==
    ASSUME NEW n \in Nat, NEW calls, CallsSay(calls, n), lines[n + 1].kind \notin {"open", "args"}
    PROVE  CallsSay(calls, n + 1)
<1>1. Of("open", n + 1) = Of("open", n) /\ Of("args", n + 1) = Of("args", n)
  BY OfStep
<1>2. CallEnds(n + 1) = CallEnds(n)
  BY <1>1 DEF CallEnds
<1>3. \A index : Deltas("open", index, n + 1) = Deltas("open", index, n) /\ Deltas("args", index, n + 1) = Deltas("args", index, n)
  BY <1>1 DEF Deltas
<1> QED BY <1>2, <1>3 DEF CallsSay, CallSays

LEMMA UsageStep ==
    ASSUME NEW n \in Nat, lines[n + 1].kind = "usage"
    PROVE  UsageSays(lines[n + 1].flat + lines[n + 1].nested, n + 1)
<1>1. Of("usage", n + 1) = Of("usage", n) \cup {n + 1} /\ Of("usage", n) \subseteq 1..n
  BY OfStep, OfBelow
<1>2. n + 1 \in Of("usage", n + 1) /\ \A x \in Of("usage", n + 1) : x <= n + 1
  BY <1>1
<1> QED BY <1>2 DEF UsageSays

LEMMA UsageKept ==
    ASSUME NEW n \in Nat, NEW usage, UsageSays(usage, n), lines[n + 1].kind # "usage"
    PROVE  UsageSays(usage, n + 1)
<1>1. Of("usage", n + 1) = Of("usage", n)
  BY OfStep
<1> QED BY <1>1 DEF UsageSays

LEMMA FlagsStep ==
    ASSUME NEW n \in Nat, NEW finish, NEW emitted, FlagsSay(finish, emitted, n)
    PROVE  FlagsSay(finish \/ lines[n + 1].kind = "stop",
                    emitted \/ lines[n + 1].kind \in {"text", "open", "args"}, n + 1)
<1>1. Of("stop", n + 1) # {} <=> Of("stop", n) # {} \/ lines[n + 1].kind = "stop"
  BY OfStep
<1>2. \A kind \in {"text", "open", "args"} :
        Of(kind, n + 1) # {} <=> Of(kind, n) # {} \/ lines[n + 1].kind = kind
  BY OfStep
<1>3. Of("text", n + 1) \cup Of("open", n + 1) \cup Of("args", n + 1) # {} <=>
        Of("text", n) \cup Of("open", n) \cup Of("args", n) # {} \/ lines[n + 1].kind \in {"text", "open", "args"}
  BY <1>2
<1> QED BY <1>1, <1>3 DEF FlagsSay

(* Apply takes what n lines say to what n + 1 lines say. *)
LEMMA ApplySays ==
    ASSUME NEW n \in Nat, NEW r, NEW split, Says(r, n, split),
           lines[n + 1].index \in Nat,
           lines[n + 1].kind = "usage" =>
             CachedTokens(lines[n + 1].flat, lines[n + 1].nested) = lines[n + 1].flat + lines[n + 1].nested,
           NEW whole \in BOOLEAN, whole <=> n + 1 \notin split
    PROVE  Says(Apply(r, n + 1, whole), n + 1, split)
<1> DEFINE a == Apply(r, n + 1, whole)
<1>1. TextSays(a.text, n + 1, split)
  <2>1. TextSays(r.text, n, split)
    BY DEF Says
  <2>2. CASE lines[n + 1].kind = "text"
    <3>1. a.text = Append(r.text, <<n + 1, whole>>)
      BY <2>2 DEF Apply
    <3> HIDE DEF a
    <3> QED BY <2>1, <2>2, <3>1, TextStep
  <2>3. CASE lines[n + 1].kind # "text"
    <3>1. a.text = r.text
      BY <2>3 DEF Apply
    <3> HIDE DEF a
    <3> QED BY <2>1, <2>3, <3>1, TextKept
  <2> QED BY <2>2, <2>3
<1>2. CallsSay(a.calls, n + 1)
  <2>1. CallsSay(r.calls, n)
    BY DEF Says
  <2>2. CASE lines[n + 1].kind \in {"open", "args"}
    <3>1. a.calls = Accumulate(r.calls, lines[n + 1].index, n + 1)
      BY <2>2 DEF Apply
    <3> HIDE DEF a
    <3> QED BY <2>1, <2>2, <3>1, CallsStep
  <2>3. CASE lines[n + 1].kind \notin {"open", "args"}
    <3>1. a.calls = r.calls
      BY <2>3 DEF Apply
    <3> HIDE DEF a
    <3> QED BY <2>1, <2>3, <3>1, CallsKept
  <2> QED BY <2>2, <2>3
<1>3. UsageSays(a.usage, n + 1)
  <2>1. UsageSays(r.usage, n)
    BY DEF Says
  <2>2. CASE lines[n + 1].kind = "usage"
    <3>1. a.usage = lines[n + 1].flat + lines[n + 1].nested
      BY <2>2 DEF Apply
    <3> HIDE DEF a
    <3> QED BY <2>2, <3>1, UsageStep
  <2>3. CASE lines[n + 1].kind # "usage"
    <3>1. a.usage = r.usage
      BY <2>3 DEF Apply
    <3> HIDE DEF a
    <3> QED BY <2>1, <2>3, <3>1, UsageKept
  <2> QED BY <2>2, <2>3
<1>4. FlagsSay(a.finish, a.emitted, n + 1)
  <2>1. FlagsSay(r.finish, r.emitted, n)
    BY DEF Says
  <2>2. /\ a.finish <=> (r.finish \/ lines[n + 1].kind = "stop")
        /\ a.emitted <=> (r.emitted \/ lines[n + 1].kind \in {"text", "open", "args"})
    BY Zenon DEF Apply
  <2> HIDE DEF a
  <2>3. FlagsSay(r.finish \/ lines[n + 1].kind = "stop",
                 r.emitted \/ lines[n + 1].kind \in {"text", "open", "args"}, n + 1)
    BY <2>1, FlagsStep
  <2> QED BY <2>2, <2>3, Zenon DEF FlagsSay
<1> QED BY <1>1, <1>2, <1>3, <1>4 DEF Says

-----------------------------------------------------------------------------
(* Streamed responses: the buffer is what came in of the line at the end.  *)

LEMMA Thirds ==
    ASSUME NEW x \in Nat
    PROVE  \E l \in Nat, m \in 0..2 : x = 3 * l + m
<1> DEFINE T == {y \in Nat : ~\E l \in Nat, m \in 0..2 : y = 3 * l + m}
<1>1. T = {}
  <2> SUFFICES ASSUME T # {} PROVE FALSE
    OBVIOUS
  <2>1. PICK y \in T : \A z \in T : y <= z
    <3>1. T \in SUBSET Nat
      OBVIOUS
    <3> HIDE DEF T
    <3> QED BY <3>1, LeastNat
  <2>2. y \in Nat /\ ~\E l \in Nat, m \in 0..2 : y = 3 * l + m
    BY <2>1
  <2>3. y > 2
    <3> SUFFICES ASSUME y \in 0..2 PROVE FALSE
      BY <2>2
    <3>1. y = 3 * 0 + y
      OBVIOUS
    <3> QED BY <2>2, <3>1
  <2>4. y - 3 \in Nat
    BY <2>2, <2>3
  <2>5. y - 3 \notin T
    <3> HIDE DEF T
    <3> QED BY <2>1, <2>2, <2>4
  <2>6. PICK l \in Nat, m \in 0..2 : y - 3 = 3 * l + m
    BY <2>4, <2>5
  <2>7. l + 1 \in Nat /\ y = 3 * (l + 1) + m
    BY <2>2, <2>6
  <2> QED BY <2>2, <2>7
<1>2. x \notin T
  BY <1>1
<1> QED BY <1>2

LEMMA PieceIs ==
    ASSUME NEW n \in Nat
    PROVE  /\ \A m \in 1..3 : Piece(3 * n + m) = <<n + 1, m>>
           /\ ~IsNewline(Piece(3 * n + 1)) /\ ~IsNewline(Piece(3 * n + 2)) /\ IsNewline(Piece(3 * n + 3))
<1>1. ASSUME NEW m \in 1..3 PROVE Piece(3 * n + m) = <<n + 1, m>>
  <2>1. (3 * n + m - 1) \div 3 = n /\ (3 * n + m - 1) % 3 = m - 1
    OBVIOUS
  <2> QED BY <2>1 DEF Piece
<1>2. \A m \in 1..3 : IsNewline(Piece(3 * n + m)) <=> m = 3
  BY <1>1 DEF IsNewline
<1> QED BY <1>1, <1>2

(* The pieces received after line n, up to the q-th of the body. *)
PiecesFrom(n, q) == [i \in 1..(q - 3 * n) |-> Piece(3 * n + i)]

(* What the loop has done after piece e of a buffer that starts at line    *)
(* n + 1, three pieces to a line: a is its state after line n + l.         *)
DrainedTo(a, n, l, split) ==
    /\ a.start = 3 * l
    /\ Says(a.result, n + l, split)
    /\ a.loop = "broken" => n + l = Len(lines)

(* One piece of the buffer. *)
DrainStep(rest, e, piece, split) ==
    IF rest.loop = "broken" \/ ~IsNewline(piece) THEN rest
    ELSE IF e - rest.start < 3 THEN [start |-> e, result |-> rest.result, loop |-> "runs"]
    ELSE IF lines[piece[1]] = Done THEN [start |-> e, result |-> rest.result, loop |-> "broken"]
    ELSE [start |-> e, result |-> Apply(rest.result, piece[1], piece[1] \notin split), loop |-> "runs"]

StepsDrain(f, buf, r, split) ==
    /\ f[0] = [start |-> 0, result |-> r, loop |-> "runs"]
    /\ \A e \in 1..Len(buf) : f[e] = DrainStep(f[e - 1], e, buf[e], split)

LEMMA DrainSteps ==
    ASSUME NEW buf, Len(buf) \in Nat, NEW r, NEW split, NEW f, f = DrainUpTo(buf, r, split)
    PROVE  StepsDrain(f, buf, r, split)
<1> DEFINE len == Len(buf)
           next(rest, e) == DrainStep(rest, e, buf[e], split)
           first == [start |-> 0, result |-> r, loop |-> "runs"]
           Drains(g, n) == g = [e \in 0..n |-> IF e = 0 THEN first ELSE next(g[e - 1], e)]
           T == {n \in 0..len : ~\E g : Drains(g, n)}
<1>1. f = CHOOSE g : Drains(g, len)
  BY DEF DrainUpTo, DrainStep
<1> HIDE DEF next, first, len
<1>0. len \in Nat
  BY DEF len
<1>2. T = {}
  <2> SUFFICES ASSUME T # {} PROVE FALSE
    OBVIOUS
  <2>1. PICK n \in T : \A m \in T : n <= m
    <3>1. T \in SUBSET Nat
      BY <1>0
    <3> HIDE DEF T
    <3> QED BY <3>1, LeastNat
  <2>2. n \in 0..len /\ ~\E g : Drains(g, n)
    BY <2>1
  <2>3. CASE n = 0
    <3> DEFINE g == [e \in 0..n |-> first]
    <3>1. \A e \in 0..n : e = 0
      BY <2>3
    <3>2. Drains(g, n)
      BY <3>1
    <3> QED BY <2>2, <3>2
  <2>4. CASE n # 0
    <3>1. n - 1 \in 0..len
      BY <1>0, <2>2, <2>4
    <3>2. n - 1 \notin T
      <4> HIDE DEF T
      <4> QED BY <2>1, <2>2
    <3>3. PICK h : Drains(h, n - 1)
      BY <3>1, <3>2
    <3> DEFINE g == [e \in 0..n |-> IF e = n THEN next(h[n - 1], n) ELSE h[e]]
    <3>4. ASSUME NEW e \in 0..n PROVE g[e] = IF e = 0 THEN first ELSE next(g[e - 1], e)
      <4>1. CASE e = n
        <5>1. e - 1 \in 0..n /\ e - 1 # n
          BY <2>2, <2>4, <4>1
        <5>2. g[e] = next(h[n - 1], n) /\ g[e - 1] = h[n - 1]
          BY <4>1, <5>1
        <5> HIDE DEF g
        <5> QED BY <2>4, <4>1, <5>2
      <4>2. CASE e # n
        <5>1. e \in 0..(n - 1)
          BY <2>2, <4>2
        <5>2. h[e] = IF e = 0 THEN first ELSE next(h[e - 1], e)
          BY <3>3, <5>1
        <5>3. e # 0 => e - 1 \in 0..n /\ e - 1 # n
          BY <2>2, <5>1
        <5>4. g[e] = h[e] /\ (e # 0 => g[e - 1] = h[e - 1])
          BY <4>2, <5>3
        <5> HIDE DEF g
        <5> QED BY <5>2, <5>4
      <4> QED BY <4>1, <4>2
    <3>5. Drains(g, n)
      <4>1. g = [e \in 0..n |-> g[e]]
        OBVIOUS
      <4> HIDE DEF g
      <4> QED BY <3>4, <4>1
    <3> QED BY <2>2, <3>5
  <2> QED BY <2>3, <2>4
<1>3. \E g : Drains(g, len)
  <2>1. len \in 0..len /\ len \notin T
    BY <1>0, <1>2
  <2> QED BY <2>1
<1>4. Drains(f, len)
  <2> HIDE DEF T
  <2> QED BY <1>1, <1>3
<1>5. f[0] = first /\ \A e \in 1..len : f[e] = next(f[e - 1], e)
  <2>1. \A e \in 0..len : f[e] = IF e = 0 THEN first ELSE next(f[e - 1], e)
    BY <1>4
  <2> QED BY <1>0, <2>1
<1> QED BY <1>5 DEF first, next, len, StepsDrain

LEMMA DrainIs ==
    ASSUME StreamAssumption, lines \in Bodies, NEW r, NEW split,
           NEW n \in Nat, NEW q \in Nat, 3 * n <= q, q <= 3 * Len(lines), Says(r, n, split)
    PROVE  LET d == Drain(PiecesFrom(n, q), r, split)
           IN  /\ d[1] = PiecesFrom(q \div 3, q)
               /\ Says(d[2], q \div 3, split)
<1> DEFINE buf == PiecesFrom(n, q)
           len == q - 3 * n
           f == DrainUpTo(buf, r, split)
           T == {e \in 0..len : ~DrainedTo(f[e], n, e \div 3, split)}
<1>1. len \in Nat /\ Len(buf) = len /\ \A e \in 1..len : buf[e] = Piece(3 * n + e)
  BY DEF PiecesFrom
<1>10. f = DrainUpTo(buf, r, split)
  OBVIOUS
<1> HIDE DEF buf, f
<1>11. Len(buf) \in Nat
  BY <1>1
<1>12. StepsDrain(f, buf, r, split)
  BY <1>10, <1>11, DrainSteps
<1>2. f[0] = [start |-> 0, result |-> r, loop |-> "runs"]
  BY <1>12 DEF StepsDrain
<1>3. \A e \in 1..len : f[e] = DrainStep(f[e - 1], e, buf[e], split)
  <2>1. \A e \in 1..Len(buf) : f[e] = DrainStep(f[e - 1], e, buf[e], split)
    BY <1>12 DEF StepsDrain
  <2> QED BY <1>1, <2>1
<1>0. Len(lines) \in Nat
  BY LineIs
<1>4. T = {}
  <2> SUFFICES ASSUME T # {} PROVE FALSE
    OBVIOUS
  <2>1. PICK e \in T : \A m \in T : e <= m
    <3>1. T \in SUBSET Nat
      BY <1>1
    <3> HIDE DEF T
    <3> QED BY <3>1, LeastNat
  <2>2. e \in 0..len /\ ~DrainedTo(f[e], n, e \div 3, split)
    BY <2>1
  <2>3. e # 0
    <3> SUFFICES ASSUME e = 0 PROVE FALSE
      OBVIOUS
    <3>1. e \div 3 = 0 /\ n + 0 = n /\ 3 * 0 = 0
      OBVIOUS
    <3> QED BY <1>2, <2>2, <3>1 DEF DrainedTo
  <2>4. PICK l \in Nat, m \in 1..3 : e = 3 * l + m
    <3>1. e - 1 \in Nat
      BY <1>1, <2>2, <2>3
    <3>2. PICK x \in Nat : e = x + 1
      BY <3>1
    <3>3. PICK l \in Nat, m \in 0..2 : x = 3 * l + m
      BY Thirds
    <3>4. m + 1 \in 1..3 /\ e = 3 * l + (m + 1)
      BY <3>2, <3>3
    <3> QED BY <3>3, <3>4
  <2>5. DrainedTo(f[e - 1], n, l, split)
    <3>1. e - 1 \in 0..len
      BY <1>1, <2>2, <2>3
    <3>2. e - 1 \notin T
      <4> HIDE DEF T
      <4> QED BY <2>1, <2>2, <1>1
    <3>3. (e - 1) \div 3 = l
      BY <2>4
    <3> QED BY <3>1, <3>2, <3>3
  <2>6. n + l \in Nat /\ 3 * (n + l) + m <= 3 * Len(lines)
    <3>1. 3 * n + e = 3 * (n + l) + m /\ 3 * n + e <= q
      BY <1>1, <2>2, <2>4
    <3> QED BY <1>0, <2>4, <3>1
  <2>7. buf[e] = <<n + l + 1, m>> /\ (IsNewline(buf[e]) <=> m = 3)
    <3>1. PICK x \in Nat : x = n + l
      BY <2>6
    <3>2. 3 * n + e = 3 * x + m
      BY <2>4, <3>1
    <3>7. e \in 1..len
      BY <1>1, <2>2, <2>3
    <3>3. buf[e] = Piece(3 * n + e)
      BY <1>1, <3>7
    <3>4. buf[e] = Piece(3 * x + m)
      BY <3>2, <3>3
    <3>5. buf[e] = <<x + 1, m>>
      BY <3>4, PieceIs
    <3>6. buf[e][2] = m
      BY <3>5
    <3> QED BY <3>1, <3>5, <3>6 DEF IsNewline
  <2>8. n + l + 1 \in 1..Len(lines) /\ n + l # Len(lines)
    BY <1>0, <2>6
  <2>9. f[e - 1].loop # "broken" /\ f[e - 1].start = 3 * l /\ Says(f[e - 1].result, n + l, split)
    BY <2>5, <2>8 DEF DrainedTo
  <2>10. CASE m # 3
    <3>1. f[e] = f[e - 1]
      <4>1. e \in 1..len /\ ~IsNewline(buf[e])
        BY <1>1, <2>2, <2>3, <2>7, <2>10
      <4> QED BY <1>3, <4>1 DEF DrainStep
    <3>2. e \div 3 = l
      BY <2>4, <2>10
    <3> QED BY <2>2, <2>5, <3>1, <3>2
  <2>11. CASE m = 3
    <3> DEFINE k == n + l + 1
    <3>1. e \div 3 = l + 1 /\ e = 3 * (l + 1) /\ n + (l + 1) = k /\ ~(e - 3 * l < 3)
      BY <2>4, <2>11
    <3>2. f[e] = IF lines[k] = Done
                 THEN [start |-> e, result |-> f[e - 1].result, loop |-> "broken"]
                 ELSE [start |-> e, result |-> Apply(f[e - 1].result, k, k \notin split), loop |-> "runs"]
      <4>1. k = buf[e][1] /\ IsNewline(buf[e]) /\ e \in 1..len
        BY <1>1, <2>2, <2>3, <2>7, <2>11
      <4>2. ~(e - f[e - 1].start < 3)
        BY <2>9, <3>1
      <4>3. f[e] = DrainStep(f[e - 1], e, buf[e], split)
        BY <1>3, <4>1
      <4> HIDE DEF k
      <4> QED BY <4>1, <4>2, <4>3, <2>9 DEF DrainStep
    <3>3. CASE lines[k] = Done
      <4>1. k = Len(lines) /\ lines[k].kind = "done"
        BY <2>8, <3>3, LineIs
      <4>2. Says(f[e - 1].result, k, split)
        <5>1. n + l \in Nat /\ lines[n + l + 1].kind = "done"
          BY <2>6, <4>1
        <5>2. TextSays(f[e - 1].result.text, n + l + 1, split)
          BY <2>9, <5>1, TextKept DEF Says
        <5>3. CallsSay(f[e - 1].result.calls, n + l + 1)
          BY <2>9, <5>1, CallsKept DEF Says
        <5>4. UsageSays(f[e - 1].result.usage, n + l + 1)
          BY <2>9, <5>1, UsageKept DEF Says
        <5>5. FlagsSay(f[e - 1].result.finish, f[e - 1].result.emitted, n + l + 1)
          <6>1. \A kind \in {"stop", "text", "open", "args"} : Of(kind, n + l + 1) = Of(kind, n + l)
            BY <5>1, OfStep
          <6> QED BY <2>9, <6>1 DEF Says, FlagsSay
        <5> QED BY <5>2, <5>3, <5>4, <5>5 DEF Says
      <4>3. f[e].start = e /\ f[e].result = f[e - 1].result
        BY <3>2, <3>3
      <4>4. DrainedTo(f[e], n, l + 1, split)
        BY <3>1, <4>1, <4>2, <4>3 DEF DrainedTo
      <4> QED BY <2>2, <3>1, <4>4
    <3>4. CASE lines[k] # Done
      <4>1. f[e].start = e /\ f[e].result = Apply(f[e - 1].result, k, k \notin split) /\ f[e].loop = "runs"
        BY <3>2, <3>4
      <4>2. Says(Apply(f[e - 1].result, k, k \notin split), k, split)
        <5>1. PICK whole \in BOOLEAN : whole = (k \notin split)
          BY Zenon
        <5>2. /\ lines[k].index \in Nat
              /\ lines[k].kind = "usage" =>
                    CachedTokens(lines[k].flat, lines[k].nested) = lines[k].flat + lines[k].nested
          BY <2>8, LineIs
        <5>3. PICK x \in Nat : x = n + l
          BY <2>6
        <5>4. k = x + 1 /\ (whole <=> x + 1 \notin split) /\ Says(f[e - 1].result, x, split)
          BY <2>9, <5>1, <5>3
        <5>5. Says(Apply(f[e - 1].result, x + 1, whole), x + 1, split)
          BY <5>2, <5>4, ApplySays
        <5> HIDE DEF k
        <5> QED BY <5>1, <5>4, <5>5
      <4>3. DrainedTo(f[e], n, l + 1, split)
        BY <3>1, <4>1, <4>2 DEF DrainedTo
      <4> QED BY <2>2, <3>1, <4>3
    <3> QED BY <3>3, <3>4
  <2> QED BY <2>10, <2>11
<1>5. DrainedTo(f[len], n, len \div 3, split)
  <2>1. len \in 0..len
    BY <1>1
  <2>2. len \notin T
    BY <1>4
  <2> QED BY <2>1, <2>2
<1>6. n + len \div 3 = q \div 3 /\ len \div 3 \in Nat
  BY <1>1
<1> DEFINE d == Drain(buf, r, split)
           l == len \div 3
<1>7. d = <<SubSeq(buf, f[len].start + 1, len), f[len].result>>
  BY <1>1 DEF Drain, f
<1>8. d[1] = SubSeq(buf, 3 * l + 1, len) /\ Says(d[2], q \div 3, split)
  <2>1. f[len].start = 3 * l /\ Says(f[len].result, q \div 3, split)
    BY <1>5, <1>6 DEF DrainedTo
  <2> HIDE DEF d, l
  <2> QED BY <1>7, <2>1
<1>9. SubSeq(buf, 3 * l + 1, len) = PiecesFrom(q \div 3, q)
  <2>1. PICK c \in Nat : c = q \div 3
    BY <1>6
  <2>2. n + l = c /\ l \in Nat /\ 3 * l <= len
    BY <1>1, <1>6, <2>1
  <2> HIDE DEF l
  <2>3. len - 3 * l = q - 3 * c
    BY <2>2
  <2>4. SubSeq(buf, 3 * l + 1, len) = [i \in 1..(len - 3 * l) |-> buf[3 * l + i]]
    <3>1. 3 * l + 1 \in Nat /\ len - (3 * l + 1) + 1 = len - 3 * l
      BY <1>1, <2>2
    <3>2. \A i : (3 * l + 1) + i - 1 = 3 * l + i \/ i \notin Int
      BY <2>2
    <3> QED BY <1>1, <2>2, <3>1, <3>2
  <2>5. \A i \in 1..(q - 3 * c) : buf[3 * l + i] = Piece(3 * c + i)
    <3> SUFFICES ASSUME NEW i \in 1..(q - 3 * c) PROVE buf[3 * l + i] = Piece(3 * c + i)
      OBVIOUS
    <3>1. 3 * l + i \in 1..len /\ 3 * n + (3 * l + i) = 3 * c + i
      BY <1>1, <2>2, <2>3
    <3> QED BY <1>1, <3>1
  <2> QED BY <2>1, <2>3, <2>4, <2>5 DEF PiecesFrom
<1> HIDE DEF d, l
<1> QED BY <1>8, <1>9 DEF buf, d

-----------------------------------------------------------------------------
(* Streamed responses: the theorem.                                        *)

StreamInv ==
    /\ lines \in Bodies
    /\ received \in 0..(3 * Len(lines))
    /\ open => buffer = PiecesFrom(received \div 3, received)
    /\ Says(result, received \div 3, torn)

LEMMA SaysFrame ==
    ASSUME lines' = lines, NEW r, NEW n, NEW split, Says(r, n, split),
           result' = r, received' \div 3 = n, torn' = split
    PROVE  Says(result, received \div 3, torn)'
<1>1. ASSUME NEW kind PROVE Of(kind, received \div 3)' = Of(kind, n)
  BY DEF Of
<1>2. ASSUME NEW kind, NEW index PROVE Deltas(kind, index, received \div 3)' = Deltas(kind, index, n)
  BY <1>1 DEF Deltas
<1>3. CallEnds(received \div 3)' = CallEnds(n)
  BY <1>1 DEF CallEnds
<1>4. TextSays(result.text, received \div 3, torn)'
  BY <1>1 DEF Says, TextSays
<1>5. CallsSay(result.calls, received \div 3)'
  <2>1. CallsSay(r.calls, n)
    BY DEF Says
  <2>2. ASSUME NEW i \in 1..Len(r.calls) PROVE CallSays(result.calls[i], i, received \div 3)'
    <3>1. CallSays(r.calls[i], i, n)
      BY <2>1 DEF CallsSay
    <3> QED BY <1>2, <3>1 DEF CallSays
  <2> QED BY <1>3, <2>1, <2>2 DEF CallsSay
<1>6. UsageSays(result.usage, received \div 3)'
  BY <1>1 DEF Says, UsageSays
<1>7. FlagsSay(result.finish, result.emitted, received \div 3)'
  BY <1>1 DEF Says, FlagsSay
<1> QED BY <1>4, <1>5, <1>6, <1>7 DEF Says

(* A line still to come does not change what those before it say. *)
LEMMA SplitLater ==
    ASSUME NEW n \in Nat, NEW r, NEW split, NEW more, Says(r, n, split), \A k \in more : k \notin 1..n
    PROVE  Says(r, n, split \cup more)
<1>1. TextSays(r.text, n, split \cup more)
  <2>1. TextSays(r.text, n, split)
    BY DEF Says
  <2> DEFINE firsts == [i \in 1..Len(r.text) |-> r.text[i][1]]
  <2>2. ASSUME NEW i \in 1..Len(r.text) PROVE r.text[i][1] \in 1..n
    <3>0. Len(r.text) \in Nat
      BY <2>1 DEF TextSays
    <3>1. Len(firsts) = Len(r.text) /\ firsts[i] = r.text[i][1]
      BY <3>0
    <3> HIDE DEF firsts
    <3>2. InOrder(firsts, Of("text", n))
      BY <2>1 DEF TextSays, firsts
    <3>3. firsts[i] \in Of("text", n)
      BY <3>1, <3>2 DEF InOrder
    <3> QED BY <3>1, <3>3, OfBelow
  <2>3. \A i \in 1..Len(r.text) : r.text[i][1] \notin split <=> r.text[i][1] \notin split \cup more
    BY <2>2
  <2> HIDE DEF firsts
  <2> QED BY <2>1, <2>3 DEF TextSays
<1> QED BY <1>1 DEF Says

LEMMA StreamChunk ==
    ASSUME StreamAssumption, StreamInv, NEW n \in Nat \ {0}, Chunk(n)
    PROVE  StreamInv'
<1> DEFINE cut == Piece(received + n)
           more == {k \in {cut[1]} : cut[2] = 1 /\ lines[k].kind = "text"}
           split == torn \cup more
           c == received \div 3
           q == received + n
           buf == buffer \o [i \in 1..n |-> Piece(received + i)]
           d == Drain(buf, result, split)
<1>0. Len(lines) \in Nat
  BY LineIs DEF StreamInv
<1>1. received \in Nat /\ q \in Nat /\ q <= 3 * Len(lines) /\ q > received
  BY <1>0 DEF StreamInv, Chunk
<1>2. c \in Nat /\ 3 * c <= received /\ received < 3 * c + 3
  <2>1. PICK l \in Nat, m \in 0..2 : received = 3 * l + m
    BY <1>1, Thirds
  <2>2. c = l
    BY <2>1
  <2> QED BY <2>1, <2>2
<1>3. /\ received' = q /\ lines' = lines /\ open' = open
      /\ torn' = split /\ buffer' = d[1] /\ result' = d[2] /\ open
  BY DEF Chunk
<1>4. buf = PiecesFrom(c, q)
  <2> HIDE DEF c, q
  <2>1. buffer = [i \in 1..(received - 3 * c) |-> Piece(3 * c + i)]
    BY <1>3 DEF StreamInv, PiecesFrom, c
  <2>2. PICK b \in Nat : b = received - 3 * c
    BY <1>1, <1>2
  <2>3. buffer = [i \in 1..b |-> Piece(3 * c + i)]
    BY <2>1, <2>2
  <2>4. buf = [i \in 1..(b + n) |-> IF i <= b THEN Piece(3 * c + i) ELSE Piece(received + (i - b))]
    BY <2>3
  <2>5. q - 3 * c = b + n
    BY <1>1, <1>2, <2>2 DEF q
  <2>6. ASSUME NEW i \in 1..(b + n), ~(i <= b) PROVE received + (i - b) = 3 * c + i
    BY <1>1, <1>2, <2>2, <2>6
  <2>7. \A i \in 1..(b + n) : (IF i <= b THEN Piece(3 * c + i) ELSE Piece(received + (i - b))) = Piece(3 * c + i)
    BY <2>6
  <2> HIDE DEF buf
  <2> QED BY <2>4, <2>5, <2>7 DEF PiecesFrom
<1>5. \A k \in more : k \notin 1..c
  <2> SUFFICES ASSUME NEW k \in more PROVE k \notin 1..c
    OBVIOUS
  <2>1. k = cut[1] /\ cut[2] = 1
    OBVIOUS
  <2>2. PICK l \in Nat, m \in 0..2 : q = 3 * l + m
    BY <1>1, Thirds
  <2> HIDE DEF q, c
  <2>3. CASE m = 0
    <3>1. PICK x \in Nat : q = 3 * x + 3
      <4>1. l - 1 \in Nat /\ q = 3 * (l - 1) + 3
        BY <1>1, <2>2, <2>3
      <4> QED BY <4>1
    <3>2. Piece(3 * x + 3) = <<x + 1, 3>>
      BY PieceIs
    <3>3. cut[2] = 3
      BY <3>1, <3>2 DEF q
    <3> QED BY <2>1, <3>3
  <2>4. CASE m # 0
    <3>1. Piece(3 * l + m) = <<l + 1, m>>
      BY <2>4, PieceIs
    <3>2. cut = <<l + 1, m>>
      BY <2>2, <3>1 DEF q
    <3>3. k = l + 1
      BY <2>1, <3>2
    <3>4. c <= l
      BY <1>1, <1>2, <2>2
    <3> QED BY <1>2, <3>3, <3>4
  <2> QED BY <2>3, <2>4
<1> HIDE DEF more, cut, buf
<1>6. Says(result, c, split)
  BY <1>2, <1>5, SplitLater DEF StreamInv
<1>7. d[1] = PiecesFrom(q \div 3, q) /\ Says(d[2], q \div 3, split)
  <2>1. lines \in Bodies /\ 3 * c <= q
    BY <1>1, <1>2 DEF StreamInv
  <2> HIDE DEF c, q, split
  <2> QED BY <1>1, <1>2, <1>4, <1>6, <2>1, DrainIs
<1> HIDE DEF d, split, q
<1>8. Says(result, received \div 3, torn)'
  <2>1. PICK r, m, sp : r = d[2] /\ m = q \div 3 /\ sp = split
    OBVIOUS
  <2>2. Says(r, m, sp)
    BY <1>7, <2>1
  <2>3. result' = r /\ received' \div 3 = m /\ torn' = sp
    BY <1>3, <2>1
  <2> QED BY <1>3, <2>2, <2>3, SaysFrame
<1>9. (open => buffer = PiecesFrom(received \div 3, received))'
  BY <1>3, <1>7 DEF PiecesFrom
<1>10. (lines \in Bodies)' /\ (received \in 0..(3 * Len(lines)))'
  <2>1. Bodies' = Bodies
    BY DEF Bodies
  <2> QED BY <1>1, <1>3, <2>1, <1>0 DEF StreamInv
<1> QED BY <1>8, <1>9, <1>10 DEF StreamInv

LEMMA StreamInvStep ==
    ASSUME StreamAssumption, StreamInv, [StreamNext]_streamVars
    PROVE  StreamInv'
<1>1. ASSUME NEW n \in 1..(3 * MaxLines), Chunk(n) PROVE StreamInv'
  <2>1. n \in Nat \ {0}
    BY DEF StreamAssumption
  <2> QED BY <1>1, <2>1, StreamChunk
<1>2. ASSUME lines' = lines, received' = received, result' = result, torn' = torn,
             ~open' \/ (open' = open /\ buffer' = buffer)
      PROVE  StreamInv'
  <2>1. Says(result, received \div 3, torn)'
    <3>1. PICK r, m, sp : r = result /\ m = received \div 3 /\ sp = torn
      OBVIOUS
    <3>2. Says(r, m, sp)
      BY <3>1 DEF StreamInv
    <3>3. result' = r /\ received' \div 3 = m /\ torn' = sp
      BY <1>2, <3>1
    <3> QED BY <1>2, <3>2, <3>3, SaysFrame
  <2>2. (open => buffer = PiecesFrom(received \div 3, received))'
    BY <1>2 DEF StreamInv, PiecesFrom
  <2>3. (lines \in Bodies)' /\ (received \in 0..(3 * Len(lines)))'
    BY <1>2 DEF StreamInv
  <2> QED BY <2>1, <2>2, <2>3 DEF StreamInv
<1>3. CASE StreamEnds
  BY <1>2, <1>3 DEF StreamEnds
<1>4. CASE UNCHANGED streamVars
  BY <1>2, <1>4 DEF streamVars
<1> QED BY <1>1, <1>3, <1>4 DEF StreamNext

LEMMA StreamInvStart ==
    ASSUME StreamAssumption, StreamInit
    PROVE  StreamInv
<1>1. lines \in Bodies /\ received = 0 /\ buffer = <<>> /\ result = NoResult /\ torn = {}
  BY DEF StreamInit
<1>2. Len(lines) \in Nat
  BY <1>1, LineIs
<1>3. received \div 3 = 0 /\ received \in 0..(3 * Len(lines))
  BY <1>1, <1>2
<1>4. PiecesFrom(0, 0) = <<>>
  BY DEF PiecesFrom
<1>5. \A kind, index : Of(kind, 0) = {} /\ Deltas(kind, index, 0) = {}
  BY DEF Of, Deltas
<1>6. Says(NoResult, 0, {})
  <2>1. NoResult.text = <<>> /\ NoResult.calls = <<>> /\ NoResult.usage = 0
    BY DEF NoResult
  <2>2. TextSays(<<>>, 0, {})
    BY <1>5 DEF TextSays, InOrder
  <2>3. CallsSay(<<>>, 0)
    BY <1>5 DEF CallsSay, CallEnds, IsLatest
  <2>4. UsageSays(0, 0)
    BY <1>5 DEF UsageSays
  <2>5. FlagsSay(NoResult.finish, NoResult.emitted, 0)
    BY <1>5 DEF FlagsSay, NoResult
  <2> QED BY <2>1, <2>2, <2>3, <2>4, <2>5 DEF Says
<1> QED BY <1>1, <1>3, <1>4, <1>6 DEF StreamInv

LEMMA StreamInvGives ==
    ASSUME StreamAssumption, StreamInv
    PROVE  ResponseIsFaithful
<1> DEFINE n == received \div 3
           calls == Of("open", n) \cup Of("args", n)
           usage == Latest(Of("usage", n), 0)
<1>1. n \in Nat
  <2>1. received \in Nat
    BY LineIs DEF StreamInv
  <2> QED BY <2>1
<1>2. Says(result, n, torn)
  BY DEF StreamInv
<1> HIDE DEF n
<1>3. \A kind, index : Of(kind, n) \in SUBSET Nat /\ Deltas(kind, index, n) \in SUBSET Nat
  BY <1>1, OfBelow
<1>4. Len(result.calls) = Latest(CallEnds(n), 0)
  BY <1>2, LatestIs DEF Says, CallsSay
<1>5. ASSUME NEW i \in 1..Len(result.calls)
      PROVE  /\ result.calls[i].id = Latest(Deltas("open", i - 1, n), 0)
             /\ InOrder(result.calls[i].args, Deltas("args", i - 1, n))
  <2>1. CallSays(result.calls[i], i, n)
    BY <1>2 DEF Says, CallsSay
  <2> QED BY <1>3, <2>1, LatestIs DEF CallSays
<1>6. result.usage = IF usage = 0 THEN 0 ELSE lines[usage].flat + lines[usage].nested
  <2>1. UsageSays(result.usage, n)
    BY <1>2 DEF Says
  <2>2. CASE Of("usage", n) = {} /\ result.usage = 0
    BY <2>2 DEF Latest
  <2>3. CASE \E k \in Of("usage", n) :
                /\ \A x \in Of("usage", n) : x <= k
                /\ result.usage = lines[k].flat + lines[k].nested
    <3>1. PICK k \in Of("usage", n) :
             /\ \A x \in Of("usage", n) : x <= k
             /\ result.usage = lines[k].flat + lines[k].nested
      BY <2>3
    <3>2. IsLatest(k, Of("usage", n), 0)
      BY <3>1 DEF IsLatest
    <3>3. usage = k
      BY <1>3, <3>2, LatestIs
    <3>4. k # 0
      BY <1>1, OfBelow
    <3> QED BY <3>1, <3>3, <3>4
  <2> QED BY <2>1, <2>2, <2>3 DEF UsageSays
<1>7. /\ result.finish <=> Of("stop", n) # {}
      /\ result.emitted <=> Of("text", n) \cup Of("open", n) \cup Of("args", n) # {}
  BY <1>2 DEF Says, FlagsSay
<1>8. /\ InOrder([i \in 1..Len(result.text) |-> result.text[i][1]], Of("text", n))
      /\ \A i \in 1..Len(result.text) : result.text[i][2] <=> result.text[i][1] \notin torn
  BY <1>2 DEF Says, TextSays
<1>9. CallEnds(n) = {lines[k].index + 1 : k \in calls}
  BY DEF CallEnds
<1>10. OutputIsFlagged
  BY <1>7 DEF OutputIsFlagged, n
<1>11. ParsedIsWhatWasSent
  <2> HIDE DEF usage, calls
  <2> QED BY <1>4, <1>5, <1>6, <1>7, <1>8, <1>9 DEF ParsedIsWhatWasSent, n, usage, calls
<1> QED BY <1>10, <1>11 DEF ResponseIsFaithful

(* However a response is cut into chunks and wherever the stream ends, what *)
(* the caller gets is what its complete lines say (client.rs 187-301,      *)
(* 310-333): bodies of any length, any indexes of calls, chunks of any     *)
(* size.                                                                   *)
THEOREM ResponsesFaithful == StreamSpec => []ResponseIsFaithful
<1>1. StreamInit => StreamInv
  BY StreamInvStart, StreamAssumption
<1>2. StreamInv /\ [StreamNext]_streamVars => StreamInv'
  BY StreamInvStep, StreamAssumption
<1>3. StreamInv => ResponseIsFaithful
  BY StreamInvGives, StreamAssumption
<1> QED BY <1>1, <1>2, <1>3, PTL DEF StreamSpec

-----------------------------------------------------------------------------
(* The braces are bytes like the others: what tells them apart.  (The SMT  *)
(* backend cannot be given a string with a brace in it.)                   *)

LEMMA Braces ==
    /\ LBrace # "$" /\ LBrace # ":" /\ RBrace # "$" /\ RBrace # ":" /\ LBrace # RBrace
    /\ LBrace # "C3" /\ LBrace # "A9"
    /\ LBrace \in ByteSet /\ RBrace \in ByteSet
<1>1. LBrace # "$" /\ LBrace # ":" /\ RBrace # "$" /\ RBrace # ":" /\ LBrace # RBrace
  BY Zenon DEF LBrace, RBrace
<1>2. LBrace # "C3" /\ LBrace # "A9"
  BY Zenon DEF LBrace
<1>3. LBrace \in ByteSet /\ RBrace \in ByteSet
  BY DEF ByteSet
<1> QED BY <1>1, <1>2, <1>3

-----------------------------------------------------------------------------
(* Sequences *)

LEMMA OneLong ==
    ASSUME NEW X, NEW a \in X
    PROVE  <<a>> \in Seq(X) /\ Len(<<a>>) = 1 /\ <<a>>[1] = a
OBVIOUS

LEMMA TwoLong ==
    ASSUME NEW X, NEW a \in X, NEW b \in X
    PROVE  <<a, b>> \in Seq(X) /\ Len(<<a, b>>) = 2 /\ <<a, b>>[1] = a /\ <<a, b>>[2] = b
OBVIOUS

LEMMA SeqOfMore ==
    ASSUME NEW X, NEW Y, X \subseteq Y, NEW s \in Seq(X)
    PROVE  s \in Seq(Y)
<1>1. \A i \in 1..Len(s) : s[i] \in Y
  OBVIOUS
<1> QED BY <1>1

(* st is t behind s. *)
IsConcat(st, s, t) ==
    /\ Len(st) = Len(s) + Len(t) /\ Len(s) \in Nat /\ Len(t) \in Nat
    /\ \A i \in 1..Len(s) : st[i] = s[i]
    /\ \A i \in 1..Len(t) : st[Len(s) + i] = t[i]

LEMMA Concatenated ==
    ASSUME NEW X, NEW s \in Seq(X), NEW t \in Seq(X)
    PROVE  s \o t \in Seq(X) /\ IsConcat(s \o t, s, t)
BY DEF IsConcat

LEMMA Regrouped ==
    ASSUME NEW X, NEW s \in Seq(X), NEW t \in Seq(X), NEW u \in Seq(X)
    PROVE  (s \o t) \o u = s \o (t \o u)
BY ConcatAssociative

Regroups(p, s, c, q, k) == (((p \o s) \o c) \o q) \o k = p \o (((s \o c) \o q) \o k)

LEMMA RegroupedFive ==
    ASSUME NEW X, NEW p \in Seq(X), NEW s \in Seq(X), NEW c \in Seq(X), NEW q \in Seq(X), NEW k \in Seq(X)
    PROVE  Regroups(p, s, c, q, k)
<1>1. (p \o s) \o c = p \o (s \o c)
  BY SMTT(30), Regrouped
<1>2. \A t \in Seq(X) : (p \o t) \o q = p \o (t \o q) /\ (p \o t) \o k = p \o (t \o k)
  <2> SUFFICES ASSUME NEW t \in Seq(X)
               PROVE  (p \o t) \o q = p \o (t \o q) /\ (p \o t) \o k = p \o (t \o k)
    OBVIOUS
  <2>1. (p \o t) \o q = p \o (t \o q)
    BY SMTT(30), Regrouped
  <2>2. (p \o t) \o k = p \o (t \o k)
    BY SMTT(30), Regrouped
  <2> QED BY <2>1, <2>2
<1>3. s \o c \in Seq(X) /\ (s \o c) \o q \in Seq(X)
  <2>1. s \o c \in Seq(X)
    BY Concatenated
  <2>2. \A t \in Seq(X) : t \o q \in Seq(X)
    BY Concatenated
  <2> QED BY <2>1, <2>2
<1>4. (p \o (s \o c)) \o q = p \o ((s \o c) \o q)
  BY <1>2, <1>3, Zenon
<1>5. (p \o ((s \o c) \o q)) \o k = p \o (((s \o c) \o q) \o k)
  BY <1>2, <1>3, Zenon
<1>6. (((p \o s) \o c) \o q) \o k = p \o (((s \o c) \o q) \o k)
  BY <1>1, <1>4, <1>5, Zenon
<1> QED BY <1>6 DEF Regroups

(* Two in front of a sequence and one behind it. *)
Wrapped(s, a, b, c) == (<<a, b>> \o s) \o <<c>>

IsWrapped(X, w, s, a, b, c) ==
    /\ w \in Seq(X) /\ Len(w) = Len(s) + 3
    /\ w[1] = a /\ w[2] = b /\ w[Len(s) + 3] = c
    /\ \A j \in 1..Len(s) : w[2 + j] = s[j]

LEMMA WrappedIs ==
    ASSUME NEW X, NEW a \in X, NEW b \in X, NEW c \in X, NEW s \in Seq(X)
    PROVE  IsWrapped(X, Wrapped(s, a, b, c), s, a, b, c)
<1>1. <<a, b>> \in Seq(X) /\ <<c>> \in Seq(X)
  BY OneLong, TwoLong
<1>2. PICK u : u = <<a, b>> \o s
  OBVIOUS
<1>3. u \in Seq(X) /\ IsConcat(u, <<a, b>>, s)
  BY <1>1, <1>2, Concatenated
<1>4. u \in Seq(X) /\ Len(u) = 2 + Len(s) /\ Len(s) \in Nat /\ u[1] = a /\ u[2] = b
      /\ \A j \in 1..Len(s) : u[2 + j] = s[j]
  BY <1>3 DEF IsConcat
<1>5. PICK r : r = u \o <<c>>
  OBVIOUS
<1>6. r \in Seq(X) /\ IsConcat(r, u, <<c>>)
  BY <1>1, <1>4, <1>5, Concatenated
<1>7. r \in Seq(X) /\ Len(r) = Len(s) + 3 /\ r[Len(s) + 3] = c /\ \A j \in 1..(2 + Len(s)) : r[j] = u[j]
  BY <1>4, <1>6 DEF IsConcat
<1>8. r[1] = a /\ r[2] = b /\ \A j \in 1..Len(s) : r[2 + j] = s[j]
  BY <1>4, <1>7
<1>9. Wrapped(s, a, b, c) = r
  BY <1>2, <1>5 DEF Wrapped
<1> QED BY <1>7, <1>8, <1>9 DEF IsWrapped

-----------------------------------------------------------------------------
(* Configuration values: sequences put together from sequences. *)

IsFlattening(q, X, g) ==
    /\ g \in [0..Len(q) -> Seq(X)]
    /\ g[0] = <<>>
    /\ \A k \in 1..Len(q) : g[k] = g[k - 1] \o q[k]
    /\ FlattenSeq(q) = g[Len(q)]

HasFlattening(q, X) == \E g : IsFlattening(q, X, g)

LEMMA FlatteningExists ==
    ASSUME NEW X, NEW q \in Seq(Seq(X))
    PROVE  HasFlattening(q, X)
<1> DEFINE n == Len(q)
           step == [k \in 0..n |-> [x \in Seq(X) |-> IF k = 0 THEN x ELSE x \o q[k]]]
           Flattens(f) == f = [i \in 1..n |-> IF i = 1 THEN q[i] ELSE f[i - 1] \o q[i]]
<1>0. n \in Nat /\ \A k \in 1..n : q[k] \in Seq(X)
  OBVIOUS
<1>1. PICK g \in [0..n -> Seq(X)] : g[0] = <<>> /\ \A k \in 0..n : k # 0 => g[k] = step[k][g[k - 1]]
  <2>1. step \in [0..n -> [Seq(X) -> Seq(X)]]
    <3>1. \A k \in 0..n, x \in Seq(X) : (IF k = 0 THEN x ELSE x \o q[k]) \in Seq(X)
      BY <1>0
    <3> QED BY <3>1
  <2>2. <<>> \in Seq(X) /\ 0 \in Nat /\ 0 <= n
    BY <1>0
  <2> HIDE DEF step, n
  <2>3. HasRecursion(0, n, Seq(X), <<>>, step)
    BY <1>0, <2>1, <2>2, RecursionExists
  <2> QED BY <2>3 DEF HasRecursion
<1>2. ASSUME NEW k \in 1..n PROVE g[k] = g[k - 1] \o q[k]
  <2>1. k - 1 \in 0..n /\ k \in 0..n /\ k # 0
    BY <1>0
  <2>2. g[k - 1] \in Seq(X)
    BY <1>1, <2>1
  <2>3. step[k][g[k - 1]] = g[k - 1] \o q[k]
    BY <2>1, <2>2
  <2> HIDE DEF step
  <2> QED BY <1>1, <2>1, <2>3
<1>3. FlattenSeq(q) = g[n]
  <2>1. CASE n = 0
    <3>1. q = <<>> /\ g[n] = <<>>
      BY <1>1, <2>1
    <3>2. FlattenSeq(q) = q
      BY <2>1 DEF FlattenSeq
    <3> QED BY <3>1, <3>2
  <2>2. CASE n # 0
    <3> DEFINE h == [i \in 1..n |-> g[i]]
    <3>1. Flattens(h)
      <4>1. ASSUME NEW i \in 1..n PROVE g[i] = IF i = 1 THEN q[i] ELSE h[i - 1] \o q[i]
        <5>1. CASE i = 1
          <6>0. 1 - 1 = 0 /\ 1 \in 1..n
            BY <5>1
          <6>2. g[1] = g[0] \o q[1]
            BY <1>2, <6>0
          <6>1. g[1] = <<>> \o q[1] /\ q[1] \in Seq(X)
            BY <1>0, <1>1, <6>0, <6>2
          <6> QED BY <5>1, <6>1
        <5>2. CASE i # 1
          <6>1. i - 1 \in 1..n /\ h[i - 1] = g[i - 1]
            BY <1>0, <5>2
          <6> QED BY <1>2, <5>2, <6>1
        <5> QED BY <5>1, <5>2
      <4> QED BY <4>1
    <3> DEFINE f == CHOOSE x : Flattens(x)
    <3>2. Flattens(f) /\ FlattenSeq(q) = f[n]
      BY <2>2, <3>1 DEF FlattenSeq
    <3> HIDE DEF f
    <3> DEFINE T == {i \in 1..n : f[i] # g[i]}
    <3>3. T = {}
      <4> SUFFICES ASSUME T # {} PROVE FALSE
        OBVIOUS
      <4>1. PICK i \in T : \A j \in T : i <= j
        <5>1. T \in SUBSET Nat
          BY <1>0
        <5> HIDE DEF T
        <5> QED BY <5>1, LeastNat
      <4>2. i \in 1..n /\ f[i] # g[i]
        BY <4>1
      <4>3. f[i] = IF i = 1 THEN q[i] ELSE f[i - 1] \o q[i]
        BY <3>2, <4>2
      <4>4. h[i] = IF i = 1 THEN q[i] ELSE h[i - 1] \o q[i]
        BY <3>1, <4>2
      <4>5. CASE i = 1
        BY <4>2, <4>3, <4>4, <4>5
      <4>6. CASE i # 1
        <5>1. i - 1 \in 1..n
          BY <1>0, <4>2, <4>6
        <5>2. i - 1 \notin T
          <6> HIDE DEF T
          <6> QED BY <1>0, <4>1, <4>2
        <5>3. f[i - 1] = g[i - 1]
          BY <5>1, <5>2
        <5> QED BY <4>2, <4>3, <4>4, <4>6, <5>1, <5>3
      <4> QED BY <4>5, <4>6
    <3>4. n \in 1..n
      BY <1>0, <2>2
    <3> QED BY <3>2, <3>3, <3>4
  <2> QED BY <2>1, <2>2
<1>4. IsFlattening(q, X, g)
  BY <1>1, <1>2, <1>3 DEF IsFlattening
<1> QED BY <1>4 DEF HasFlattening

(* What is put together first stays where it is. *)
StartsWith(s, t) == Len(t) <= Len(s) /\ \A i \in 1..Len(t) : s[i] = t[i]

LEMMA FlatteningGrows ==
    ASSUME NEW X, NEW q \in Seq(Seq(X)), NEW g, IsFlattening(q, X, g), NEW k \in 0..Len(q)
    PROVE  \A j \in k..Len(q) : StartsWith(g[j], g[k])
<1> DEFINE Grown(j) == Len(g[k]) <= Len(g[j]) /\ \A i \in 1..Len(g[k]) : g[j][i] = g[k][i]
           T == {j \in k..Len(q) : ~Grown(j)}
<1>0. Len(q) \in Nat /\ k \in Nat /\ \A j \in 0..Len(q) : g[j] \in Seq(X)
  <2>1. Len(q) \in Nat
    OBVIOUS
  <2>2. g \in [0..Len(q) -> Seq(X)]
    BY DEF IsFlattening
  <2>3. k \in Nat
    BY <2>1
  <2>4. \A j \in 0..Len(q) : g[j] \in Seq(X)
    BY <2>2
  <2> QED BY <2>1, <2>3, <2>4
<1>1. T = {}
  <2> SUFFICES ASSUME T # {} PROVE FALSE
    OBVIOUS
  <2>1. PICK j \in T : \A i \in T : j <= i
    <3>1. T \in SUBSET Nat
      BY <1>0
    <3> HIDE DEF T
    <3> QED BY <3>1, LeastNat
  <2>2. j \in k..Len(q) /\ ~Grown(j) /\ j \in Nat
    BY <1>0, <2>1
  <2>3. CASE j = k
    <3>1. Len(g[k]) \in Nat
      BY <1>0
    <3> QED BY <2>2, <2>3, <3>1
  <2>4. CASE j # k
    <3>1. j - 1 \in k..Len(q) /\ j \in 1..Len(q) /\ j - 1 \in 0..Len(q)
      BY <1>0, <2>2, <2>4
    <3>2. j - 1 \notin T
      <4> HIDE DEF T
      <4> QED BY <2>1, <2>2
    <3>3. Grown(j - 1)
      BY <3>1, <3>2
    <3>4. g[j - 1] \in Seq(X) /\ g[k] \in Seq(X)
      BY <1>0, <3>1
    <3>5. q[j] \in Seq(X)
      BY <3>1
    <3>6. g[j] = g[j - 1] \o q[j]
      BY <3>1 DEF IsFlattening
    <3>7. /\ Len(g[j]) = Len(g[j - 1]) + Len(q[j]) /\ Len(q[j]) \in Nat /\ Len(g[j - 1]) \in Nat
          /\ \A i \in 1..Len(g[j - 1]) : g[j][i] = g[j - 1][i]
      <4>1. IsConcat(g[j - 1] \o q[j], g[j - 1], q[j])
        BY <3>4, <3>5, Concatenated
      <4> QED BY <3>6, <4>1 DEF IsConcat
    <3>8. Len(g[k]) \in Nat
      BY <3>4
    <3>9. ASSUME NEW i \in 1..Len(g[k]) PROVE g[j][i] = g[k][i]
      <4>1. i \in 1..Len(g[j - 1])
        BY <3>3, <3>7, <3>8
      <4> QED BY <3>3, <3>7, <4>1
    <3>10. Len(g[k]) <= Len(g[j])
      <4>1. PICK a, b, c : a = Len(g[k]) /\ b = Len(g[j - 1]) /\ c = Len(q[j])
        OBVIOUS
      <4>2. a \in Nat /\ b \in Nat /\ c \in Nat /\ a <= b /\ Len(g[j]) = b + c
        BY <3>3, <3>7, <3>8, <4>1
      <4>3. a <= b + c
        BY <4>2
      <4> QED BY <4>1, <4>2, <4>3
    <3> QED BY <2>2, <3>9, <3>10
  <2> QED BY <2>3, <2>4
<1> QED BY <1>1 DEF StartsWith

-----------------------------------------------------------------------------
(* Configuration values: how a segment and a value are written. *)

LEMMA WritableIs ==
    ASSUME NEW x \in Segments
    PROVE  \/ /\ x.kind = "literal"
              /\ x = Literal(x.text)
              /\ x.text \in Seq(ByteSet) /\ x.text # <<>>
           \/ /\ x.kind = "ref"
              /\ x = Ref(x.scheme, x.path, x.key)
              /\ x.scheme \in Seq(ByteSet \ {":", RBrace}) /\ x.scheme # <<>>
              /\ x.path \in Seq(ByteSet \ {":", RBrace}) /\ x.path # <<>>
              /\ x.key = NoKey \/ x.key \in Seq(ByteSet \ {RBrace})
<1>1. Writable(x)
  BY ReferenceAssumption
<1> QED BY <1>1 DEF Writable

Escape(b) == IF b = "$" THEN <<"$", "$">> ELSE <<b>>
Escapes(text) == [i \in 1..Len(text) |-> Escape(text[i])]

LEMMA EscapesAre ==
    ASSUME NEW text \in Seq(ByteSet)
    PROVE  /\ Escapes(text) \in Seq(Seq(ByteSet)) /\ Len(Escapes(text)) = Len(text)
           /\ \A i \in 1..Len(text) : Escapes(text)[i] = Escape(text[i])
           /\ Render(Literal(text)) = FlattenSeq(Escapes(text))
<1>1. ASSUME NEW b \in ByteSet PROVE Escape(b) \in Seq(ByteSet)
  BY <1>1, OneLong, TwoLong DEF Escape
<1>2. \A i \in 1..Len(text) : text[i] \in ByteSet
  OBVIOUS
<1>3. \A i \in 1..Len(text) : Escape(text[i]) \in Seq(ByteSet)
  BY <1>1, <1>2
<1>4. Escapes(text) \in Seq(Seq(ByteSet)) /\ Len(Escapes(text)) = Len(text)
  BY <1>3 DEF Escapes
<1>5. Literal(text).kind = "literal" /\ Literal(text).text = text
  BY DEF Literal
<1>6. Render(Literal(text)) = FlattenSeq(Escapes(text))
  BY <1>5 DEF Render, Escapes, Escape
<1> QED BY <1>4, <1>6 DEF Escapes

RefBody(x) == x.scheme \o <<":">> \o x.path \o (IF x.key = NoKey THEN <<>> ELSE <<":">> \o x.key)

LEMMA RefBodyIs ==
    ASSUME NEW x \in Segments, x.kind = "ref"
    PROVE  /\ RefBody(x) \in Seq(ByteSet \ {RBrace})
           /\ Render(x) \in Seq(ByteSet)
           /\ Len(Render(x)) = Len(RefBody(x)) + 3
           /\ Render(x)[1] = "$" /\ Render(x)[2] = LBrace /\ Render(x)[Len(RefBody(x)) + 3] = RBrace
           /\ \A j \in 1..Len(RefBody(x)) : Render(x)[2 + j] = RefBody(x)[j]
<1> DEFINE B == ByteSet \ {RBrace}
           K == IF x.key = NoKey THEN <<>> ELSE <<":">> \o x.key
<1>0. /\ x.scheme \in Seq(ByteSet \ {":", RBrace}) /\ x.path \in Seq(ByteSet \ {":", RBrace})
      /\ x.key = NoKey \/ x.key \in Seq(B)
  BY WritableIs
<1>1. x.scheme \in Seq(B) /\ x.path \in Seq(B)
  <2>1. ByteSet \ {":", RBrace} \subseteq B
    OBVIOUS
  <2> HIDE DEF B
  <2> QED BY <1>0, <2>1, SeqOfMore
<1>2. ":" \in B /\ {"$", LBrace, RBrace} \subseteq ByteSet /\ B \subseteq ByteSet
  BY Braces DEF ByteSet
<1> HIDE DEF B
<1>3. <<":">> \in Seq(B)
  BY <1>2, OneLong
<1>4. K \in Seq(B)
  <2>1. CASE x.key = NoKey
    BY <2>1
  <2>2. CASE x.key # NoKey
    BY <1>0, <1>3, <2>2, Concatenated
  <2> QED BY <2>1, <2>2
<1> HIDE DEF K
<1>5. RefBody(x) \in Seq(B)
  <2>1. RefBody(x) = x.scheme \o <<":">> \o x.path \o K
    BY DEF RefBody, K
  <2>2. x.scheme \o <<":">> \in Seq(B)
    BY <1>1, <1>3, Concatenated
  <2>3. x.scheme \o <<":">> \o x.path \in Seq(B)
    BY <1>1, <2>2, Concatenated
  <2> QED BY <1>4, <2>1, <2>3, Concatenated
<1>6. RefBody(x) \in Seq(ByteSet) /\ Len(RefBody(x)) \in Nat
  <2>1. B \subseteq ByteSet
    BY <1>2
  <2>2. RefBody(x) \in Seq(ByteSet)
    BY <1>5, <2>1, SeqOfMore
  <2> QED BY <2>2
<1>7. Render(x) = (<<"$", LBrace>> \o RefBody(x)) \o <<RBrace>>
  <2>1. Render(x) = <<"$", LBrace>> \o x.scheme \o <<":">> \o x.path \o K \o <<RBrace>>
    BY DEF Render, K
  <2>2. RefBody(x) = x.scheme \o <<":">> \o x.path \o K
    BY DEF RefBody, K
  <2> DEFINE p == <<"$", LBrace>>
             d == <<RBrace>>
             s == x.scheme
             c == <<":">>
             q == x.path
  <2>3. p \in Seq(ByteSet) /\ d \in Seq(ByteSet) /\ s \in Seq(ByteSet) /\ c \in Seq(ByteSet) /\ q \in Seq(ByteSet)
        /\ K \in Seq(ByteSet)
    BY <1>1, <1>2, <1>3, <1>4, SeqOfMore, OneLong, TwoLong
  <2> HIDE DEF p, d, s, c, q
  <2>4. Regroups(p, s, c, q, K)
    BY <2>3, RegroupedFive
  <2> QED BY <2>1, <2>2, <2>4 DEF p, d, s, c, q, Regroups
<1>8. Render(x) = Wrapped(RefBody(x), "$", LBrace, RBrace)
  BY <1>7, Zenon DEF Wrapped
<1>9. "$" \in ByteSet /\ LBrace \in ByteSet /\ RBrace \in ByteSet
  BY <1>2
<1> DEFINE b == RefBody(x)
           r == Wrapped(b, "$", LBrace, RBrace)
<1>10. b \in Seq(ByteSet)
  BY <1>6
<1> HIDE DEF b
<1>11. IsWrapped(ByteSet, r, b, "$", LBrace, RBrace)
  BY <1>9, <1>10, WrappedIs
<1>12. r = Render(x)
  BY <1>8 DEF b
<1> HIDE DEF r
<1> QED BY <1>5, <1>11, <1>12, Zenon DEF b, B, IsWrapped

LEMMA RenderIs ==
    ASSUME NEW x \in Segments
    PROVE  Render(x) \in Seq(ByteSet)
<1>1. CASE x.kind = "literal"
  <2>1. x = Literal(x.text) /\ x.text \in Seq(ByteSet)
    BY <1>1, WritableIs
  <2>2. Escapes(x.text) \in Seq(Seq(ByteSet)) /\ Render(x) = FlattenSeq(Escapes(x.text))
    BY <2>1, EscapesAre
  <2>3. PICK g : IsFlattening(Escapes(x.text), ByteSet, g)
    BY <2>2, FlatteningExists DEF HasFlattening
  <2>4. Len(Escapes(x.text)) \in 0..Len(Escapes(x.text))
    BY <2>2
  <2> QED BY <2>2, <2>3, <2>4 DEF IsFlattening
<1>2. CASE x.kind = "ref"
  BY <1>2, RefBodyIs
<1> QED BY <1>1, <1>2, WritableIs

Renders(segs) == [i \in 1..Len(segs) |-> Render(segs[i])]

LEMMA RendersAre ==
    ASSUME NEW segs \in Seq(Segments)
    PROVE  /\ Renders(segs) \in Seq(Seq(ByteSet)) /\ Len(Renders(segs)) = Len(segs)
           /\ \A i \in 1..Len(segs) : Renders(segs)[i] = Render(segs[i])
           /\ Value(segs) = FlattenSeq(Renders(segs))
           /\ Value(segs) \in Seq(ByteSet)
<1>1. \A i \in 1..Len(segs) : Render(segs[i]) \in Seq(ByteSet)
  BY RenderIs
<1>2. Renders(segs) \in Seq(Seq(ByteSet)) /\ Len(Renders(segs)) = Len(segs)
  BY <1>1 DEF Renders
<1>3. Value(segs) = FlattenSeq(Renders(segs))
  BY DEF Value, Renders
<1>4. PICK g : IsFlattening(Renders(segs), ByteSet, g)
  BY <1>2, FlatteningExists DEF HasFlattening
<1>5. Len(Renders(segs)) \in 0..Len(Renders(segs))
  BY <1>2
<1> QED BY <1>2, <1>3, <1>4, <1>5 DEF IsFlattening, Renders

LEMMA ValueOfNone == Value(<<>>) = <<>>
<1>1. <<>> \in Seq(Segments) /\ Len(<<>>) = 0
  OBVIOUS
<1>2. Len(Renders(<<>>)) = 0 /\ Renders(<<>>) \in Seq(Seq(ByteSet)) /\ Value(<<>>) = FlattenSeq(Renders(<<>>))
  BY <1>1, RendersAre
<1>3. FlattenSeq(Renders(<<>>)) = Renders(<<>>)
  BY <1>2 DEF FlattenSeq
<1> QED BY <1>2, <1>3

(* A further segment is written behind the others. *)
LEMMA ValueAppend ==
    ASSUME NEW segs \in Seq(Segments), NEW x \in Segments
    PROVE  Value(Append(segs, x)) = Value(segs) \o Render(x)
<1> DEFINE more == Append(segs, x)
           n == Len(segs)
<1>1. more \in Seq(Segments) /\ Len(more) = n + 1 /\ n \in Nat /\ more[n + 1] = x /\ \A i \in 1..n : more[i] = segs[i]
  OBVIOUS
<1> HIDE DEF more, n
<1>2. PICK g : IsFlattening(Renders(segs), ByteSet, g)
  BY RendersAre, FlatteningExists DEF HasFlattening
<1>3. PICK h : IsFlattening(Renders(more), ByteSet, h)
  BY <1>1, RendersAre, FlatteningExists DEF HasFlattening
<1>4. Len(Renders(segs)) = n /\ \A i \in 1..n : Renders(segs)[i] = Render(segs[i])
  BY RendersAre DEF n
<1>5. Len(Renders(more)) = n + 1 /\ \A i \in 1..(n + 1) : Renders(more)[i] = Render(more[i])
  BY <1>1, RendersAre
<1>6. g[0] = <<>> /\ \A k \in 1..n : g[k] = g[k - 1] \o Render(segs[k])
  BY <1>2, <1>4 DEF IsFlattening
<1>7. h[0] = <<>> /\ \A k \in 1..(n + 1) : h[k] = h[k - 1] \o Render(more[k])
  BY <1>3, <1>5 DEF IsFlattening
<1> DEFINE T == {k \in 0..n : h[k] # g[k]}
<1>8. T = {}
  <2> SUFFICES ASSUME T # {} PROVE FALSE
    OBVIOUS
  <2>1. PICK k \in T : \A j \in T : k <= j
    <3>1. T \in SUBSET Nat
      BY <1>1
    <3> HIDE DEF T
    <3> QED BY <3>1, LeastNat
  <2>2. k \in 0..n /\ h[k] # g[k]
    BY <2>1
  <2>3. k \in 1..n /\ k \in 1..(n + 1) /\ k - 1 \in 0..n
    BY <1>1, <1>6, <1>7, <2>2
  <2>4. k - 1 \notin T
    <3> HIDE DEF T
    <3> QED BY <1>1, <2>1, <2>3
  <2>5. h[k - 1] = g[k - 1] /\ more[k] = segs[k]
    BY <1>1, <2>3, <2>4
  <2> QED BY <1>6, <1>7, <2>2, <2>3, <2>5
<1>9. h[n] = g[n] /\ h[n + 1] = h[n] \o Render(more[n + 1])
  <2>1. n \in 0..n /\ n + 1 \in 1..(n + 1) /\ (n + 1) - 1 = n
    BY <1>1
  <2> QED BY <1>7, <1>8, <2>1
<1>10. Value(segs) = g[n] /\ Value(more) = h[n + 1]
  BY <1>1, <1>2, <1>3, <1>4, <1>5, RendersAre DEF IsFlattening
<1> QED BY <1>1, <1>9, <1>10 DEF more

-----------------------------------------------------------------------------
(* Configuration values: how the parser reads. *)

Reading(at, buf, out) == [at |-> at, buf |-> buf, out |-> out]

(* The parser has a state after each position. *)
IsReading(s, g) ==
    /\ g[0] = Reading(1, <<>>, <<>>)
    /\ \A i \in 1..Len(s) : g[i] = ParseAt(s, i, g[i - 1])

LEMMA ReadingIs ==
    ASSUME NEW X, NEW s \in Seq(X)
    PROVE  IsReading(s, ParseUpTo(s))
<1> DEFINE N == Len(s)
           Is(g, n) == /\ g = [k \in 0..n |-> g[k]]
                       /\ g[0] = Reading(1, <<>>, <<>>)
                       /\ \A k \in 1..n : g[k] = ParseAt(s, k, g[k - 1])
           Reads(g) == g = [i \in 0..Len(s) |-> IF i = 0 THEN [at |-> 1, buf |-> <<>>, out |-> <<>>]
                                                ELSE ParseAt(s, i, g[i - 1])]
           T == {n \in 0..N : ~\E g : Is(g, n)}
<1>0. N \in Nat
  OBVIOUS
<1>1. T = {}
  <2> SUFFICES ASSUME T # {} PROVE FALSE
    OBVIOUS
  <2>1. PICK n \in T : \A m \in T : n <= m
    <3>1. T \in SUBSET Nat
      BY <1>0
    <3> HIDE DEF T
    <3> QED BY <3>1, LeastNat
  <2>2. n \in 0..N /\ ~\E g : Is(g, n)
    BY <2>1
  <2>3. CASE n = 0
    <3> DEFINE g == [k \in 0..n |-> Reading(1, <<>>, <<>>)]
    <3>1. Is(g, n)
      BY <2>3
    <3> QED BY <2>2, <3>1
  <2>4. CASE n # 0
    <3>1. n - 1 \in 0..N /\ n \in Nat /\ n - 1 \in Nat
      BY <1>0, <2>2, <2>4
    <3>2. n - 1 \notin T
      <4> HIDE DEF T
      <4> QED BY <2>1, <3>1
    <3>3. PICK h : Is(h, n - 1)
      BY <3>1, <3>2
    <3> DEFINE g == [k \in 0..n |-> IF k = n THEN ParseAt(s, n, h[n - 1]) ELSE h[k]]
    <3>4. g = [k \in 0..n |-> g[k]]
      OBVIOUS
    <3>5. g[0] = Reading(1, <<>>, <<>>)
      <4>1. 0 \in 0..n /\ 0 # n
        BY <2>4, <3>1
      <4> QED BY <3>3, <4>1
    <3>6. ASSUME NEW k \in 1..n PROVE g[k] = ParseAt(s, k, g[k - 1])
      <4>1. k \in 0..n /\ k - 1 \in 0..n /\ k - 1 # n
        BY <3>1
      <4>2. g[k - 1] = h[k - 1]
        BY <4>1
      <4>3. CASE k = n
        BY <4>1, <4>2, <4>3
      <4>4. CASE k # n
        <5>1. k \in 1..(n - 1)
          BY <3>1, <4>4
        <5>2. h[k] = ParseAt(s, k, h[k - 1])
          BY <3>3, <5>1
        <5>3. g[k] = h[k]
          BY <4>1, <4>4
        <5> QED BY <4>2, <5>2, <5>3
      <4> QED BY <4>3, <4>4
    <3> HIDE DEF g
    <3>7. Is(g, n)
      BY <3>4, <3>5, <3>6
    <3> QED BY <2>2, <3>7
  <2> QED BY <2>3, <2>4
<1>2. PICK g : Is(g, N)
  <2>1. N \in 0..N /\ N \notin T
    BY <1>0, <1>1
  <2> QED BY <2>1
<1>3. Reads(g)
  <2>1. ASSUME NEW i \in 0..N
        PROVE  g[i] = IF i = 0 THEN [at |-> 1, buf |-> <<>>, out |-> <<>>] ELSE ParseAt(s, i, g[i - 1])
    <3>1. CASE i = 0
      BY <1>2, <3>1 DEF Reading
    <3>2. CASE i # 0
      <4>1. i \in 1..N
        BY <1>0, <3>2
      <4> QED BY <1>2, <3>2, <4>1
    <3> QED BY <3>1, <3>2
  <2>2. g = [k \in 0..N |-> g[k]]
    BY <1>2
  <2> HIDE DEF Is
  <2> QED BY <2>1, <2>2
<1> DEFINE f == ParseUpTo(s)
<1>4. Reads(f)
  BY <1>3 DEF ParseUpTo
<1> HIDE DEF f
<1>5. 0 \in 0..N /\ \A i \in 1..N : i \in 0..N /\ i # 0
  BY <1>0
<1>6. f[0] = [at |-> 1, buf |-> <<>>, out |-> <<>>] /\ \A i \in 1..N : f[i] = ParseAt(s, i, f[i - 1])
  BY <1>4, <1>5
<1> QED BY <1>6 DEF IsReading, Reading, f

(* Positions the parser has jumped over change nothing. *)
LEMMA Skips ==
    ASSUME NEW X, NEW s \in Seq(X), NEW p \in 0..Len(s), NEW r \in p..Len(s),
           NEW at \in Nat, NEW buf, NEW out, r < at,
           ParseUpTo(s)[p] = Reading(at, buf, out)
    PROVE  ParseUpTo(s)[r] = Reading(at, buf, out)
<1> DEFINE g == ParseUpTo(s)
           T == {i \in p..r : g[i] # Reading(at, buf, out)}
<1>0. Len(s) \in Nat /\ p \in Nat /\ r \in Nat /\ r <= Len(s)
  OBVIOUS
<1>1. T = {}
  <2> SUFFICES ASSUME T # {} PROVE FALSE
    OBVIOUS
  <2>1. PICK i \in T : \A j \in T : i <= j
    <3>1. T \in SUBSET Nat
      BY <1>0
    <3> HIDE DEF T
    <3> QED BY <3>1, LeastNat
  <2>2. i \in p..r /\ g[i] # Reading(at, buf, out)
    BY <2>1
  <2>3. i # p
    BY <2>2
  <2>4. i - 1 \in p..r /\ i \in 1..Len(s) /\ i < at
    BY <1>0, <2>2, <2>3
  <2>5. i - 1 \notin T
    <3> HIDE DEF T
    <3> QED BY <1>0, <2>1, <2>4
  <2>6. g[i - 1] = Reading(at, buf, out)
    BY <2>4, <2>5
  <2>7. g[i] = ParseAt(s, i, g[i - 1])
    BY <2>4, ReadingIs DEF IsReading
  <2>8. ParseAt(s, i, g[i - 1]) = g[i - 1]
    <3>1. g[i - 1].at = at
      BY <2>6 DEF Reading
    <3> HIDE DEF g
    <3> QED BY <2>4, <3>1 DEF ParseAt
  <2> QED BY <2>2, <2>6, <2>7, <2>8
<1>2. r \in p..r
  BY <1>0
<1> QED BY <1>1, <1>2

(* One step of the parser, at the position it has come to. *)
LEMMA ReadsEscape ==
    ASSUME NEW X, NEW s \in Seq(X), NEW i \in 1..Len(s), NEW buf, NEW out,
           ParseUpTo(s)[i - 1] = Reading(i, buf, out),
           i < Len(s), s[i] = "$", s[i + 1] = "$"
    PROVE  ParseUpTo(s)[i] = Reading(i + 2, Append(buf, "$"), out)
<1>1. ParseUpTo(s)[i] = ParseAt(s, i, Reading(i, buf, out))
  BY ReadingIs DEF IsReading
<1>2. Reading(i, buf, out).at = i /\ Reading(i, buf, out).buf = buf /\ Reading(i, buf, out).out = out
  BY DEF Reading
<1>3. ~(i < i) /\ s[i + 1] # LBrace
  BY Braces
<1> QED BY <1>1, <1>2, <1>3 DEF ParseAt, Reading

LEMMA ReadsByte ==
    ASSUME NEW X, NEW s \in Seq(X), NEW i \in 1..Len(s), NEW buf, NEW out,
           ParseUpTo(s)[i - 1] = Reading(i, buf, out),
           s[i] # "$"
    PROVE  ParseUpTo(s)[i] = Reading(i + 1, Append(buf, AsChar(s[i])), out)
<1>1. ParseUpTo(s)[i] = ParseAt(s, i, Reading(i, buf, out))
  BY ReadingIs DEF IsReading
<1>2. Reading(i, buf, out).at = i /\ Reading(i, buf, out).buf = buf /\ Reading(i, buf, out).out = out
  BY DEF Reading
<1>3. ~(i < i)
  OBVIOUS
<1> QED BY <1>1, <1>2, <1>3 DEF ParseAt, Reading

ReferenceRead(s, i, buf, out) ==
    LET end  == Find(s, RBrace, i + 2)
        body == ParseRefBody(SubSeq(s, i + 2, end - 1))
    IN  IF end = 0 \/ body = BadReference THEN Reading(Len(s) + 1, <<>>, BadReference)
        ELSE Reading(end + 1, <<>>, Flushed(out, buf) \o body)

LEMMA ReadsReference ==
    ASSUME NEW X, NEW s \in Seq(X), NEW i \in 1..Len(s), NEW buf, NEW out,
           ParseUpTo(s)[i - 1] = Reading(i, buf, out),
           i < Len(s), s[i] = "$", s[i + 1] = LBrace
    PROVE  ParseUpTo(s)[i] = ReferenceRead(s, i, buf, out)
<1>1. ParseUpTo(s)[i] = ParseAt(s, i, Reading(i, buf, out))
  BY ReadingIs DEF IsReading
<1>2. Reading(i, buf, out).at = i /\ Reading(i, buf, out).buf = buf /\ Reading(i, buf, out).out = out
  BY DEF Reading
<1>3. ~(i < i)
  OBVIOUS
<1>4. s[i + 1] # "$"
  BY Braces
<1> QED BY <1>1, <1>2, <1>3, <1>4 DEF ParseAt, Reading, ReferenceRead

-----------------------------------------------------------------------------
(* Configuration values: where the parser finds what. *)

LEMMA MinIs ==
    ASSUME NEW S \in SUBSET Nat, NEW k \in S, \A i \in S : k <= i
    PROVE  Min(S) = k
<1>1. Min(S) \in S /\ \A i \in S : Min(S) <= i
  BY DEF Min
<1>2. PICK m : m = Min(S)
  OBVIOUS
<1>3. m \in Nat /\ k \in Nat /\ m <= k /\ k <= m
  BY <1>1, <1>2
<1> QED BY <1>2, <1>3

LEMMA FindIs ==
    ASSUME NEW s, Len(s) \in Nat, NEW c, NEW from \in Nat, NEW k \in from..Len(s), s[k] = c,
           \A i \in from..(k - 1) : s[i] # c
    PROVE  Find(s, c, from) = k
<1> DEFINE S == {i \in from..Len(s) : s[i] = c}
<1>1. S \in SUBSET Nat /\ k \in S
  OBVIOUS
<1>2. \A i \in S : k <= i
  OBVIOUS
<1>3. S # {}
  BY <1>1
<1>4. Find(s, c, from) = Min(S)
  BY <1>3 DEF Find
<1> HIDE DEF S
<1> QED BY <1>1, <1>2, <1>4, MinIs

LEMMA FindsNone ==
    ASSUME NEW s, NEW c, NEW from \in Nat, \A i \in from..Len(s) : s[i] # c
    PROVE  Find(s, c, from) = 0
BY DEF Find

(* A subsequence is known by its length and its elements. *)
LEMMA SubSeqIs ==
    ASSUME NEW X, NEW s \in Seq(X), NEW b \in Seq(X), NEW from \in Nat, 1 <= from,
           from + Len(b) - 1 <= Len(s), \A j \in 1..Len(b) : s[from - 1 + j] = b[j]
    PROVE  SubSeq(s, from, from + Len(b) - 1) = b
<1> DEFINE u == SubSeq(s, from, from + Len(b) - 1)
<1>1. Len(b) \in Nat
  OBVIOUS
<1>2. u \in Seq(X) /\ Len(u) = Len(b)
  BY <1>1, SubSeqProperties
<1>3. \A j \in 1..Len(b) : u[j] = s[from - 1 + j]
  BY <1>1
<1> HIDE DEF u
<1>4. \A j \in 1..Len(b) : u[j] = b[j]
  BY <1>3
<1>5. u = b
  <2>1. \A j \in 1..Len(u) : u[j] = b[j]
    BY <1>2, <1>4
  <2> QED BY <1>2, <2>1, SeqEqual
<1> QED BY <1>5 DEF u

-----------------------------------------------------------------------------
(* Configuration values: a reference is read as it was written. *)

(* Four sequences in a row. *)
IsRow(r, s, c, q, k) ==
    /\ Len(s) \in Nat /\ Len(c) \in Nat /\ Len(q) \in Nat /\ Len(k) \in Nat
    /\ Len(r) = Len(s) + Len(c) + Len(q) + Len(k)
    /\ \A i \in 1..Len(s) : r[i] = s[i]
    /\ \A i \in 1..Len(c) : r[Len(s) + i] = c[i]
    /\ \A i \in 1..Len(q) : r[Len(s) + Len(c) + i] = q[i]
    /\ \A i \in 1..Len(k) : r[Len(s) + Len(c) + Len(q) + i] = k[i]

LEMMA RowIs ==
    ASSUME NEW X, NEW s \in Seq(X), NEW c \in Seq(X), NEW q \in Seq(X), NEW k \in Seq(X)
    PROVE  IsRow(s \o c \o q \o k, s, c, q, k)
<1>1. PICK u : u = s \o c
  OBVIOUS
<1>2. u \in Seq(X) /\ IsConcat(u, s, c)
  BY <1>1, Concatenated
<1>3. PICK v : v = u \o q
  OBVIOUS
<1>4. v \in Seq(X) /\ IsConcat(v, u, q)
  BY <1>2, <1>3, Concatenated
<1>5. PICK w : w = v \o k
  OBVIOUS
<1>6. w \in Seq(X) /\ IsConcat(w, v, k)
  BY <1>4, <1>5, Concatenated
<1>7. /\ Len(s) \in Nat /\ Len(c) \in Nat /\ Len(q) \in Nat /\ Len(k) \in Nat
      /\ Len(u) = Len(s) + Len(c) /\ Len(v) = Len(u) + Len(q) /\ Len(w) = Len(v) + Len(k)
  BY <1>2, <1>4, <1>6 DEF IsConcat
<1>8. ASSUME NEW i \in 1..Len(s) PROVE w[i] = s[i]
  <2>1. i \in 1..Len(u) /\ i \in 1..Len(v)
    BY <1>7
  <2> QED BY <1>2, <1>4, <1>6, <2>1 DEF IsConcat
<1>9. ASSUME NEW i \in 1..Len(c) PROVE w[Len(s) + i] = c[i]
  <2>1. Len(s) + i \in 1..Len(u) /\ Len(s) + i \in 1..Len(v)
    BY <1>7
  <2> QED BY <1>2, <1>4, <1>6, <2>1 DEF IsConcat
<1>10. ASSUME NEW i \in 1..Len(q) PROVE w[Len(s) + Len(c) + i] = q[i]
  <2>1. Len(u) + i \in 1..Len(v)
    BY <1>7
  <2>2. w[Len(u) + i] = q[i]
    BY <1>4, <1>6, <2>1 DEF IsConcat
  <2> QED BY <1>7, <2>2
<1>11. ASSUME NEW i \in 1..Len(k) PROVE w[Len(s) + Len(c) + Len(q) + i] = k[i]
  <2>1. w[Len(v) + i] = k[i]
    BY <1>6 DEF IsConcat
  <2> QED BY <1>7, <2>1
<1>12. w = s \o c \o q \o k
  BY <1>1, <1>3, <1>5
<1>13. Len(w) = Len(s) + Len(c) + Len(q) + Len(k)
  BY <1>7
<1>14. IsRow(w, s, c, q, k)
  BY <1>7, <1>8, <1>9, <1>10, <1>11, <1>13 DEF IsRow
<1> QED BY <1>12, <1>14

KeyPart(x) == IF x.key = NoKey THEN <<>> ELSE <<":">> \o x.key

LEMMA RefBodyRow ==
    ASSUME NEW x \in Segments, x.kind = "ref"
    PROVE  /\ RefBody(x) \in Seq(ByteSet) /\ KeyPart(x) \in Seq(ByteSet)
           /\ x.scheme \in Seq(ByteSet) /\ x.path \in Seq(ByteSet)
           /\ IsRow(RefBody(x), x.scheme, <<":">>, x.path, KeyPart(x))
<1>1. /\ x.scheme \in Seq(ByteSet \ {":", RBrace}) /\ x.path \in Seq(ByteSet \ {":", RBrace})
      /\ x.key = NoKey \/ x.key \in Seq(ByteSet \ {RBrace})
  BY WritableIs
<1>2. ByteSet \ {":", RBrace} \subseteq ByteSet /\ ByteSet \ {RBrace} \subseteq ByteSet /\ ":" \in ByteSet
  BY DEF ByteSet
<1>3. x.scheme \in Seq(ByteSet) /\ x.path \in Seq(ByteSet) /\ (x.key = NoKey \/ x.key \in Seq(ByteSet))
  BY <1>1, <1>2, SeqOfMore
<1>4. <<":">> \in Seq(ByteSet)
  BY <1>2, OneLong
<1>5. KeyPart(x) \in Seq(ByteSet)
  <2>1. CASE x.key = NoKey
    BY <2>1 DEF KeyPart
  <2>2. CASE x.key # NoKey
    BY <1>3, <1>4, <2>2, Concatenated DEF KeyPart
  <2> QED BY <2>1, <2>2
<1>6. RefBody(x) = x.scheme \o <<":">> \o x.path \o KeyPart(x)
  BY DEF RefBody, KeyPart
<1>7. IsRow(RefBody(x), x.scheme, <<":">>, x.path, KeyPart(x))
  BY <1>3, <1>4, <1>5, <1>6, RowIs
<1>8. RefBody(x) \in Seq(ByteSet)
  BY <1>2, RefBodyIs, SeqOfMore
<1> QED BY <1>3, <1>5, <1>7, <1>8

LEMMA RefBodyParses ==
    ASSUME NEW x \in Segments, x.kind = "ref"
    PROVE  ParseRefBody(RefBody(x)) = <<x>>
<1>1. PICK b : b = RefBody(x)
  OBVIOUS
<1>2. PICK s, q, k : s = x.scheme /\ q = x.path /\ k = KeyPart(x)
  OBVIOUS
<1>3. b \in Seq(ByteSet) /\ s \in Seq(ByteSet) /\ q \in Seq(ByteSet) /\ k \in Seq(ByteSet) /\ IsRow(b, s, <<":">>, q, k)
  BY <1>1, <1>2, RefBodyRow
<1>4. /\ x = Ref(s, q, x.key)
      /\ s \in Seq(ByteSet \ {":", RBrace}) /\ s # <<>>
      /\ q \in Seq(ByteSet \ {":", RBrace}) /\ q # <<>>
      /\ x.key = NoKey \/ x.key \in Seq(ByteSet \ {RBrace})
  BY <1>2, WritableIs
<1>5. PICK n, m, l : n = Len(s) /\ m = Len(q) /\ l = Len(k)
  OBVIOUS
<1>6. n \in Nat /\ n >= 1 /\ m \in Nat /\ m >= 1 /\ l \in Nat
  BY <1>3, <1>4, <1>5
<1>7. /\ (\A i \in 1..n : s[i] # ":") /\ (\A i \in 1..m : q[i] # ":")
  BY <1>4, <1>5
<1>8. Len(<<":">>) = 1 /\ <<":">>[1] = ":" /\ 1 \in 1..1
  OBVIOUS
<1>9. /\ Len(b) = n + 1 + m + l /\ Len(b) \in Nat
      /\ \A i \in 1..n : b[i] = s[i]
      /\ b[n + 1] = ":"
      /\ \A i \in 1..m : b[n + 1 + i] = q[i]
      /\ \A i \in 1..l : b[n + 1 + m + i] = k[i]
  BY <1>3, <1>5, <1>6, <1>8 DEF IsRow
<1>10. Find(b, ":", 1) = n + 1
  <2>1. n + 1 \in 1..Len(b) /\ 1 \in Nat
    BY <1>6, <1>9
  <2>2. \A i \in 1..((n + 1) - 1) : b[i] # ":"
    BY <1>6, <1>7, <1>9
  <2> QED BY <1>9, <2>1, <2>2, FindIs
<1>11. \A i \in (n + 2)..(n + 1 + m) : b[i] # ":"
  <2> SUFFICES ASSUME NEW i \in (n + 2)..(n + 1 + m) PROVE b[i] # ":"
    OBVIOUS
  <2>1. i - n - 1 \in 1..m /\ n + 1 + (i - n - 1) = i
    BY <1>6
  <2> QED BY <1>7, <1>9, <2>1
<1>12. SubSeq(b, 1, n) = s
  <2>1. 1 + Len(s) - 1 = n /\ 1 <= Len(b) /\ n <= Len(b) /\ 1 \in Nat /\ 1 <= 1
    BY <1>5, <1>6, <1>9
  <2>2. \A j \in 1..Len(s) : b[1 - 1 + j] = s[j]
    BY <1>5, <1>6, <1>9
  <2>3. SubSeq(b, 1, 1 + Len(s) - 1) = s
    BY <1>3, <2>1, <2>2, SubSeqIs
  <2> QED BY <2>1, <2>3
<1>13. SubSeq(b, n + 2, n + 1 + m) = q
  <2>1. PICK from : from = n + 2
    OBVIOUS
  <2>2. from \in Nat /\ 1 <= from /\ from + Len(q) - 1 = n + 1 + m /\ from + Len(q) - 1 <= Len(b)
    BY <1>5, <1>6, <1>9, <2>1
  <2>3. \A j \in 1..Len(q) : from - 1 + j = n + 1 + j
    BY <1>6, <2>1
  <2>4. \A j \in 1..Len(q) : b[from - 1 + j] = q[j]
    BY <1>5, <1>9, <2>3
  <2>5. SubSeq(b, from, from + Len(q) - 1) = q
    BY <1>3, <2>2, <2>4, SubSeqIs
  <2> QED BY <2>1, <2>2, <2>5
<1>14. n + 1 # 0 /\ ~(n + 1 <= 1) /\ (n + 1) + 1 = n + 2 /\ (n + 1) - 1 = n
  BY <1>6
<1>15. CASE x.key = NoKey
  <2>1. l = 0 /\ Len(b) = n + 1 + m
    BY <1>2, <1>5, <1>6, <1>9, <1>15 DEF KeyPart
  <2>2. Find(b, ":", n + 2) = 0
    BY <1>6, <1>11, <2>1, FindsNone
  <2>3. ParseRefBody(b) = <<Ref(s, q, NoKey)>>
    BY <1>4, <1>10, <1>12, <1>13, <1>14, <2>1, <2>2 DEF ParseRefBody
  <2> QED BY <1>1, <1>4, <1>15, <2>3
<1>16. CASE x.key # NoKey
  <2>1. PICK key : key = x.key
    OBVIOUS
  <2>2. key \in Seq(ByteSet)
    <3>1. ByteSet \ {RBrace} \subseteq ByteSet
      OBVIOUS
    <3> QED BY <1>4, <1>16, <2>1, <3>1, SeqOfMore
  <2>3. k = <<":">> \o key
    BY <1>2, <1>16, <2>1 DEF KeyPart
  <2>4. IsConcat(k, <<":">>, key)
    <3>1. ":" \in ByteSet
      BY DEF ByteSet
    <3>2. <<":">> \in Seq(ByteSet)
      BY <3>1, OneLong
    <3> QED BY <2>2, <2>3, <3>2, Concatenated
  <2>5. l = 1 + Len(key) /\ Len(key) \in Nat /\ k[1] = ":" /\ \A i \in 1..Len(key) : k[1 + i] = key[i]
    BY <1>5, <1>8, <2>4 DEF IsConcat
  <2>6. b[n + 1 + m + 1] = ":" /\ \A i \in 1..Len(key) : b[n + 1 + m + (1 + i)] = key[i]
    <3>1. 1 \in 1..l /\ \A i \in 1..Len(key) : 1 + i \in 1..l
      BY <2>5
    <3> QED BY <1>9, <2>5, <3>1
  <2>7. Find(b, ":", n + 2) = n + 1 + m + 1
    <3>1. PICK from, at : from = n + 2 /\ at = n + 1 + m + 1
      OBVIOUS
    <3>2. at \in from..Len(b) /\ from \in Nat /\ at - 1 = n + 1 + m
      BY <1>6, <1>9, <2>5, <3>1
    <3>3. b[at] = ":" /\ \A i \in from..(at - 1) : b[i] # ":"
      BY <1>11, <2>6, <3>1, <3>2
    <3>4. Find(b, ":", from) = at
      BY <1>9, <3>2, <3>3, FindIs
    <3> QED BY <3>1, <3>4
  <2>8. SubSeq(b, n + 1 + m + 1 + 1, Len(b)) = key
    <3>1. PICK from : from = n + 1 + m + 1 + 1
      OBVIOUS
    <3>2. from \in Nat /\ 1 <= from /\ from + Len(key) - 1 = Len(b) /\ from + Len(key) - 1 <= Len(b)
      BY <1>6, <1>9, <2>5, <3>1
    <3>3. \A j \in 1..Len(key) : from - 1 + j = n + 1 + m + (1 + j)
      BY <1>6, <2>5, <3>1
    <3>4. \A j \in 1..Len(key) : b[from - 1 + j] = key[j]
      BY <2>6, <3>3
    <3>5. SubSeq(b, from, from + Len(key) - 1) = key
      BY <1>3, <2>2, <3>2, <3>4, SubSeqIs
    <3> QED BY <3>1, <3>2, <3>5
  <2>9. n + 1 + m + 1 # 0 /\ (n + 1 + m + 1) - 1 = n + 1 + m /\ n + 1 + m + 1 # n + 1
    BY <1>6
  <2>10. ParseRefBody(b) = <<Ref(s, q, key)>>
    BY <1>4, <1>10, <1>12, <1>13, <1>14, <2>7, <2>8, <2>9 DEF ParseRefBody
  <2> QED BY <1>1, <1>4, <2>1, <2>10
<1> QED BY <1>15, <1>16

(* What is written from position p on is read as a reference. *)
LEMMA RefIsRead ==
    ASSUME NEW s \in Seq(ByteSet), NEW x \in Segments, x.kind = "ref",
           NEW p \in 0..Len(s), p + Len(Render(x)) <= Len(s),
           \A j \in 1..Len(Render(x)) : s[p + j] = Render(x)[j],
           NEW buf, NEW out, ParseUpTo(s)[p] = Reading(p + 1, buf, out)
    PROVE  ParseUpTo(s)[p + Len(Render(x))]
             = Reading(p + Len(Render(x)) + 1, <<>>, Flushed(out, buf) \o <<x>>)
<1>1. PICK e, b : e = Render(x) /\ b = RefBody(x)
  OBVIOUS
<1>2. /\ b \in Seq(ByteSet \ {RBrace}) /\ e \in Seq(ByteSet) /\ Len(e) = Len(b) + 3
      /\ e[1] = "$" /\ e[2] = LBrace /\ e[Len(b) + 3] = RBrace
      /\ \A j \in 1..Len(b) : e[2 + j] = b[j]
  BY <1>1, RefBodyIs
<1>3. PICK m : m = Len(b)
  OBVIOUS
<1>4. m \in Nat /\ Len(e) = m + 3 /\ p \in Nat /\ Len(s) \in Nat /\ p + m + 3 <= Len(s)
  BY <1>1, <1>2, <1>3
<1>5. \A j \in 1..(m + 3) : s[p + j] = e[j]
  BY <1>1, <1>4
<1>6. s[p + 1] = "$" /\ s[p + 2] = LBrace /\ s[p + m + 3] = RBrace
  <2>1. 1 \in 1..(m + 3) /\ 2 \in 1..(m + 3) /\ m + 3 \in 1..(m + 3) /\ p + (m + 3) = p + m + 3
    BY <1>4
  <2> QED BY <1>2, <1>3, <1>5, <2>1
<1>7. \A j \in 1..m : s[p + 2 + j] = b[j] /\ b[j] # RBrace
  <2> SUFFICES ASSUME NEW j \in 1..m PROVE s[p + 2 + j] = b[j] /\ b[j] # RBrace
    OBVIOUS
  <2>1. 2 + j \in 1..(m + 3) /\ p + (2 + j) = p + 2 + j
    BY <1>4
  <2> QED BY <1>2, <1>3, <1>5, <2>1
<1>8. PICK i, end : i = p + 1 /\ end = p + m + 3
  OBVIOUS
<1>9. i \in 1..Len(s) /\ i < Len(s) /\ i - 1 = p /\ i + 1 = p + 2 /\ i + 2 = p + 3 /\ end \in (i + 2)..Len(s) /\ i + 2 \in Nat
  BY <1>4, <1>8
<1>10. \A k \in (i + 2)..(end - 1) : s[k] # RBrace
  <2> SUFFICES ASSUME NEW k \in (i + 2)..(end - 1) PROVE s[k] # RBrace
    OBVIOUS
  <2>1. k - p - 2 \in 1..m /\ p + 2 + (k - p - 2) = k
    BY <1>4, <1>8
  <2> QED BY <1>7, <2>1
<1>11. Find(s, RBrace, i + 2) = end
  BY <1>4, <1>6, <1>8, <1>9, <1>10, FindIs
<1>12. SubSeq(s, i + 2, end - 1) = b
  <2>1. PICK from : from = i + 2
    OBVIOUS
  <2>2. from \in Nat /\ 1 <= from /\ from + Len(b) - 1 = end - 1 /\ from + Len(b) - 1 <= Len(s)
    BY <1>3, <1>4, <1>8, <2>1
  <2>3. \A j \in 1..Len(b) : from - 1 + j = p + 2 + j
    BY <1>3, <1>4, <1>8, <2>1
  <2>4. \A j \in 1..Len(b) : s[from - 1 + j] = b[j]
    BY <1>3, <1>7, <2>3
  <2>5. b \in Seq(ByteSet)
    <3>1. ByteSet \ {RBrace} \subseteq ByteSet
      OBVIOUS
    <3> QED BY <1>2, <3>1, SeqOfMore
  <2>6. SubSeq(s, from, from + Len(b) - 1) = b
    BY <2>2, <2>4, <2>5, SubSeqIs
  <2> QED BY <2>1, <2>2, <2>6
<1>13. ParseRefBody(b) = <<x>>
  BY <1>1, RefBodyParses
<1>14. <<x>> # BadReference
  BY DEF BadReference
<1>15. ParseUpTo(s)[i - 1] = Reading(i, buf, out)
  BY <1>8, <1>9
<1>16. s[i] = "$" /\ s[i + 1] = LBrace
  BY <1>6, <1>8, <1>9
<1>17. ParseUpTo(s)[i] = ReferenceRead(s, i, buf, out)
  BY <1>9, <1>15, <1>16, ReadsReference
<1>18. end # 0
  BY <1>4, <1>8
<1>19. ParseUpTo(s)[i] = Reading(end + 1, <<>>, Flushed(out, buf) \o <<x>>)
  BY <1>11, <1>12, <1>13, <1>14, <1>17, <1>18 DEF ReferenceRead
<1>20. i \in 0..Len(s) /\ end \in i..Len(s) /\ end + 1 \in Nat /\ end < end + 1
  BY <1>4, <1>8
<1>21. ParseUpTo(s)[end] = Reading(end + 1, <<>>, Flushed(out, buf) \o <<x>>)
  BY <1>19, <1>20, Skips
<1>22. end = p + Len(Render(x))
  BY <1>1, <1>4, <1>8
<1> QED BY <1>21, <1>22

-----------------------------------------------------------------------------
(* Configuration values: a literal is read as it was written. *)

ReadBytes == {AsChar(b) : b \in ByteSet}
Kept(text, k) == [i \in 1..k |-> AsChar(text[i])]

LEMMA KeptMore ==
    ASSUME NEW text \in Seq(ByteSet), NEW k \in 1..Len(text)
    PROVE  Kept(text, k) = Append(Kept(text, k - 1), AsChar(text[k]))
<1>1. k \in Nat /\ k - 1 \in Nat /\ Len(text) \in Nat
  OBVIOUS
<1>2. \A i \in 1..k : text[i] \in ByteSet
  OBVIOUS
<1>3. \A i \in 1..k : AsChar(text[i]) \in ReadBytes
  BY <1>2 DEF ReadBytes
<1>4. PICK a, b : a = Kept(text, k) /\ b = Kept(text, k - 1)
  OBVIOUS
<1>5. a \in Seq(ReadBytes) /\ Len(a) = k /\ \A i \in 1..k : a[i] = AsChar(text[i])
  BY <1>1, <1>3, <1>4 DEF Kept
<1>6. b \in Seq(ReadBytes) /\ Len(b) = k - 1 /\ \A i \in 1..(k - 1) : b[i] = AsChar(text[i])
  BY <1>1, <1>3, <1>4 DEF Kept
<1>7. PICK c : c = Append(b, AsChar(text[k]))
  OBVIOUS
<1>8. k \in 1..k
  BY <1>1
<1>9. c \in Seq(ReadBytes) /\ Len(c) = k /\ c[k] = AsChar(text[k]) /\ \A i \in 1..(k - 1) : c[i] = b[i]
  BY <1>1, <1>3, <1>6, <1>7, <1>8
<1>10. \A i \in 1..k : i = k \/ i \in 1..(k - 1)
  BY <1>1
<1>11. \A i \in 1..k : a[i] = c[i]
  BY <1>5, <1>6, <1>9, <1>10
<1>12. a = c
  BY <1>5, <1>9, <1>11
<1> QED BY <1>4, <1>7, <1>12

LEMMA LiteralIsRead ==
    ASSUME NEW s \in Seq(ByteSet), NEW text \in Seq(ByteSet),
           NEW p \in 0..Len(s), p + Len(Render(Literal(text))) <= Len(s),
           \A j \in 1..Len(Render(Literal(text))) : s[p + j] = Render(Literal(text))[j],
           NEW out, ParseUpTo(s)[p] = Reading(p + 1, <<>>, out)
    PROVE  ParseUpTo(s)[p + Len(Render(Literal(text)))]
             = Reading(p + Len(Render(Literal(text))) + 1, Kept(text, Len(text)), out)
<1>0. PICK e : e = Render(Literal(text))
  OBVIOUS
<1> DEFINE q == Escapes(text)
           n == Len(text)
<1>1. q \in Seq(Seq(ByteSet)) /\ Len(q) = n /\ n \in Nat /\ e = FlattenSeq(q)
      /\ \A i \in 1..n : q[i] = Escape(text[i])
  BY <1>0, EscapesAre
<1> HIDE DEF q, n
<1>2. PICK g : IsFlattening(q, ByteSet, g)
  BY <1>1, FlatteningExists DEF HasFlattening
<1>3. /\ \A k \in 0..n : g[k] \in Seq(ByteSet) /\ Len(g[k]) \in Nat
      /\ g[0] = <<>> /\ g[n] = e
      /\ \A k \in 1..n : g[k] = g[k - 1] \o Escape(text[k])
  <2>1. g \in [0..n -> Seq(ByteSet)] /\ g[0] = <<>> /\ FlattenSeq(q) = g[n]
    BY <1>1, <1>2 DEF IsFlattening
  <2>2. \A k \in 1..n : g[k] = g[k - 1] \o q[k]
    BY <1>1, <1>2 DEF IsFlattening
  <2>3. \A k \in 0..n : g[k] \in Seq(ByteSet) /\ Len(g[k]) \in Nat
    <3> SUFFICES ASSUME NEW k \in 0..n PROVE g[k] \in Seq(ByteSet) /\ Len(g[k]) \in Nat
      OBVIOUS
    <3>1. g[k] \in Seq(ByteSet)
      BY <2>1
    <3> QED BY <3>1
  <2>4. \A k \in 1..n : g[k] = g[k - 1] \o Escape(text[k])
    BY <1>1, <2>2
  <2>5. g[0] = <<>> /\ g[n] = e
    BY <1>1, <2>1
  <2> QED BY <2>3, <2>4, <2>5
<1>4. \A k \in 0..n : Len(g[k]) <= Len(e) /\ \A i \in 1..Len(g[k]) : e[i] = g[k][i]
  <2> SUFFICES ASSUME NEW k \in 0..n PROVE Len(g[k]) <= Len(e) /\ \A i \in 1..Len(g[k]) : e[i] = g[k][i]
    OBVIOUS
  <2>1. \A j \in k..Len(q) : StartsWith(g[j], g[k])
    BY <1>1, <1>2, FlatteningGrows
  <2>2. n \in k..Len(q)
    BY <1>1
  <2>3. StartsWith(e, g[k])
    BY <1>3, <2>1, <2>2
  <2> QED BY <2>3 DEF StartsWith
<1> DEFINE IsRead(k) == ParseUpTo(s)[p + Len(g[k])] = Reading(p + Len(g[k]) + 1, Kept(text, k), out)
           T == {k \in 0..n : ~IsRead(k)}
<1> HIDE DEF IsRead, T
<1>5. T = {}
  <2> SUFFICES ASSUME T # {} PROVE FALSE
    OBVIOUS
  <2>1. PICK k \in T : \A j \in T : k <= j
    <3>1. T \in SUBSET Nat
      BY <1>1 DEF T
    <3> QED BY <3>1, LeastNat
  <2>2. k \in 0..n /\ ~IsRead(k)
    BY <2>1 DEF T
  <2>3. k # 0
    <3> SUFFICES ASSUME k = 0 PROVE FALSE
      OBVIOUS
    <3>1. Kept(text, 0) = <<>>
      BY DEF Kept
    <3>2. Len(g[0]) = 0 /\ p + 0 = p
      BY <1>3
    <3>3. IsRead(0)
      BY <3>1, <3>2 DEF IsRead
    <3> QED BY <2>2, <3>3
  <2>4. k \in 1..n /\ k - 1 \in 0..n /\ k - 1 \notin T
    <3>1. k \in 1..n /\ k - 1 \in 0..n
      BY <1>1, <2>2, <2>3
    <3> QED BY <1>1, <2>1, <3>1
  <2>5. IsRead(k - 1)
    BY <2>4 DEF T
  <2>6. PICK m, i : m = Len(g[k - 1]) /\ i = p + m + 1
    OBVIOUS
  <2>7. m \in Nat /\ p \in Nat /\ Len(s) \in Nat
    BY <1>3, <2>4, <2>6
  <2>8. PICK c : c = text[k]
    OBVIOUS
  <2>9. c \in ByteSet /\ Escape(c) \in Seq(ByteSet)
    <3>1. k \in 1..Len(text)
      BY <2>4 DEF n
    <3>2. c \in ByteSet
      BY <2>8, <3>1
    <3> QED BY <3>2, OneLong, TwoLong DEF Escape
  <2>10. g[k] = g[k - 1] \o Escape(c) /\ g[k - 1] \in Seq(ByteSet)
    BY <1>3, <2>4, <2>8
  <2>11. IsConcat(g[k], g[k - 1], Escape(c))
    BY <2>9, <2>10, Concatenated
  <2>12. Len(g[k]) = m + Len(Escape(c)) /\ \A j \in 1..Len(Escape(c)) : g[k][m + j] = Escape(c)[j]
    BY <2>6, <2>11 DEF IsConcat
  <2>13. Len(g[k]) <= Len(e) /\ (\A j \in 1..Len(g[k]) : e[j] = g[k][j]) /\ Len(e) \in Nat /\ p + Len(e) <= Len(s)
    <3>1. n \in 0..n
      BY <1>1
    <3> QED BY <1>0, <1>3, <1>4, <2>4, <3>1
  <2>18. PICK z, y, w : z = Len(g[k]) /\ y = Len(e) /\ w = Len(s)
    OBVIOUS
  <2>19. z <= y /\ z \in Nat /\ y \in Nat /\ w \in Nat /\ p + y <= w
    BY <1>3, <2>4, <2>7, <2>13, <2>18
  <2>20. ASSUME NEW d \in Nat, 1 <= d, m + d <= z
         PROVE  m + d \in 1..Len(g[k]) /\ m + d \in 1..Len(e) /\ p + (m + d) \in 1..w /\ s[p + (m + d)] = g[k][m + d]
    <3>1. m + d \in 1..z /\ m + d \in 1..y /\ p + (m + d) \in 1..w
      BY <2>7, <2>19, <2>20
    <3> QED BY <1>0, <2>13, <2>18, <3>1
  <2>14. ParseUpTo(s)[i - 1] = Reading(i, Kept(text, k - 1), out)
    <3>1. p + m = i - 1 /\ p + m + 1 = i
      BY <2>6, <2>7
    <3> QED BY <2>5, <2>6, <3>1 DEF IsRead
  <2>15. Kept(text, k) = Append(Kept(text, k - 1), AsChar(c))
    BY <2>4, <2>8, KeptMore DEF n
  <2>16. CASE c = "$"
    <3>1. Escape(c) = <<"$", "$">>
      BY <2>16 DEF Escape
    <3>2. Len(g[k]) = m + 2 /\ g[k][m + 1] = "$" /\ g[k][m + 2] = "$"
      <4>1. Len(Escape(c)) = 2 /\ Escape(c)[1] = "$" /\ Escape(c)[2] = "$"
        BY <3>1
      <4>2. 1 \in 1..2 /\ 2 \in 1..2
        OBVIOUS
      <4> QED BY <2>12, <4>1, <4>2
    <3>3. p + (m + 1) = i /\ p + (m + 2) = i + 1 /\ m + 1 <= z /\ m + 2 <= z
      BY <2>6, <2>7, <2>18, <3>2
    <3>11. p + (m + 1) \in 1..w /\ s[p + (m + 1)] = g[k][m + 1]
      BY SMTT(30), <2>20, <3>3
    <3>12. p + (m + 2) \in 1..w /\ s[p + (m + 2)] = g[k][m + 2]
      BY SMTT(30), <2>20, <3>3
    <3>10. i \in 1..w /\ i + 1 \in 1..w /\ s[i] = g[k][m + 1] /\ s[i + 1] = g[k][m + 2]
      BY <3>3, <3>11, <3>12
    <3>4. i \in 1..Len(s) /\ i < Len(s) /\ s[i] = "$" /\ s[i + 1] = "$"
      BY <2>18, <2>19, <3>2, <3>10
    <3>5. ParseUpTo(s)[i] = Reading(i + 2, Append(Kept(text, k - 1), "$"), out)
      BY <2>14, <3>4, ReadsEscape
    <3>6. AsChar(c) = "$"
      BY <2>16 DEF AsChar
    <3>7. i \in 0..Len(s) /\ i + 1 \in i..Len(s) /\ i + 2 \in Nat /\ i + 1 < i + 2
      BY <2>7, <3>4
    <3>8. ParseUpTo(s)[i + 1] = Reading(i + 2, Kept(text, k), out)
      BY <2>15, <3>5, <3>6, <3>7, Skips
    <3>13. z = m + 2
      BY <2>18, <3>2
    <3>9. p + z = i + 1 /\ p + z + 1 = i + 2
      BY <2>6, <2>7, <3>13
    <3> QED BY <2>2, <2>18, <3>8, <3>9 DEF IsRead
  <2>17. CASE c # "$"
    <3>1. Escape(c) = <<c>>
      BY <2>17 DEF Escape
    <3>2. Len(g[k]) = m + 1 /\ g[k][m + 1] = c
      <4>1. Len(Escape(c)) = 1 /\ Escape(c)[1] = c
        BY <3>1
      <4>2. 1 \in 1..1
        OBVIOUS
      <4> QED BY <2>12, <4>1, <4>2
    <3>3. p + (m + 1) = i /\ m + 1 <= z
      BY <2>6, <2>7, <2>18, <3>2
    <3>11. p + (m + 1) \in 1..w /\ s[p + (m + 1)] = g[k][m + 1]
      BY <2>20, <3>3
    <3>10. i \in 1..w /\ s[i] = g[k][m + 1]
      BY <3>3, <3>11
    <3>4. i \in 1..Len(s) /\ s[i] = c
      BY <2>18, <3>2, <3>10
    <3>5. ParseUpTo(s)[i] = Reading(i + 1, Append(Kept(text, k - 1), AsChar(c)), out)
      BY <2>14, <2>17, <3>4, ReadsByte
    <3>13. z = m + 1
      BY <2>18, <3>2
    <3>6. p + z = i /\ p + z + 1 = i + 1
      BY <2>6, <2>7, <3>13
    <3> QED BY <2>2, <2>15, <2>18, <3>5, <3>6 DEF IsRead
  <2> QED BY <2>16, <2>17
<1>6. n \in 0..n
  BY <1>1
<1>7. IsRead(n)
  BY <1>5, <1>6 DEF T
<1> QED BY <1>0, <1>3, <1>7 DEF n, IsRead

-----------------------------------------------------------------------------
(* Configuration values: the theorem. *)

EndsInRef(segs) == segs = <<>> \/ segs[Len(segs)].kind = "ref"
AllRead(segs) == [i \in 1..Len(segs) |-> AsRead(segs[i])]

(* What the parser has behind the last segment: a literal is still being   *)
(* put together there.                                                     *)
Pending(segs) ==
    IF EndsInRef(segs) THEN <<>> ELSE Kept(segs[Len(segs)].text, Len(segs[Len(segs)].text))
Settled(segs) ==
    IF EndsInRef(segs) THEN AllRead(segs) ELSE [i \in 1..(Len(segs) - 1) |-> AsRead(segs[i])]

(* It is there whatever the value goes on with. *)
ReadsTo(segs) ==
    \A tail \in Seq(ByteSet) :
        ParseUpTo(Value(segs) \o tail)[Len(Value(segs))]
          = Reading(Len(Value(segs)) + 1, Pending(segs), Settled(segs))

LEMMA AsReadIs ==
    ASSUME NEW x \in Segments
    PROVE  AsRead(x) = IF x.kind = "ref" THEN x ELSE Literal(Kept(x.text, Len(x.text)))
BY DEF AsRead, Kept

LEMMA FlushedIsAll ==
    ASSUME NEW segs \in Seq(Segments)
    PROVE  Flushed(Settled(segs), Pending(segs)) = AllRead(segs)
<1>1. CASE EndsInRef(segs)
  BY <1>1 DEF Flushed, Settled, Pending
<1>2. CASE ~EndsInRef(segs)
  <2>1. PICK n : n = Len(segs)
    OBVIOUS
  <2>2. n \in Nat /\ n # 0 /\ n \in 1..n /\ n - 1 \in Nat
    BY <1>2, <2>1 DEF EndsInRef
  <2>3. PICK x : x = segs[n]
    OBVIOUS
  <2>4. x \in Segments /\ x.kind # "ref"
    BY <1>2, <2>1, <2>2, <2>3 DEF EndsInRef
  <2>5. PICK text : text = x.text
    OBVIOUS
  <2>6. text \in Seq(ByteSet) /\ text # <<>>
    BY <2>4, <2>5, WritableIs
  <2>7. PICK kept : kept = Kept(text, Len(text))
    OBVIOUS
  <2>8. kept # <<>>
    <3>1. Len(text) \in Nat /\ Len(text) # 0
      BY <2>6
    <3>2. 1 \in DOMAIN kept
      BY <2>7, <3>1 DEF Kept
    <3>3. DOMAIN <<>> = {}
      OBVIOUS
    <3> QED BY <3>2, <3>3
  <2>9. AsRead(x) = Literal(kept)
    BY <2>4, <2>5, <2>7, AsReadIs
  <2>10. Pending(segs) = kept
    BY <1>2, <2>1, <2>3, <2>5, <2>7 DEF Pending
  <2>11. PICK out : out = Settled(segs)
    OBVIOUS
  <2> DEFINE X == {AsRead(y) : y \in Segments}
  <2>12. \A i \in 1..n : AsRead(segs[i]) \in X
    BY <2>1
  <2> HIDE DEF X
  <2>13. out = [i \in 1..(n - 1) |-> AsRead(segs[i])]
    BY <1>2, <2>1, <2>11 DEF Settled
  <2>14. \A i \in 1..(n - 1) : i \in 1..n
    BY <2>2
  <2>15. out \in Seq(X) /\ Len(out) = n - 1 /\ \A i \in 1..(n - 1) : out[i] = AsRead(segs[i])
    BY <2>2, <2>12, <2>13, <2>14
  <2>16. PICK all : all = AllRead(segs)
    OBVIOUS
  <2>17. all \in Seq(X) /\ Len(all) = n /\ \A i \in 1..n : all[i] = AsRead(segs[i])
    BY <2>1, <2>2, <2>12, <2>16 DEF AllRead
  <2>18. PICK more : more = Append(out, Literal(kept))
    OBVIOUS
  <2>19. Literal(kept) \in X
    BY <2>2, <2>3, <2>9, <2>12
  <2>20. more \in Seq(X) /\ Len(more) = n /\ more[n] = Literal(kept) /\ \A i \in 1..(n - 1) : more[i] = out[i]
    BY <2>2, <2>15, <2>18, <2>19
  <2>21. \A i \in 1..n : i = n \/ i \in 1..(n - 1)
    BY <2>2
  <2>22. \A i \in 1..n : more[i] = all[i]
    BY <2>3, <2>9, <2>15, <2>17, <2>20, <2>21
  <2>23. more = all
    BY <2>17, <2>20, <2>22
  <2>24. Flushed(out, kept) = more
    BY <2>8, <2>18 DEF Flushed
  <2> QED BY <2>10, <2>11, <2>16, <2>23, <2>24
<1> QED BY <1>1, <1>2

LEMMA AllReadAppend ==
    ASSUME NEW segs \in Seq(Segments), NEW x \in Segments
    PROVE  /\ Append(segs, x) \in Seq(Segments) /\ Len(Append(segs, x)) = Len(segs) + 1
           /\ Append(segs, x)[Len(segs) + 1] = x
           /\ x.kind = "ref" => AllRead(Append(segs, x)) = AllRead(segs) \o <<x>>
<1>1. PICK more, n : more = Append(segs, x) /\ n = Len(segs)
  OBVIOUS
<1>2. more \in Seq(Segments) /\ n \in Nat /\ Len(more) = n + 1 /\ more[n + 1] = x /\ \A i \in 1..n : more[i] = segs[i]
  BY <1>1
<1>3. AllRead(segs) = [i \in 1..n |-> AsRead(more[i])]
  BY <1>1, <1>2 DEF AllRead
<1>4. ASSUME x.kind = "ref" PROVE AllRead(more) = AllRead(segs) \o <<x>>
  <2> DEFINE X == {AsRead(y) : y \in Segments}
  <2>1. x \in X
    <3>1. AsRead(x) = x
      BY <1>4, AsReadIs
    <3> QED BY <3>1
  <2>2. \A i \in 1..(n + 1) : AsRead(more[i]) \in X
    BY <1>2
  <2> HIDE DEF X
  <2>3. PICK a, b, c : a = AllRead(more) /\ b = AllRead(segs) /\ c = b \o <<x>>
    OBVIOUS
  <2>4. a \in Seq(X) /\ Len(a) = n + 1 /\ \A i \in 1..(n + 1) : a[i] = AsRead(more[i])
    BY <1>2, <2>2, <2>3 DEF AllRead
  <2>5. \A i \in 1..n : i \in 1..(n + 1)
    BY <1>2
  <2>6. b \in Seq(X) /\ Len(b) = n /\ \A i \in 1..n : b[i] = AsRead(more[i])
    BY <1>2, <1>3, <2>2, <2>3, <2>5
  <2>7. <<x>> \in Seq(X) /\ Len(<<x>>) = 1 /\ <<x>>[1] = x /\ 1 \in 1..1
    BY <2>1, OneLong
  <2>8. c \in Seq(X) /\ IsConcat(c, b, <<x>>)
    BY <2>3, <2>6, <2>7, Concatenated
  <2>9. Len(c) = n + 1 /\ c[n + 1] = x /\ \A i \in 1..n : c[i] = b[i]
    BY <2>6, <2>7, <2>8 DEF IsConcat
  <2>10. AsRead(x) = x
    BY <1>4, AsReadIs
  <2>11. \A i \in 1..(n + 1) : i = n + 1 \/ i \in 1..n
    BY <1>2
  <2>12. \A i \in 1..(n + 1) : a[i] = c[i]
    BY <1>2, <2>4, <2>6, <2>9, <2>10, <2>11
  <2>13. a = c
    BY <2>4, <2>8, <2>9, <2>12
  <2> QED BY <2>3, <2>13
<1> QED BY <1>1, <1>2, <1>3, <1>4

(* One segment more. *)
LEMMA ReadsOneMore ==
    ASSUME NEW segs \in Seq(Segments), NEW x \in Segments, ReadsTo(segs),
           x.kind = "literal" => EndsInRef(segs)
    PROVE  ReadsTo(Append(segs, x))
<1> SUFFICES ASSUME NEW tail \in Seq(ByteSet)
             PROVE  ParseUpTo(Value(Append(segs, x)) \o tail)[Len(Value(Append(segs, x)))]
                      = Reading(Len(Value(Append(segs, x))) + 1, Pending(Append(segs, x)), Settled(Append(segs, x)))
  BY DEF ReadsTo
<1>1. PICK v, r, more : v = Value(segs) /\ r = Render(x) /\ more = Append(segs, x)
  OBVIOUS
<1>2. v \in Seq(ByteSet) /\ r \in Seq(ByteSet)
  BY <1>1, RendersAre, RenderIs
<1>3. Value(more) = v \o r
  BY <1>1, ValueAppend
<1>4. IsConcat(v \o r, v, r)
  BY <1>2, Concatenated
<1>5. PICK rest : rest = r \o tail
  OBVIOUS
<1>6. rest \in Seq(ByteSet) /\ IsConcat(rest, r, tail)
  BY <1>2, <1>5, Concatenated
<1>7. PICK s : s = v \o rest
  OBVIOUS
<1>8. s \in Seq(ByteSet) /\ IsConcat(s, v, rest)
  BY <1>2, <1>6, <1>7, Concatenated
<1>9. (v \o r) \o tail = s
  BY SMTT(30), <1>2, <1>5, <1>7, Regrouped
<1>10. PICK p : p = Len(v)
  OBVIOUS
<1>11. p \in Nat /\ Len(r) \in Nat /\ Len(tail) \in Nat /\ Len(v \o r) = p + Len(r) /\ Len(s) = p + Len(r) + Len(tail)
  BY <1>4, <1>6, <1>8, <1>10 DEF IsConcat
<1>12. p \in 0..Len(s) /\ p + Len(r) <= Len(s)
  BY <1>11
<1>13. \A j \in 1..Len(r) : s[p + j] = r[j]
  <2> SUFFICES ASSUME NEW j \in 1..Len(r) PROVE s[p + j] = r[j]
    OBVIOUS
  <2>1. j \in 1..Len(rest) /\ rest[j] = r[j]
    BY <1>6, <1>11 DEF IsConcat
  <2> QED BY <1>8, <1>10, <2>1 DEF IsConcat
<1>14. ParseUpTo(s)[p] = Reading(p + 1, Pending(segs), Settled(segs))
  BY <1>1, <1>6, <1>7, <1>10 DEF ReadsTo
<1>15. more \in Seq(Segments) /\ Len(more) = Len(segs) + 1 /\ Len(segs) \in Nat /\ more[Len(more)] = x /\ more # <<>>
  BY <1>1, AllReadAppend
<1>16. ParseUpTo(s)[p + Len(r)] = Reading(p + Len(r) + 1, Pending(more), Settled(more))
  <2>1. CASE x.kind = "ref"
    <3>1. EndsInRef(more)
      BY <1>15, <2>1 DEF EndsInRef
    <3>2. Pending(more) = <<>> /\ Settled(more) = AllRead(more)
      BY <3>1 DEF Pending, Settled
    <3>3. AllRead(more) = AllRead(segs) \o <<x>>
      BY <1>1, <2>1, AllReadAppend
    <3>4. ParseUpTo(s)[p + Len(r)] = Reading(p + Len(r) + 1, <<>>, Flushed(Settled(segs), Pending(segs)) \o <<x>>)
      BY ZenonT(30), <1>1, <1>8, <1>12, <1>13, <1>14, <2>1, RefIsRead
    <3> QED BY <3>2, <3>3, <3>4, FlushedIsAll
  <2>2. CASE x.kind = "literal"
    <3>1. ~EndsInRef(more)
      BY <1>15, <2>2 DEF EndsInRef
    <3>2. EndsInRef(segs)
      BY <2>2
    <3>3. Pending(segs) = <<>> /\ Settled(segs) = AllRead(segs)
      BY <3>2 DEF Pending, Settled
    <3>4. x = Literal(x.text) /\ x.text \in Seq(ByteSet)
      BY <2>2, WritableIs
    <3>5. PICK text : text = x.text
      OBVIOUS
    <3>6. text \in Seq(ByteSet) /\ r = Render(Literal(text))
      BY <1>1, <3>4, <3>5
    <3>7. ParseUpTo(s)[p] = Reading(p + 1, <<>>, Settled(segs))
      BY <1>14, <3>3
    <3>8. ParseUpTo(s)[p + Len(r)] = Reading(p + Len(r) + 1, Kept(text, Len(text)), Settled(segs))
      BY <1>8, <1>12, <1>13, <3>6, <3>7, LiteralIsRead
    <3>9. Pending(more) = Kept(text, Len(text))
      BY <1>15, <3>1, <3>5 DEF Pending
    <3>10. Settled(more) = Settled(segs)
      <4>1. Len(more) - 1 = Len(segs)
        BY <1>15
      <4>2. Settled(more) = [i \in 1..Len(segs) |-> AsRead(more[i])]
        BY <3>1, <4>1 DEF Settled
      <4>3. AllRead(segs) = [i \in 1..Len(segs) |-> AsRead(more[i])]
        <5>1. \A i \in 1..Len(segs) : more[i] = segs[i]
          BY <1>1
        <5> QED BY <5>1 DEF AllRead
      <4> QED BY <3>3, <4>2, <4>3
    <3> QED BY <3>8, <3>9, <3>10
  <2> QED BY <2>1, <2>2, WritableIs
<1> QED BY <1>1, <1>3, <1>9, <1>11, <1>16

LEMMA ReadsNone == ReadsTo(<<>>)
<1> SUFFICES ASSUME NEW tail \in Seq(ByteSet)
             PROVE  ParseUpTo(Value(<<>>) \o tail)[Len(Value(<<>>))]
                      = Reading(Len(Value(<<>>)) + 1, Pending(<<>>), Settled(<<>>))
  BY DEF ReadsTo
<1>1. Value(<<>>) \o tail = tail /\ Len(Value(<<>>)) = 0
  BY ValueOfNone
<1>2. Pending(<<>>) = <<>>
  BY DEF Pending, EndsInRef
<1>3. Settled(<<>>) = <<>>
  BY DEF Settled, EndsInRef, AllRead
<1>4. ParseUpTo(tail)[0] = Reading(1, <<>>, <<>>)
  BY ReadingIs DEF IsReading
<1>5. 0 + 1 = 1
  OBVIOUS
<1> QED BY <1>1, <1>2, <1>3, <1>4, <1>5

LEMMA ReadsBack ==
    ASSUME NEW segs \in Seq(Segments), ReadsTo(segs)
    PROVE  Parse(Value(segs)) = AllRead(segs)
<1>1. PICK v : v = Value(segs)
  OBVIOUS
<1>2. v \in Seq(ByteSet) /\ <<>> \in Seq(ByteSet) /\ v \o <<>> = v
  BY <1>1, RendersAre
<1>3. ParseUpTo(v)[Len(v)] = Reading(Len(v) + 1, Pending(segs), Settled(segs))
  BY <1>1, <1>2 DEF ReadsTo
<1>4. Parse(v) = Flushed(Settled(segs), Pending(segs))
  BY <1>3 DEF Parse, Reading
<1> QED BY <1>1, <1>4, FlushedIsAll

LEMMA OpenReferenceRefused ==
    ASSUME NEW segs \in Seq(Segments), ReadsTo(segs), NEW c \in PlainBytes
    PROVE  Parse(Value(segs) \o <<"$", LBrace, c, ":", c>>) = BadReference
<1>1. PICK v, t : v = Value(segs) /\ t = <<"$", LBrace, c, ":", c>>
  OBVIOUS
<1>2. PICK s, p : s = v \o t /\ p = Len(v)
  OBVIOUS
<1>3. c \in ByteSet /\ c # RBrace
  BY ReferenceAssumption DEF ByteSet
<1>4. "$" \in ByteSet /\ ":" \in ByteSet
  BY DEF ByteSet
<1>5. t \in Seq(ByteSet) /\ Len(t) = 5 /\ t[1] = "$" /\ t[2] = LBrace /\ t[3] = c /\ t[4] = ":" /\ t[5] = c
  BY <1>1, <1>3, <1>4, Braces
<1>6. v \in Seq(ByteSet)
  BY <1>1, RendersAre
<1>7. s \in Seq(ByteSet) /\ IsConcat(s, v, t)
  BY <1>2, <1>5, <1>6, Concatenated
<1>8. p \in Nat /\ Len(s) = p + 5 /\ \A i \in 1..5 : s[p + i] = t[i]
  BY <1>2, <1>5, <1>7 DEF IsConcat
<1>9. /\ s[p + 1] = "$" /\ s[p + 2] = LBrace
      /\ s[p + 3] = c /\ s[p + 4] = ":" /\ s[p + 5] = c
  <2>1. 1 \in 1..5 /\ 2 \in 1..5 /\ 3 \in 1..5 /\ 4 \in 1..5 /\ 5 \in 1..5
    OBVIOUS
  <2> QED BY <1>5, <1>8, <2>1
<1>10. PICK i : i = p + 1
  OBVIOUS
<1>11. i \in 1..Len(s) /\ i < Len(s) /\ i - 1 = p /\ i + 1 = p + 2 /\ i + 2 = p + 3 /\ i + 2 \in Nat
  BY <1>8, <1>10
<1>12. \A k \in (i + 2)..Len(s) : k = p + 3 \/ k = p + 4 \/ k = p + 5
  BY <1>8, <1>11
<1>13. \A k \in (i + 2)..Len(s) : s[k] # RBrace
  BY <1>3, <1>9, <1>12, Braces
<1>14. Find(s, RBrace, i + 2) = 0
  BY <1>11, <1>13, FindsNone
<1>15. ParseUpTo(s)[i - 1] = Reading(i, Pending(segs), Settled(segs))
  BY <1>1, <1>2, <1>5, <1>10, <1>11 DEF ReadsTo
<1>16. s[i] = "$" /\ s[i + 1] = LBrace
  BY <1>9, <1>10, <1>11
<1>17. ParseUpTo(s)[i] = ReferenceRead(s, i, Pending(segs), Settled(segs))
  BY <1>7, <1>11, <1>15, <1>16, ReadsReference
<1>18. ParseUpTo(s)[i] = Reading(Len(s) + 1, <<>>, BadReference)
  BY <1>14, <1>17 DEF ReferenceRead
<1>19. i \in 0..Len(s) /\ Len(s) \in i..Len(s) /\ Len(s) + 1 \in Nat /\ Len(s) < Len(s) + 1
  BY <1>8, <1>11
<1>20. ParseUpTo(s)[Len(s)] = Reading(Len(s) + 1, <<>>, BadReference)
  BY <1>7, <1>18, <1>19, Skips
<1>21. Parse(s) = BadReference
  BY <1>20 DEF Parse, Reading, Flushed
<1> QED BY <1>1, <1>2, <1>21

ReferenceInv == segments \in Seq(Segments) /\ ReadsTo(segments)

(* A configuration value of any literals and references is read as it was  *)
(* written, and one that ends in an open reference is refused, for values  *)
(* of any length (reference.rs, parse).                                    *)
THEOREM ValuesRoundTrip == ReferenceSpec => []ValueRoundTrips
<1>1. ReferenceInit => ReferenceInv
  <2>1. <<>> \in Seq(Segments)
    OBVIOUS
  <2> QED BY <2>1, ReadsNone DEF ReferenceInit, ReferenceInv
<1>2. ReferenceInv /\ [ReferenceNext]_segments => ReferenceInv'
  <2> SUFFICES ASSUME ReferenceInv, [ReferenceNext]_segments PROVE ReferenceInv'
    OBVIOUS
  <2>1. CASE UNCHANGED segments
    BY <2>1 DEF ReferenceInv, ReadsTo
  <2>2. CASE ReferenceNext
    <3>1. PICK x \in Segments : Write(x)
      BY <2>2 DEF ReferenceNext
    <3>2. PICK segs : segs = segments
      OBVIOUS
    <3>3. segs \in Seq(Segments) /\ ReadsTo(segs)
      BY <3>2 DEF ReferenceInv
    <3>4. segments' = Append(segs, x) /\ (x.kind = "literal" => EndsInRef(segs))
      BY <3>1, <3>2 DEF Write, EndsInRef, Last
    <3>5. Append(segs, x) \in Seq(Segments) /\ ReadsTo(Append(segs, x))
      BY <3>3, <3>4, ReadsOneMore, AllReadAppend
    <3> QED BY <3>4, <3>5 DEF ReferenceInv
  <2> QED BY <2>1, <2>2
<1>3. ReferenceInv => ValueRoundTrips
  <2> SUFFICES ASSUME ReferenceInv PROVE ValueRoundTrips
    OBVIOUS
  <2>1. PICK segs : segs = segments
    OBVIOUS
  <2>2. segs \in Seq(Segments) /\ ReadsTo(segs)
    BY <2>1 DEF ReferenceInv
  <2>3. Parse(Value(segs)) = [i \in 1..Len(segs) |-> AsRead(segs[i])]
    BY <2>2, ReadsBack DEF AllRead
  <2>4. \A c \in PlainBytes : Parse(Value(segs) \o <<"$", LBrace, c, ":", c>>) = BadReference
    BY <2>2, OpenReferenceRefused
  <2> QED BY <2>1, <2>3, <2>4 DEF ValueRoundTrips
<1> QED BY <1>1, <1>2, <1>3, PTL DEF ReferenceSpec
=============================================================================
