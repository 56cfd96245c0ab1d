--------------------------- MODULE ConfigReference ---------------------------
(***************************************************************************)
(* The parser of configuration values (compute/src/config/reference.rs):   *)
(* literals with $$ for $, and references ${scheme:path[:key]}.  A value   *)
(* is a sequence of bytes; one character outside ASCII stands for all, its *)
(* two bytes being "C3" and "A9".                                          *)
(***************************************************************************)
EXTENDS Integers, Sequences, SequencesExt, FiniteSetsExt

CONSTANTS PlainBytes,    \* ASCII characters that mean nothing to the parser
          Segments,      \* literals and references a value is written from
          MaxSegments    \* bound: segments of a value

VARIABLE segments        \* the segments a value is written from

LBrace == "{"
RBrace == "}"

Literal(text) == [kind |-> "literal", text |-> text]
Ref(scheme, path, key) == [kind |-> "ref", scheme |-> scheme, path |-> path, key |-> key]
NoKey == <<"no key">>
ByteSet == {"$", LBrace, RBrace, ":", "C3", "A9"} \cup PlainBytes

(* What the grammar can write: a literal of anything, a scheme and a path  *)
(* that end where the next colon or brace is, a key that ends at the brace.*)
Writable(s) ==
    \/ /\ s.kind = "literal"
       /\ s = Literal(s.text)
       /\ s.text \in Seq(ByteSet) /\ s.text # <<>>
    \/ /\ s.kind = "ref"
       /\ s = Ref(s.scheme, s.path, s.key)
       /\ s.scheme \in Seq(ByteSet \ {":", RBrace}) /\ s.scheme # <<>>
       /\ s.path \in Seq(ByteSet \ {":", RBrace}) /\ s.path # <<>>
       /\ s.key = NoKey \/ s.key \in Seq(ByteSet \ {RBrace})

ASSUME ReferenceAssumption ==
    /\ PlainBytes \cap {"$", LBrace, RBrace, ":", "C3", "A9", "no key"} = {}
    /\ \A s \in Segments : Writable(s)
    /\ MaxSegments \in Nat

BadReference == <<[kind |-> "BadReference"]>>

(* Position of the first c in s from `from` on, 0 if there is none. *)
Find(s, c, from) ==
    LET at == {i \in from..Len(s) : s[i] = c} IN IF at = {} THEN 0 ELSE Min(at)

ParseRefBodySplitLast(body) ==
    LET first == Find(body, ":", 1)
        last  == IF first = 0 THEN 0 ELSE Max({i \in 1..Len(body) : body[i] = ":"})
        path  == SubSeq(body, first + 1, IF last = first THEN Len(body) ELSE last - 1)
        key   == IF last = first THEN NoKey ELSE SubSeq(body, last + 1, Len(body))
    IN  IF first <= 1 \/ path = <<>> THEN BadReference
        ELSE <<Ref(SubSeq(body, 1, first - 1), path, key)>>

(* scheme:path[:key], split at the first two colons. *)
ParseRefBody(body) ==
    LET first  == Find(body, ":", 1)
        second == IF first = 0 THEN 0 ELSE Find(body, ":", first + 1)
        path   == SubSeq(body, first + 1, IF second = 0 THEN Len(body) ELSE second - 1)
        key    == IF second = 0 THEN NoKey ELSE SubSeq(body, second + 1, Len(body))
    IN  IF first <= 1 \/ path = <<>> THEN BadReference
        ELSE <<Ref(SubSeq(body, 1, first - 1), path, key)>>

Flushed(out, buf) == IF buf = <<>> THEN out ELSE Append(out, Literal(buf))

(* `b as char`: each byte of a literal becomes a character of its own. *)
AsChar(b) == CASE b = "C3" -> "U+00C3" [] b = "A9" -> "U+00A9" [] OTHER -> b

(* The loop at position i; a position it has jumped over passes by, and    *)
(* after an error all of them do.                                          *)
ParseAt(s, i, state) ==
    LET Next2(c) == i < Len(s) /\ s[i] = "$" /\ s[i + 1] = c
        end  == Find(s, RBrace, i + 2)
        body == ParseRefBody(SubSeq(s, i + 2, end - 1))
    IN  IF i < state.at THEN state
        ELSE CASE Next2("$") -> [at |-> i + 2, buf |-> Append(state.buf, "$"), out |-> state.out]
               [] Next2(LBrace) -> IF end = 0 \/ body = BadReference
                                THEN [at |-> Len(s) + 1, buf |-> <<>>, out |-> BadReference]
                                ELSE [at |-> end + 1, buf |-> <<>>, out |-> Flushed(state.out, state.buf) \o body]
               [] OTHER -> [at |-> i + 1, buf |-> Append(state.buf, AsChar(s[i])), out |-> state.out]

ParseUpTo(s) ==
    LET after[i \in 0..Len(s)] ==
            IF i = 0 THEN [at |-> 1, buf |-> <<>>, out |-> <<>>] ELSE ParseAt(s, i, after[i - 1])
    IN  after

Parse(s) == LET end == ParseUpTo(s)[Len(s)] IN Flushed(end.out, end.buf)

-----------------------------------------------------------------------------
(* How a segment is written, by the grammar at the head of the file. *)
Render(segment) ==
    IF segment.kind = "literal"
    THEN FlattenSeq([i \in 1..Len(segment.text) |->
                        IF segment.text[i] = "$" THEN <<"$", "$">> ELSE <<segment.text[i]>>])
    ELSE <<"$", LBrace>> \o segment.scheme \o <<":">> \o segment.path
         \o (IF segment.key = NoKey THEN <<>> ELSE <<":">> \o segment.key) \o <<RBrace>>

Value(segs) == FlattenSeq([i \in 1..Len(segs) |-> Render(segs[i])])

ReferenceInit == segments = <<>>

(* Two literals in a row are one. *)
Write(s) ==
    /\ Len(segments) < MaxSegments
    /\ (s.kind = "literal" /\ segments # <<>>) => Last(segments).kind = "ref"
    /\ segments' = Append(segments, s)

ReferenceNext == \E s \in Segments : Write(s)

(* One value on its own, for the theorems. *)
ReferenceSpec == ReferenceInit /\ [][ReferenceNext]_segments

(* A segment as it is read: of a literal, the bytes of a character outside *)
(* ASCII one by one.                                                       *)
AsRead(s) == IF s.kind = "ref" THEN s ELSE Literal([i \in 1..Len(s.text) |-> AsChar(s.text[i])])

(* A value comes back as the segments it was written from, whatever        *)
(* dollars, braces and colons they hold and however they meet; only the    *)
(* bytes of a character outside ASCII in a literal come back one by one.   *)
(* What ends in an open reference is refused (reference.rs 1-11).          *)
ValueRoundTrips ==
    /\ Parse(Value(segments)) = [i \in 1..Len(segments) |-> AsRead(segments[i])]
    /\ \A c \in PlainBytes : Parse(Value(segments) \o <<"$", LBrace, c, ":", c>>) = BadReference
=============================================================================
