---------------------------- MODULE StreamParser ----------------------------
(***************************************************************************)
(* The reader of a streamed completion (loop/src/llm/client.rs,            *)
(* process_stream): lines are put together from chunks that end anywhere,  *)
(* tool calls from deltas by index.  A line is three pieces, two halves of *)
(* its text and its newline; the text of a content delta is a character    *)
(* whose bytes are in different halves.                                    *)
(***************************************************************************)
EXTENDS Integers, Sequences, SequencesExt, FiniteSetsExt

CONSTANTS CallIndexes,    \* indexes of tool calls in deltas
          CachedCounts,   \* counts of cached tokens
          MaxLines        \* bound: lines of a response body

ASSUME StreamAssumption ==
    CallIndexes \subseteq Nat /\ CachedCounts \subseteq Nat /\ MaxLines \in Nat

(* Lines: content; the first delta of call i, with id and name; a delta    *)
(* with arguments of call i; usage with the flat or the nested count of    *)
(* cached tokens; a finish reason; and what is skipped: comments, empty    *)
(* and foreign lines, events that do not parse.                            *)
Line(kind, index, flat, nested) == [kind |-> kind, index |-> index, flat |-> flat, nested |-> nested]
Plain ==
    {Line(kind, 0, 0, 0) : kind \in {"text", "stop", "noise"}}
    \cup {Line(kind, i, 0, 0) : kind \in {"open", "args"}, i \in CallIndexes}
    \cup {Line("usage", 0, n, 0) : n \in CachedCounts}
    \cup {Line("usage", 0, 0, n) : n \in CachedCounts}
Done == Line("done", 0, 0, 0)

(* What a server sends: [DONE] comes last, if it comes. *)
Bodies == {s \in UNION {[1..n -> Plain \cup {Done}] : n \in 1..MaxLines} :
              \A i \in 1..(Len(s) - 1) : s[i] # Done}

VARIABLES
    lines,     \* the body
    received,  \* pieces of it received
    buffer,    \* received and not yet taken as a line
    result,    \* what has been put together, and `emitted`
    open,      \* the stream has not ended
    torn       \* history: content lines with a chunk's end inside a character

streamVars == <<lines, received, buffer, result, open, torn>>

NoResult == [text |-> <<>>, calls |-> <<>>, usage |-> 0, finish |-> FALSE, emitted |-> FALSE]
NoPartial == [id |-> 0, args |-> <<>>]

StreamInit ==
    /\ lines \in Bodies
    /\ received = 0 /\ buffer = <<>> /\ result = NoResult /\ open = TRUE /\ torn = {}

Piece(n) == <<1 + (n - 1) \div 3, 1 + ((n - 1) % 3)>>
IsNewline(piece) == piece[2] = 3

AccumulateInOrder(calls, index, k) ==
    IF lines[k].kind = "open" THEN Append(calls, [id |-> k, args |-> <<>>])
    ELSE [i \in 1..Max({Len(calls), 1}) |->
            LET c == IF i <= Len(calls) THEN calls[i] ELSE NoPartial
            IN  IF i < Len(calls) THEN c ELSE [c EXCEPT !.args = Append(@, k)]]

(* accumulate_tool_call: the list is filled up to the index. *)
Accumulate(calls, index, k) ==
    [i \in 1..Max({Len(calls), index + 1}) |->
        LET c == IF i <= Len(calls) THEN calls[i] ELSE NoPartial
        IN  IF i # index + 1 THEN c
            ELSE IF lines[k].kind = "open" THEN [c EXCEPT !.id = k]
            ELSE [c EXCEPT !.args = Append(@, k)]]

(* Deserialize for Usage: Anthropic has a flat count of cached tokens,     *)
(* OpenAI a nested one.                                                    *)
CachedTokens(flat, nested) == Max({flat, nested})

ApplyTextOnlyEmits(r, k, whole) ==
    LET kind == lines[k].kind
    IN  [text |-> IF kind = "text" THEN Append(r.text, <<k, whole>>) ELSE r.text,
         calls |-> IF kind \in {"open", "args"} THEN Accumulate(r.calls, lines[k].index, k) ELSE r.calls,
         usage |-> IF kind = "usage" THEN CachedTokens(lines[k].flat, lines[k].nested) ELSE r.usage,
         finish |-> r.finish \/ kind = "stop",
         emitted |-> r.emitted \/ kind = "text"]

(* One event, whose text was decoded whole or not.  A later usage takes    *)
(* the place of an earlier one.                                            *)
Apply(r, k, whole) ==
    LET kind == lines[k].kind
    IN  [text |-> IF kind = "text" THEN Append(r.text, <<k, whole>>) ELSE r.text,
         calls |-> IF kind \in {"open", "args"} THEN Accumulate(r.calls, lines[k].index, k) ELSE r.calls,
         usage |-> IF kind = "usage" THEN CachedTokens(lines[k].flat, lines[k].nested) ELSE r.usage,
         finish |-> r.finish \/ kind = "stop",
         emitted |-> r.emitted \/ kind \in {"text", "open", "args"}]

(* The inner loop over the lines of the buffer, seen after each piece:     *)
(* where the rest of the buffer starts, what is put together, and whether  *)
(* [DONE] broke the loop.  A line that lost a half would not parse.        *)
DrainUpTo(buf, r, split) ==
    LET after[e \in 0..Len(buf)] ==
            IF e = 0 THEN [start |-> 0, result |-> r, loop |-> "runs"]
            ELSE LET k == buf[e][1]
                     rest == after[e - 1]
                 IN  IF rest.loop = "broken" \/ ~IsNewline(buf[e]) THEN rest
                     ELSE IF e - rest.start < 3 THEN [start |-> e, result |-> rest.result, loop |-> "runs"]
                     ELSE IF lines[k] = Done THEN [start |-> e, result |-> rest.result, loop |-> "broken"]
                     ELSE [start |-> e, result |-> Apply(rest.result, k, k \notin split), loop |-> "runs"]
    IN  after

(* The rest of the buffer and the result. *)
Drain(buf, r, split) ==
    LET end == DrainUpTo(buf, r, split)[Len(buf)]
    IN  <<SubSeq(buf, end.start + 1, Len(buf)), end.result>>

ChunkForgetsRest(n) ==
    /\ open /\ received + n <= 3 * Len(lines)
    /\ received' = received + n
    /\ LET cut == Piece(received')
           split == torn \cup {k \in {cut[1]} : cut[2] = 1 /\ lines[k].kind = "text"}
           drained == Drain([i \in 1..n |-> Piece(received + i)], result, split)
       IN  torn' = split /\ buffer' = drained[1] /\ result' = drained[2]
    /\ UNCHANGED <<lines, open>>

(* One chunk of n pieces, decoded by itself (from_utf8_lossy): a character *)
(* across the end of a chunk is replaced.                                  *)
Chunk(n) ==
    /\ open /\ received + n <= 3 * Len(lines)
    /\ received' = received + n
    /\ LET cut == Piece(received')
           split == torn \cup {k \in {cut[1]} : cut[2] = 1 /\ lines[k].kind = "text"}
           drained == Drain(buffer \o [i \in 1..n |-> Piece(received + i)], result, split)
       IN  torn' = split /\ buffer' = drained[1] /\ result' = drained[2]
    /\ UNCHANGED <<lines, open>>

(* The stream ends, perhaps in a line: what is in the buffer is dropped. *)
StreamEnds ==
    /\ open
    /\ open' = FALSE /\ buffer' = <<>>
    /\ UNCHANGED <<lines, received, result, torn>>

StreamNext == StreamEnds \/ \E n \in 1..(3 * MaxLines) : Chunk(n)

(* One response on its own, for the theorems. *)
StreamSpec == StreamInit /\ [][StreamNext]_streamVars

-----------------------------------------------------------------------------
(* What the first n lines say, taken together. *)
Of(kind, n) == {k \in 1..n : lines[k].kind = kind}
Deltas(kind, index, n) == {k \in Of(kind, n) : lines[k].index = index}
Latest(ks, default) == IF ks = {} THEN default ELSE Max(ks)

(* The elements of ks, each once, from the least to the greatest. *)
InOrder(s, ks) ==
    /\ {s[i] : i \in 1..Len(s)} = ks
    /\ \A i, j \in 1..Len(s) : i < j => s[i] < s[j]

(* However the body is cut into chunks, the response is what its complete  *)
(* lines say: every argument fragment with its own call, in order, the     *)
(* last usage, the cached tokens of whichever provider; only a character   *)
(* cut in two is not what was sent (client.rs 202-265, 310-333).           *)
ParsedIsWhatWasSent ==
    LET n     == received \div 3
        calls == Of("open", n) \cup Of("args", n)
        usage == Latest(Of("usage", n), 0)
    IN  /\ InOrder([i \in 1..Len(result.text) |-> result.text[i][1]], Of("text", n))
        /\ \A i \in 1..Len(result.text) : result.text[i][2] <=> result.text[i][1] \notin torn
        /\ Len(result.calls) = Latest({lines[k].index + 1 : k \in calls}, 0)
        /\ \A i \in 1..Len(result.calls) :
              /\ result.calls[i].id = Latest(Deltas("open", i - 1, n), 0)
              /\ InOrder(result.calls[i].args, Deltas("args", i - 1, n))
        /\ result.usage = IF usage = 0 THEN 0 ELSE lines[usage].flat + lines[usage].nested
        /\ result.finish <=> Of("stop", n) # {}

(* `emitted`, on which the retry of a broken stream depends, is set as     *)
(* soon as there is output of any kind (client.rs 250, 261).               *)
OutputIsFlagged ==
    LET n == received \div 3
    IN  result.emitted <=> Of("text", n) \cup Of("open", n) \cup Of("args", n) # {}

(* However the body is cut into chunks, the response and its flag for the  *)
(* retry policy are those of the whole body (client.rs 202-301).           *)
ResponseIsFaithful == ParsedIsWhatWasSent /\ OutputIsFlagged
=============================================================================
