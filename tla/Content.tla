------------------------------- MODULE Content -------------------------------
(***************************************************************************)
(* What the messages of the context hold, from where they come in to where *)
(* they go out: blocks of JSON as they are typed (loop/src/llm/types.rs),  *)
(* file URLs inlined (llm/resolve.rs), results of tools (agentic_loop.rs)  *)
(* and the redacted snapshot for tracing (observability/preview.rs).       *)
(* A text is the sequence of its characters' lengths in bytes.             *)
(***************************************************************************)
EXTENDS Integers, Sequences, SequencesExt, FiniteSetsExt

CONSTANTS Texts,         \* what users, the LLM, tools and the prompt say
          DetailTail,    \* DETAIL_TAIL
          Truncate,      \* role -> SYSTEM_TRUNCATE, ASSISTANT_TRUNCATE, TOOL_TRUNCATE
          MaxContext     \* bound: messages

(* Limits are lengths in bytes, and a character has one to four of them.   *)
ASSUME ContentAssumption ==
    /\ Texts \subseteq Seq(1..4)
    /\ DetailTail \in Nat
    /\ Truncate \in [{"system", "assistant", "tool"} -> Nat]

VARIABLES
    context,   \* the messages, as they are sent to the LLM
    acp        \* the last answer of an operator's tool and what was made of it

contentVars == <<context, acp>>

(* A block of JSON: its type, whether the fields of the type are there,    *)
(* and the URL in it.  "bare file" is a file URL in an image_url that is   *)
(* itself a string: there is no string "url" in it for the resolver.       *)
Json(type, ok, url) == [type |-> type, ok |-> ok, url |-> url]
FileUrls == {"file readable", "file missing", "file of no known type"}
KnownTypes == {"text", "image_url", "image", "input_audio"}

(* Deserialize for TypedBlock: what does not parse is kept as it is. *)
Typed(json) == IF json.ok /\ json.type \in KnownTypes THEN json ELSE [json EXCEPT !.type = "unknown"]

(* resolve_content_block: of an image_url that holds a string "url", the   *)
(* file is inlined, or replaced by a note.  Anything else is passed on: a  *)
(* bare string, and URLs in blocks of other or unknown types.              *)
ResolveBlock(block) ==
    IF block.type = "image_url" /\ block.url \in FileUrls
    THEN IF block.url = "file readable" THEN [block EXCEPT !.url = "data"] ELSE Json("text", TRUE, "none")
    ELSE block

(* What a text is: what somebody said, or the JSON of an operator's answer *)
(* and with it the data of the images in that.                             *)
TextKinds == {"text", "answer"}

TextOf(role, widths, of) == [role |-> role, text |-> widths, of |-> of, blocks |-> <<>>]
Text(role, widths) == TextOf(role, widths, "text")
Blocks(role, jsons) ==
    [role |-> role, text |-> <<>>, of |-> "text", blocks |-> [i \in 1..Len(jsons) |-> Typed(jsons[i])]]

ResolveFirst(m) ==
    IF m.blocks = <<>> THEN m ELSE [m EXCEPT !.blocks = <<ResolveBlock(Head(m.blocks))>> \o Tail(m.blocks)]

(* resolve_file_urls_in_message *)
Resolve(m) == [m EXCEPT !.blocks = [i \in 1..Len(m.blocks) |-> ResolveBlock(m.blocks[i])]]

-----------------------------------------------------------------------------
(* Results of tools.  A tool's output is text, or blocks of text and of    *)
(* images, which become data URLs.                                         *)
ToolOutputToContent(output, said) ==
    IF output = <<"text">> THEN Text("tool", said)
    ELSE Blocks("tool", [i \in 1..Len(output) |->
            IF output[i] = "image" THEN Json("image_url", TRUE, "data") ELSE Json("text", TRUE, "none")])

(* An operator's answer: isError, and the texts in its content ("" for one *)
(* that is empty; blocks of other types are passed over when there is a    *)
(* text, and part of the whole answer when there is none).                 *)
Answers == [isError : BOOLEAN, texts : {<<>>, <<"">>, <<"x">>, <<"", "x">>}]

ExtractAcpToolResultFallbackOk(answer) ==
    IF \E i \in 1..Len(answer.texts) : answer.texts[i] # "" \/ Len(answer.texts) > 1
    THEN [error |-> answer.isError, from |-> "texts"]
    ELSE [error |-> FALSE, from |-> "answer"]

(* extract_acp_tool_result: the joined texts, or the whole answer. *)
ExtractAcpToolResult(answer) ==
    IF \E i \in 1..Len(answer.texts) : answer.texts[i] # "" \/ Len(answer.texts) > 1
    THEN [error |-> answer.isError, from |-> "texts"]
    ELSE [error |-> answer.isError, from |-> "answer"]

-----------------------------------------------------------------------------
(* The snapshot *)

(* The bytes of the first k characters, and whether a length is the end of *)
(* a character.                                                            *)
BytesUpTo(chars) ==
    LET sum[k \in 0..Len(chars)] == IF k = 0 THEN 0 ELSE sum[k - 1] + chars[k].width
    IN  sum
Bytes(chars, k) == BytesUpTo(chars)[k]
IsBoundary(chars, end) == \E k \in 0..Len(chars) : Bytes(chars, k) = end

TruncateStrAt(chars, max) ==
    IF Bytes(chars, Len(chars)) <= max THEN chars
    ELSE SubSeq(chars, 1, Min({k \in 0..Len(chars) : Bytes(chars, k) >= max}))

(* truncate_str: walk back from the limit to a boundary. *)
WalkToBoundary(chars, max) ==
    LET walk[end \in 0..max] == IF IsBoundary(chars, end) THEN end ELSE walk[end - 1]
    IN  walk

TruncateStr(chars, max) ==
    IF Bytes(chars, Len(chars)) <= max THEN chars
    ELSE SubSeq(chars, 1, CHOOSE k \in 0..Len(chars) : Bytes(chars, k) = WalkToBoundary(chars, max)[max])

Chars(widths, of) == [i \in 1..Len(widths) |-> [width |-> widths[i], of |-> of]]

BlockToTextUrl(block) ==
    CASE block.type = "text"      -> Chars(<<2, 1>>, "text")
      [] block.type = "image_url" -> Chars(<<1, 1>>, block.url)
      [] OTHER                    -> Chars(<<1, 1>>, "placeholder")

(* Text as it is; [image], [audio] or [media] for the rest. *)
BlockToText(block) ==
    IF block.type = "text" THEN Chars(<<2, 1>>, "text") ELSE Chars(<<1, 1>>, "placeholder")

(* content_to_text: blocks joined by newlines. *)
Joined(blocks) ==
    LET join[k \in 1..Len(blocks)] ==
            IF k = 1 THEN BlockToText(blocks[1])
            ELSE join[k - 1] \o Chars(<<1>>, "newline") \o BlockToText(blocks[k])
    IN  join

ContentToText(m) ==
    IF m.blocks = <<>> THEN Chars(m.text, m.of) ELSE Joined(m.blocks)[Len(m.blocks)]

Shown(m) ==
    [role |-> m.role,
     body |-> IF m.role = "user" THEN ContentToText(m) ELSE TruncateStr(ContentToText(m), Truncate[m.role])]

DetailStartShort(n) == Max({n - DetailTail, 0})

(* saturating_sub, and never the prompt at index 0. *)
DetailStart(n) == Max({n - DetailTail, 1})

(* build_context_snapshot *)
Snapshot(ms) ==
    [skipped |-> Max({DetailStart(Len(ms)) - 1, 0}),
     shown |-> [i \in 1..Max({Len(ms) - DetailStart(Len(ms)), 0}) |-> Shown(ms[DetailStart(Len(ms)) + i])]]

-----------------------------------------------------------------------------
Images == {Json("image_url", TRUE, u) : u \in FileUrls \cup {"http", "bare file"}}
Others == {Json("text", TRUE, "none"), Json("text", FALSE, "none"), Json("image", TRUE, "file readable"),
           Json("input_audio", TRUE, "none"), Json("video", TRUE, "file readable")}
Incoming == {Text("user", w) : w \in Texts} \cup {Blocks("user", <<o, i>>) : o \in Others, i \in Images}

ContentInit == context = <<>> /\ acp = <<>>

Room == Len(context) < MaxContext

(* main: the history from initialize, every message resolved, and the      *)
(* prompt before it.                                                       *)
BootContext(m) ==
    /\ context = <<>>
    /\ \E prompt \in Texts : context' = <<Text("system", prompt), Resolve(m)>>
    /\ UNCHANGED acp

ReceiveUser(m) ==
    /\ Room /\ context # <<>>
    /\ context' = Append(context, Resolve(m))
    /\ UNCHANGED acp

LlmText(said) ==
    /\ Room /\ context # <<>>
    /\ context' = Append(context, Text("assistant", said))
    /\ UNCHANGED acp

ToolResult(output, said) ==
    /\ Room /\ context # <<>>
    /\ context' = Append(context, ToolOutputToContent(output, said))
    /\ UNCHANGED acp

(* The answer of an operator's tool is always a text to the LLM: the texts *)
(* in it, or all of its JSON.                                              *)
AcpResult(answer, said) ==
    /\ Room /\ context # <<>>
    /\ LET result == ExtractAcpToolResult(answer)
       IN  /\ context' = Append(context, TextOf("tool", said, IF result.from = "texts" THEN "text" ELSE "answer"))
           /\ acp' = <<answer, result>>

Nudge(said) ==
    /\ Room /\ context # <<>>
    /\ context' = Append(context, Text("system", said))
    /\ UNCHANGED acp

ContentNext ==
    \/ \E m \in Incoming : BootContext(m) \/ ReceiveUser(m)
    \/ \E said \in Texts :
          \/ LlmText(said) \/ Nudge(said)
          \/ \E out \in {<<"text">>, <<"image">>, <<"text", "image">>} : ToolResult(out, said)
          \/ \E a \in Answers : AcpResult(a, said)

(* The life of a context on its own, for the theorems. *)
ContentSpec == ContentInit /\ [][ContentNext]_contentVars

-----------------------------------------------------------------------------
(* Whatever way an image_url block came into the context, from the         *)
(* history, a user or a tool, and whether or not its file could be read,   *)
(* the LLM gets no file URL in it (resolve.rs 20-57, main.rs 161, 201,     *)
(* agentic_loop.rs 406-426).  It is about the image_url that holds a       *)
(* string "url": file URLs elsewhere are passed on (resolve.rs 31-38).     *)
NoFileUrlSent ==
    \A i \in 1..Len(context) : \A j \in 1..Len(context[i].blocks) :
        context[i].blocks[j].type = "image_url" => context[i].blocks[j].url \notin FileUrls

(* The snapshot accounts for every message behind the prompt, once, in     *)
(* order (preview.rs 32-68).                                               *)
SnapshotIsWhole ==
    LET s == Snapshot(context)
        n == Len(s.shown)
    IN  context # <<>> =>
          /\ s.skipped + n = Len(context) - 1 /\ n <= DetailTail
          /\ \A i \in 1..n : s.shown[i].role = context[1 + s.skipped + i].role

(* The snapshot shows no block of media, wherever in the context it is:    *)
(* neither the URL nor the data of an image (preview.rs 72-96).  Only the  *)
(* answer of an operator's tool without a text is JSON in a text, images   *)
(* included (agentic_loop.rs 461-466), of which it shows the first bytes.  *)
NoMediaInSnapshot ==
    LET s == Snapshot(context)
    IN  \A i \in 1..Len(s.shown) : \A j \in 1..Len(s.shown[i].body) :
           \/ s.shown[i].body[j].of \in {"text", "placeholder", "newline"}
           \/ /\ context[1 + s.skipped + i].of = "answer"
              /\ Bytes(s.shown[i].body, Len(s.shown[i].body)) <= Truncate["tool"]

(* A shortened body is the longest run of whole characters within the      *)
(* limit of its role (preview.rs 98-109).                                  *)
CutsBetweenCharacters ==
    \A i \in 1..Len(context) : context[i].role # "user" =>
        LET all  == ContentToText(context[i])
            body == Shown(context[i]).body
            max  == Truncate[context[i].role]
        IN  /\ IsPrefix(body, all) /\ Bytes(body, Len(body)) <= max
            /\ body # all => Bytes(all, Len(body) + 1) > max

(* An operator's tool that says it failed is a failed tool to the LLM,     *)
(* with or without a text that says why (agentic_loop.rs 431-469).         *)
AcpErrorsAreErrors == acp # <<>> => acp[2].error = acp[1].isError

(* What leaves the process holds for every way content can come in: to the *)
(* LLM, file URLs inlined and failed tools marked (resolve.rs,             *)
(* agentic_loop.rs 403-469); to the tracer, a whole snapshot without media *)
(* (preview.rs).                                                           *)
ContentOK ==
    /\ NoFileUrlSent
    /\ SnapshotIsWhole
    /\ NoMediaInSnapshot
    /\ CutsBetweenCharacters
    /\ AcpErrorsAreErrors
=============================================================================
