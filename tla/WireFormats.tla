---------------------------- MODULE WireFormats ----------------------------
(***************************************************************************)
(* How the five streaming handlers translate the chunks of one generic     *)
(* stream into the frames of their provider's wire contract.               *)
(*                                                                         *)
(*   openai     SSE chat completion chunks, closed by [DONE]               *)
(*   responses  SSE Responses API events, opened by the first chunk        *)
(*   converse   AWS event stream, Bedrock ConverseStream                   *)
(*   invoke     AWS event stream, Claude InvokeModelWithResponseStream     *)
(*   vertex     one JSON array, an element for every chunk                 *)
(*                                                                         *)
(* A word is a pair <<text, position>>: the position-th piece splitWords   *)
(* cuts out of text.  JSON, base64 and binary framing are left out: only   *)
(* the kind of a frame and what it says of the reply are kept.             *)
(***************************************************************************)
EXTENDS Naturals, Sequences

SurfaceNames == {"openai", "responses", "converse", "invoke", "vertex"}

\* The zero TokenUsage, also what is serialised when a chunk has none.
NoUsage == [prompt |-> 0, completion |-> 0, total |-> 0]

\* domain.StreamChunk without its identifiers.
WordChunk(w, isFirst) ==
    [words |-> <<w>>, role |-> isFirst, finish |-> "", usage |-> NoUsage]

FinalChunk(usage) ==
    [words |-> <<>>, role |-> FALSE, finish |-> "stop", usage |-> usage]

Frame(kind, words, role, finish, usage) ==
    [kind |-> kind, words |-> words, role |-> role, finish |-> finish,
     usage |-> usage]

Mark(kind) == Frame(kind, <<>>, FALSE, "", NoUsage)

(***************************************************************************)
(* The local variables of the handlers: the Responses handler accumulates  *)
(* fullText, the Bedrock ones keep finish and usage for their trailer, and *)
(* Responses (id = "resp-0") and Vertex (first) remember whether a chunk   *)
(* has been seen.                                                          *)
(***************************************************************************)
InitialLocals ==
    [first |-> TRUE, fullText |-> <<>>, finish |-> "stop", usage |-> NoUsage]

BedrockStreams == {"converse", "invoke"}

Absorb(surface, l, c) ==
    [first    |-> IF surface \in {"responses", "vertex"} THEN FALSE ELSE l.first,
     fullText |-> IF surface = "responses" THEN l.fullText \o c.words
                                           ELSE l.fullText,
     finish   |-> IF surface \in BedrockStreams /\ c.finish # ""
                  THEN c.finish ELSE l.finish,
     usage    |-> IF surface \in BedrockStreams /\ c.usage # NoUsage
                  THEN c.usage ELSE l.usage]

\* What is written together with the 200 header, before the first chunk.
Opening(surface) ==
    CASE surface = "converse" -> <<Mark("messageStart")>>
      [] surface = "invoke"   -> <<Mark("message_start"),
                                   Mark("content_block_start")>>
      [] surface = "vertex"   -> <<Mark("[")>>
      [] OTHER                -> <<>>

OpenAIFrames(c) == <<Frame("data", c.words, c.role, c.finish, c.usage)>>

\* l: the locals before the chunk was absorbed.
ResponsesFrames(l, c) ==
    (IF l.first
     THEN <<Mark("response.created"), Mark("response.output_item.added")>>
     ELSE <<>>)
    \o (IF c.words # <<>>
        THEN <<Frame("response.output_text.delta", c.words, FALSE, "", NoUsage)>>
        ELSE <<>>)
    \o (IF c.finish # ""
        THEN LET fullText == l.fullText \o c.words
             IN <<Frame("response.output_item.done", fullText, FALSE, "", NoUsage),
                  Frame("response.completed", fullText, FALSE, c.finish, c.usage)>>
        ELSE <<>>)

BedrockFrames(kind, c) ==
    IF c.words # <<>> THEN <<Frame(kind, c.words, FALSE, "", NoUsage)>> ELSE <<>>

\* finishReasonFor maps the empty reason of an intermediate chunk to STOP.
VertexFrames(l, c) ==
    (IF l.first THEN <<>> ELSE <<Mark(",")>>)
    \o <<Frame("element", c.words, FALSE, "stop", c.usage)>>

\* The frames the body of the handler's range loop writes for one chunk.
Translate(surface, l, c) ==
    CASE surface = "openai"    -> OpenAIFrames(c)
      [] surface = "responses" -> ResponsesFrames(l, c)
      [] surface = "converse"  -> BedrockFrames("contentBlockDelta", c)
      [] surface = "invoke"    -> BedrockFrames("content_block_delta", c)
      [] surface = "vertex"    -> VertexFrames(l, c)

\* What follows the range loop, however the channel came to be closed.
Closing(surface, l) ==
    CASE surface = "openai"   -> <<Mark("[DONE]")>>
      [] surface = "converse" ->
            <<Mark("contentBlockStop"),
              Frame("messageStop", <<>>, FALSE, l.finish, NoUsage),
              Frame("metadata", <<>>, FALSE, "", l.usage)>>
      [] surface = "invoke"   ->
            <<Mark("content_block_stop"),
              Frame("message_delta", <<>>, FALSE, l.finish, l.usage),
              Mark("message_stop")>>
      [] surface = "vertex"   -> <<Mark("]")>>
      [] OTHER                -> <<>>

\* The body of a reply that is not streamed.
WholeReply(words, usage) == <<Frame("body", words, FALSE, "stop", usage)>>

(***************************************************************************)
(* Reading a wire back, as a client does.  SpokenKinds are the frames      *)
(* whose words are new text; the final events of the Responses API repeat  *)
(* the text that was streamed before them.                                 *)
(***************************************************************************)
SpokenKinds ==
    {"data", "response.output_text.delta", "contentBlockDelta",
     "content_block_delta", "element", "body"}

SpokenUpTo(wire, n) ==
    LET s[i \in 0..n] ==
            IF i = 0 THEN <<>>
            ELSE IF wire[i].kind \in SpokenKinds
                 THEN s[i - 1] \o wire[i].words
                 ELSE s[i - 1]
    IN  s[n]

Spoken(wire) == SpokenUpTo(wire, Len(wire))

(***************************************************************************)
(* The complete stream of a reply, written down surface by surface from    *)
(* the point of view of the client: the reference the handlers are         *)
(* compared with.                                                          *)
(***************************************************************************)
ExpectedWire(surface, words, usage) ==
    LET n == Len(words)
        deltas(kind) ==
            [i \in 1..n |-> Frame(kind, <<words[i]>>, FALSE, "", NoUsage)]
    IN  CASE surface = "openai" ->
                [i \in 1..n |->
                    Frame("data", <<words[i]>>, i = 1, "", NoUsage)]
                \o <<Frame("data", <<>>, FALSE, "stop", usage), Mark("[DONE]")>>
          [] surface = "responses" ->
                <<Mark("response.created"), Mark("response.output_item.added")>>
                \o deltas("response.output_text.delta")
                \o <<Frame("response.output_item.done", words, FALSE, "", NoUsage),
                     Frame("response.completed", words, FALSE, "stop", usage)>>
          [] surface = "converse" ->
                <<Mark("messageStart")>> \o deltas("contentBlockDelta")
                \o <<Mark("contentBlockStop"),
                     Frame("messageStop", <<>>, FALSE, "stop", NoUsage),
                     Frame("metadata", <<>>, FALSE, "", usage)>>
          [] surface = "invoke" ->
                <<Mark("message_start"), Mark("content_block_start")>>
                \o deltas("content_block_delta")
                \o <<Mark("content_block_stop"),
                     Frame("message_delta", <<>>, FALSE, "stop", usage),
                     Mark("message_stop")>>
          [] surface = "vertex" ->
                [i \in 1..(2 * n + 3) |->
                    CASE i = 1           -> Mark("[")
                      [] i = 2 * n + 3   -> Mark("]")
                      [] i = 2 * n + 2   -> Frame("element", <<>>, FALSE, "stop", usage)
                      [] i % 2 = 0 /\ i < 2 * n + 2 ->
                            Frame("element", <<words[i \div 2]>>, FALSE, "stop",
                                  NoUsage)
                      [] OTHER           -> Mark(",")]

\* How much of the complete stream is on the wire after k words, and after the
\* final chunk if that was translated too.
WrittenUpTo(surface, k, final) ==
    LET last == IF final THEN 1 ELSE 0
    IN  CASE surface = "openai"    -> k + last
          [] surface = "responses" -> IF k = 0 THEN 0 ELSE k + 2 + 2 * last
          [] surface = "converse"  -> k + 1
          [] surface = "invoke"    -> k + 2
          [] surface = "vertex"    -> IF k = 0 THEN 1 ELSE 2 * k + 2 * last

\* What a handler's locals hold by then.
LocalsAfter(surface, words, k, final, usage) ==
    [first    |-> IF surface \in {"responses", "vertex"} /\ k # 0 THEN FALSE
                                                                   ELSE TRUE,
     fullText |-> IF surface = "responses" THEN SubSeq(words, 1, k) ELSE <<>>,
     finish   |-> "stop",
     usage    |-> IF final /\ surface \in BedrockStreams THEN usage ELSE NoUsage]
=============================================================================
