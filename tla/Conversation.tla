---------------------------- MODULE Conversation ----------------------------
(***************************************************************************)
(* A client that picks a model from the mock's catalog and talks to it,    *)
(* turn by turn, on any surface: what a conversation becomes on its way to *)
(* the chat use case, and what it costs.  Every request carries the whole  *)
(* conversation so far; the mock keeps nothing between requests.           *)
(*                                                                         *)
(* A text is its length in bytes.  The name of a model, and a path that    *)
(* ends in one, is the sequence of its pieces between colons.              *)
(***************************************************************************)
EXTENDS Naturals, SequencesExt

CONSTANTS
    Pieces,         \* what the names of models are made of
    Catalog,        \* the models: a sequence of [id, owner, providers]
    Systems,        \* system prompts, sequences of blocks
    Histories,      \* turns of conversations begun elsewhere
    Utterances,     \* what users say: sequences of blocks
    Replies,        \* lengths of the mock's replies
    NoModel,        \* before a model is picked or looked up
    MaxTurns,       \* bound on the turns of the conversation
    MaxAsked        \* bound on the requests of the client

Providers == {"openai", "bedrock", "vertex"}

VertexActions == {"generateContent", "streamGenerateContent", "countTokens"}

\* A turn of a conversation; the system prompt is not one.
Turn == [role : {"user", "assistant"}, texts : Seq(Nat)]

\* No two models of the catalog share an id, and none is named like an action.
ConversationAssumption ==
    /\ Catalog \in Seq(Range(Catalog))
    /\ \A m \in Range(Catalog) :
          /\ m.id \in Seq(Pieces) /\ m.id # <<>> /\ Last(m.id) \notin VertexActions
          /\ m.providers \subseteq Providers
    /\ \A i, j \in DOMAIN Catalog : Catalog[i].id = Catalog[j].id => i = j
    /\ Systems \subseteq Seq(Nat)
    /\ \A h \in Histories : h \in Seq(Turn) /\ Len(h) <= MaxTurns
    /\ Utterances \subseteq Seq(Nat)
    /\ Replies \subseteq Nat \ {0}
    /\ MaxTurns \in Nat /\ MaxAsked \in Nat

ASSUME ConversationAssumption

VARIABLES
    picked,     \* the model the client talks to
    details,    \* what the mock said of it when asked, or NoModel
    conv,       \* the conversation: system prompt and turns
    log         \* what the client asked and was answered, in order

vars == <<picked, details, conv, log>>

Init ==
    /\ picked = NoModel
    /\ details = NoModel
    /\ conv \in [system : Systems, turns : Histories]
    /\ log = <<>>
-----------------------------------------------------------------------------
(* The catalog. *)

\* HasProvider: the lists of a surface.
Listed(provider) == {m \in Range(Catalog) : provider \in m.providers}

\* Get: the first match, whatever its providers; NoModel stands for a 404.
Get(id) ==
    LET found == {i \in DOMAIN Catalog : Catalog[i].id = id}
    IN  IF found = {} THEN NoModel
        ELSE Catalog[CHOOSE i \in found : \A j \in found : i <= j]

Pick(provider) ==
    /\ picked = NoModel
    /\ picked' \in Listed(provider)
    /\ UNCHANGED <<details, conv, log>>

LookUp ==
    /\ picked # NoModel /\ details = NoModel
    /\ details' = Get(picked.id)
    /\ UNCHANGED <<picked, conv, log>>
-----------------------------------------------------------------------------
(* What each surface makes of a conversation. *)

\* The length of the first n texts, and of all.
BytesUpTo(texts, n) ==
    LET bytes[i \in 0..n] == IF i = 0 THEN 0 ELSE bytes[i - 1] + texts[i]
    IN  bytes[n]

Bytes(texts) == BytesUpTo(texts, Len(texts))

Message(role, bytes) == [role |-> role, bytes |-> bytes]

\* OpenAI's handlers read contents that are strings; of any other the text is
\* lost.
StringBytes(form, texts) == IF form = "string" THEN Bytes(texts) ELSE 0

ChatMessages(form, c) ==
    LET system == [role |-> "system", texts |-> c.system]
        all    == IF c.system = <<>> THEN c.turns ELSE <<system>> \o c.turns
    IN  [i \in DOMAIN all |-> Message(all[i].role, StringBytes(form, all[i].texts))]

\* A system prompt in one piece: the "instructions" of Responses, the "system" of
\* InvokeModel.  An empty one is no message.
SystemString(c) ==
    IF Bytes(c.system) = 0 THEN <<>> ELSE <<Message("system", Bytes(c.system))>>

ResponsesMessages(form, c) ==
    SystemString(c)
        \o [i \in DOMAIN c.turns |->
              Message(c.turns[i].role, StringBytes(form, c.turns[i].texts))]

\* The blocks of a turn are put together.
Turns(c) == [i \in DOMAIN c.turns |-> Message(c.turns[i].role, Bytes(c.turns[i].texts))]

\* Each block of the system prompt that is not empty becomes a message.
SystemBlocks(blocks) ==
    LET told[i \in 0..Len(blocks)] ==
            IF i = 0 THEN <<>>
            ELSE IF blocks[i] = 0 THEN told[i - 1]
            ELSE Append(told[i - 1], Message("system", blocks[i]))
    IN  told[Len(blocks)]

ConverseMessages(c) == SystemBlocks(c.system) \o Turns(c)

\* Mutant: the system prompt is added when the turns are.
InvokeMessages_SystemLast(c) == Turns(c) \o SystemString(c)

InvokeMessages(c) == SystemString(c) \o Turns(c)

\* The streaming handler of the same body has its own loop over the turns, and
\* never looks at the system prompt.
InvokeStreamMessages(c) == Turns(c)

\* Vertex's clients call the assistant "model"; every other role is the user's.
VertexRole(role) == IF role = "assistant" THEN "model" ELSE role
ContentToDomainRole(role) == IF role = "model" THEN "assistant" ELSE "user"

\* Vertex: a system instruction is a message even when it is empty.
GenerateMessages(c) ==
    (IF c.system = <<>> THEN <<>> ELSE <<Message("system", Bytes(c.system))>>)
        \o [i \in DOMAIN c.turns |->
              Message(ContentToDomainRole(VertexRole(c.turns[i].role)),
                      Bytes(c.turns[i].texts))]

OpenAI == {"chat", "responses"}
\* One for each conversion: the streaming and the other handler of a surface share
\* theirs, but for InvokeModel's.
Surfaces == OpenAI \cup {"converse", "invoke", "invokeStream", "generate"}
Forms == {"string", "blocks"}

Messages(surface, form, c) ==
    CASE surface = "chat"         -> ChatMessages(form, c)
      [] surface = "responses"    -> ResponsesMessages(form, c)
      [] surface = "converse"     -> ConverseMessages(c)
      [] surface = "invoke"       -> InvokeMessages(c)
      [] surface = "invokeStream" -> InvokeStreamMessages(c)
      [] surface = "generate"     -> GenerateMessages(c)

\* The OpenAI handlers refuse a request without messages, the others one
\* without turns; and a string where they expect blocks they cannot decode.
Refused(surface, form, c) ==
    IF surface \in OpenAI
    THEN Messages(surface, form, c) = <<>>
    ELSE c.turns = <<>> \/ form = "string"
-----------------------------------------------------------------------------
(* Tokens: four bytes each, every message rounded down by itself. *)

AtLeastOne(n) == IF n = 0 THEN 1 ELSE n

PromptTokens(messages) ==
    Bytes([i \in DOMAIN messages |-> messages[i].bytes \div 4])

\* Mutant: completions are rounded up.
CompletionTokens_Up(bytes) == (bytes + 3) \div 4

CompletionTokens(bytes) == AtLeastOne(bytes \div 4)

\* Mutant: the contents are put together before they are counted.
CountTokens_AtOnce(c) ==
    AtLeastOne(Bytes([i \in DOMAIN c.turns |-> Bytes(c.turns[i].texts)]) \div 4)

\* Vertex's countTokens does not decode the system instruction.
CountTokens(c) ==
    AtLeastOne(Bytes([i \in DOMAIN c.turns |-> Bytes(c.turns[i].texts) \div 4]))
-----------------------------------------------------------------------------
(* Requests. *)

\* Mutant: the first colon.
Dispatch_First(path) ==
    [model |-> <<path[1]>>, action |-> IF Len(path) = 2 THEN path[2] ELSE "none"]

\* Vertex's path is split at its last colon, if it has one.
Dispatch(path) ==
    IF Len(path) = 1
    THEN [model |-> path, action |-> "none"]
    ELSE [model |-> Front(path), action |-> Last(path)]

\* messages is what the chat use case was given, if it was reached.
Logged(surface, form, action, served, status, messages, prompt, reply) ==
    log' = Append(log,
        [surface |-> surface, form |-> form, conv |-> conv, asked |-> action,
         served |-> served.action, model |-> served.model, status |-> status,
         messages |-> messages, prompt |-> prompt, reply |-> reply,
         completion |-> IF reply = 0 THEN 0 ELSE CompletionTokens(reply)])

MayAsk == picked # NoModel /\ Len(log) < MaxAsked /\ UNCHANGED <<picked, details, conv>>

\* Mutant: a refused request is answered as well.
Chat_NoReturn(surface, form, action, served) ==
    LET messages == Messages(surface, form, conv)
    IN  \E reply \in Replies :
            Logged(surface, form, action, served,
                   IF Refused(surface, form, conv) THEN 400 ELSE 200,
                   messages, PromptTokens(messages), reply)

\* The request is refused, or the chat use case answers it under a scenario that
\* sets no usage of its own.
Chat(surface, form, action, served) ==
    LET messages == Messages(surface, form, conv)
    IN  IF Refused(surface, form, conv)
        THEN Logged(surface, form, action, served, 400, <<>>, 0, 0)
        ELSE \E reply \in Replies :
                Logged(surface, form, action, served, 200, messages,
                       PromptTokens(messages), reply)

\* Surfaces that take the model's name as it is, from the path or the body.
Ask(surface, form) ==
    /\ MayAsk
    /\ Chat(surface, form, "chat", [model |-> picked.id, action |-> "chat"])

\* Vertex.  A path without an action may still have a colon, in the model's
\* name.
AskVertex(form, action) ==
    LET served == Dispatch(IF action = "none" THEN picked.id
                           ELSE Append(picked.id, action))
    IN  /\ MayAsk
        /\ CASE served.action = "countTokens" ->
                  IF Refused("generate", form, conv)
                  THEN Logged("generate", form, action, served, 400, <<>>, 0, 0)
                  ELSE Logged("generate", form, action, served, 200, <<>>, CountTokens(conv), 0)
             [] served.action \in VertexActions \ {"countTokens"} ->
                  Chat("generate", form, action, served)
             [] OTHER -> Logged("generate", form, action, served, 404, <<>>, 0, 0)

\* The user says something, unless it is the model's turn.
Say(texts) ==
    /\ Len(conv.turns) < MaxTurns
    /\ conv.turns # <<>> => Last(conv.turns).role = "assistant"
    /\ conv' = [conv EXCEPT !.turns = Append(@, [role |-> "user", texts |-> texts])]
    /\ UNCHANGED <<picked, details, log>>

\* The client makes the last reply part of the conversation.
Keep ==
    /\ log # <<>> /\ Last(log).reply > 0 /\ Last(log).conv = conv
    /\ conv.turns # <<>> /\ Last(conv.turns).role = "user"
    /\ Len(conv.turns) < MaxTurns
    /\ conv' = [conv EXCEPT !.turns =
                  Append(@, [role |-> "assistant", texts |-> <<Last(log).reply>>])]
    /\ UNCHANGED <<picked, details, log>>

\* The client has no more to ask.
Leave == Len(log) = MaxAsked /\ UNCHANGED vars

Next ==
    \/ \E provider \in Providers : Pick(provider)
    \/ LookUp
    \/ \E texts \in Utterances : Say(texts)
    \/ \E surface \in Surfaces \ {"generate"}, form \in Forms : Ask(surface, form)
    \/ \E form \in Forms, action \in VertexActions \cup {"none"} : AskVertex(form, action)
    \/ Keep
    \/ Leave

Spec == Init /\ [][Next]_vars
-----------------------------------------------------------------------------
(* Properties. *)

TypeOK ==
    /\ picked \in Range(Catalog) \cup {NoModel}
    /\ details \in Range(Catalog) \cup {NoModel}
    /\ conv \in [system : Systems, turns : Seq(Turn)] /\ Len(conv.turns) <= MaxTurns
    /\ log \in Seq(Range(log)) /\ Len(log) <= MaxAsked
    /\ picked = NoModel => details = NoModel /\ log = <<>>

\* The conversation was sent as the surface wants it and answered by the use
\* case.
Billed(e) ==
    /\ e.status = 200 /\ e.asked # "countTokens"
    /\ e.form = IF e.surface \in OpenAI THEN "string" ELSE "blocks"

\* What a request was told and charged is a matter of the conversation it
\* carried; if it was refused, or had no handler, it was told and charged
\* nothing.
Accounted(e) ==
    /\ e.conv \in [system : Systems, turns : Seq(Turn)]
    /\ e.surface \in Surfaces /\ e.form \in Forms /\ e.status \in {200, 400, 404}
    /\ IF e.status # 200
       THEN e.messages = <<>> /\ e.prompt = 0 /\ e.reply = 0 /\ e.completion = 0
       ELSE IF e.asked = "countTokens"
       THEN e.messages = <<>> /\ e.prompt = CountTokens(e.conv) /\ e.reply = 0
       ELSE /\ ~Refused(e.surface, e.form, e.conv)
            /\ e.messages = Messages(e.surface, e.form, e.conv)
            /\ e.prompt = PromptTokens(e.messages)
            /\ e.reply \in Replies /\ e.completion = CompletionTokens(e.reply)

\* Every answer follows from what its own request carried, whatever was asked
\* before: the handlers keep nothing between requests (chat.go:30-60,
\* counttokens_handler.go:10-25).
ConversationInv == TypeOK /\ \A i \in DOMAIN log : Accounted(log[i])

\* What the messages say: an empty system prompt, which some surfaces pass on,
\* says nothing.
Heard(messages) ==
    IF messages # <<>> /\ Head(messages) = Message("system", 0)
    THEN Tail(messages)
    ELSE messages

\* The part of a conversation that the surface of a request keeps from the chat
\* use case: InvokeModelWithResponseStream drops the system prompt
\* (invoke_stream_handler.go:42-52).
Withheld(e) == IF e.surface = "invokeStream" THEN SystemString(e.conv) ELSE <<>>

\* On every surface the chat use case is told the same, by the same speakers, and
\* charges the same for it, up to what the surface withholds and what that would
\* have cost; unless the system prompt is in several blocks, which Converse alone
\* passes on and rounds one by one (convert.go:11-31, invoke_handler.go:24-40,
\* invoke_stream_handler.go:42-52, chat_handler.go:14-26,
\* responses_handler.go:38-68).
SameEverywhere ==
    \A i, j \in DOMAIN log :
        /\ Billed(log[i]) /\ Billed(log[j])
        /\ log[i].conv = log[j].conv /\ Len(log[i].conv.system) <= 1
        => /\ Withheld(log[i]) \o Heard(log[i].messages)
                 = Withheld(log[j]) \o Heard(log[j].messages)
           /\ PromptTokens(Withheld(log[i])) + log[i].prompt
                 = PromptTokens(Withheld(log[j])) + log[j].prompt

\* What a reply cost as a completion it costs again as a part of the next
\* prompt, on whatever surfaces, up to what these withhold; but a reply of less
\* than four bytes, which was charged one token, then costs nothing
\* (chat.go:155-169, invoke_stream_handler.go:42-52).
RepliesCostAgain ==
    \A i, j \in DOMAIN log :
        LET before == log[i].conv  after == log[j].conv
            n      == Len(before.turns)
        IN  /\ Billed(log[i]) /\ Billed(log[j])
            /\ before.system = after.system /\ Len(before.system) <= 1
            /\ Len(after.turns) = n + 2 /\ SubSeq(after.turns, 1, n) = before.turns
            /\ after.turns[n + 1].texts = <<log[i].reply>>
            => PromptTokens(Withheld(log[j])) + log[j].prompt =
                  PromptTokens(Withheld(log[i])) + log[i].prompt
                      + Bytes(after.turns[n + 2].texts) \div 4
                      + (IF log[i].reply < 4 THEN 0 ELSE log[i].completion)

\* countTokens foretells what generateContent charges for the same contents
\* without a system instruction, except that it never says nothing
\* (counttokens_handler.go:16-22).
CountAgrees ==
    \A i, j \in DOMAIN log :
        /\ log[i].asked = "countTokens" /\ log[i].status = 200
        /\ Billed(log[j]) /\ log[i].conv = log[j].conv /\ log[i].conv.system = <<>>
        => log[i].prompt = AtLeastOne(log[j].prompt)

\* The name of a model means that model wherever it is used, colons in it or
\* not: a model that is listed is found under its id as it was listed, and a
\* request about it goes to the handler it was meant for, with the very name;
\* without an action it goes nowhere (model_repo.go:77-84, vertex/router.go:32-51).
NamesMeanOneModel ==
    /\ details # NoModel => details = picked
    /\ \A i \in DOMAIN log :
          IF log[i].asked = "none"
          THEN log[i].status = 404
          ELSE log[i].served = log[i].asked /\ log[i].model = picked.id
=============================================================================
