----------------------------- MODULE ChatStream -----------------------------
(***************************************************************************)
(* Chat generation, from the arrival of a request to the end of its        *)
(* response: the use case Chat (internal/core/usecase/chat.go), the        *)
(* handlers of the five provider surfaces that call it, and the scenario   *)
(* store it reads, while the admin API changes scenarios at any moment.    *)
(*                                                                         *)
(* A streamed request has two processes: the handler goroutine, which      *)
(* ranges over an unbuffered channel and writes frames, and the producer   *)
(* goroutine Stream starts, which looks at the context before each word    *)
(* and then blocks in the send.  They meet in HandOver.  The client reads, *)
(* stalls (its connection stays open, writes to it block) or goes away     *)
(* (the request context is cancelled, writes fail and are ignored).        *)
(***************************************************************************)
EXTENDS ScenarioStore, WireFormats

CONSTANTS
    Requests,       \* the requests of a behaviour, each sent at most once
    Inputs,         \* what a client may send: a subset of Request
    SeedFiles,      \* scenario files the server may be started with
    PutScenarios,   \* scenarios the admin may install
    MaxPuts,        \* bound on the number of admin PUTs
    WordCount,      \* words splitWords cuts a text into
    TextLength,     \* len(text)
    PromptTokens    \* sum of len(message) / 4 over the request's messages

Request ==
    [model : Models, surface : SurfaceNames, stream : BOOLEAN, valid : BOOLEAN]

ASSUME ChatAssumption ==
    /\ Inputs \subseteq Request
    /\ SeedFiles \subseteq Seq(SeedEntry)
    /\ PutScenarios \subseteq Scenario
    /\ MaxPuts \in Nat
    /\ WordCount \in [Texts -> Nat \ {0}]
    /\ TextLength \in [Texts -> Nat \ {0}]
    /\ PromptTokens \in Nat

VARIABLES
    puts,       \* number of admin PUTs so far
    handler,    \* handler[r]: where the handler goroutine of r is
    req,        \* req[r]: what the client of r sends
    sc,         \* sc[r]: the scenario the use case resolved for r
    client,     \* client[r]: "reading", "stalled" or "gone"
    producer,   \* producer[r]: where the goroutine started by Stream is
    next,       \* next[r]: position of the next word the producer sends
    chunk,      \* chunk[r]: the chunk the handler received last
    locals,     \* locals[r]: the handler's local variables
    wire,       \* wire[r]: the frames written so far
    status,     \* status[r]: status code sent, 0 when none was
    intended,   \* history: what the admin last asked of a model's chat
    inForce,    \* history: values of intended from r's arrival to its resolve
    late        \* history: words handed over after r's context was cancelled

requestVars == <<handler, req, sc, client, producer, next, chunk, locals,
                 wire, status, inForce, late>>
vars == <<scenarios, puts, intended, requestVars>>

HandlerStates ==
    {"idle", "resolve", "latency", "answer", "open", "range", "write", "done"}

ProducerStates == {"none", "check", "send", "pace", "final", "closed"}

-----------------------------------------------------------------------------
(* The reply a scenario stands for. *)

ReplyText(s) == IF s.text = EmptyText THEN DefaultReply ELSE s.text

WordsOf(t) == [i \in 1..WordCount[t] |-> <<t, i>>]

\* estimateUsage; no scenario the program can hold overrides the usage.
EstimateUsage(t) ==
    LET completion == IF TextLength[t] \div 4 = 0 THEN 1 ELSE TextLength[t] \div 4
    IN  [prompt |-> PromptTokens, completion |-> completion,
         total |-> PromptTokens + completion]

-----------------------------------------------------------------------------
(* The response writer the handlers get: the access log's statusRecorder.   *)

\* Mutant: the recorder only has what http.ResponseWriter itself promises.
RecorderMethods_NoFlush == {"Header", "Write", "WriteHeader"}

RecorderMethods == {"Header", "Write", "WriteHeader", "Flush"}

HasFlusher == "Flush" \in RecorderMethods

\* OpenAI's handlers look for the Flusher before they start a stream ...
RefusesUnstarted(q) == q.surface \in {"openai", "responses"} /\ ~HasFlusher

\* ... and Vertex's after it has started one.
RefusesStarted(q) == q.surface = "vertex" /\ ~HasFlusher

-----------------------------------------------------------------------------

Init ==
    /\ \E entries \in SeedFiles : scenarios = LoadFile(entries)
    /\ puts = 0
    /\ intended = [m \in Models |-> Resolve(m, "chat")]
    /\ req \in [Requests -> Inputs]
    /\ handler = [r \in Requests |-> "idle"]
    /\ sc = [r \in Requests |-> Benign]
    /\ client = [r \in Requests |-> "reading"]
    /\ producer = [r \in Requests |-> "none"]
    /\ next = [r \in Requests |-> 1]
    /\ chunk = [r \in Requests |-> FinalChunk(NoUsage)]
    /\ locals = [r \in Requests |-> InitialLocals]
    /\ wire = [r \in Requests |-> <<>>]
    /\ status = [r \in Requests |-> 0]
    /\ inForce = [r \in Requests |-> {}]
    /\ late = [r \in Requests |-> 0]

\* net/http cancels the request context when the connection is lost and when
\* the handler returns.
CtxDone(r) == client[r] = "gone" \/ handler[r] = "done"

\* A response can be written unless the client keeps the connection open
\* without reading: there is no write timeout.
CanWrite(r) == client[r] # "stalled"

\* PUT /admin/scenarios, up to its 204.
AdminPut(m, op, s) ==
    /\ puts < MaxPuts
    /\ puts' = puts + 1
    /\ Put(AdminKey(m, op), s)
    /\ intended' = IF op \in {"", "chat"} THEN [intended EXCEPT ![m] = s]
                                          ELSE intended
    /\ inForce' = [r \in Requests |->
                    IF /\ op \in {"", "chat"}
                       /\ handler[r] = "resolve" /\ req[r].model = m
                    THEN inForce[r] \cup {s} ELSE inForce[r]]
    /\ UNCHANGED <<handler, req, sc, client, producer, next, chunk, locals,
                   wire, status, late>>

\* The handler decodes the request; a malformed one, or one without messages,
\* is refused, and so is a stream OpenAI's handlers could not flush.
Arrive(r) ==
    /\ handler[r] = "idle"
    /\ LET refusal == IF ~req[r].valid THEN 400
                      ELSE IF req[r].stream /\ RefusesUnstarted(req[r]) THEN 500
                      ELSE 0
       IN  /\ status' = [status EXCEPT ![r] = refusal]
           /\ handler' = [handler EXCEPT ![r] =
                            IF refusal = 0 THEN "resolve" ELSE "done"]
    /\ inForce' = [inForce EXCEPT ![r] = {intended[req[r].model]}]
    /\ UNCHANGED <<scenarios, puts, intended, req, sc, client, producer, next,
                   chunk, locals, wire, late>>

\* Complete and Stream: the use case reads the store, once.
ResolveScenario(r) ==
    /\ handler[r] = "resolve"
    /\ LET s == Resolve(req[r].model, "chat")
       IN  /\ sc' = [sc EXCEPT ![r] = s]
           /\ handler' = [handler EXCEPT ![r] =
                            IF s.latency THEN "latency" ELSE "answer"]
    /\ UNCHANGED <<scenarios, puts, intended, req, client, producer, next,
                   chunk, locals, wire, status, inForce, late>>

\* The injected latency has passed.  The sleep does not watch the context.
Wake(r) ==
    /\ handler[r] = "latency"
    /\ handler' = [handler EXCEPT ![r] = "answer"]
    /\ UNCHANGED <<scenarios, puts, intended, req, sc, client, producer, next,
                   chunk, locals, wire, status, inForce, late>>

\* An injected error ends the request with its status.
AnswerError(r) ==
    /\ handler[r] = "answer"
    /\ sc[r].error # NoError
    /\ CanWrite(r)
    /\ status' = [status EXCEPT ![r] = ErrorStatus(sc[r].error)]
    /\ handler' = [handler EXCEPT ![r] = "done"]
    /\ UNCHANGED <<scenarios, puts, intended, req, sc, client, producer, next,
                   chunk, locals, wire, inForce, late>>

\* Complete: the reply is written in one piece.
AnswerWhole(r) ==
    /\ handler[r] = "answer"
    /\ sc[r].error = NoError
    /\ ~req[r].stream
    /\ CanWrite(r)
    /\ LET t == ReplyText(sc[r])
       IN  wire' = [wire EXCEPT ![r] = WholeReply(WordsOf(t), EstimateUsage(t))]
    /\ status' = [status EXCEPT ![r] = 200]
    /\ handler' = [handler EXCEPT ![r] = "done"]
    /\ UNCHANGED <<scenarios, puts, intended, req, sc, client, producer, next,
                   chunk, locals, inForce, late>>

\* Mutant: Stream does not look at the scenario's injected error.
MayStream_Always(r) == TRUE

MayStream(r) == sc[r].error = NoError

\* Stream starts the producer and returns the channel to the handler.
StartStream(r) ==
    /\ handler[r] = "answer"
    /\ MayStream(r)
    /\ req[r].stream
    /\ producer' = [producer EXCEPT ![r] = "check"]
    /\ handler' = [handler EXCEPT ![r] = "open"]
    /\ UNCHANGED <<scenarios, puts, intended, req, sc, client, next, chunk,
                   locals, wire, status, inForce, late>>

\* The handler sends the header and the frames that open the stream.
Open(r) ==
    /\ handler[r] = "open"
    /\ CanWrite(r)
    /\ IF RefusesStarted(req[r])
       THEN /\ status' = [status EXCEPT ![r] = 500]
            /\ handler' = [handler EXCEPT ![r] = "done"]
            /\ wire' = wire
       ELSE /\ status' = [status EXCEPT ![r] = 200]
            /\ handler' = [handler EXCEPT ![r] = "range"]
            /\ wire' = [wire EXCEPT ![r] = Opening(req[r].surface)]
    /\ UNCHANGED <<scenarios, puts, intended, req, sc, client, producer, next,
                   chunk, locals, inForce, late>>

-----------------------------------------------------------------------------
(* The producer goroutine. *)

\* Mutant: the loop over the words ends one word early.
AfterWord_OneShort(r, n) ==
    IF n < WordCount[ReplyText(sc[r])] THEN "check" ELSE "final"

\* Where the producer goes after a word: on to the next one or to the final chunk.
AfterWord(r, n) ==
    IF n <= WordCount[ReplyText(sc[r])] THEN "check" ELSE "final"

\* Mutants: the context is not looked at; cancellation leaves the loop but not
\* the goroutine, which still sends the final chunk; the select has no default.
AfterCheck_Never(r) == "send"
AfterCheck_Breaks(r) == IF CtxDone(r) THEN "final" ELSE "send"
AfterCheck_Blocks(r) == IF CtxDone(r) THEN "closed" ELSE "check"

\* The non-blocking look at the context before each word.
AfterCheck(r) == IF CtxDone(r) THEN "closed" ELSE "send"

ProducerCheck(r) ==
    /\ producer[r] = "check"
    /\ producer' = [producer EXCEPT ![r] = AfterCheck(r)]
    /\ UNCHANGED <<scenarios, puts, intended, handler, req, sc, client, next,
                   chunk, locals, wire, status, inForce, late>>

\* The pause TokensPerSecond asks for after each word.
ProducerPace(r) ==
    /\ producer[r] = "pace"
    /\ producer' = [producer EXCEPT ![r] = AfterWord(r, next[r])]
    /\ UNCHANGED <<scenarios, puts, intended, handler, req, sc, client, next,
                   chunk, locals, wire, status, inForce, late>>

\* Mutant: the text is looked up in the store again for each word.
TextSent_Reread(r) == ReplyText(Resolve(req[r].model, "chat"))

\* The text the producer cuts into words, fixed when it is started.
TextSent(r) == ReplyText(sc[r])

\* The channel is unbuffered: a word passes when both goroutines are there.
HandOverWord(r) ==
    /\ producer[r] = "send"
    /\ handler[r] = "range"
    /\ chunk' = [chunk EXCEPT ![r] =
                    WordChunk(<<TextSent(r), next[r]>>, next[r] = 1)]
    /\ next' = [next EXCEPT ![r] = @ + 1]
    /\ producer' = [producer EXCEPT ![r] =
                      IF sc[r].paced THEN "pace" ELSE AfterWord(r, next[r] + 1)]
    /\ handler' = [handler EXCEPT ![r] = "write"]
    /\ late' = [late EXCEPT ![r] = IF CtxDone(r) THEN @ + 1 ELSE @]
    /\ UNCHANGED <<scenarios, puts, intended, req, sc, client, locals, wire,
                   status, inForce>>

\* The final chunk, after which the producer closes the channel.
HandOverFinal(r) ==
    /\ producer[r] = "final"
    /\ handler[r] = "range"
    /\ chunk' = [chunk EXCEPT ![r] = FinalChunk(EstimateUsage(TextSent(r)))]
    /\ producer' = [producer EXCEPT ![r] = "closed"]
    /\ handler' = [handler EXCEPT ![r] = "write"]
    /\ UNCHANGED <<scenarios, puts, intended, req, sc, client, next, locals,
                   wire, status, inForce, late>>

-----------------------------------------------------------------------------
(* The handler's range loop and its end. *)

\* Mutant: the handler returns when a write to a lost connection fails.
AfterWrite_ReturnsOnError(r) == IF client[r] = "gone" THEN "done" ELSE "range"

\* The handlers ignore the error of a write and go on ranging.
AfterWrite(r) == "range"

WriteChunk(r) ==
    /\ handler[r] = "write"
    /\ CanWrite(r)
    /\ wire' = [wire EXCEPT ![r] =
                  @ \o Translate(req[r].surface, locals[r], chunk[r])]
    /\ locals' = [locals EXCEPT ![r] = Absorb(req[r].surface, @, chunk[r])]
    /\ handler' = [handler EXCEPT ![r] = AfterWrite(r)]
    /\ UNCHANGED <<scenarios, puts, intended, req, sc, client, producer, next,
                   chunk, status, inForce, late>>

\* Mutant: the handler does not wait for the channel to be closed.
StreamEnded_Early(r) == producer[r] \in {"final", "closed"}

\* A range over a channel ends when the channel is closed.
StreamEnded(r) == producer[r] = "closed"

\* The channel is closed: the handler writes the end of the stream and returns.
FinishStream(r) ==
    /\ handler[r] = "range"
    /\ StreamEnded(r)
    /\ CanWrite(r)
    /\ wire' = [wire EXCEPT ![r] = @ \o Closing(req[r].surface, locals[r])]
    /\ handler' = [handler EXCEPT ![r] = "done"]
    /\ UNCHANGED <<scenarios, puts, intended, req, sc, client, producer, next,
                   chunk, locals, status, inForce, late>>

-----------------------------------------------------------------------------
(* The client's connection. *)

Active(r) == handler[r] \notin {"idle", "done"}

ClientBecomes(r, from, to) ==
    /\ Active(r)
    /\ client[r] \in from
    /\ client' = [client EXCEPT ![r] = to]
    /\ UNCHANGED <<scenarios, puts, intended, handler, req, sc, producer, next,
                   chunk, locals, wire, status, inForce, late>>

Stall(r)      == ClientBecomes(r, {"reading"}, "stalled")
Resume(r)     == ClientBecomes(r, {"stalled"}, "reading")
Disconnect(r) == ClientBecomes(r, {"reading", "stalled"}, "gone")

-----------------------------------------------------------------------------

HandlerStep(r) ==
    \/ ResolveScenario(r) \/ Wake(r) \/ AnswerError(r) \/ AnswerWhole(r)
    \/ StartStream(r) \/ Open(r) \/ WriteChunk(r) \/ FinishStream(r)

ProducerStep(r) == ProducerCheck(r) \/ ProducerPace(r)

HandOver(r) == HandOverWord(r) \/ HandOverFinal(r)

ClientStep(r) == Stall(r) \/ Resume(r) \/ Disconnect(r)

Released(r) == handler[r] = "done" /\ producer[r] \in {"none", "closed"}

\* The server stays up when every request has been dealt with.
Idle ==
    /\ \A r \in Requests : handler[r] = "done"
    /\ UNCHANGED vars

Next ==
    \/ \E m \in Models, op \in Operations, s \in PutScenarios : AdminPut(m, op, s)
    \/ \E r \in Requests : Arrive(r)
    \/ \E r \in Requests : HandlerStep(r)
    \/ \E r \in Requests : ProducerStep(r)
    \/ \E r \in Requests : HandOver(r)
    \/ \E r \in Requests : ClientStep(r)
    \/ Idle

\* The Go scheduler runs every goroutine that can move.  Nothing is assumed of
\* clients or of the admin.
Fairness ==
    \A r \in Requests :
        /\ WF_vars(HandlerStep(r))
        /\ WF_vars(ProducerStep(r))
        /\ WF_vars(HandOver(r))

Spec == Init /\ [][Next]_vars

FairSpec == Spec /\ Fairness
-----------------------------------------------------------------------------
(* Properties. *)

\* Every variable keeps the shape the code gives it; in particular a producer
\* exists exactly for requests whose handler has got past Stream.
TypeOK ==
    /\ StoreTypeOK
    /\ puts \in 0..MaxPuts
    /\ intended \in [Models -> Scenario]
    /\ handler \in [Requests -> HandlerStates]
    /\ req \in [Requests -> Inputs]
    /\ sc \in [Requests -> Scenario]
    /\ client \in [Requests -> {"reading", "stalled", "gone"}]
    /\ producer \in [Requests -> ProducerStates]
    /\ next \in [Requests -> Nat \ {0}]
    /\ status \in [Requests -> 0..999]
    /\ inForce \in [Requests -> SUBSET Scenario]
    /\ late \in [Requests -> Nat]

\* No goroutine outlives its request: when a handler has returned, the producer
\* Stream started for it (chat.go:97) has closed its channel, whatever the
\* client did.  Its sends have no way out other than a handler that receives.
NoOrphanProducer ==
    \A r \in Requests : handler[r] = "done" => producer[r] \in {"none", "closed"}

\* A client that is still connected when its response ends, and whose scenario
\* injects no error, has received 200 and the whole reply in its provider's framing: every word in order, the finish
\* reason and the usage of the full text, one end marker.  The handlers write
\* [DONE], end_turn or "]" after a truncated stream too (chat_handler.go:149,
\* converse_stream_handler.go:73), so this rests on who can see a truncation.
ConnectedClientGetsWholeReply ==
    \A r \in Requests :
        (/\ handler[r] = "done" /\ client[r] # "gone"
         /\ req[r].valid /\ sc[r].error = NoError)
            => LET t == ReplyText(sc[r])
               IN  status[r] = 200 /\
                   wire[r] = IF req[r].stream
                             THEN ExpectedWire(req[r].surface, WordsOf(t),
                                               EstimateUsage(t))
                             ELSE WholeReply(WordsOf(t), EstimateUsage(t))

\* At every moment, cancelled or not, the text on the wire is an initial part
\* of one scenario's reply: no word is lost, repeated or reordered between the
\* goroutines, and none comes from a scenario installed during the stream.
SpokenIsPrefixOfReply ==
    \A r \in Requests :
        LET spoken == Spoken(wire[r])
            words  == WordsOf(ReplyText(sc[r]))
        IN  Len(spoken) <= Len(words) /\ spoken = SubSeq(words, 1, Len(spoken))

\* A usage report is never premature: wherever a non-zero usage is on the wire,
\* all words of the reply are on it too (streaming.go:12).
UsageOnlyWithFullText ==
    \A r \in Requests :
        (\E i \in DOMAIN wire[r] : wire[r][i].usage # NoUsage)
            => Len(Spoken(wire[r])) = WordCount[ReplyText(sc[r])]

\* A request is answered from a scenario that was in force for its model's chat
\* at some moment between its arrival and its resolve: what an acknowledged PUT
\* replaced is never served, whichever of the two spellings of the operation
\* the admin, the loader and the store used for the key.
AnswerWasInForce ==
    \A r \in Requests :
        handler[r] \in {"latency", "answer", "open", "range", "write", "done"}
        /\ status[r] # 400
            => sc[r] \in inForce[r]

\* After the cancellation of its context a producer gets rid of at most the one
\* word it had already decided to send (chat.go:106-116).
AtMostOneLateWord == \A r \in Requests : late[r] <= 1

\* A request whose client went away ends, and so does its producer, however
\* the two goroutines stand to each other when the connection is lost.
GoneClientsReleased ==
    \A r \in Requests : client[r] = "gone" ~> Released(r)

\* A request whose client does not stall for ever is answered and released.
ReadingClientsServed ==
    \A r \in Requests :
        (handler[r] = "resolve" /\ <>[](client[r] # "stalled")) ~> Released(r)
-----------------------------------------------------------------------------
(* What makes the safety properties inductive. *)

\* A producer exists only once Stream has started one, and the handler does not
\* return before it is closed.
HandlerAndProducer ==
    \A r \in Requests :
        /\ handler[r] \in {"idle", "resolve", "latency", "answer"}
            => producer[r] = "none"
        /\ handler[r] = "done" => producer[r] \in {"none", "closed"}

\* A producer that handed a word over too late cannot send another: the next
\* look at the context stops it, unless that word was its last.
LateProducer ==
    \A r \in Requests :
        \/ late[r] = 0
        \/ late[r] = 1 /\ client[r] = "gone"
                       /\ producer[r] \in {"pace", "check", "final", "closed"}

\* The store holds, under the key the use case asks for, what the admin last
\* installed for the model's chat.
StoreAgrees == \A m \in Models : Resolve(m, "chat") = intended[m]

RequestInForce ==
    \A r \in Requests :
        /\ handler[r] = "resolve" => intended[req[r].model] \in inForce[r]
        /\ handler[r] \in {"latency", "answer", "open", "range", "write"}
            => sc[r] \in inForce[r]
        /\ handler[r] = "done" /\ status[r] # 400 => sc[r] \in inForce[r]

\* The position of r's producer in the text, whatever the handler does.
ProducerInText(r) ==
    LET n == WordCount[ReplyText(sc[r])]
    IN  /\ handler[r] \in {"idle", "resolve", "latency", "answer", "open"}
            => next[r] = 1 /\ locals[r] = InitialLocals
        /\ producer[r] \in {"check", "send"} => next[r] <= n
        /\ producer[r] = "pace" => next[r] <= n + 1
        /\ producer[r] = "final" => next[r] = n + 1

\* The wire and the locals of r are as they should be after k words ...
Wrote(r, k) ==
    LET t == ReplyText(sc[r])
    IN  /\ wire[r] = SubSeq(ExpectedWire(req[r].surface, WordsOf(t), EstimateUsage(t)),
                            1, WrittenUpTo(req[r].surface, k, FALSE))
        /\ locals[r] = LocalsAfter(req[r].surface, WordsOf(t), k, FALSE,
                                   EstimateUsage(t))

\* ... and after all words and the final chunk.
WroteAll(r) ==
    LET t == ReplyText(sc[r])
        n == WordCount[t]
    IN  /\ wire[r] = SubSeq(ExpectedWire(req[r].surface, WordsOf(t), EstimateUsage(t)),
                            1, WrittenUpTo(req[r].surface, n, TRUE))
        /\ locals[r] = LocalsAfter(req[r].surface, WordsOf(t), n, TRUE,
                                   EstimateUsage(t))

\* A handler that streams does so because Stream returned a channel, which is
\* closed, for a client that is still there, only after the final chunk.
Streaming(r) ==
    /\ sc[r].error = NoError /\ req[r].stream
    /\ handler[r] = "open" => producer[r] # "closed"
    /\ handler[r] # "open" => status[r] = 200
    /\ producer[r] = "closed" => next[r] = WordCount[ReplyText(sc[r])] + 1

\* Between two chunks, everything the producer has sent is on the wire.
RangeInStep(r) ==
    IF producer[r] = "closed" THEN WroteAll(r) ELSE Wrote(r, next[r] - 1)

\* With a chunk in hand, all but that chunk is.
WriteInStep(r) ==
    LET t == ReplyText(sc[r])
        n == WordCount[t]
    IN  IF producer[r] = "closed"
        THEN Wrote(r, n) /\ chunk[r] = FinalChunk(EstimateUsage(t))
        ELSE /\ next[r] \in 2..(n + 1)
             /\ Wrote(r, next[r] - 2)
             /\ chunk[r] = WordChunk(<<t, next[r] - 1>>, next[r] = 2)

WireInStep(r) ==
    client[r] # "gone" =>
        /\ handler[r] \in {"open", "range", "write"} => Streaming(r)
        /\ handler[r] = "range" => RangeInStep(r)
        /\ handler[r] = "write" => WriteInStep(r)

\* For a client that is still there, handler and producer are never further
\* apart than the one chunk the handler is about to write.
WireInv ==
    /\ wire = [r \in Requests |-> wire[r]]
    /\ locals = [r \in Requests |-> locals[r]]
    /\ chunk = [r \in Requests |-> chunk[r]]
    /\ \A r \in Requests : ProducerInText(r) /\ WireInStep(r)
    /\ ConnectedClientGetsWholeReply

\* Some frame, or the trailer the handler is going to write, has a usage.
UsageSeen(r) ==
    \/ locals[r].usage # NoUsage
    \/ \E i \in DOMAIN wire[r] : wire[r][i].usage # NoUsage

\* Whether or not the client is still there, the words on the wire are those the
\* producer has handed over, less the one the handler has yet to write; and a
\* usage shows up only once the final chunk has been written.
SpokenInStep(r) ==
    LET t       == ReplyText(sc[r])
        n       == WordCount[t]
        upTo(k) == SubSeq(WordsOf(t), 1, k)
    IN  /\ next[r] \in 1..(n + 1)
        /\ handler[r] \notin {"idle", "done"} => req[r].valid
        /\ handler[r] \in {"open", "range", "write"} => sc[r].error = NoError
        /\ handler[r] \in {"idle", "resolve", "latency", "answer", "open"}
            => wire[r] = <<>>
        /\ handler[r] = "range" =>
            /\ Spoken(wire[r]) = upTo(next[r] - 1)
            /\ UsageSeen(r) => producer[r] = "closed" /\ next[r] = n + 1
        /\ handler[r] = "write" =>
            /\ ~UsageSeen(r)
            /\ \/ /\ producer[r] = "closed" /\ next[r] = n + 1
                  /\ chunk[r] = FinalChunk(EstimateUsage(t))
                  /\ Spoken(wire[r]) = upTo(n)
               \/ /\ next[r] > 1
                  /\ chunk[r] = WordChunk(<<t, next[r] - 1>>, next[r] = 2)
                  /\ Spoken(wire[r]) = upTo(next[r] - 2)

SpokenInv ==
    /\ \A r \in Requests : SpokenInStep(r)
    /\ SpokenIsPrefixOfReply
    /\ UsageOnlyWithFullText

ChatInv ==
    /\ TypeOK
    /\ HandlerAndProducer
    /\ LateProducer
    /\ StoreAgrees
    /\ RequestInForce
    /\ WireInv
    /\ SpokenInv
=============================================================================
