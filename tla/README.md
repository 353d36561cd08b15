# A TLA+ model of llm-mock-api

llm-mock-api imitates three LLM providers (OpenAI, AWS Bedrock, Google Vertex)
behind their own HTTP contracts. What it answers is scripted by *scenarios* that
an admin installs at run time. A second binary, openmeter-mock, receives the
usage events and raw responses LiteLLM emits for each call and keeps them in
MongoDB. This directory holds TLA+ modules for the parts of the two programs
that have state or concurrency, TLC configurations that check them, and proofs
for TLAPS.

- [Inventory](#inventory)
- [Modules and how they correspond to the code](#modules-and-how-they-correspond-to-the-code)
- [Runs](#runs)
- [Fairness](#fairness)
- [Disagreements found](#disagreements-found)
- [Proofs](#proofs)
- [Not modelled, and why](#not-modelled-and-why)
- [Plan](#plan)

## Inventory

**Chat use case** (`internal/core/usecase/chat.go`). No state of its own.
`Complete` and `Stream` validate, read the scenario store once, sleep the
injected latency, return the injected error or produce the reply. `Stream`
starts a *producer* goroutine that sends the words of the reply one by one over
an unbuffered channel, with a non-blocking look at the request context before
each word and an optional pause after it, then a final chunk with the usage,
then closes the channel. Hard: two goroutines per request that must both end
whatever the client does; cancellation between any two steps. Correct when no
goroutine outlives its request, the words arrive in order and come from one
scenario, and a truncation is never mistaken for a whole reply by a client that
is still there.

**Chat handlers** (`internal/adapters/inbound/http/{openai,bedrock,vertex}`).
Five streaming surfaces (chat completions, Responses API, ConverseStream,
InvokeModelWithResponseStream, streamGenerateContent) and their non-streaming
twins. Each decodes a request, calls the use case, ranges over the channel and
rewrites chunks as frames, using a few local variables (first chunk seen,
accumulated text, last finish reason and usage). They ignore write errors and go
on ranging. Correct when each produces its provider's framing of the same reply.

**Error mapping** (`openai/errors.go`, `bedrock/convert.go`,
`vertex/convert.go`). Stateless: an injected status code is sent as it is, 0 as
500; an invalid request is 400.

**Scenario store and loader** (`internal/adapters/outbound/scenario`). A map
from `model|operation` to scenario under a read-write mutex. Written by the YAML
loader at startup and by the admin API, read once per request. An empty
operation means `chat`, a rule that exists in the store, in the loader (by
calling the store's `Key`) and again in the admin handler.

**Admin API** (`internal/adapters/admin/http`). `PUT` installs a scenario,
`GET` lists them. Runs on a port of its own, concurrently with everything.

**Access log** (`internal/platform/httpserver/logging_middleware.go`). Wraps the
response writer; streaming works only because its recorder passes `Flush` on.

**Video jobs** (`internal/core/usecase/video.go`, `openai/video_handler.go`). An
atomic id counter and a map of jobs under a mutex, both in memory. A create takes
its id first and enters the job later; polls look jobs up by id. Hard: creates
that interleave between the two; restarts that start ids over.

**OpenMeter mock** (`internal/openmeter`, `internal/adapters/outbound/mongo`,
`inbound/http/openmeter`). Two collections in MongoDB. An event is inserted
under its id, a raw response replaces what is stored under its call id; both are
stamped with the time before they are saved. Two listing endpoints show the
newest documents, as many as asked for within limits. Hard: duplicated, delayed
and lost deliveries, saves that fail but take effect, crashes. Correct when what
was acknowledged is there, stays there and is shown.

**Calls view** (`scripts/create-calls-view.js`). A MongoDB view that joins raw
responses to events by model and time, since they share no key.

**LiteLLM callbacks** (`litellm/custom_callback.py`, `litellm/config.yaml`). The
senders of the deliveries; best effort, 5 s timeout, errors swallowed. A call
that succeeds fires two callbacks that know nothing of each other, also when
LiteLLM served it from its response cache. The usage event goes by the id of the
reply, the raw response by LiteLLM's call id. Hard: equal ids from the cache, the
clock or a restarted counter meet an insert that refuses what it has. Correct
when no usage is lost but to such a twin, no reply is billed twice, and the raw
responses of calls stay apart.

**Server lifecycle** (`cmd/server`, `cmd/openmeter-mock`,
`internal/platform/httpserver/server.go`). `cmd/server` runs two servers and
waits for a signal, then for both; `openmeter-mock` runs one and ends when its
`Run` returns. `Run` selects between the listener's error and the signal and
shuts down with a limit of 5 s. Hard: requests in flight when the process ends,
one listener failing and the other not, a signal at any moment. Correct when no
request loses its grace period to another server, and a signal always ends the
process.

**One-shot use cases** (embeddings, images, audio in both directions). No state;
each validates, reads the store once under its own operation, and answers.
Correct when the answer is that of a scenario in force for that operation.

**Model catalog** (`outbound/scenario/model_repo.go`, a handler per provider). A
constant list, filtered by provider and looked up by id.

**Token counting** (`estimateUsage` in `chat.go`, `vertex/counttokens_handler.go`).
Four bytes a token, each message rounded down by itself, a completion never
nothing. Every surface splits, joins or drops system prompts and blocks in its own
way before that. Correct when a conversation is charged the same wherever it is
held.

**Routing**. Tables of routes, except Vertex's, which splits a path at its last
colon; ids of models may have colons too.

**Moderations**, **configuration**: stateless, without scenarios.

Interactions: the admin API and the use cases meet in the store; handler and
producer meet in the channel, and see the client through the request context and
the writer; the openmeter mock meets the rest only through LiteLLM, whose calls,
cache and callbacks lie between the two binaries.

The hazards these parts are exposed to are listed in `PROJECT.json`, each at its
line with the properties that watch it.

## Modules and how they correspond to the code

| module | models |
| --- | --- |
| `ScenarioStore` | the store, its key convention, the loader, the admin's key |
| `WireFormats` | what each surface writes for a chunk, before the first and after the last; the expected streams |
| `ChatStream` | requests on all surfaces: handlers, producers, clients, admin (EXTENDS the two above) |
| `ChatContract` | abstract: what chat generation promises a client |
| `ChatRefinement` | the mapping from `ChatStream` to `ChatContract` |
| `VideoJobs`, `JobRegistry` | video jobs, and the atomic registry they implement |
| `OneShot` | embeddings, images and audio (EXTENDS `ScenarioStore`) |
| `ServerLifecycle` | `Run` and both mains, from the start of the servers to the end of the process |
| `EventLedger`, `Listings`, `CallsView` | the openmeter mock with MongoDB; what it lists; the view on it |
| `CallPipeline` | calls through LiteLLM, its cache, the mock's reply ids, the callbacks and the ledger (EXTENDS `EventLedger`) |
| `Conversation` | a client that picks a model and talks to it on every surface; routing and tokens |
| `MC*` | instances for TLC |
| `*Proofs` | theorems |

**ChatStream.** One handler and at most one producer per request `r`.
`handler[r]` is where the handler goroutine stands:

| state | code |
| --- | --- |
| `resolve` | request decoded, about to call the use case |
| `latency` | in `Clock.Sleep` |
| `answer` | scenario known, about to return an error, a reply or a channel |
| `open` | `Stream` has returned, header not written yet |
| `range` | waiting in `for chunk := range ch` |
| `write` | in the body of that loop |
| `done` | returned |

`producer[r]` follows the goroutine of chat.go:97-131: `check` (the select on the
context), `send` and `final` (blocked in a channel send), `pace` (the pause),
`closed`. A send and a receive on an unbuffered channel are one step,
`HandOverWord` or `HandOverFinal`. `client[r]` is `reading`, `stalled` (the
connection is open, writes block) or `gone` (context cancelled, writes fail and
the failure is ignored); it changes at any moment. `net/http` also cancels the
context when a handler returns, hence `CtxDone`. `wire[r]` is the sequence of
frames written, `locals[r]` the handler's local variables. A word is a pair of
its text and its position in it, so that words of different texts, and repeated
or missing ones, are told apart. The bodies of frames are reduced to kind,
words, role, finish reason and usage. `intended`, `inForce` and `late` are
history variables: what the admin asked for, independently of keys; which
scenarios a request may be answered from; and the words passed after a
cancellation.

`RecorderMethods` is the method set of the access log's wrapper: the Flusher
guards of the handlers depend on it, and with `Flush` missing Vertex's handler
would return after `Stream` has started its producer.

A status code that `net/http` cannot encode makes it panic and drop the
connection; nothing is sent and the status stays 0. A 1xx code goes out as an
informational header, and the error body follows with 200.

**OneShot.** `handler[r]` is before the handler (`idle`), before the use case's
read of the store (`resolve`), before the answer (`reply`) or after it (`done`).
A payload is not modelled; a scenario shows in the status. `intended` and
`inForce` are history variables as in `ChatStream`. `took[r]` counts the ticks a
client has waited.

**ServerLifecycle.** Per server, `run[s]` is where `Run` stands: in its
`select`, `draining` in `Shutdown`, or returned because Shutdown was done
(`stopped`) or out of time (`expired`), or because the listener failed
(`failed`). `listener[s]` is the goroutine that listens: `start`, `serving`,
`failed` (error not yet sent), `down` (error sent), `closed` (by Shutdown);
`errCh[s]` is the buffered channel between them. `main` is what main waits for.
`process`, chosen at the start, tells the two mains apart: which servers they run
and whether they wait for a signal first. When main returns, active requests
become `cut`. A listener may fail while it serves too: `ListenAndServe` returns
every error of `Accept` that is not temporary.

**VideoJobs.** `pc[c]` follows `Create`: resolve, `AddInt64`, the insert under
the mutex, the reply. `Restart` empties counter, map and store. `born[c]` is the
process that gave `c` its id, so that properties can speak of one process.

**EventLedger.** A delivery is received (decoded and stamped) and saved by a
handler of its own. `SaveFails` is any error of the driver: MongoDB, the network,
or the caller's timeout, which cancels the request context. A save whose handler
gave up, or died in a `Crash`, stays in `limbo` and may `Land` any time later, or
never. A delivery that is lost before the mock is one that is never received; a
duplicate is a second delivery with the same key.

**Listings.** A listing changes nothing; it is the operator `Shown`, the sets of
keys an answer may consist of. MongoDB sorts by `received_at` and may break ties
in any way.

**CallPipeline.** `status[c]` follows a call `c` through LiteLLM: `new`, `asked`
(the mock has the request), `done`, `failed`; `unmade` if it is not part of the
behaviour. `cache` is LiteLLM's, `made` the counter of `Video`, `restarts` the
lives of the mock. `reply[c]` is the reply's id and, as history, the call it was
made for and the life of the mock that made it. A chat's id is the clock's
(chat.go:54), a video's the counter's (video.go:70), other replies have none. The
ledger is `EventLedger` unchanged: `PipelineReceive(d)` lets a delivery come in
only when the call it is about is done and its key is the one the callback would
send (`PostKey`). Since keys are constants of `EventLedger`, a document is
represented by one possible delivery per key it might have, of which only one
can ever be posted. `settled[d]` and `spoilt` are history variables: the raw
responses acknowledged before `d` came, and the deliveries whose save failed.
What LiteLLM does between a reply and a callback is its own; from here it is
known only that success fires both callbacks, cached or not
(`openmeter_events.feature:55-61`, which its BDD steps test, and the `cache_hit`
that `custom_callback.py:51` posts), and under which ids they post
(`create-calls-view.js:6-8`, `custom_callback.py:48`). `config.yaml:80-82` agrees
about the events and contradicts it about the raw responses; see
[Disagreements found](#disagreements-found).

**Conversation.** `conv` is what the client has: a system prompt and the turns,
each a sequence of blocks, a block being its length in bytes. `Messages` is what
each surface's handler makes of it for the chat use case, `Refused` what it
answers 400 to. The streaming and the other handler of a surface share one
conversion, except InvokeModel's, where the streaming handler has its own
(`InvokeStreamMessages`), without the system prompt: six conversions for five
surfaces. The name of a model is the sequence of its pieces between colons,
so that `Dispatch` can split a path at the last one. `Keep` makes a reply a turn
of the conversation, so that what was a completion becomes a part of a prompt.
`log` is the history of requests. `Bytes` adds texts up one by one, as the loops
of the code do. The catalog is a constant of the code, so that its ids are assumed
to be different and none to end like one of Vertex's actions
(`ConversationAssumption`). What the use case does between request and
reply is in `ChatStream`.

## Runs

| run | instance | shows |
| --- | --- | --- |
| `ChatStream_surfaces` | 1 request over 11 inputs, 2 seed files, 2 PUTs of 6 scenarios for 3 operations, `FairSpec` | the client-side properties on every surface; termination |
| `ChatStream_pair` | 2 requests, 2 models, 1 PUT | `NoOrphanProducer`, the inductive invariant; `ChatStream` implements `ChatContract` |
| `VideoJobs` | 3 creates, 1 restart | ids, jobs, polls; `VideoJobs` implements `JobRegistry` |
| `EventLedger` | 5 deliveries (an event twice, another event, a raw response, a malformed one), 2 ticks, faults, 1 crash, view window of 1 tick, limits 1 and 2 | acknowledged documents are kept and listed; rows of the view |
| `CallPipeline` | 2 calls in each of 3 sessions (equal chats; different videos; equal calls without reply or call id), 3 or 4 deliveries each, 1 tick, 1 mishap | what reaches the ledger of each call |
| `Conversation` | 4 models, 4 system prompts, 2 histories, up to 3 turns, 2 requests, 6 conversions | same messages and same charge everywhere but for what one surface withholds; names of models |
| `OneShot` | 1 request over 7 inputs, 2 models, 2 seed files, 2 PUTs of 3 scenarios for 7 operations | answers follow the operation's scenario |
| `ServerLifecycle` | `cmd/server` with 2 servers and 3 requests, and `openmeter-mock` with 1 and 2, `FairSpec` | what a shutdown cuts; a signal ends either process, a failed listener `openmeter-mock` |
| `EventLedger_overwrite`, `CallsView_closest`, `OneShot_latency`, `CallPipeline_logged` | small instances | the first four disagreements below |

Why the bounds are enough. Requests interact only through the store, which each
reads once: one request with two PUTs contains every order of a seed, a PUT
before, during and after the read, and a PUT for another operation. Two requests
add what two handlers could do to each other. A one-shot request is alone with
the store for the same reason. Two requests on one server and one on the other
let a server drain while the other expires or has failed. Replies of one, two and three
words contain the first, a middle and the last word, and the case where the
first is the last; the texts' lengths make `len/4` round to 0 (replaced by 1) and
not. Three creates are one more than the two an id clash takes. `MaxPuts`,
`MaxRestarts`, `MaxTime`, `MaxCrashes`, `MaxMishaps`, `MaxTurns` and `MaxAsked`
bound the counters; none is a bound of the code. `MaxMishaps` counts failed saves,
crashes and restarts of the mock together: each way of losing a delivery or an id
needs one, and the proofs hold for any number. Two calls are what a clash of ids
takes. `Sessions` keeps calls that cannot clash out of each other's state space.
The limits of the listings, 100 and 500 in the code, are 1 and 2, so that the
documents exceed the smaller and reach the larger. The lengths of texts in
`Conversation` are ones that a division by four rounds away or rounds down; a
reply kept as a turn takes a conversation of three turns and two requests to show
in a charge. The time window of the view, 5 s in the script, is 1 tick so that two
events fit in it and others do not.

The type invariants are conjuncts of the inductive invariants that the runs check
(`ChatInv`, `VideoInv`, `LedgerInv`, `PipelineInv`, `OneShotInv`, `LifecycleInv`,
`ConversationInv`).

Deadlock is checked in every run. When all requests are done the servers just
keep running, which `Idle` says; a producer stuck in a send would be a state
without it.

The properties, by what they watch:

- `NoOrphanProducer`: a handler that has returned left no goroutine behind.
- `AtMostOneLateWord`: cancellation takes effect after at most one more word.
- `ConnectedClientGetsWholeReply`: the handlers write the end marker after a
  truncated stream too; a client still connected never sees such a truncation.
- `SpokenIsPrefixOfReply`, `UsageOnlyWithFullText`: at every moment, also after
  a disconnection, in every framing.
- `AnswerWasInForce`: what a PUT replaced is not served to a request that came
  later, and a request uses one scenario throughout.
- `GoneClientsReleased`, `ReadingClientsServed`: both goroutines end.
- `ImplementsContract`: all of this as one refinement.
- `IdsUnique`, `ToldJobIsStored`, `JobsPermanent`, `MissMeansRestart`,
  `ImplementsRegistry` for video jobs. After a restart an old
  id may lead to another client's job; the properties say so by speaking of
  one process.
- `LedgerInv` (with `AckedIsStored`), `OneAckPerEvent`, `LedgerGrows` for the
  ledger; `AckedIsListed` for its listings: an acknowledged document is shown
  unless as many as asked for are stamped as late; `JoinMovesBack` for the view.
- `UsageLostOnlyToTwins`: an event is refused only because another one with its
  id is stored, of a call that is its twin in one of four named ways.
- `RepliesBilledOnce`, `RawsOfCallsApart`: of a cached reply there is one event
  at most, and each of its calls has a raw response of its own.
- `RawsInOrder`: a raw response may be stored over a later one only if the two
  overlapped; `RetriedRawAccepted`: repeating it does no harm.
- `ConversationInv`: what a request is told and charged depends on nothing but the
  conversation it carried; a refused one is told and charged nothing.
- `SameEverywhere`, `RepliesCostAgain`, `CountAgrees`: the charge of a
  conversation does not depend on the surface, of a reply not on whether it is
  said or repeated, and `countTokens` tells it in advance; each with the exception
  that the rounding makes, and the first two up to what a surface withholds
  (`Withheld`): the system prompt, which InvokeModelWithResponseStream drops. `NamesMeanOneModel`: with colons in the names of
  models, a request reaches the handler and the model it was meant for.
- `AnswerFollowsScenario`: a one-shot request is never answered by another
  operation's scenario or by one replaced before it came.
- `CutOnlyAfterGrace`: a request that the end of the process cuts had its own
  server's five seconds, or a server without listener; `SignalStops` and
  `FailureStops`: the process does end; `StaysUntilSignalled`: `cmd/server` ends
  in no other way, even when neither of its listeners could start.

Definitions with an underscore in their name (`AfterWord_OneShort`, ...) are
mutants: plausible bugs of the definition they are named after. With a mutant in
its place the property it belongs to fails, as `PROJECT.json` lists.

## Fairness

Weak fairness for each handler, each producer and each hand-over: the Go
scheduler runs a goroutine that can move, `Clock.Sleep` returns, and a handler
that waits for a producer and the producer that waits for it meet. Nothing is
assumed of clients, which may stall for ever (`ReadingClientsServed` excludes
exactly that, since there is no write timeout), of the admin, or of time.
`VideoJobs`, `OneShot`, `EventLedger`, `CallPipeline` and `Conversation` assume no
fairness: what they promise is safety. In `ServerLifecycle` main, each `Run` and
each listener move when they can, and the timer of the shutdown fires; signals,
listen errors and the end of requests are not assumed.

## Disagreements found

1. `EventLedger_overwrite`. `test/bdd/features/openmeter_events.feature:58-60`
   says the event of a cached call "overwrites the first's document". Events are
   saved with `InsertOne` (`event_repo.go:35`): the second is refused as a
   duplicate, its sender gets 500, and the first document stays.
2. `CallsView_closest`. The header of `create-calls-view.js` says a raw response
   is joined with the event "closest to it in time". The pipeline sorts by
   `received_at` and takes the first: the earliest event of the window.
3. `OneShot_latency`. `domain/scenario.go:19` says of a scenario's latency that
   it "is injected before responding". Only the chat use case sleeps it;
   embeddings, images and audio answer at once (as does the creation of videos).
4. `CallPipeline_logged`. `README.md:197-198` says that every successful call logs
   a usage event, "persisted into MongoDB". Ids of videos start again with the
   mock (`video.go:70`), the events stay (a named volume, `docker-compose.yaml:82`):
   after a restart the event of a new video has an old id and is refused.

Two more need no run of their own, since a property of a passing run states what
the code does instead:

5. `CallPipeline`, `RawsOfCallsApart`. `litellm/config.yaml:80-82` says that a cache
   hit brings an event "with cost=0 and no new raw_response". The callback posts a
   raw response for every success (`custom_callback.py:43-55`), the scenario at
   `openmeter_events.feature:54-64` waits for one with `cache_hit` set, and so does
   `README.md:271-276` describe it. Here the model follows the code: the cached call
   has a document of its own, under its own call id.
6. `Conversation`, `SameEverywhere`. `README.md:63` says of InvokeModel and
   InvokeModelWithResponseStream that their bodies use the same shape, "exactly
   Anthropic's own documented format", and both decode its `system` (`types.go:71`).
   `invoke_handler.go:24-29` makes it a message, `invoke_stream_handler.go:42-52`
   does not: the same body streamed is told and charged without the system prompt.

## Proofs

All theorems are proved for every value of the constants that satisfies the
named assumptions (`StoreAssumption`, `ChatAssumption`, `VideoAssumption`,
`LedgerAssumption`, `ListingAssumption`, `PipelineAssumption`, `OneShotAssumption`,
`LifecycleAssumption`, `ConversationAssumption`), which TLC evaluates on the instances.

**ChatStreamProofs.** `NoOrphanProducer` and the others are not inductive as they
stand. `ChatInv` adds: no producer exists before `Stream` and the handler does
not return before it is closed (`HandlerAndProducer`); a producer that handed
over a late word is past its next look at the context, or has no word left, and
its client is gone (`LateProducer`); the store holds, under the key the use case
asks for, what the admin intends (`StoreAgrees`, which rests on the two key
functions agreeing); and a request's scenario was in force (`RequestInForce`).
From `Inductive` follow `TypeCorrect`, `NoOrphans`, `LateWordsBounded` and
`AnswersInForce`. `ScenarioStoreProofs` has the lemmas on the store: what `Put`
and `LoadFile` make of a key.

`WholeReplies` states `ConnectedClientGetsWholeReply`. Its strengthening is
`WireInv`: for a client still there, what has been written and the handler's
locals are functions of the number of chunks it has dealt with (`WrittenUpTo`,
`LocalsAfter`); the producer is at that chunk or, while the handler writes, at
the next one; and the channel is closed only after the final chunk. A step of
another request leaves all of it alone (`Bystander`).

A client that leaves can miss any frame, or get an end marker after a cut text, so
for it there is no closed form of the wire. `SpokenPrefix` and `UsageAfterText`
state `SpokenIsPrefixOfReply` and `UsageOnlyWithFullText`, for all clients at all
times. Their inductive invariant says of every request (`Voiced`): a handler in its
loop has written the first `next[r] - 1` words of the reply, one less while it has
a word in hand, and a usage has been seen only if the last chunk has been handed
over (`SpokenInStep`); and whatever became of the request, its wire is a sequence
of frames that says the first words of its scenario's reply, all of them if there is
a usage (`Legible`). `SpokenInv`, the part that TLC can evaluate, is a conjunct of
`ChatInv`. A step either writes nothing for the request or writes frames that add
known words and, if any, the chunk's own usage (the lemmas `Voiced...`).

`ContractImplemented` is the refinement of `ChatContract`, step by step: resolving
binds, a chunk or a whole body delivers its words, an error fails, the end of the
handler ends, a client that goes leaves; the steps of the producer, the hand-over
and every pause are stutters. `PhaseOf` and `Delivered` are the mapping; how many
words were delivered is read off the wire, which `SpokenInv` makes possible.

**WireFormatsProofs.** Why that closed form holds, surface by surface: what is
written before the first chunk is the beginning of the expected stream, each
chunk adds exactly the next piece of it, and what is written after the last
completes it (`WellMade`), while the locals keep step (`LocalsKept`). And what a
client reads, whatever came before: `SpokenUpTo` follows its recursion
(`SpokenRecursion`), a frame more adds its words or none (`SpokenMore`), a chunk
adds its own words and at most its own usage on every surface (`ChunkAdds`), the
opening and the closing add no words (`OpeningSilent`, `ClosingAdds`). Inductions
over a wire are inductions over the set of the lengths for which the claim holds
(`Induction`, from the well-foundedness of the naturals).

**VideoJobsProofs.** `Allocation` says that every create of the running process
has an id the counter has passed, not yet in the map before its insert and with
its own job after it, and that no two share one. `UniqueIds`, `ToldIsStored` and
`PermanentJobs` (an action property: an insert meets an id that is not in the
map) follow. `MissesExplained` adds that a client asks only for what it was told
(`MissInv`). `RegistryImplemented` is the refinement: the insert is the registry's
`Register`, the reply its `Tell`, a restart its `Crash`, and every other step
leaves what the registry sees alone.

**CallPipelineProofs, the ledger.** `LedgerInv` pairs `AckedIsStored` with the fact that a
handler that still has a save to do has told nobody anything. `WriteAdds` says
what executing a save does, by whomever and however late; `AckedOnce` follows
because a document names its delivery. The ledger is finite; a listing that leaves out a document
consists of others that are as late, so with the document itself more than the
limit are. `AckedListed` combines this with `LedgerInv`. `JoinsMoveBack` states
`JoinMovesBack`: the events that a row may be joined with only become more, and of
any set of documents one is the earliest (`EarliestExists`).

**CallPipelineProofs, the calls.** `PipelineIsLedger` is a refinement: each step of the
pipeline is one of `EventLedger` or leaves it alone, so `LedgerInv` is inherited.
`PipelineInv` adds what the cache and the calls hold (`RepliesMade`: a reply in
the cache was made for an equal request), how videos are counted
(`VideosCounted`), that nothing reaches the ledger that was not posted
(`ReceivedWerePosted`) and that an acknowledged save is not still pending
(`AcknowledgedAreThrough`). The last is what `RawsInOrder` needs: a document
stored after an acknowledgement comes from a delivery that was not acknowledged
before. `SameKeyTwins` derives the four ways two events can share an id.

**OneShotProofs.** `OneShotInv` adds to `AnswerFollowsScenario` that the store
holds what the admin intends for every operation (`StoreAgrees`) and that a
request on its way has what was in force (`RequestInForce`).

**ServerLifecycleProofs.** `Accounted` says how each `Run` came to return: a
server that is shutting down was signalled, one that `stopped` has nothing in
flight and takes nothing more, one that `failed` has lost its listener. When main
returns, what is in flight is therefore of a server that expired or failed.

**ConversationProofs.** `ConversationInv` pairs types with `Accounted`: each entry
of the log is what its own conversation makes of it. With it three of the properties
speak of constants only, and three lemmas about the operators decide them: a system
prompt in at most one block is put before the turns by every surface but one, or
left out where it is empty (`Told`), so what is withheld and what is told always
come to the prompt and the turns, and likewise their charge (`HeardAndCharged`);
two turns more add just their own (`TokensGoOn`). They
rest on what a sum over a sequence is (`BytesRecursion`, `BytesAgree`, `BytesLed`),
by the same induction as above. `NamesMean` needs that `Append` and the split at
the last colon undo each other (`DispatchSplits`). The restriction to one block is
the exception the property itself makes: Converse rounds several blocks one by one.

Only model-checked: the liveness properties (`GoneClientsReleased`,
`ReadingClientsServed`, `SignalStops`, `FailureStops`), because fairness is out of
the provers' reach, and the disagreements with a run of their own, which are
counterexamples. Every invariant and every action property that a passing run
checks, and both refinements, are theorems.

## Not modelled, and why

- A scenario's `Usage` override and the finish reasons other than `stop`:
  neither the loader nor the admin API can produce them.
- A `|` in a model name, which lets two different pairs share a store key.
- Wording, JSON and binary framing, identifiers and timestamps inside frames.
- `splitWords` is reduced to the number of pieces; a text is never cut into none.
- The order of documents within a listing, and the content of a raw response
  (`_to_jsonable`).
- Moderations, the tables of routes, configuration, logging: constant answers,
  tables and string handling.
- nginx and docker-compose: configuration of third-party programs.

## Plan

Done, in this order: `ScenarioStore`, `WireFormats`, `ChatStream`,
`ChatContract`, `ChatStreamProofs`; `VideoJobs`, `JobRegistry`,
`VideoJobsProofs`; `EventLedger`, `CallsView` and their proofs;
`ServerLifecycle`, `OneShot` and their proofs; `CallPipeline`, `Listings` and
their proofs; `Conversation`; the refinement of `JobRegistry`; the wire in closed
form and `WholeReplies`; what a client reads at any moment, and the refinement of
`ChatContract`; the view; `ConversationProofs`.

Next:

1. Embeddings, images and audio through `CallPipeline` with their own routes.
2. Theorems for what the refinements carry over: the safety of `ChatContract` and
   `JobRegistry` stated on their own variables.
