---------------------------- MODULE CallPipeline ----------------------------
(***************************************************************************)
(* A call through the whole stack: LiteLLM asks the mock, or answers from  *)
(* its response cache, and then fires two callbacks that do not know of    *)
(* each other.  The "openmeter" one posts a usage event under the id of    *)
(* the reply (LiteLLM's code, not this repository's); custom_callback.py   *)
(* posts the raw response under LiteLLM's call id.  Each is sent once, or  *)
(* late, or never; a raw response may be delivered again.                  *)
(*                                                                         *)
(* The mock takes the id of a chat reply from its clock and the id of a    *)
(* video from a counter that starts anew with the process; its other       *)
(* replies have none.  The ledger (EventLedger) lives in a volume of       *)
(* MongoDB that outlasts every process.  All share the host's clock.       *)
(***************************************************************************)
EXTENDS EventLedger, Integers, FiniteSets

CONSTANTS
    Calls,          \* the calls clients make through LiteLLM
    RequestOf,      \* RequestOf[c]: what is asked; equal ones share a reply
    RouteOf,        \* RouteOf[c]: "chat", "video", or "plain" (no reply id)
    CallIdOf,       \* CallIdOf[c]: LiteLLM's call id, or NoCallId
    NoCallId,       \* the empty call id
    NoId,           \* in place of the id of a reply that has none
    CallOf,         \* CallOf[d]: the call delivery d is about
    Sessions,       \* sets of calls, those of one set are made in a behaviour
    MaxMishaps      \* bound on failed saves, crashes and restarts together

\* The ids of replies, by route.
IdsFor(route) ==
    CASE route = "chat"  -> {"chatcmpl"} \X Nat
      [] route = "video" -> {"video"} \X Nat
      [] OTHER           -> {NoId}

ReplyIds == {NoId} \cup ({"chatcmpl", "video"} \X Nat)

PipelineAssumption ==
    /\ CallOf \in [Deliveries -> Calls]
    /\ RouteOf \in [Calls -> {"chat", "video", "plain"}]
    /\ \A c, e \in Calls :
          /\ CallIdOf[c] = CallIdOf[e] => c = e \/ CallIdOf[c] = NoCallId
          /\ CallIdOf[c] \notin ReplyIds
          /\ RequestOf[c] = RequestOf[e] => RouteOf[c] = RouteOf[e]
    /\ NoId \notin IdsFor("chat") \cup IdsFor("video")
    /\ Sessions \subseteq SUBSET Calls
    /\ MaxMishaps \in Nat

ASSUME PipelineAssumption

VARIABLES
    status,     \* status[c]: "unmade", "new", "asked", "done" or "failed"
    reply,      \* reply[c]: the reply's id, and history: the call it was made
                \* for and the life of the mock that made it
    cache,      \* LiteLLM's response cache: request to reply
    made,       \* videos made by the mock since it was started
    restarts,   \* restarts of the mock so far
    spoilt,     \* history: deliveries whose save failed
    settled     \* history, settled[d]: raw responses of d's call that were
                \* acknowledged before d was received

callVars == <<status, reply, cache, made, restarts>>
historyVars == <<spoilt, settled>>
pipelineVars == <<callVars, historyVars, vars>>

PipelineInit ==
    /\ Init
    /\ \E session \in Sessions :
          status = [c \in Calls |-> IF c \in session THEN "new" ELSE "unmade"]
    /\ reply = [c \in Calls |-> [id |-> NoId, by |-> c, life |-> 0]]
    /\ cache = Empty
    /\ made = 0
    /\ restarts = 0
    /\ spoilt = {}
    /\ settled = [d \in Deliveries |-> {}]
-----------------------------------------------------------------------------
(* LiteLLM and the mock. *)

\* A bound of the model.
MayFail == Cardinality(spoilt) + crashes + restarts < MaxMishaps

Cached(c) == RequestOf[c] \in DOMAIN cache

\* A call that was asked before is answered without the mock: same reply, same
\* id.
CacheHit(c) ==
    /\ status[c] = "new" /\ Cached(c)
    /\ status' = [status EXCEPT ![c] = "done"]
    /\ reply' = [reply EXCEPT ![c] = cache[RequestOf[c]]]
    /\ UNCHANGED <<cache, made, restarts, historyVars, vars>>

Ask(c) ==
    /\ status[c] = "new" /\ ~Cached(c)
    /\ status' = [status EXCEPT ![c] = "asked"]
    /\ UNCHANGED <<reply, cache, made, restarts, historyVars, vars>>

\* Mutant: the use case, and with it the counter, is made anew for a request.
VideosAfter_PerRequest(route) == IF route = "video" THEN 1 ELSE made

\* The counter of the use case Video.
VideosAfter(route) == IF route = "video" THEN made + 1 ELSE made

ReplyId(route) ==
    CASE route = "chat"  -> <<"chatcmpl", now>>
      [] route = "video" -> <<"video", VideosAfter(route)>>
      [] OTHER           -> NoId

\* The mock replies, and LiteLLM keeps the reply for the next equal request.
\* Of equal requests asked at the same time the last reply is kept.  Videos
\* are not cached: they are not completions.
MockReplies(c) ==
    LET new == [id |-> ReplyId(RouteOf[c]), by |-> c, life |-> restarts]
    IN  /\ status[c] = "asked"
        /\ status' = [status EXCEPT ![c] = "done"]
        /\ reply' = [reply EXCEPT ![c] = new]
        /\ made' = VideosAfter(RouteOf[c])
        /\ cache' = IF RouteOf[c] = "video" THEN cache
                    ELSE With(cache, RequestOf[c], new)
        /\ UNCHANGED <<restarts, historyVars, vars>>

\* A scenario has the mock answer with an error; there is nothing to log.
MockRefuses(c) ==
    /\ status[c] = "asked"
    /\ status' = [status EXCEPT ![c] = "failed"]
    /\ UNCHANGED <<reply, cache, made, restarts, historyVars, vars>>

\* Calls in flight fail with the mock; its counter starts again.
MockRestarts ==
    /\ MayFail
    /\ restarts' = restarts + 1
    /\ made' = 0
    /\ status' = [c \in Calls |->
                    IF status[c] = "asked" THEN "failed" ELSE status[c]]
    /\ UNCHANGED <<reply, cache, historyVars, vars>>
-----------------------------------------------------------------------------
(* The callbacks and the ledger. *)

\* Mutants: events go by the call id, raw responses by the reply's.
EventKey_CallId(c) == CallIdOf[c]
RawKey_Reply(c) == reply[c].id

\* The id LiteLLM's openmeter callback gives the event: the reply's if there
\* is one (create-calls-view.js:7).
EventKey(c) == IF reply[c].id = NoId THEN CallIdOf[c] ELSE reply[c].id

RawKey(c) == CallIdOf[c]

PostKey(d) ==
    IF KindOf[d] = "event" THEN EventKey(CallOf[d]) ELSE RawKey(CallOf[d])

\* Callbacks are fired for calls that succeeded, cached or not
\* (openmeter_events.feature:55-61): custom_callback.py posts whenever it is
\* called, with cache_hit set if it was a hit.
Posted(d) == status[CallOf[d]] = "done" /\ KeyOf[d] = PostKey(d)

SameRaw(d, e) == KindOf[d] = "raw" /\ KindOf[e] = "raw" /\ KeyOf[d] = KeyOf[e]

PipelineReceive(d) ==
    /\ Posted(d)
    /\ Receive(d)
    /\ settled' = [settled EXCEPT ![d] =
                     {e \in Deliveries : SameRaw(d, e) /\ answer[e] = 200}]
    /\ UNCHANGED <<callVars, spoilt>>

PipelineSave(d) == Save(d) /\ UNCHANGED <<callVars, historyVars>>

PipelineSaveFails(d) ==
    /\ MayFail
    /\ SaveFails(d)
    /\ spoilt' = spoilt \cup {d}
    /\ UNCHANGED <<callVars, settled>>

PipelineHandle(d) == PipelineSave(d) \/ PipelineSaveFails(d)

PipelineLand(d) == Land(d) /\ UNCHANGED <<callVars, historyVars>>

LedgerTicks == Tick /\ UNCHANGED <<callVars, historyVars>>

LedgerCrashes == MayFail /\ Crash /\ UNCHANGED <<callVars, historyVars>>

\* Nothing is left to do.
PipelineIdle ==
    /\ \A c \in Calls : status[c] \in {"unmade", "done", "failed"}
    /\ \A d \in Deliveries :
          pc[d] \in {"answered", "lost"} \/ (pc[d] = "sent" /\ ~Posted(d))
    /\ UNCHANGED pipelineVars

PipelineNext ==
    \/ \E c \in Calls : CacheHit(c) \/ Ask(c) \/ MockReplies(c) \/ MockRefuses(c)
    \/ MockRestarts
    \/ \E d \in Deliveries :
          PipelineReceive(d) \/ PipelineHandle(d) \/ PipelineLand(d)
    \/ LedgerTicks \/ LedgerCrashes
    \/ PipelineIdle

PipelineSpec == PipelineInit /\ [][PipelineNext]_pipelineVars
-----------------------------------------------------------------------------
(* Properties. *)

Reply == [id : ReplyIds, by : Calls, life : Nat]

PipelineTypeOK ==
    /\ TypeOK
    /\ status \in [Calls -> {"unmade", "new", "asked", "done", "failed"}]
    /\ reply \in [Calls -> Reply]
    /\ made \in Nat
    /\ restarts \in Nat
    /\ spoilt \subseteq Deliveries
    /\ settled \in [Deliveries -> SUBSET Deliveries]

\* The ways two calls come to have one event id: one of them got the other's
\* reply from the cache; both replies were made in one tick of the clock; two
\* lives of the mock counted to the same number; or neither has any id.
Twins(c, e) ==
    \/ reply[c].by = reply[e].by
    \/ RouteOf[c] = "chat" /\ reply[c].id = reply[e].id
    \/ RouteOf[c] = "video" /\ reply[c].id = reply[e].id /\ reply[c].life # reply[e].life
    \/ reply[c].id = NoId /\ reply[e].id = NoId /\ CallIdOf[e] = NoCallId

\* The usage of a call is refused by the ledger only for the sake of a twin's:
\* neither repeated calls, crashes nor stray saves make a call lose its usage to
\* nothing, to itself or to an unrelated call (event_repo.go:35 with chat.go:54
\* and video.go:70).
UsageLostOnlyToTwins ==
    \A d \in Deliveries \ spoilt :
        KindOf[d] = "event" /\ answer[d] = 500 =>
            /\ KeyOf[d] \in DOMAIN events
            /\ LET kept == events[KeyOf[d]].from
               IN  kept # d /\ Twins(CallOf[d], CallOf[kept])

\* However often a reply that has an id is served from the cache, the ledger
\* has at most one usage event of it (openmeter_events.feature:57-59).
RepliesBilledOnce ==
    \A j, k \in DOMAIN events :
        LET c == CallOf[events[j].from]  e == CallOf[events[k].from]
        IN  reply[c].by = reply[e].by /\ reply[c].id # NoId => j = k

\* The raw responses of two calls are two documents, cached or not, unless
\* LiteLLM has no id for them: what was acknowledged for a call is there, and was
\* sent for that call.  So do the code (custom_callback.py:43-55) and the feature
\* file (openmeter_events.feature:60-61) have it; config.yaml:80-82 says that a
\* cache hit brings "no new raw_response".
RawsOfCallsApart ==
    \A d \in Deliveries :
        KindOf[d] = "raw" /\ answer[d] = 200 =>
            /\ KeyOf[d] \in DOMAIN raws
            /\ CallIdOf[CallOf[d]] # NoCallId =>
                  CallOf[raws[KeyOf[d]].from] = CallOf[d]

\* Of two deliveries of a raw response, one of them received after the other
\* was acknowledged, the earlier is never the one that stays: an older stamp is
\* stored last only when the two overlap (raw_response.go:22).
RawsInOrder ==
    \A d \in Deliveries :
        KindOf[d] = "raw" /\ answer[d] = 200 =>
            KeyOf[d] \in DOMAIN raws /\ raws[KeyOf[d]].from \notin settled[d]

\* Repeated deliveries of a raw response are all accepted
\* (raw_response_repo.go:15): it is refused only when its own save failed.
RetriedRawAccepted ==
    \A d \in Deliveries : KindOf[d] = "raw" /\ answer[d] = 500 => d \in spoilt

\* x is the reply the mock made for a call that asked for q.
Made(x, q) ==
    /\ x.by \in Calls /\ status[x.by] = "done" /\ reply[x.by] = x
    /\ RequestOf[x.by] = q

\* Replies and the cache: a reply is told to calls with the same request and
\* has an id of its route's kind.
RepliesMade ==
    /\ \A c \in Calls : status[c] = "done" =>
          /\ Made(reply[c], RequestOf[c])
          /\ reply[c].id \in IdsFor(RouteOf[c])
    /\ \A q \in DOMAIN cache :
          Made(cache[q], q) /\ RouteOf[cache[q].by] # "video"

\* Videos are never served from the cache; in one life of the mock they are
\* counted.
VideosCounted ==
    \A c \in Calls : status[c] = "done" /\ RouteOf[c] = "video" =>
        /\ reply[c].by = c
        /\ reply[c].life <= restarts
        /\ reply[c].life = restarts => reply[c].id[2] <= made
        /\ \A e \in Calls :
              status[e] = "done" /\ RouteOf[e] = "video" /\ reply[c].life = reply[e].life
                /\ reply[c].id = reply[e].id => c = e

\* What the mock has received was posted, and what the ledger has or may still
\* get was received; a save that is still to be done has left no trace.
ReceivedWerePosted ==
    /\ \A d \in Deliveries : pc[d] # "sent" => Posted(d)
    /\ \A d \in limbo : pc[d] # "sent"
    /\ \A k \in DOMAIN events : pc[events[k].from] # "sent"
    /\ \A k \in DOMAIN raws : pc[raws[k].from] # "sent"
    /\ \A d \in Deliveries : pc[d] = "save" =>
          d \notin limbo /\ \A k \in DOMAIN events : events[k].from # d

\* Nobody executes the save of an acknowledged delivery a second time.
AcknowledgedAreThrough ==
    \A d \in Deliveries :
        /\ answer[d] = 200 => d \notin limbo
        /\ \A e \in settled[d] : answer[e] = 200

\* The inductive invariant.
PipelineInv ==
    /\ LedgerInv
    /\ PipelineTypeOK
    /\ RepliesMade
    /\ VideosCounted
    /\ ReceivedWerePosted
    /\ AcknowledgedAreThrough
    /\ UsageLostOnlyToTwins
    /\ RawsInOrder
    /\ RetriedRawAccepted

\* README.md:197-198 says that every successful call also logs a usage event,
\* "persisted into MongoDB".  The event of a video made after the mock was
\* restarted has an id the volume already holds, and is refused.
EverySuccessfulCallLogged ==
    \A d \in Deliveries \ spoilt : KindOf[d] = "event" => answer[d] # 500
=============================================================================
