----------------------------- MODULE EventLedger -----------------------------
(***************************************************************************)
(* The OpenMeter mock: two HTTP ingestion endpoints in front of two        *)
(* MongoDB collections.  Usage events are inserted under the event id,     *)
(* raw responses replace whatever is stored under LiteLLM's call id.  Each *)
(* delivery is served by a handler of its own that stamps the document     *)
(* with the time and then saves it.                                        *)
(*                                                                         *)
(* Deliveries come from LiteLLM's callbacks, which are outside this        *)
(* repository: a delivery may arrive late or never, two deliveries may     *)
(* carry the same key (a retry, or an event of a cached call), and they    *)
(* may overlap.  MongoDB is external too: it keeps its contents when the   *)
(* mock crashes; a save whose handler has given up (the database or the    *)
(* network failed, the caller hung up after its timeout, the mock died)    *)
(* may still take effect, any time later.                                  *)
(***************************************************************************)
EXTENDS Naturals

CONSTANTS
    Deliveries,     \* the POSTs of a behaviour
    KindOf,         \* KindOf[d]: the endpoint d is sent to, "event" or "raw"
    KeyOf,          \* KeyOf[d]: its event id or call id
    ModelOf,        \* ModelOf[d]: the model its document is about
    Malformed,      \* deliveries whose body cannot be decoded
    MongoFaults,    \* whether saves can fail
    MaxTime,        \* bound on the clock
    MaxCrashes      \* bound on the crashes of the mock

ASSUME LedgerAssumption ==
    /\ KindOf \in [Deliveries -> {"event", "raw"}]
    /\ Malformed \subseteq Deliveries
    /\ MongoFaults \in BOOLEAN
    /\ MaxTime \in Nat
    /\ MaxCrashes \in Nat

VARIABLES
    now,        \* the mock's clock
    events,     \* collection of events: id to document
    raws,       \* collection of raw responses: call id to document
    pc,         \* pc[d]: where the handler of d is
    stamp,      \* stamp[d]: ReceivedAt of d's document
    answer,     \* answer[d]: status sent for d, 0 when none was
    limbo,      \* deliveries whose save was given up and may still take effect
    crashes     \* number of crashes so far

vars == <<now, events, raws, pc, stamp, answer, limbo, crashes>>

\* A document remembers which delivery it came from; its content is in there.
DocOf(d) == [from |-> d, at |-> stamp[d]]

Document == [from : Deliveries, at : 0..MaxTime]

Empty == [k \in {} |-> 0]

With(collection, k, doc) ==
    [j \in DOMAIN collection \cup {k} |-> IF j = k THEN doc ELSE collection[j]]

Init ==
    /\ now = 0
    /\ events = Empty
    /\ raws = Empty
    /\ pc = [d \in Deliveries |-> "sent"]
    /\ stamp = [d \in Deliveries |-> 0]
    /\ answer = [d \in Deliveries |-> 0]
    /\ limbo = {}
    /\ crashes = 0

Tick ==
    /\ now < MaxTime
    /\ now' = now + 1
    /\ UNCHANGED <<events, raws, pc, stamp, answer, limbo, crashes>>

\* The body is decoded and the document stamped.
Receive(d) ==
    /\ pc[d] = "sent"
    /\ IF d \in Malformed
       THEN /\ pc' = [pc EXCEPT ![d] = "answered"]
            /\ answer' = [answer EXCEPT ![d] = 400]
            /\ UNCHANGED stamp
       ELSE /\ pc' = [pc EXCEPT ![d] = "save"]
            /\ stamp' = [stamp EXCEPT ![d] = now]
            /\ UNCHANGED answer
    /\ UNCHANGED <<now, events, raws, limbo, crashes>>

\* Mutants: events are upserted like raw responses; raw responses are inserted
\* like events.
Accepts_Upsert(d) == TRUE
Accepts_Insert(d) == KeyOf[d] \notin DOMAIN events \cup DOMAIN raws

\* InsertOne refuses an _id that is taken; ReplaceOne with upsert does not.
Accepts(d) == KindOf[d] = "raw" \/ KeyOf[d] \notin DOMAIN events

\* The collections after a save that has taken effect.
Stored(d) ==
    IF KindOf[d] = "event"
    THEN /\ events' = With(events, KeyOf[d], DocOf(d))
         /\ raws' = raws
    ELSE /\ raws' = With(raws, KeyOf[d], DocOf(d))
         /\ events' = events

\* Mutant: the status does not depend on the result of the save.
SaveStatus_Blind(d) == 200

SaveStatus(d) == IF Accepts(d) THEN 200 ELSE 500

\* What MongoDB does with the save of d when it gets to it.
Write(d) == IF Accepts(d) THEN Stored(d) ELSE UNCHANGED <<events, raws>>

Answered(d, status) ==
    /\ pc' = [pc EXCEPT ![d] = "answered"]
    /\ answer' = [answer EXCEPT ![d] = status]

\* Mutant: the status is sent before the save is done.
Save_Async(d) ==
    /\ pc[d] = "save"
    /\ Answered(d, SaveStatus(d))
    /\ limbo' = limbo \cup {d}
    /\ UNCHANGED <<now, events, raws, stamp, crashes>>

Save(d) ==
    /\ pc[d] = "save"
    /\ Write(d)
    /\ Answered(d, SaveStatus(d))
    /\ UNCHANGED <<now, stamp, limbo, crashes>>

\* The driver reports an error and leaves the save to its fate.
SaveFails(d) ==
    /\ MongoFaults
    /\ pc[d] = "save"
    /\ Answered(d, 500)
    /\ limbo' = limbo \cup {d}
    /\ UNCHANGED <<now, events, raws, stamp, crashes>>

\* MongoDB executes a save nobody waits for any more.
Land(d) ==
    /\ d \in limbo
    /\ Write(d)
    /\ limbo' = limbo \ {d}
    /\ UNCHANGED <<now, pc, stamp, answer, crashes>>

\* The mock dies; handlers in flight die with it, MongoDB does not.
Crash ==
    /\ crashes < MaxCrashes
    /\ crashes' = crashes + 1
    /\ pc' = [d \in Deliveries |-> IF pc[d] = "save" THEN "lost" ELSE pc[d]]
    /\ limbo' = limbo \cup {d \in Deliveries : pc[d] = "save"}
    /\ UNCHANGED <<now, events, raws, stamp, answer>>

\* All deliveries have been dealt with; the mock stays up.
Idle ==
    /\ \A d \in Deliveries : pc[d] \in {"answered", "lost"}
    /\ UNCHANGED vars

Handle(d) == Save(d) \/ SaveFails(d)

Next ==
    \/ Tick
    \/ \E d \in Deliveries : Receive(d)
    \/ \E d \in Deliveries : Handle(d)
    \/ \E d \in Deliveries : Land(d)
    \/ Crash
    \/ Idle

Spec == Init /\ [][Next]_vars
-----------------------------------------------------------------------------
\* Shapes of the variables: every document was sent to its collection, under
\* its own key.
TypeOK ==
    /\ now \in 0..MaxTime
    /\ \A k \in DOMAIN events :
          events[k] \in Document /\ KindOf[events[k].from] = "event"
                                 /\ KeyOf[events[k].from] = k
    /\ \A k \in DOMAIN raws :
          raws[k] \in Document /\ KindOf[raws[k].from] = "raw"
                               /\ KeyOf[raws[k].from] = k
    /\ pc \in [Deliveries -> {"sent", "save", "answered", "lost"}]
    /\ stamp \in [Deliveries -> 0..MaxTime]
    /\ answer \in [Deliveries -> {0, 200, 400, 500}]
    /\ limbo \subseteq Deliveries
    /\ crashes \in 0..MaxCrashes

\* An event that was acknowledged is in the ledger with the sender's own
\* document, and stays there through crashes, duplicates and stray saves; for
\* an acknowledged raw response its call has a document, its own or another
\* delivery's.
AckedIsStored ==
    \A d \in Deliveries : answer[d] = 200 =>
        IF KindOf[d] = "event"
        THEN KeyOf[d] \in DOMAIN events /\ events[KeyOf[d]] = DocOf(d)
        ELSE KeyOf[d] \in DOMAIN raws

SameEvent(d, e) == KindOf[d] = "event" /\ KindOf[e] = "event" /\ KeyOf[d] = KeyOf[e]

\* No two events with the same id are acknowledged: a duplicate is refused.
OneAckPerEvent ==
    \A d, e \in Deliveries :
        (SameEvent(d, e) /\ answer[d] = 200 /\ answer[e] = 200) => d = e

\* No handler has answered before it is done.
SilentUntilAnswered ==
    \A d \in Deliveries : pc[d] # "answered" => answer[d] = 0

\* The inductive invariant: acknowledged documents are in the ledger, and the
\* handlers that could still touch it have told nobody anything.
LedgerInv == TypeOK /\ SilentUntilAnswered /\ AckedIsStored

\* What is stored stays stored, and a stored event is never changed.
LedgerGrows ==
    [][/\ \A k \in DOMAIN events : k \in DOMAIN events' /\ events'[k] = events[k]
       /\ DOMAIN raws \subseteq DOMAIN raws']_vars

\* openmeter_events.feature:58-60 says of the event of a cached call, which has
\* the id of the first call's event, that it "overwrites the first's document".
\* The insert of event_repo.go:35 refuses it instead.
SecondEventOverwrites ==
    [][\A d \in Deliveries :
        (KindOf[d] = "event" /\ pc[d] = "save" /\ pc'[d] = "answered")
            => events'[KeyOf[d]] = DocOf(d)]_vars
=============================================================================
