------------------------------- MODULE OneShot -------------------------------
(***************************************************************************)
(* The use cases that answer in one piece (embeddings, images, audio in    *)
(* both directions) with their OpenAI handlers, on the scenario store that *)
(* the admin API changes at any moment.  Each refuses a bad request, reads *)
(* the store once for its own operation, and answers the injected error or *)
(* its canned payload.  A clock shows how long an answer took.             *)
(***************************************************************************)
EXTENDS ScenarioStore

CONSTANTS
    Requests,           \* the requests of a behaviour
    Inputs,             \* what a client may send: a subset of Request
    SeedFiles,          \* scenario files the server may be started with
    PutScenarios,       \* scenarios the admin may install
    MaxPuts,            \* bound on the number of admin PUTs
    MaxTime,            \* bound on the clock
    NoModel,            \* a request without a model
    DefaultImageModel   \* "dall-e-2"

\* The operation each use case resolves.
OneShotOps == {"embedding", "image", "audio_transcription", "audio_speech"}

\* A request is complete when it has its input, prompt or file.
Request ==
    [op : OneShotOps, model : Models \cup {NoModel}, complete : BOOLEAN]

ASSUME OneShotAssumption ==
    /\ OneShotOps \subseteq OtherOps
    /\ Inputs \subseteq Request
    /\ SeedFiles \subseteq Seq(SeedEntry)
    /\ PutScenarios \subseteq Scenario
    /\ MaxPuts \in Nat /\ MaxTime \in Nat
    /\ NoModel \notin Models
    /\ DefaultImageModel \in Models

VARIABLES
    puts,       \* number of admin PUTs so far
    now,        \* the clock
    handler,    \* handler[r]: "idle", "resolve", "reply" or "done"
    req,        \* req[r]: what the client of r sends
    sc,         \* sc[r]: the scenario the use case resolved
    status,     \* status[r]: status code sent, 0 when none was
    took,       \* took[r]: time from the arrival of r, up to its answer
    intended,   \* history: what the admin last asked of a model's operation
    inForce     \* history: values of intended from r's arrival to its resolve

vars == <<scenarios, puts, now, handler, req, sc, status, took, intended, inForce>>

\* Mutant: the image handler has no default model.
AskedModel_NoDefault(q) == q.model

\* An image request may leave the model out.
AskedModel(q) ==
    IF q.op = "image" /\ q.model = NoModel THEN DefaultImageModel ELSE q.model

Refused(q) == ~q.complete \/ AskedModel(q) = NoModel

\* Mutants: the operation of Chat was copied, or speech is taken for
\* transcription.
AskedOp_Chat(q) == "chat"
AskedOp_OneAudio(q) == IF q.op = "audio_speech" THEN "audio_transcription" ELSE q.op

AskedOp(q) == q.op

Init ==
    /\ \E entries \in SeedFiles : scenarios = LoadFile(entries)
    /\ puts = 0 /\ now = 0
    /\ req \in [Requests -> Inputs]
    /\ handler = [r \in Requests |-> "idle"]
    /\ sc = [r \in Requests |-> Benign]
    /\ status = [r \in Requests |-> 0]
    /\ took = [r \in Requests |-> 0]
    /\ intended = [k \in Models \X OneShotOps |-> Resolve(k[1], k[2])]
    /\ inForce = [r \in Requests |-> {}]

\* A second of the clock passes.
Tick ==
    /\ now < MaxTime
    /\ now' = now + 1
    /\ took' = [r \in Requests |->
                  IF handler[r] \in {"resolve", "reply"} THEN took[r] + 1 ELSE took[r]]
    /\ UNCHANGED <<scenarios, puts, handler, req, sc, status, intended, inForce>>

\* PUT /admin/scenarios, up to its 204.
AdminPut(m, op, s) ==
    /\ puts < MaxPuts
    /\ puts' = puts + 1
    /\ Put(AdminKey(m, op), s)
    /\ intended' = IF op \in OneShotOps THEN [intended EXCEPT ![<<m, op>>] = s]
                                        ELSE intended
    /\ inForce' = [r \in Requests |->
                     IF /\ handler[r] = "resolve"
                        /\ AskedModel(req[r]) = m /\ req[r].op = op
                     THEN inForce[r] \cup {s} ELSE inForce[r]]
    /\ UNCHANGED <<now, handler, req, sc, status, took>>

\* The handler decodes and checks the request, and calls the use case.
Arrive(r) ==
    /\ handler[r] = "idle"
    /\ IF Refused(req[r])
       THEN /\ status' = [status EXCEPT ![r] = 400]
            /\ handler' = [handler EXCEPT ![r] = "done"]
            /\ inForce' = inForce
       ELSE /\ handler' = [handler EXCEPT ![r] = "resolve"]
            /\ inForce' = [inForce EXCEPT ![r] =
                             {intended[<<AskedModel(req[r]), req[r].op>>]}]
            /\ status' = status
    /\ UNCHANGED <<scenarios, puts, now, req, sc, took, intended>>

\* The use case reads the store, once.  It does not look at the latency.
ResolveScenario(r) ==
    /\ handler[r] = "resolve"
    /\ sc' = [sc EXCEPT ![r] = Resolve(AskedModel(req[r]), AskedOp(req[r]))]
    /\ handler' = [handler EXCEPT ![r] = "reply"]
    /\ UNCHANGED <<scenarios, puts, now, req, status, took, intended, inForce>>

\* What a scenario has a one-shot request answered with.
StatusFor(s) == IF s.error = NoError THEN 200 ELSE ErrorStatus(s.error)

Reply(r) ==
    /\ handler[r] = "reply"
    /\ status' = [status EXCEPT ![r] = StatusFor(sc[r])]
    /\ handler' = [handler EXCEPT ![r] = "done"]
    /\ UNCHANGED <<scenarios, puts, now, req, sc, took, intended, inForce>>

\* Every request is answered; the server waits for more.
Idle ==
    /\ \A r \in Requests : handler[r] = "done"
    /\ UNCHANGED vars

Next ==
    \/ Tick \/ Idle
    \/ \E m \in Models, op \in Operations, s \in PutScenarios : AdminPut(m, op, s)
    \/ \E r \in Requests : Arrive(r) \/ ResolveScenario(r) \/ Reply(r)

Spec == Init /\ [][Next]_vars

-----------------------------------------------------------------------------
(* Properties. *)

TypeOK ==
    /\ StoreTypeOK
    /\ puts \in 0..MaxPuts /\ now \in 0..MaxTime
    /\ req \in [Requests -> Inputs]
    /\ handler \in [Requests -> {"idle", "resolve", "reply", "done"}]
    /\ sc \in [Requests -> Scenario]
    /\ status \in [Requests -> {0, 200, 400} \cup {ErrorStatus(c) : c \in ErrorCodes}]
    /\ took \in [Requests -> Nat]
    /\ intended \in [Models \X OneShotOps -> Scenario]
    /\ inForce \in [Requests -> SUBSET Scenario]

\* An answer is the one of a scenario in force for the request's own operation
\* and model between its arrival and its one look at the store: neither another
\* operation's scenario nor a replaced one reaches it (embedding.go:27-33,
\* image.go:29-35, audio.go:62-68, 78-84).
AnswerFollowsScenario ==
    \A r \in Requests :
        handler[r] = "done" =>
            IF req[r].complete /\ (req[r].op = "image" \/ req[r].model # NoModel)
            THEN \E s \in inForce[r] : status[r] = StatusFor(s)
            ELSE status[r] = 400

\* What makes it inductive: the store holds what the admin intends, and a
\* request on its way has what was in force.
StoreAgrees ==
    \A m \in Models, op \in OneShotOps : Resolve(m, op) = intended[<<m, op>>]

RequestInForce ==
    \A r \in Requests :
        /\ handler[r] = "resolve" =>
              intended[<<AskedModel(req[r]), req[r].op>>] \in inForce[r]
        /\ handler[r] = "reply" => sc[r] \in inForce[r]
        /\ handler[r] \in {"resolve", "reply"} => ~Refused(req[r])

OneShotInv == TypeOK /\ StoreAgrees /\ RequestInForce /\ AnswerFollowsScenario

\* domain/scenario.go:19: "LatencyMs is injected before responding".  The
\* latency of a scenario is one tick.
LatencyInjected ==
    \A r \in Requests :
        handler[r] = "done" /\ ~Refused(req[r]) /\ sc[r].latency => took[r] >= 1
=============================================================================
