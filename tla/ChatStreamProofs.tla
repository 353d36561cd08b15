-------------------------- MODULE ChatStreamProofs --------------------------
(***************************************************************************)
(* Theorems about ChatStream for every set of requests, models, texts and  *)
(* scenarios, every seed file and every bound on the number of PUTs.       *)
(***************************************************************************)
EXTENDS ChatRefinement, ScenarioStoreProofs, WireFormatsProofs

-----------------------------------------------------------------------------
(* Type correctness. *)

LEMMA InitType == Init => TypeOK
<1> SUFFICES ASSUME Init  PROVE TypeOK
  OBVIOUS
<1>1. Benign \in Scenario
  BY DEF Benign, Scenario, NoError
<1>2. StoreTypeOK
  <2>1. PICK entries \in SeedFiles : scenarios = LoadFile(entries)
    BY DEF Init
  <2>2. entries \in Seq(SeedEntry)
    BY ChatAssumption
  <2> QED
    BY <2>1, <2>2, LoadFileType DEF StoreTypeOK
<1>3. ASSUME NEW m \in Models  PROVE Resolve(m, "chat") \in Scenario
  BY <1>1, <1>2 DEF Resolve, StoreTypeOK
<1>4. intended \in [Models -> Scenario]
  BY <1>3 DEF Init
<1>5. puts \in 0..MaxPuts
  BY ChatAssumption DEF Init
<1> QED
  BY <1>1, <1>2, <1>4, <1>5 DEF Init, TypeOK, HandlerStates, ProducerStates

LEMMA NextType == TypeOK /\ [Next]_vars => TypeOK'
<1> SUFFICES ASSUME TypeOK, [Next]_vars  PROVE TypeOK'
  OBVIOUS
<1>0. ASSUME UNCHANGED scenarios  PROVE StoreTypeOK'
  BY <1>0 DEF TypeOK, StoreTypeOK
<1>1. ASSUME NEW m \in Models, NEW op \in Operations, NEW s \in PutScenarios,
             AdminPut(m, op, s)
      PROVE  TypeOK'
  <2>1. s \in Scenario
    BY ChatAssumption
  <2>2. StoreTypeOK'
    BY <1>1, <2>1, PutType, AdminKeyInKeys DEF TypeOK, AdminPut
  <2>3. intended' \in [Models -> Scenario]
    BY <1>1, <2>1 DEF TypeOK, AdminPut
  <2>4. inForce' \in [Requests -> SUBSET Scenario]
    <3>1. inForce' = [r \in Requests |->
                        IF /\ op \in {"", "chat"}
                           /\ handler[r] = "resolve" /\ req[r].model = m
                        THEN inForce[r] \cup {s} ELSE inForce[r]]
      BY <1>1 DEF AdminPut
    <3>2. \A r \in Requests : inForce[r] \in SUBSET Scenario
      BY DEF TypeOK
    <3> QED
      BY <2>1, <3>1, <3>2
  <2>5. puts' \in 0..MaxPuts
    <3>1. MaxPuts \in Nat
      BY ChatAssumption
    <3>2. puts \in 0..MaxPuts /\ puts < MaxPuts /\ puts' = puts + 1
      BY <1>1 DEF TypeOK, AdminPut
    <3> QED
      BY <3>1, <3>2
  <2> QED
    BY <1>1, <2>2, <2>3, <2>4, <2>5 DEF TypeOK, AdminPut
<1>2. ASSUME NEW r \in Requests, Arrive(r)  PROVE TypeOK'
  <2>1. req[r] \in Request
    BY ChatAssumption DEF TypeOK
  <2>2. req[r].model \in Models
    BY <2>1 DEF Request
  <2> QED
    BY <1>0, <1>2, <2>2 DEF TypeOK, Arrive, HandlerStates
<1>3. ASSUME NEW r \in Requests, ResolveScenario(r)  PROVE TypeOK'
  <2>1. Resolve(req[r].model, "chat") \in Scenario
    BY DEF TypeOK, StoreTypeOK, Resolve, Benign, Scenario, NoError
  <2> QED
    BY <1>0, <1>3, <2>1 DEF TypeOK, ResolveScenario, HandlerStates
<1>4. ASSUME NEW r \in Requests, Wake(r)  PROVE TypeOK'
  BY <1>0, <1>4 DEF TypeOK, Wake, HandlerStates
<1>5. ASSUME NEW r \in Requests, AnswerError(r)  PROVE TypeOK'
  <2>1. ErrorStatus(sc[r].error) \in 0..999
    <3>1. sc[r] \in Scenario
      BY DEF TypeOK
    <3>2. sc[r].error \in ErrorCodes \cup {NoError}
      BY <3>1 DEF Scenario
    <3>3. ErrorCodes \subseteq Int /\ NoError \in Int
      <4>1. ErrorCodes \subseteq Nat
        BY StoreAssumption
      <4>2. NoError \in Int
        BY DEF NoError
      <4> QED
        BY <4>1, <4>2
    <3> QED
      BY <3>2, <3>3 DEF ErrorStatus
  <2> QED
    BY <1>0, <1>5, <2>1 DEF TypeOK, AnswerError, HandlerStates
<1>6. ASSUME NEW r \in Requests, AnswerWhole(r)  PROVE TypeOK'
  <2>1. /\ status' = [status EXCEPT ![r] = 200]
        /\ handler' = [handler EXCEPT ![r] = "done"]
        /\ UNCHANGED <<scenarios, puts, intended, req, sc, client, producer,
                       next, inForce, late>>
    BY <1>6 DEF AnswerWhole
  <2> QED
    BY <1>0, <2>1 DEF TypeOK, HandlerStates
<1>7. ASSUME NEW r \in Requests, StartStream(r)  PROVE TypeOK'
  BY <1>0, <1>7 DEF TypeOK, StartStream, HandlerStates, ProducerStates
<1>8. ASSUME NEW r \in Requests, Open(r)  PROVE TypeOK'
  <2>1. \E code \in {200, 500}, h \in {"range", "done"} :
            /\ status' = [status EXCEPT ![r] = code]
            /\ handler' = [handler EXCEPT ![r] = h]
    BY <1>8 DEF Open
  <2>2. UNCHANGED <<scenarios, puts, intended, req, sc, client, producer, next,
                   inForce, late>>
    BY <1>8 DEF Open
  <2> QED
    BY <1>0, <2>1, <2>2 DEF TypeOK, HandlerStates
<1>9. ASSUME NEW r \in Requests, ProducerCheck(r)  PROVE TypeOK'
  BY <1>0, <1>9 DEF TypeOK, ProducerCheck, AfterCheck, ProducerStates
<1>10. ASSUME NEW r \in Requests, ProducerPace(r)  PROVE TypeOK'
  BY <1>0, <1>10 DEF TypeOK, ProducerPace, AfterWord, ProducerStates
<1>11. ASSUME NEW r \in Requests, HandOverWord(r)  PROVE TypeOK'
  <2>1. \E p \in {"pace", "check", "final"}, n \in {late[r], late[r] + 1} :
            /\ producer' = [producer EXCEPT ![r] = p]
            /\ late' = [late EXCEPT ![r] = n]
    BY <1>11 DEF HandOverWord, AfterWord
  <2>2. /\ next' = [next EXCEPT ![r] = @ + 1]
        /\ handler' = [handler EXCEPT ![r] = "write"]
        /\ UNCHANGED <<scenarios, puts, intended, req, sc, client, status,
                       inForce>>
    BY <1>11 DEF HandOverWord
  <2> QED
    BY <1>0, <2>1, <2>2 DEF TypeOK, HandlerStates, ProducerStates
<1>12. ASSUME NEW r \in Requests, HandOverFinal(r)  PROVE TypeOK'
  BY <1>0, <1>12 DEF TypeOK, HandOverFinal, HandlerStates, ProducerStates
<1>13. ASSUME NEW r \in Requests, WriteChunk(r)  PROVE TypeOK'
  BY <1>0, <1>13 DEF TypeOK, WriteChunk, AfterWrite, HandlerStates
<1>14. ASSUME NEW r \in Requests, FinishStream(r)  PROVE TypeOK'
  BY <1>0, <1>14 DEF TypeOK, FinishStream, HandlerStates
<1>15. ASSUME NEW r \in Requests, ClientStep(r)  PROVE TypeOK'
  <2>1. PICK to \in {"reading", "stalled", "gone"} :
            client' = [client EXCEPT ![r] = to]
    BY <1>15 DEF ClientStep, Stall, Resume, Disconnect, ClientBecomes
  <2>2. UNCHANGED <<scenarios, puts, intended, handler, req, sc, producer, next,
                   status, inForce, late>>
    BY <1>15 DEF ClientStep, Stall, Resume, Disconnect, ClientBecomes
  <2> QED
    BY <1>0, <2>1, <2>2 DEF TypeOK
<1>16. ASSUME UNCHANGED vars  PROVE TypeOK'
  BY <1>0, <1>16 DEF TypeOK, vars, requestVars
<1> QED
  BY <1>1, <1>2, <1>3, <1>4, <1>5, <1>6, <1>7, <1>8, <1>9, <1>10, <1>11, <1>12,
     <1>13, <1>14, <1>15, <1>16
     DEF Next, HandlerStep, ProducerStep, HandOver, Idle

\* Every variable keeps its type in every reachable state.
THEOREM TypeCorrect == Spec => []TypeOK
BY InitType, NextType, PTL DEF Spec

-----------------------------------------------------------------------------
(* The goroutines. *)

LEMMA InitProcesses == Init => HandlerAndProducer /\ LateProducer
BY DEF Init, HandlerAndProducer, LateProducer

\* The writer the handlers get can flush, so no handler gives up on a stream.
LEMMA NeverRefused ==
    ASSUME NEW r \in Requests
    PROVE  ~RefusesUnstarted(req[r]) /\ ~RefusesStarted(req[r])
BY DEF RefusesUnstarted, RefusesStarted, HasFlusher, RecorderMethods

LEMMA NextProcesses ==
    TypeOK /\ HandlerAndProducer /\ LateProducer /\ [Next]_vars
        => (HandlerAndProducer /\ LateProducer)'
<1> SUFFICES ASSUME TypeOK, HandlerAndProducer, LateProducer, [Next]_vars
             PROVE  (HandlerAndProducer /\ LateProducer)'
  OBVIOUS
<1>0. /\ handler \in [Requests -> HandlerStates]
      /\ client \in [Requests -> {"reading", "stalled", "gone"}]
      /\ producer \in [Requests -> ProducerStates]
      /\ late \in [Requests -> Nat]
  BY DEF TypeOK
<1> USE <1>0 DEF HandlerAndProducer, LateProducer
<1>1. ASSUME NEW m \in Models, NEW op \in Operations, NEW s \in PutScenarios,
             AdminPut(m, op, s)
      PROVE  (HandlerAndProducer /\ LateProducer)'
  BY <1>1 DEF AdminPut
<1>2. ASSUME NEW r \in Requests, Arrive(r)
      PROVE  (HandlerAndProducer /\ LateProducer)'
  <2>1. /\ handler[r] = "idle"
        /\ \E h \in {"resolve", "done"} : handler' = [handler EXCEPT ![r] = h]
        /\ UNCHANGED <<client, producer, late>>
    BY <1>2 DEF Arrive
  <2> QED
    BY <2>1
<1>3. ASSUME NEW r \in Requests, ResolveScenario(r)
      PROVE  (HandlerAndProducer /\ LateProducer)'
  <2>1. /\ handler[r] = "resolve"
        /\ \E h \in {"latency", "answer"} : handler' = [handler EXCEPT ![r] = h]
        /\ UNCHANGED <<client, producer, late>>
    BY <1>3 DEF ResolveScenario
  <2> QED
    BY <2>1
<1>4. ASSUME NEW r \in Requests, Wake(r)
      PROVE  (HandlerAndProducer /\ LateProducer)'
  BY <1>4 DEF Wake
<1>5. ASSUME NEW r \in Requests, AnswerError(r) \/ AnswerWhole(r)
      PROVE  (HandlerAndProducer /\ LateProducer)'
  <2>1. /\ handler[r] = "answer"
        /\ handler' = [handler EXCEPT ![r] = "done"]
        /\ UNCHANGED <<client, producer, late>>
    BY <1>5 DEF AnswerError, AnswerWhole
  <2> QED
    BY <2>1
<1>6. ASSUME NEW r \in Requests, StartStream(r)
      PROVE  (HandlerAndProducer /\ LateProducer)'
  <2>1. /\ handler[r] = "answer"
        /\ handler' = [handler EXCEPT ![r] = "open"]
        /\ producer' = [producer EXCEPT ![r] = "check"]
        /\ UNCHANGED <<client, late>>
    BY <1>6 DEF StartStream
  <2> QED
    BY <2>1
<1>7. ASSUME NEW r \in Requests, Open(r)
      PROVE  (HandlerAndProducer /\ LateProducer)'
  <2>1. /\ handler[r] = "open"
        /\ handler' = [handler EXCEPT ![r] = "range"]
        /\ UNCHANGED <<client, producer, late>>
    BY <1>7, NeverRefused DEF Open
  <2> QED
    BY <2>1
<1>8. ASSUME NEW r \in Requests, ProducerCheck(r)
      PROVE  (HandlerAndProducer /\ LateProducer)'
  <2>1. /\ producer[r] = "check"
        /\ \/ producer' = [producer EXCEPT ![r] = "closed"]
           \/ client[r] # "gone" /\ producer' = [producer EXCEPT ![r] = "send"]
        /\ UNCHANGED <<handler, client, late>>
    BY <1>8 DEF ProducerCheck, AfterCheck, CtxDone
  <2> QED
    BY <2>1
<1>9. ASSUME NEW r \in Requests, ProducerPace(r)
      PROVE  (HandlerAndProducer /\ LateProducer)'
  <2>1. /\ producer[r] = "pace"
        /\ \E p \in {"check", "final"} : producer' = [producer EXCEPT ![r] = p]
        /\ UNCHANGED <<handler, client, late>>
    BY <1>9 DEF ProducerPace, AfterWord
  <2> QED
    BY <2>1
<1>10. ASSUME NEW r \in Requests, HandOverWord(r)
       PROVE  (HandlerAndProducer /\ LateProducer)'
  <2>1. /\ producer[r] = "send" /\ handler[r] = "range"
        /\ \E p \in {"pace", "check", "final"} :
              producer' = [producer EXCEPT ![r] = p]
        /\ handler' = [handler EXCEPT ![r] = "write"]
        /\ late' = [late EXCEPT ![r] = IF client[r] = "gone" THEN @ + 1 ELSE @]
        /\ UNCHANGED client
    BY <1>10 DEF HandOverWord, AfterWord, CtxDone
  <2> QED
    BY <2>1
<1>11. ASSUME NEW r \in Requests, HandOverFinal(r)
       PROVE  (HandlerAndProducer /\ LateProducer)'
  <2>1. /\ producer[r] = "final" /\ handler[r] = "range"
        /\ producer' = [producer EXCEPT ![r] = "closed"]
        /\ handler' = [handler EXCEPT ![r] = "write"]
        /\ UNCHANGED <<client, late>>
    BY <1>11 DEF HandOverFinal
  <2> QED
    BY <2>1
<1>12. ASSUME NEW r \in Requests, WriteChunk(r)
       PROVE  (HandlerAndProducer /\ LateProducer)'
  <2>1. /\ handler[r] = "write"
        /\ handler' = [handler EXCEPT ![r] = "range"]
        /\ UNCHANGED <<client, producer, late>>
    BY <1>12 DEF WriteChunk, AfterWrite
  <2> QED
    BY <2>1
<1>13. ASSUME NEW r \in Requests, FinishStream(r)
       PROVE  (HandlerAndProducer /\ LateProducer)'
  <2>1. /\ producer[r] = "closed"
        /\ handler' = [handler EXCEPT ![r] = "done"]
        /\ UNCHANGED <<client, producer, late>>
    BY <1>13 DEF FinishStream, StreamEnded
  <2> QED
    BY <2>1
<1>14. ASSUME NEW r \in Requests, ClientStep(r)
       PROVE  (HandlerAndProducer /\ LateProducer)'
  <2>1. /\ client[r] # "gone"
        /\ \E c \in {"reading", "stalled", "gone"} :
              client' = [client EXCEPT ![r] = c]
        /\ UNCHANGED <<handler, producer, late>>
    BY <1>14 DEF ClientStep, Stall, Resume, Disconnect, ClientBecomes
  <2> QED
    BY <2>1
<1>15. ASSUME UNCHANGED vars
       PROVE  (HandlerAndProducer /\ LateProducer)'
  BY <1>15 DEF vars, requestVars
<1> QED
  BY <1>1, <1>2, <1>3, <1>4, <1>5, <1>6, <1>7, <1>8, <1>9, <1>10, <1>11, <1>12,
     <1>13, <1>14, <1>15
     DEF Next, HandlerStep, ProducerStep, HandOver, Idle

\* No goroutine Stream starts outlives its request.
THEOREM NoOrphans == Spec => []NoOrphanProducer
<1>1. HandlerAndProducer => NoOrphanProducer
  BY DEF HandlerAndProducer, NoOrphanProducer
<1> QED
  BY <1>1, InitType, NextType, InitProcesses, NextProcesses, PTL DEF Spec

\* After a cancellation at most one more word is handed over.
THEOREM LateWordsBounded == Spec => []AtMostOneLateWord
<1>1. LateProducer => AtMostOneLateWord
  BY DEF LateProducer, AtMostOneLateWord
<1> QED
  BY <1>1, InitType, NextType, InitProcesses, NextProcesses, PTL DEF Spec

-----------------------------------------------------------------------------
(* The scenario a request is answered from. *)

LEMMA InitInForce == Init => StoreAgrees /\ RequestInForce
BY DEF Init, StoreAgrees, RequestInForce

LEMMA NextInForce ==
    TypeOK /\ StoreAgrees /\ RequestInForce /\ [Next]_vars
        => (StoreAgrees /\ RequestInForce)'
<1> SUFFICES ASSUME TypeOK, StoreAgrees, RequestInForce, [Next]_vars
             PROVE  (StoreAgrees /\ RequestInForce)'
  OBVIOUS
<1>0. /\ handler \in [Requests -> HandlerStates]
      /\ intended \in [Models -> Scenario]
      /\ sc \in [Requests -> Scenario]
      /\ status \in [Requests -> 0..999]
      /\ inForce \in [Requests -> SUBSET Scenario]
  BY DEF TypeOK
<1>a. \A r \in Requests : req[r].model \in Models
  <2>1. \A r \in Requests : req[r] \in Request
    BY ChatAssumption DEF TypeOK
  <2> QED
    BY <2>1 DEF Request
<1>b. ASSUME UNCHANGED <<scenarios, intended>>  PROVE StoreAgrees'
  BY <1>b DEF StoreAgrees, Resolve
<1>c. ASSUME NEW r \in Requests,
             NEW h \in HandlerStates \ {"resolve"},
             handler[r] \in {"latency", "answer", "open", "range", "write"},
             handler' = [handler EXCEPT ![r] = h],
             \A q \in Requests : q # r => status'[q] = status[q],
             UNCHANGED <<intended, req, sc, inForce>>
      PROVE  RequestInForce'
  BY <1>0, <1>c DEF RequestInForce
<1>1. ASSUME NEW m \in Models, NEW op \in Operations, NEW s \in PutScenarios,
             AdminPut(m, op, s)
      PROVE  (StoreAgrees /\ RequestInForce)'
  <2>1. StoreAgrees'
    <3> SUFFICES ASSUME NEW n \in Models
                 PROVE  Resolve(n, "chat")' = intended'[n]
      BY DEF StoreAgrees
    <3>1. Put(AdminKey(m, op), s)
      BY <1>1 DEF AdminPut
    <3>2. intended'[n] = IF op \in {"", "chat"} /\ n = m THEN s ELSE intended[n]
      BY <1>0, <1>1 DEF AdminPut
    <3>3. Resolve(n, "chat")' =
              IF op \in {"", "chat"} /\ n = m THEN s ELSE Resolve(n, "chat")
      BY <3>1, PutAgrees
    <3> QED
      BY <3>2, <3>3 DEF StoreAgrees
  <2>2. RequestInForce'
    <3> SUFFICES ASSUME NEW r \in Requests
                 PROVE
        /\ handler'[r] = "resolve" => intended'[req'[r].model] \in inForce'[r]
        /\ handler'[r] \in {"latency", "answer", "open", "range", "write"}
            => sc'[r] \in inForce'[r]
        /\ handler'[r] = "done" /\ status'[r] # 400 => sc'[r] \in inForce'[r]
      BY DEF RequestInForce
    <3>1. UNCHANGED <<handler, req, sc, status>>
      BY <1>1 DEF AdminPut
    <3>2. inForce'[r] = IF /\ op \in {"", "chat"}
                           /\ handler[r] = "resolve" /\ req[r].model = m
                        THEN inForce[r] \cup {s} ELSE inForce[r]
      BY <1>1 DEF AdminPut
    <3>3. intended'[req[r].model] =
            IF op \in {"", "chat"} /\ req[r].model = m
            THEN s ELSE intended[req[r].model]
      BY <1>0, <1>a, <1>1 DEF AdminPut
    <3> QED
      BY <3>1, <3>2, <3>3 DEF RequestInForce
  <2> QED
    BY <2>1, <2>2
<1>2. ASSUME NEW r \in Requests, Arrive(r)
      PROVE  (StoreAgrees /\ RequestInForce)'
  <2>1. /\ handler[r] = "idle"
        /\ \/ handler' = [handler EXCEPT ![r] = "resolve"]
           \/ /\ handler' = [handler EXCEPT ![r] = "done"]
              /\ status' = [status EXCEPT ![r] = 400]
        /\ \A q \in Requests : q # r => status'[q] = status[q]
        /\ inForce' = [inForce EXCEPT ![r] = {intended[req[r].model]}]
        /\ UNCHANGED <<scenarios, intended, req, sc>>
    <3>0. /\ handler[r] = "idle"
          /\ inForce' = [inForce EXCEPT ![r] = {intended[req[r].model]}]
          /\ UNCHANGED <<scenarios, intended, req, sc>>
      BY <1>2 DEF Arrive
    <3>1. CASE req[r].valid
      <4>1. /\ status' = [status EXCEPT ![r] = 0]
            /\ handler' = [handler EXCEPT ![r] = "resolve"]
        BY <1>2, <3>1, NeverRefused DEF Arrive
      <4> QED
        BY <1>0, <3>0, <4>1
    <3>2. CASE ~req[r].valid
      <4>1. /\ status' = [status EXCEPT ![r] = 400]
            /\ handler' = [handler EXCEPT ![r] = "done"]
        BY <1>2, <3>2 DEF Arrive
      <4> QED
        BY <1>0, <3>0, <4>1
    <3> QED
      BY <3>1, <3>2
  <2> QED
    BY <2>1, <1>0, <1>b DEF RequestInForce
<1>3. ASSUME NEW r \in Requests, ResolveScenario(r)
      PROVE  (StoreAgrees /\ RequestInForce)'
  <2>1. /\ handler[r] = "resolve"
        /\ sc' = [sc EXCEPT ![r] = Resolve(req[r].model, "chat")]
        /\ \E h \in {"latency", "answer"} : handler' = [handler EXCEPT ![r] = h]
        /\ UNCHANGED <<scenarios, intended, req, status, inForce>>
    BY <1>3 DEF ResolveScenario
  <2>2. Resolve(req[r].model, "chat") = intended[req[r].model]
    BY <1>a DEF StoreAgrees
  <2> QED
    BY <2>1, <2>2, <1>0, <1>b DEF RequestInForce
<1>4. ASSUME NEW r \in Requests, Wake(r)
      PROVE  (StoreAgrees /\ RequestInForce)'
  BY <1>4, <1>b, <1>c DEF Wake, HandlerStates
<1>5. ASSUME NEW r \in Requests, AnswerError(r) \/ AnswerWhole(r)
      PROVE  (StoreAgrees /\ RequestInForce)'
  <2>1. /\ handler[r] = "answer"
        /\ handler' = [handler EXCEPT ![r] = "done"]
        /\ \A q \in Requests : q # r => status'[q] = status[q]
        /\ UNCHANGED <<scenarios, intended, req, sc, inForce>>
    BY <1>0, <1>5 DEF AnswerError, AnswerWhole
  <2> QED
    BY <2>1, <1>b, <1>c DEF HandlerStates
<1>6. ASSUME NEW r \in Requests, StartStream(r)
      PROVE  (StoreAgrees /\ RequestInForce)'
  BY <1>6, <1>b, <1>c DEF StartStream, HandlerStates
<1>7. ASSUME NEW r \in Requests, Open(r)
      PROVE  (StoreAgrees /\ RequestInForce)'
  <2>1. /\ handler[r] = "open"
        /\ handler' = [handler EXCEPT ![r] = "range"]
        /\ \A q \in Requests : q # r => status'[q] = status[q]
        /\ UNCHANGED <<scenarios, intended, req, sc, inForce>>
    BY <1>0, <1>7, NeverRefused DEF Open
  <2> QED
    BY <2>1, <1>b, <1>c DEF HandlerStates
<1>8. ASSUME NEW r \in Requests, ProducerStep(r)
      PROVE  (StoreAgrees /\ RequestInForce)'
  <2>1. UNCHANGED <<scenarios, intended, handler, req, sc, status, inForce>>
    BY <1>8 DEF ProducerStep, ProducerCheck, ProducerPace
  <2> QED
    BY <2>1, <1>b DEF RequestInForce
<1>9. ASSUME NEW r \in Requests, HandOver(r)
      PROVE  (StoreAgrees /\ RequestInForce)'
  <2>1. /\ handler[r] = "range"
        /\ handler' = [handler EXCEPT ![r] = "write"]
        /\ UNCHANGED <<scenarios, intended, req, sc, status, inForce>>
    BY <1>9 DEF HandOver, HandOverWord, HandOverFinal
  <2> QED
    BY <2>1, <1>b, <1>c DEF HandlerStates
<1>10. ASSUME NEW r \in Requests, WriteChunk(r)
       PROVE  (StoreAgrees /\ RequestInForce)'
  <2>1. /\ handler[r] = "write"
        /\ handler' = [handler EXCEPT ![r] = "range"]
        /\ UNCHANGED <<scenarios, intended, req, sc, status, inForce>>
    BY <1>10 DEF WriteChunk, AfterWrite
  <2> QED
    BY <2>1, <1>b, <1>c DEF HandlerStates
<1>11. ASSUME NEW r \in Requests, FinishStream(r)
       PROVE  (StoreAgrees /\ RequestInForce)'
  <2>1. /\ handler[r] = "range"
        /\ handler' = [handler EXCEPT ![r] = "done"]
        /\ UNCHANGED <<scenarios, intended, req, sc, status, inForce>>
    BY <1>11 DEF FinishStream
  <2> QED
    BY <2>1, <1>b, <1>c DEF HandlerStates
<1>12. ASSUME NEW r \in Requests, ClientStep(r)
       PROVE  (StoreAgrees /\ RequestInForce)'
  <2>1. UNCHANGED <<scenarios, intended, handler, req, sc, status, inForce>>
    BY <1>12 DEF ClientStep, Stall, Resume, Disconnect, ClientBecomes
  <2> QED
    BY <2>1, <1>b DEF RequestInForce
<1>13. ASSUME UNCHANGED vars
       PROVE  (StoreAgrees /\ RequestInForce)'
  <2>1. UNCHANGED <<scenarios, intended, handler, req, sc, status, inForce>>
    BY <1>13 DEF vars, requestVars
  <2> QED
    BY <2>1, <1>b DEF RequestInForce
<1> QED
  BY <1>1, <1>2, <1>3, <1>4, <1>5, <1>6, <1>7, <1>8, <1>9, <1>10, <1>11, <1>12,
     <1>13
     DEF Next, HandlerStep, Idle

\* Every answer comes from a scenario in force between arrival and resolve.
THEOREM AnswersInForce == Spec => []AnswerWasInForce
<1>1. RequestInForce => AnswerWasInForce
  BY DEF RequestInForce, AnswerWasInForce
<1> QED
  BY <1>1, InitType, NextType, InitInForce, NextInForce, PTL DEF Spec

-----------------------------------------------------------------------------
(* The wire of a client that stays. *)

\* The reply of a request is a text of at least one word, its usage is never
\* the zero usage, and its surface frames it as expected.
LEMMA Framed ==
    ASSUME TypeOK, NEW r \in Requests
    PROVE  LET t == ReplyText(sc[r])
               n == WordCount[t]
           IN  /\ n \in Nat /\ n >= 1
               /\ Len(WordsOf(t)) = n
               /\ \A i \in 1..n : WordsOf(t)[i] = <<t, i>>
               /\ WellMade(req[r].surface, WordsOf(t), EstimateUsage(t))
               /\ LocalsKept(req[r].surface, WordsOf(t), EstimateUsage(t))
<1> DEFINE t == ReplyText(sc[r])
           n == WordCount[t]
           words == WordsOf(t)
           usage == EstimateUsage(t)
           W == {t} \X Nat
<1>1. t \in Texts
  <2>1. sc[r] \in Scenario
    BY DEF TypeOK
  <2>2. sc[r].text \in Texts \cup {EmptyText}
    BY <2>1 DEF Scenario
  <2> QED
    BY <2>2, StoreAssumption DEF ReplyText
<1>2. req[r].surface \in SurfaceNames
  <2>1. req[r] \in Request
    BY ChatAssumption DEF TypeOK
  <2> QED
    BY <2>1 DEF Request
<1> HIDE DEF t
<1>3. n \in Nat /\ n >= 1
  <2>1. n \in Nat \ {0}
    BY <1>1, ChatAssumption
  <2> HIDE DEF n
  <2> QED
    BY <2>1
<1>4. words \in Seq(W) /\ Len(words) = n /\ \A i \in 1..n : words[i] = <<t, i>>
  <2> HIDE DEF n
  <2>1. words = [i \in 1..n |-> <<t, i>>]
    BY DEF WordsOf, n
  <2> HIDE DEF words
  <2>2. words \in [1..n -> W] /\ \A i \in 1..n : words[i] = <<t, i>>
    BY <1>3, <2>1
  <2> HIDE DEF W
  <2> QED
    BY <1>3, <2>2
<1>5. usage \in AnyUsage /\ usage # NoUsage
  <2> DEFINE length == TextLength[t]
             completion == IF length \div 4 = 0 THEN 1 ELSE length \div 4
  <2>1. length \in Nat /\ PromptTokens \in Nat
    <3>1. length \in Nat \ {0} /\ PromptTokens \in Nat
      BY <1>1, ChatAssumption
    <3> QED
      BY <3>1
  <2>2. usage = [prompt |-> PromptTokens, completion |-> completion,
                 total |-> PromptTokens + completion]
    BY DEF EstimateUsage
  <2> HIDE DEF length, usage
  <2>3. length \div 4 \in Nat
    BY <2>1
  <2>4. completion \in Nat /\ completion # 0
    BY <2>3
  <2> HIDE DEF completion
  <2>5. usage \in AnyUsage
    BY <2>1, <2>2, <2>4 DEF AnyUsage
  <2>6. usage.completion # NoUsage.completion
    BY <2>2, <2>4 DEF NoUsage
  <2> QED
    BY <2>5, <2>6
<1> HIDE DEF n, words, usage, W
<1>6. words # <<>>
  <2>1. Len(<<>>) = 0
    OBVIOUS
  <2> QED
    BY <1>3, <1>4, <2>1
<1>7. WellMade(req[r].surface, words, usage)
  BY <1>2, <1>4, <1>5, <1>6, EveryWire
<1>8. LocalsKept(req[r].surface, words, usage)
  BY <1>2, <1>4, <1>5, <1>6, EveryLocals
<1> QED
  BY <1>3, <1>4, <1>7, <1>8 DEF n, words, usage, t

\* The reply of one request, as ConnectedClientGetsWholeReply wants it.
Served(r) ==
    (/\ handler[r] = "done" /\ client[r] # "gone"
     /\ req[r].valid /\ sc[r].error = NoError)
        => LET t == ReplyText(sc[r])
           IN  status[r] = 200 /\
               wire[r] = IF req[r].stream
                         THEN ExpectedWire(req[r].surface, WordsOf(t),
                                           EstimateUsage(t))
                         ELSE WholeReply(WordsOf(t), EstimateUsage(t))

Shapes ==
    /\ wire = [r \in Requests |-> wire[r]]
    /\ locals = [r \in Requests |-> locals[r]]
    /\ chunk = [r \in Requests |-> chunk[r]]

Sound(r) == ProducerInText(r) /\ WireInStep(r) /\ Served(r)

LEMMA WireInvParts == WireInv <=> Shapes /\ \A r \in Requests : Sound(r)
BY DEF WireInv, Shapes, Sound, Served, ConnectedClientGetsWholeReply

\* A step that leaves everything of a request alone keeps its wire sound.
LEMMA Untouched ==
    ASSUME NEW r \in Requests, Sound(r),
           handler'[r] = handler[r], client'[r] = client[r],
           producer'[r] = producer[r], next'[r] = next[r],
           status'[r] = status[r], sc'[r] = sc[r], req'[r] = req[r],
           wire'[r] = wire[r], locals'[r] = locals[r], chunk'[r] = chunk[r]
    PROVE  Sound(r)'
<1>1. ProducerInText(r)'
  BY DEF Sound, ProducerInText
<1>2. Served(r)'
  BY DEF Sound, Served
<1>3. Streaming(r) => Streaming(r)'
  BY DEF Streaming
<1>4. /\ \A k : Wrote(r, k)' <=> Wrote(r, k)
      /\ WroteAll(r)' <=> WroteAll(r)
  BY DEF Wrote, WroteAll
<1>5. RangeInStep(r) => RangeInStep(r)'
  BY <1>4 DEF RangeInStep
<1>6. WriteInStep(r) => WriteInStep(r)'
  BY <1>4 DEF WriteInStep
<1>7. WireInStep(r)'
  BY <1>3, <1>5, <1>6 DEF Sound, WireInStep
<1> QED
  BY <1>1, <1>2, <1>7 DEF Sound

LEMMA InitWire == Init => WireInv
<1> SUFFICES ASSUME Init  PROVE WireInv
  OBVIOUS
<1>1. Shapes
  BY DEF Init, Shapes
<1>2. ASSUME NEW r \in Requests  PROVE Sound(r)
  BY DEF Init, Sound, ProducerInText, WireInStep, Served
<1> QED
  BY <1>1, <1>2, WireInvParts

\* The steps before the stream.
LEMMA BeforeStream ==
    ASSUME TypeOK, HandlerAndProducer, Shapes, NEW r \in Requests, Sound(r),
           Arrive(r) \/ ResolveScenario(r) \/ Wake(r)
    PROVE  Sound(r)'
<1>0. /\ handler \in [Requests -> HandlerStates]
      /\ producer \in [Requests -> ProducerStates]
      /\ status \in [Requests -> 0..999]
      /\ sc \in [Requests -> Scenario]
  BY DEF TypeOK
<1>1. /\ handler[r] \in {"idle", "resolve", "latency"}
      /\ UNCHANGED <<req, client, producer, next, chunk, locals, wire>>
  BY DEF Arrive, ResolveScenario, Wake
<1>2. producer[r] = "none" /\ next[r] = 1 /\ locals[r] = InitialLocals
  BY <1>1 DEF Sound, ProducerInText, HandlerAndProducer
<1>3. \/ handler'[r] \in {"resolve", "latency", "answer"}
      \/ handler'[r] = "done" /\ ~req[r].valid
  <2>1. CASE Arrive(r)
    <3>1. CASE req[r].valid
      <4>1. handler' = [handler EXCEPT ![r] = "resolve"]
        BY <2>1, <3>1, NeverRefused DEF Arrive
      <4> QED
        BY <1>0, <4>1
    <3>2. CASE ~req[r].valid
      <4>1. handler' = [handler EXCEPT ![r] = "done"]
        BY <2>1, <3>2 DEF Arrive
      <4> QED
        BY <1>0, <3>2, <4>1
    <3> QED
      BY <3>1, <3>2
  <2>2. CASE ResolveScenario(r)
    <3>1. \E h \in {"latency", "answer"} : handler' = [handler EXCEPT ![r] = h]
      BY <2>2 DEF ResolveScenario
    <3> QED
      BY <1>0, <3>1
  <2>3. CASE Wake(r)
    BY <1>0, <2>3 DEF Wake
  <2> QED
    BY <2>1, <2>2, <2>3
<1>4. ProducerInText(r)'
  BY <1>1, <1>2, <1>3 DEF ProducerInText
<1>5. WireInStep(r)'
  BY <1>3 DEF WireInStep
<1>6. Served(r)'
  BY <1>1, <1>3 DEF Served
<1> QED
  BY <1>4, <1>5, <1>6 DEF Sound

\* An answer in one piece.
LEMMA InOnePiece ==
    ASSUME TypeOK, HandlerAndProducer, Shapes, NEW r \in Requests, Sound(r),
           AnswerError(r) \/ AnswerWhole(r)
    PROVE  Sound(r)'
<1>0. /\ handler \in [Requests -> HandlerStates]
      /\ status \in [Requests -> 0..999]
  BY DEF TypeOK
<1>1. /\ handler[r] = "answer"
      /\ handler' = [handler EXCEPT ![r] = "done"]
      /\ UNCHANGED <<req, sc, client, producer, next, chunk, locals>>
  BY DEF AnswerError, AnswerWhole
<1>2. producer[r] = "none" /\ handler'[r] = "done"
  BY <1>0, <1>1 DEF HandlerAndProducer
<1>3. ProducerInText(r)' /\ WireInStep(r)'
  BY <1>1, <1>2 DEF ProducerInText, WireInStep
<1>4. Served(r)'
  <2>1. CASE AnswerError(r)
    BY <1>1, <2>1 DEF AnswerError, Served
  <2>2. CASE AnswerWhole(r)
    <3> DEFINE t == ReplyText(sc[r])
    <3>1. /\ wire' = [wire EXCEPT ![r] = WholeReply(WordsOf(t), EstimateUsage(t))]
          /\ status' = [status EXCEPT ![r] = 200]
          /\ ~req[r].stream
      BY <2>2 DEF AnswerWhole
    <3>2. wire'[r] = WholeReply(WordsOf(t), EstimateUsage(t)) /\ status'[r] = 200
      BY <1>0, <3>1 DEF Shapes
    <3> QED
      BY <1>1, <3>1, <3>2 DEF Served
  <2> QED
    BY <2>1, <2>2
<1> QED
  BY <1>3, <1>4 DEF Sound

\* The start of a stream.
LEMMA Started ==
    ASSUME TypeOK, HandlerAndProducer, Shapes, NEW r \in Requests, Sound(r),
           StartStream(r)
    PROVE  Sound(r)'
<1>0. /\ handler \in [Requests -> HandlerStates]
      /\ producer \in [Requests -> ProducerStates]
  BY DEF TypeOK
<1>1. /\ handler[r] = "answer" /\ sc[r].error = NoError /\ req[r].stream
      /\ producer' = [producer EXCEPT ![r] = "check"]
      /\ handler' = [handler EXCEPT ![r] = "open"]
      /\ UNCHANGED <<req, sc, client, next, chunk, locals, wire, status>>
  BY DEF StartStream, MayStream
<1>2. /\ producer'[r] = "check" /\ handler'[r] = "open"
      /\ next[r] = 1 /\ locals[r] = InitialLocals
  BY <1>0, <1>1 DEF Sound, ProducerInText
<1>3. WordCount[ReplyText(sc[r])] >= 1
  BY Framed
<1>4. ProducerInText(r)'
  BY <1>1, <1>2, <1>3 DEF ProducerInText
<1>5. WireInStep(r)'
  BY <1>1, <1>2 DEF WireInStep, Streaming
<1>6. Served(r)'
  BY <1>2 DEF Served
<1> QED
  BY <1>4, <1>5, <1>6 DEF Sound

\* The frames that open the stream are the beginning of the reply's stream.
LEMMA Opened ==
    ASSUME TypeOK, HandlerAndProducer, Shapes, NEW r \in Requests, Sound(r),
           Open(r)
    PROVE  Sound(r)'
<1> DEFINE t == ReplyText(sc[r])
           surface == req[r].surface
<1>0. /\ handler \in [Requests -> HandlerStates]
      /\ status \in [Requests -> 0..999]
  BY DEF TypeOK
<1>1. /\ handler[r] = "open"
      /\ status' = [status EXCEPT ![r] = 200]
      /\ handler' = [handler EXCEPT ![r] = "range"]
      /\ wire' = [wire EXCEPT ![r] = Opening(surface)]
      /\ UNCHANGED <<req, sc, client, producer, next, chunk, locals>>
  BY NeverRefused DEF Open
<1>2. /\ handler'[r] = "range" /\ status'[r] = 200 /\ wire'[r] = Opening(surface)
      /\ next[r] = 1 /\ locals[r] = InitialLocals
  BY <1>0, <1>1 DEF Sound, ProducerInText, Shapes
<1>3. ProducerInText(r)'
  BY <1>1, <1>2 DEF Sound, ProducerInText
<1>4. Wrote(r, 0)'
  <2>1. WellMade(surface, WordsOf(t), EstimateUsage(t))
    BY Framed
  <2>2. LocalsKept(surface, WordsOf(t), EstimateUsage(t))
    BY Framed
  <2>3. Opening(surface)
        = SubSeq(ExpectedWire(surface, WordsOf(t), EstimateUsage(t)), 1,
                 WrittenUpTo(surface, 0, FALSE))
    BY <2>1 DEF WellMade
  <2>4. InitialLocals = LocalsAfter(surface, WordsOf(t), 0, FALSE, EstimateUsage(t))
    BY <2>2 DEF LocalsKept
  <2> QED
    BY <1>1, <1>2, <2>3, <2>4 DEF Wrote
<1>5. WireInStep(r)'
  <2> SUFFICES ASSUME client[r] # "gone"  PROVE Streaming(r)' /\ RangeInStep(r)'
    BY <1>1, <1>2 DEF WireInStep
  <2>1. Streaming(r) /\ producer[r] # "closed"
    BY <1>1 DEF Sound, WireInStep, Streaming
  <2>2. Streaming(r)'
    BY <1>1, <1>2, <2>1 DEF Streaming
  <2>3. producer'[r] # "closed" /\ next'[r] - 1 = 0
    BY <1>1, <1>2, <2>1
  <2>4. RangeInStep(r)'
    BY <1>4, <2>3 DEF RangeInStep
  <2> QED
    BY <2>2, <2>4
<1>6. Served(r)'
  BY <1>2 DEF Served
<1> QED
  BY <1>3, <1>5, <1>6 DEF Sound

\* The steps the producer takes alone write nothing.  It stops early only when
\* the client is gone.
LEMMA ProducerAlone ==
    ASSUME TypeOK, HandlerAndProducer, Shapes, NEW r \in Requests, Sound(r),
           ProducerCheck(r) \/ ProducerPace(r)
    PROVE  Sound(r)'
<1> DEFINE n == WordCount[ReplyText(sc[r])]
<1>0. /\ producer \in [Requests -> ProducerStates]
      /\ next[r] \in Nat /\ n \in Nat
  BY Framed DEF TypeOK
<1>1. UNCHANGED <<handler, req, sc, client, next, chunk, locals, wire, status>>
  BY DEF ProducerCheck, ProducerPace
<1>2. producer[r] \in {"check", "pace"}
  BY DEF ProducerCheck, ProducerPace
<1>3. \/ producer'[r] = "closed" /\ client[r] = "gone"
      \/ producer'[r] \in {"send", "check"} /\ next[r] <= n
      \/ producer'[r] = "final" /\ next[r] = n + 1
  <2>1. CASE ProducerCheck(r)
    <3>1. producer[r] = "check" /\ producer'[r] = AfterCheck(r)
      BY <1>0, <2>1 DEF ProducerCheck
    <3>2. handler[r] # "done"
      BY <3>1 DEF HandlerAndProducer
    <3>3. next[r] <= n
      BY <3>1 DEF Sound, ProducerInText
    <3> QED
      BY <3>1, <3>2, <3>3 DEF AfterCheck, CtxDone
  <2>2. CASE ProducerPace(r)
    <3>1. producer[r] = "pace" /\ producer'[r] = AfterWord(r, next[r])
      BY <1>0, <2>2 DEF ProducerPace
    <3>2. next[r] <= n + 1
      BY <3>1 DEF Sound, ProducerInText
    <3>3. \/ producer'[r] = "check" /\ next[r] <= n
          \/ producer'[r] = "final" /\ ~(next[r] <= n)
      BY <3>1 DEF AfterWord
    <3> QED
      BY <1>0, <3>2, <3>3
  <2> QED
    BY <2>1, <2>2
<1> HIDE DEF n
<1>4. ProducerInText(r)'
  <2>1. n' = n
    BY <1>1 DEF n
  <2>2. handler'[r] \in {"idle", "resolve", "latency", "answer", "open"}
          => next'[r] = 1 /\ locals'[r] = InitialLocals
    BY <1>1 DEF Sound, ProducerInText
  <2>3. /\ producer'[r] \in {"check", "send"} => next'[r] <= n
        /\ producer'[r] = "pace" => next'[r] <= n + 1
        /\ producer'[r] = "final" => next'[r] = n + 1
    BY <1>1, <1>3
  <2> QED
    BY <2>1, <2>2, <2>3 DEF ProducerInText, n
<1>5. Served(r)'
  BY <1>1 DEF Sound, Served
<1>6. WireInStep(r)'
  <2> SUFFICES ASSUME client[r] # "gone"  PROVE WireInStep(r)'
    BY <1>1 DEF WireInStep
  <2>1. producer[r] # "closed" /\ producer'[r] # "closed"
    BY <1>2, <1>3
  <2>2. Streaming(r) => Streaming(r)'
    BY <1>1, <2>1 DEF Streaming
  <2>3. \A k : Wrote(r, k)' <=> Wrote(r, k)
    BY <1>1 DEF Wrote
  <2>4. RangeInStep(r) => RangeInStep(r)'
    BY <1>1, <2>1, <2>3 DEF RangeInStep
  <2>5. WriteInStep(r) => WriteInStep(r)'
    BY <1>1, <2>1, <2>3 DEF WriteInStep
  <2> QED
    BY <1>1, <2>2, <2>4, <2>5 DEF Sound, WireInStep
<1> QED
  BY <1>4, <1>5, <1>6 DEF Sound

\* A word in the handler's hand is the one the wire lacks.
LEMMA WordHandedOver ==
    ASSUME TypeOK, HandlerAndProducer, Shapes, NEW r \in Requests, Sound(r),
           HandOverWord(r)
    PROVE  Sound(r)'
<1> DEFINE t == ReplyText(sc[r])
           n == WordCount[t]
<1>0. /\ producer \in [Requests -> ProducerStates]
      /\ handler \in [Requests -> HandlerStates]
      /\ next \in [Requests -> Nat \ {0}]
      /\ n \in Nat
  BY Framed DEF TypeOK
<1>1. /\ producer[r] = "send" /\ handler[r] = "range"
      /\ chunk' = [chunk EXCEPT ![r] = WordChunk(<<t, next[r]>>, next[r] = 1)]
      /\ next' = [next EXCEPT ![r] = @ + 1]
      /\ producer' = [producer EXCEPT ![r] =
                        IF sc[r].paced THEN "pace" ELSE AfterWord(r, next[r] + 1)]
      /\ handler' = [handler EXCEPT ![r] = "write"]
      /\ UNCHANGED <<req, sc, client, locals, wire, status>>
  BY DEF HandOverWord, TextSent
<1>2. /\ handler'[r] = "write"
      /\ chunk'[r] = WordChunk(<<t, next[r]>>, next[r] = 1)
      /\ next'[r] = next[r] + 1
      /\ \/ producer'[r] = "pace"
         \/ producer'[r] = AfterWord(r, next[r] + 1)
  BY <1>0, <1>1 DEF Shapes
<1>3. next[r] \in Nat /\ next[r] >= 1 /\ next[r] <= n
  <2>1. next[r] \in Nat \ {0}
    BY <1>0
  <2>2. next[r] <= n
    BY <1>1 DEF Sound, ProducerInText
  <2> QED
    BY <2>1, <2>2
<1> HIDE DEF n
<1>4. \/ producer'[r] = "pace"
      \/ producer'[r] = "check" /\ next[r] + 1 <= n
      \/ producer'[r] = "final" /\ ~(next[r] + 1 <= n)
  BY <1>2 DEF AfterWord, n
<1>5. ProducerInText(r)'
  <2>1. n' = n
    BY <1>1 DEF n
  <2>2. /\ producer'[r] \in {"check", "send"} => next'[r] <= n
        /\ producer'[r] = "pace" => next'[r] <= n + 1
        /\ producer'[r] = "final" => next'[r] = n + 1
    BY <1>0, <1>2, <1>3, <1>4
  <2> QED
    BY <1>2, <2>1, <2>2 DEF ProducerInText, n
<1>6. Served(r)'
  BY <1>2 DEF Served
<1>7. WireInStep(r)'
  <2> SUFFICES ASSUME client[r] # "gone"  PROVE Streaming(r)' /\ WriteInStep(r)'
    BY <1>1, <1>2 DEF WireInStep
  <2>1. Streaming(r) /\ RangeInStep(r)
    BY <1>1 DEF Sound, WireInStep
  <2>2. producer'[r] # "closed"
    BY <1>4
  <2>3. Streaming(r)'
    BY <1>1, <1>2, <2>1, <2>2 DEF Streaming
  <2>4. next'[r] \in 2..(n + 1)
    BY <1>0, <1>2, <1>3
  <2>5. PICK k \in Nat : next[r] = k + 1
    <3>1. next[r] - 1 \in Nat /\ next[r] = (next[r] - 1) + 1
      BY <1>3
    <3> QED
      BY <3>1
  <2>a. next'[r] - 2 = k
    BY <1>2, <2>5
  <2>b. Wrote(r, k)'
    <3>1. Wrote(r, k)
      <4>1. next[r] - 1 = k
        BY <2>5
      <4> QED
        BY <1>1, <2>1, <4>1 DEF RangeInStep
    <3> QED
      BY <1>1, <3>1 DEF Wrote
  <2>6. chunk'[r] = WordChunk(<<t, next'[r] - 1>>, next'[r] = 2)
    <3>1. next'[r] - 1 = next[r] /\ (next'[r] = 2) = (next[r] = 1)
      BY <1>2, <1>3
    <3> QED
      BY <1>2, <3>1
  <2>7. n' = n /\ t' = t
    BY <1>1 DEF n
  <2>8. WriteInStep(r)'
    BY <2>2, <2>4, <2>a, <2>b, <2>6, <2>7 DEF WriteInStep, n
  <2> QED
    BY <2>3, <2>8
<1> QED
  BY <1>5, <1>6, <1>7 DEF Sound

\* The final chunk follows the last word.
LEMMA FinalHandedOver ==
    ASSUME TypeOK, HandlerAndProducer, Shapes, NEW r \in Requests, Sound(r),
           HandOverFinal(r)
    PROVE  Sound(r)'
<1> DEFINE t == ReplyText(sc[r])
           n == WordCount[t]
<1>0. /\ producer \in [Requests -> ProducerStates]
      /\ handler \in [Requests -> HandlerStates]
      /\ n \in Nat
  BY Framed DEF TypeOK
<1>1. /\ producer[r] = "final" /\ handler[r] = "range"
      /\ chunk' = [chunk EXCEPT ![r] = FinalChunk(EstimateUsage(t))]
      /\ producer' = [producer EXCEPT ![r] = "closed"]
      /\ handler' = [handler EXCEPT ![r] = "write"]
      /\ UNCHANGED <<req, sc, client, next, locals, wire, status>>
  BY DEF HandOverFinal, TextSent
<1>2. /\ handler'[r] = "write" /\ producer'[r] = "closed"
      /\ chunk'[r] = FinalChunk(EstimateUsage(t))
      /\ next[r] = n + 1
  BY <1>0, <1>1 DEF Shapes, Sound, ProducerInText
<1>3. ProducerInText(r)'
  BY <1>2 DEF ProducerInText
<1>4. Served(r)'
  BY <1>2 DEF Served
<1>5. WireInStep(r)'
  <2> SUFFICES ASSUME client[r] # "gone"  PROVE Streaming(r)' /\ WriteInStep(r)'
    BY <1>1, <1>2 DEF WireInStep
  <2>1. Streaming(r) /\ RangeInStep(r)
    BY <1>1 DEF Sound, WireInStep
  <2>2. Streaming(r)'
    BY <1>1, <1>2, <2>1 DEF Streaming
  <2>3. Wrote(r, n)
    <3>1. Wrote(r, next[r] - 1)
      BY <1>1, <2>1 DEF RangeInStep
    <3>2. next[r] - 1 = n
      BY <1>0, <1>2
    <3> QED
      BY <3>1, <3>2
  <2>4. Wrote(r, n)'
    BY <1>1, <2>3 DEF Wrote
  <2>5. WriteInStep(r)'
    BY <1>1, <1>2, <2>4 DEF WriteInStep
  <2> QED
    BY <2>2, <2>5
<1> QED
  BY <1>3, <1>4, <1>5 DEF Sound

\* A chunk written is the next part of the reply's stream.
LEMMA ChunkWritten ==
    ASSUME TypeOK, HandlerAndProducer, Shapes, NEW r \in Requests, Sound(r),
           WriteChunk(r)
    PROVE  Sound(r)'
<1> DEFINE t == ReplyText(sc[r])
           n == WordCount[t]
           words == WordsOf(t)
           usage == EstimateUsage(t)
           surface == req[r].surface
           E == ExpectedWire(surface, words, usage)
<1>0. /\ handler \in [Requests -> HandlerStates]
      /\ next[r] \in Nat /\ n \in Nat /\ Len(words) = n
  BY Framed DEF TypeOK
<1>1. /\ handler[r] = "write"
      /\ wire' = [wire EXCEPT ![r] = @ \o Translate(surface, locals[r], chunk[r])]
      /\ locals' = [locals EXCEPT ![r] = Absorb(surface, @, chunk[r])]
      /\ handler' = [handler EXCEPT ![r] = "range"]
      /\ UNCHANGED <<req, sc, client, producer, next, status>>
  BY DEF WriteChunk, AfterWrite
<1>2. /\ handler'[r] = "range"
      /\ wire'[r] = wire[r] \o Translate(surface, locals[r], chunk[r])
      /\ locals'[r] = Absorb(surface, locals[r], chunk[r])
  BY <1>0, <1>1 DEF Shapes
<1>a. /\ WellMade(surface, words, usage)
      /\ LocalsKept(surface, words, usage)
  BY Framed
<1>b. \A i \in 1..n : words[i] = <<t, i>>
  BY Framed
<1>3. ProducerInText(r)'
  BY <1>1, <1>2 DEF Sound, ProducerInText
<1>4. Served(r)'
  BY <1>2 DEF Served
<1>5. WireInStep(r)'
  <2> SUFFICES ASSUME client[r] # "gone"  PROVE Streaming(r)' /\ RangeInStep(r)'
    BY <1>1, <1>2 DEF WireInStep
  <2>1. Streaming(r) /\ WriteInStep(r)
    BY <1>1 DEF Sound, WireInStep
  <2>2. Streaming(r)'
    BY <1>1, <1>2, <2>1 DEF Streaming
  <2>3. CASE producer[r] = "closed"
    <3>1. Wrote(r, n) /\ chunk[r] = FinalChunk(usage)
      BY <2>1, <2>3 DEF WriteInStep
    <3>2. /\ wire[r] = SubSeq(E, 1, WrittenUpTo(surface, n, FALSE))
          /\ locals[r] = LocalsAfter(surface, words, n, FALSE, usage)
      BY <3>1 DEF Wrote
    <3>3. /\ SubSeq(E, 1, WrittenUpTo(surface, n, FALSE))
               \o Translate(surface, LocalsAfter(surface, words, n, FALSE, usage),
                            FinalChunk(usage))
             = SubSeq(E, 1, WrittenUpTo(surface, n, TRUE))
          /\ Absorb(surface, LocalsAfter(surface, words, n, FALSE, usage),
                    FinalChunk(usage))
             = LocalsAfter(surface, words, n, TRUE, usage)
      BY <1>0, <1>a, Zenon DEF WellMade, LocalsKept
    <3>4. /\ wire'[r] = SubSeq(E, 1, WrittenUpTo(surface, n, TRUE))
          /\ locals'[r] = LocalsAfter(surface, words, n, TRUE, usage)
      BY <1>2, <3>1, <3>2, <3>3, Zenon
    <3>5. WroteAll(r)'
      BY <1>1, <3>4 DEF WroteAll
    <3> QED
      BY <1>1, <2>2, <2>3, <3>5 DEF RangeInStep
  <2>4. CASE producer[r] # "closed"
    <3>0. next[r] \in 2..(n + 1)
      BY <2>1, <2>4 DEF WriteInStep
    <3>k. PICK k \in 0..(n - 1) : next[r] = k + 2
      <4>1. next[r] - 2 \in 0..(n - 1) /\ next[r] = (next[r] - 2) + 2
        BY <1>0, <3>0
      <4> QED
        BY <4>1
    <3>1. /\ Wrote(r, k)
          /\ chunk[r] = WordChunk(<<t, next[r] - 1>>, next[r] = 2)
      <4>1. next[r] - 2 = k
        BY <1>0, <3>k
      <4> QED
        BY <2>1, <2>4, <4>1 DEF WriteInStep
    <3>2. /\ k \in 0..(n - 1) /\ k + 1 = next[r] - 1 /\ k + 1 \in 1..n
          /\ (next[r] = 2) = (k = 0)
      BY <1>0, <3>k
    <3>3. words[k + 1] = <<t, k + 1>>
      BY <1>b, <3>2
    <3>4. chunk[r] = WordChunk(words[k + 1], k = 0)
      BY <3>1, <3>2, <3>3
    <3>5. /\ wire[r] = SubSeq(E, 1, WrittenUpTo(surface, k, FALSE))
          /\ locals[r] = LocalsAfter(surface, words, k, FALSE, usage)
      BY <3>1 DEF Wrote
    <3>6. /\ SubSeq(E, 1, WrittenUpTo(surface, k, FALSE))
               \o Translate(surface, LocalsAfter(surface, words, k, FALSE, usage),
                            WordChunk(words[k + 1], k = 0))
             = SubSeq(E, 1, WrittenUpTo(surface, k + 1, FALSE))
          /\ Absorb(surface, LocalsAfter(surface, words, k, FALSE, usage),
                    WordChunk(words[k + 1], k = 0))
             = LocalsAfter(surface, words, k + 1, FALSE, usage)
      BY <1>0, <1>a, <3>2, Zenon DEF WellMade, LocalsKept
    <3>7. /\ wire'[r] = SubSeq(E, 1, WrittenUpTo(surface, k + 1, FALSE))
          /\ locals'[r] = LocalsAfter(surface, words, k + 1, FALSE, usage)
      BY <1>2, <3>4, <3>5, <3>6, Zenon
    <3>8. Wrote(r, k + 1)'
      BY <1>1, <3>7 DEF Wrote
    <3> QED
      BY <1>1, <2>2, <2>4, <3>2, <3>8 DEF RangeInStep
  <2> QED
    BY <2>3, <2>4
<1> QED
  BY <1>3, <1>4, <1>5 DEF Sound

\* The closing frames complete the stream.
LEMMA Finished ==
    ASSUME TypeOK, HandlerAndProducer, Shapes, NEW r \in Requests, Sound(r),
           FinishStream(r)
    PROVE  Sound(r)'
<1> DEFINE t == ReplyText(sc[r])
           n == WordCount[t]
           words == WordsOf(t)
           usage == EstimateUsage(t)
           surface == req[r].surface
           E == ExpectedWire(surface, words, usage)
<1>0. handler \in [Requests -> HandlerStates] /\ Len(words) = n
  BY Framed DEF TypeOK
<1>1. /\ handler[r] = "range" /\ producer[r] = "closed"
      /\ wire' = [wire EXCEPT ![r] = @ \o Closing(surface, locals[r])]
      /\ handler' = [handler EXCEPT ![r] = "done"]
      /\ UNCHANGED <<req, sc, client, producer, next, chunk, locals, status>>
  BY DEF FinishStream, StreamEnded
<1>2. /\ handler'[r] = "done"
      /\ wire'[r] = wire[r] \o Closing(surface, locals[r])
  BY <1>0, <1>1 DEF Shapes
<1>3. ProducerInText(r)'
  BY <1>1, <1>2 DEF ProducerInText
<1>4. WireInStep(r)'
  BY <1>2 DEF WireInStep
<1>5. Served(r)'
  <2> SUFFICES ASSUME client[r] # "gone"
               PROVE  status[r] = 200 /\ req[r].stream /\ wire'[r] = E
    BY <1>1 DEF Served
  <2>1. Streaming(r) /\ WroteAll(r)
    BY <1>1 DEF Sound, WireInStep, RangeInStep
  <2>2. /\ wire[r] = SubSeq(E, 1, WrittenUpTo(surface, n, TRUE))
        /\ locals[r] = LocalsAfter(surface, words, n, TRUE, usage)
    BY <2>1 DEF WroteAll
  <2>3. SubSeq(E, 1, WrittenUpTo(surface, n, TRUE))
          \o Closing(surface, LocalsAfter(surface, words, n, TRUE, usage)) = E
    <3>1. WellMade(surface, words, usage)
      BY Framed
    <3> QED
      BY <1>0, <3>1, Zenon DEF WellMade
  <2>4. wire'[r] = E
    BY <1>2, <2>2, <2>3, Zenon
  <2> QED
    BY <1>1, <2>1, <2>4 DEF Streaming
<1> QED
  BY <1>3, <1>4, <1>5 DEF Sound

\* A client that comes and goes changes nothing for the others, and a client
\* that leaves has nothing more to expect.
LEMMA ClientMoved ==
    ASSUME TypeOK, HandlerAndProducer, Shapes, NEW r \in Requests, Sound(r),
           ClientStep(r)
    PROVE  Sound(r)'
<1>1. /\ handler[r] # "done" /\ client[r] # "gone"
      /\ UNCHANGED <<handler, req, sc, producer, next, chunk, locals, wire, status>>
  BY DEF ClientStep, Stall, Resume, Disconnect, ClientBecomes, Active
<1>2. ProducerInText(r)'
  BY <1>1 DEF Sound, ProducerInText
<1>3. Served(r)'
  BY <1>1 DEF Served
<1>4. /\ Streaming(r) => Streaming(r)'
      /\ \A k : Wrote(r, k)' <=> Wrote(r, k)
      /\ WroteAll(r)' <=> WroteAll(r)
  BY <1>1 DEF Streaming, Wrote, WroteAll
<1>5. RangeInStep(r) => RangeInStep(r)'
  BY <1>1, <1>4 DEF RangeInStep
<1>6. WriteInStep(r) => WriteInStep(r)'
  BY <1>1, <1>4 DEF WriteInStep
<1>7. WireInStep(r)'
  BY <1>1, <1>4, <1>5, <1>6 DEF Sound, WireInStep
<1> QED
  BY <1>2, <1>3, <1>7 DEF Sound

\* The steps that are r's own.
StepOf(r) ==
    Arrive(r) \/ HandlerStep(r) \/ ProducerStep(r) \/ HandOver(r) \/ ClientStep(r)

\* A request without a part in a step.
Spared(r) ==
    /\ handler'[r] = handler[r] /\ client'[r] = client[r]
    /\ producer'[r] = producer[r] /\ next'[r] = next[r]
    /\ status'[r] = status[r] /\ sc'[r] = sc[r]
    /\ req'[r] = req[r] /\ wire'[r] = wire[r]
    /\ locals'[r] = locals[r] /\ chunk'[r] = chunk[r]

\* A step of one request spares the others, and what the admin intends.
LEMMA Elsewhere ==
    ASSUME TypeOK, Shapes, NEW q \in Requests, StepOf(q)
    PROVE  intended' = intended /\ \A r \in Requests \ {q} : Spared(r)
<1> DEFINE Goal == intended' = intended /\ \A r \in Requests \ {q} : Spared(r)
<1>0. /\ handler \in [Requests -> HandlerStates]
      /\ sc \in [Requests -> Scenario]
      /\ client \in [Requests -> {"reading", "stalled", "gone"}]
      /\ producer \in [Requests -> ProducerStates]
      /\ next \in [Requests -> Nat \ {0}]
      /\ status \in [Requests -> 0..999]
  BY DEF TypeOK
<1>3. ASSUME Arrive(q)  PROVE Goal
  BY <1>0, <1>3 DEF Arrive, Spared
<1>4. ASSUME HandlerStep(q)  PROVE Goal
  <2>1. CASE ResolveScenario(q) \/ Wake(q) \/ AnswerError(q)
    BY <1>0, <1>4, <2>1 DEF ResolveScenario, Wake, AnswerError, Spared
  <2>2. CASE AnswerWhole(q)
    BY <1>0, <1>4, <2>2 DEF AnswerWhole, Shapes, Spared
  <2>3. CASE StartStream(q)
    BY <1>0, <1>4, <2>3 DEF StartStream, Spared
  <2>4. CASE Open(q)
    BY <1>0, <1>4, <2>4 DEF Open, Shapes, Spared
  <2>5. CASE WriteChunk(q)
    BY <1>0, <1>4, <2>5 DEF WriteChunk, Shapes, Spared
  <2>6. CASE FinishStream(q)
    BY <1>0, <1>4, <2>6 DEF FinishStream, Shapes, Spared
  <2> QED
    BY <1>4, <2>1, <2>2, <2>3, <2>4, <2>5, <2>6 DEF HandlerStep
<1>5. ASSUME ProducerStep(q)  PROVE Goal
  BY <1>0, <1>5 DEF ProducerStep, ProducerCheck, ProducerPace, Spared
<1>6. ASSUME HandOver(q)  PROVE Goal
  <2>1. CASE HandOverWord(q)
    BY <1>0, <1>6, <2>1 DEF HandOverWord, Shapes, Spared
  <2>2. CASE HandOverFinal(q)
    BY <1>0, <1>6, <2>2 DEF HandOverFinal, Shapes, Spared
  <2> QED
    BY <1>6, <2>1, <2>2 DEF HandOver
<1>7. ASSUME ClientStep(q)  PROVE Goal
  BY <1>0, <1>7 DEF ClientStep, Stall, Resume, Disconnect, ClientBecomes, Spared
<1> QED
  BY <1>3, <1>4, <1>5, <1>6, <1>7 DEF StepOf

\* No step of another request, and none of the admin, touches r's.
LEMMA Bystander ==
    ASSUME TypeOK, Shapes, [Next]_vars, NEW r \in Requests, ~StepOf(r)
    PROVE  Spared(r)
<1>1. ASSUME UNCHANGED <<handler, req, sc, client, producer, next, chunk, locals,
                         wire, status>>
      PROVE  Spared(r)
  BY <1>1 DEF Spared
<1>2. ASSUME NEW m \in Models, NEW op \in Operations, NEW s \in PutScenarios,
             AdminPut(m, op, s)
      PROVE  Spared(r)
  BY <1>1, <1>2 DEF AdminPut
<1>3. ASSUME NEW q \in Requests, StepOf(q)  PROVE Spared(r)
  <2>1. q # r
    BY <1>3
  <2> QED
    BY <1>3, <2>1, Elsewhere
<1>4. ASSUME UNCHANGED vars  PROVE Spared(r)
  BY <1>1, <1>4 DEF vars, requestVars
<1>5. \/ \E m \in Models, op \in Operations, s \in PutScenarios : AdminPut(m, op, s)
      \/ \E q \in Requests : StepOf(q)
      \/ UNCHANGED vars
  BY DEF Next, StepOf, Idle
<1> QED
  BY <1>2, <1>3, <1>4, <1>5

LEMMA NextWire == TypeOK /\ HandlerAndProducer /\ WireInv /\ [Next]_vars => WireInv'
<1> SUFFICES ASSUME TypeOK, HandlerAndProducer, WireInv, [Next]_vars
             PROVE  WireInv'
  OBVIOUS
<1>0. Shapes /\ \A r \in Requests : Sound(r)
  BY WireInvParts
<1>1. Shapes'
  <2>1. ASSUME NEW r \in Requests, WriteChunk(r)  PROVE Shapes'
    BY <1>0, <2>1 DEF Shapes, WriteChunk
  <2>2. ASSUME NEW r \in Requests,
               AnswerWhole(r) \/ Open(r) \/ HandOver(r) \/ FinishStream(r)
        PROVE  Shapes'
    BY <1>0, <2>2
       DEF Shapes, AnswerWhole, Open, HandOver, HandOverWord, HandOverFinal,
           FinishStream
  <2>3. CASE UNCHANGED <<wire, locals, chunk>>
    BY <1>0, <2>3 DEF Shapes
  <2>4. \/ \E r \in Requests : \/ WriteChunk(r) \/ AnswerWhole(r) \/ Open(r)
                               \/ HandOver(r) \/ FinishStream(r)
        \/ UNCHANGED <<wire, locals, chunk>>
    BY DEF Next, HandlerStep, ProducerStep, ClientStep, Idle, vars, requestVars,
           AdminPut, Arrive, ResolveScenario, Wake, AnswerError, StartStream,
           ProducerCheck, ProducerPace, Stall, Resume, Disconnect, ClientBecomes
  <2> QED
    BY <2>1, <2>2, <2>3, <2>4
<1>2. ASSUME NEW r \in Requests  PROVE Sound(r)'
  <2>1. CASE Arrive(r) \/ ResolveScenario(r) \/ Wake(r)
    BY <1>0, <2>1, BeforeStream
  <2>2. CASE AnswerError(r) \/ AnswerWhole(r)
    BY <1>0, <2>2, InOnePiece
  <2>3. CASE StartStream(r)
    BY <1>0, <2>3, Started
  <2>4. CASE Open(r)
    BY <1>0, <2>4, Opened
  <2>5. CASE ProducerCheck(r) \/ ProducerPace(r)
    BY <1>0, <2>5, ProducerAlone
  <2>6. CASE HandOverWord(r)
    BY <1>0, <2>6, WordHandedOver
  <2>7. CASE HandOverFinal(r)
    BY <1>0, <2>7, FinalHandedOver
  <2>8. CASE WriteChunk(r)
    BY <1>0, <2>8, ChunkWritten
  <2>9. CASE FinishStream(r)
    BY <1>0, <2>9, Finished
  <2>10. CASE ClientStep(r)
    BY <1>0, <2>10, ClientMoved
  <2>11. CASE ~StepOf(r)
    BY <1>0, <2>11, Bystander, Untouched DEF Spared
  <2> QED
    BY <2>1, <2>2, <2>3, <2>4, <2>5, <2>6, <2>7, <2>8, <2>9, <2>10, <2>11
       DEF StepOf, HandlerStep, ProducerStep, HandOver
<1> QED
  BY <1>1, <1>2
     DEF WireInv, Shapes, Sound, Served, ConnectedClientGetsWholeReply

\* A client that stays gets the whole reply, in its provider's framing.
THEOREM WholeReplies == Spec => []ConnectedClientGetsWholeReply
<1>1. WireInv => ConnectedClientGetsWholeReply
  BY DEF WireInv
<1> QED
  BY <1>1, InitType, NextType, InitProcesses, NextProcesses, InitWire, NextWire,
     PTL DEF Spec

-----------------------------------------------------------------------------
(* The text on the wire, whether or not the client is still there. *)

\* The prefixes of a text's words.
LEMMA Prefixing ==
    ASSUME NEW t \in Texts
    PROVE  LET n       == WordCount[t]
               upTo(k) == SubSeq(WordsOf(t), 1, k)
           IN  /\ n \in Nat /\ n >= 1
               /\ WordsOf(t) \in Seq({t} \X Nat)
               /\ upTo(0) = <<>> /\ upTo(n) = WordsOf(t)
               /\ \A k \in 0..n : Len(upTo(k)) = k /\ upTo(k) \o <<>> = upTo(k)
               /\ \A k \in 1..n : upTo(k - 1) \o <<<<t, k>>>> = upTo(k)
<1> DEFINE n == WordCount[t]
           words == WordsOf(t)
           W == {t} \X Nat
<1>1. n \in Nat /\ n >= 1
  <2>1. n \in Nat \ {0}
    BY ChatAssumption
  <2> HIDE DEF n
  <2> QED
    BY <2>1
<1>2. words \in Seq(W) /\ Len(words) = n /\ \A i \in 1..n : words[i] = <<t, i>>
  <2> HIDE DEF n
  <2>1. words = [i \in 1..n |-> <<t, i>>]
    BY DEF WordsOf, n
  <2> HIDE DEF words
  <2>2. words \in [1..n -> W] /\ \A i \in 1..n : words[i] = <<t, i>>
    BY <1>1, <2>1
  <2> HIDE DEF W
  <2> QED
    BY <1>1, <2>2
<1> HIDE DEF n, words, W
<1>3. SubSeq(words, 1, 0) = <<>> /\ SubSeq(words, 1, n) = words
  BY <1>2, Prefixes
<1>4. ASSUME NEW k \in 0..n
      PROVE  /\ Len(SubSeq(words, 1, k)) = k
             /\ SubSeq(words, 1, k) \o <<>> = SubSeq(words, 1, k)
  <2>1. k \in Nat /\ k <= Len(words) /\ \A i \in 1..k : words[i] \in W
    BY <1>1, <1>2, ElementOfSeq
  <2>2. SubSeq(words, 1, k) \o <<>> = SubSeq(words, 1, k)
    BY <1>2, <2>1, Prefixes
  <2>3. Len(SubSeq(words, 1, k)) = IF 1 <= k THEN k - 1 + 1 ELSE 0
    BY <2>1, SubSeqProperties
  <2> QED
    BY <2>1, <2>2, <2>3
<1>5. ASSUME NEW k \in 1..n
      PROVE  SubSeq(words, 1, k - 1) \o <<<<t, k>>>> = SubSeq(words, 1, k)
  <2>1. k - 1 \in Nat /\ (k - 1) + 1 = k /\ (k - 1) + 1 <= Len(words)
    BY <1>1, <1>2
  <2>2. SubSeq(words, 1, k - 1) \o <<words[(k - 1) + 1]>>
        = SubSeq(words, 1, (k - 1) + 1)
    BY <1>2, <2>1, Prefixes
  <2> QED
    BY <1>2, <2>1, <2>2
<1> QED
  BY <1>1, <1>2, <1>3, <1>4, <1>5 DEF n, words, W

\* A wire that can be read, and says a part of the text t.
Legible(w, t) ==
    /\ \E S : w \in Seq(S)
    /\ \E k \in 0..WordCount[t] :
          /\ Spoken(w) = SubSeq(WordsOf(t), 1, k)
          /\ UsageIn(w) => k = WordCount[t]

Voiced(r) == SpokenInStep(r) /\ Legible(wire[r], ReplyText(sc[r]))

LEMMA TextKnown ==
    ASSUME NEW s \in Scenario
    PROVE  ReplyText(s) \in Texts
<1>1. s.text \in Texts \cup {EmptyText}
  BY DEF Scenario
<1> QED
  BY <1>1, StoreAssumption DEF ReplyText

LEMMA VoicedEnough == TypeOK /\ (\A r \in Requests : Voiced(r)) => SpokenInv
<1> SUFFICES ASSUME TypeOK, \A r \in Requests : Voiced(r)  PROVE SpokenInv
  OBVIOUS
<1>1. ASSUME NEW r \in Requests
      PROVE  LET spoken == Spoken(wire[r])
                 words  == WordsOf(ReplyText(sc[r]))
             IN  /\ Len(spoken) <= Len(words) /\ spoken = SubSeq(words, 1, Len(spoken))
                 /\ UsageIn(wire[r]) => Len(spoken) = WordCount[ReplyText(sc[r])]
  <2> DEFINE t == ReplyText(sc[r])
             n == WordCount[t]
  <2>1. t \in Texts
    BY TextKnown DEF TypeOK
  <2>2. PICK k \in 0..n : /\ Spoken(wire[r]) = SubSeq(WordsOf(t), 1, k)
                          /\ UsageIn(wire[r]) => k = n
    BY DEF Voiced, Legible
  <2> HIDE DEF t
  <2>3. Len(Spoken(wire[r])) = k /\ Len(WordsOf(t)) = n /\ n \in Nat
    <3>1. /\ n \in Nat /\ SubSeq(WordsOf(t), 1, n) = WordsOf(t)
          /\ \A j \in 0..n : Len(SubSeq(WordsOf(t), 1, j)) = j
      BY <2>1, Prefixing
    <3>2. n \in 0..n
      BY <3>1
    <3> QED
      BY <2>2, <3>1, <3>2
  <2> QED
    BY <2>2, <2>3 DEF t
<1> QED
  BY <1>1 DEF SpokenInv, SpokenIsPrefixOfReply, UsageOnlyWithFullText, UsageIn, Voiced

\* Nothing is said before the stream is opened.
LEMMA Unsaid ==
    ASSUME NEW t \in Texts
    PROVE  Legible(<<>>, t)
<1>2. WordCount[t] \in Nat /\ SubSeq(WordsOf(t), 1, 0) = <<>>
  BY Prefixing
<1>3. 0 \in 0..WordCount[t]
  BY <1>2
<1>4. <<>> \in Seq({}) /\ ~UsageIn(<<>>)
  BY Nothing
<1> QED
  BY <1>2, <1>3, <1>4, NothingSpoken DEF Legible

LEMMA InitVoiced == Init => \A r \in Requests : Voiced(r)
<1> SUFFICES ASSUME Init, NEW r \in Requests  PROVE Voiced(r)
  OBVIOUS
<1>1. TypeOK
  BY InitType
<1>2. wire[r] = <<>> /\ next[r] = 1 /\ handler[r] = "idle"
  BY DEF Init
<1> DEFINE n == WordCount[ReplyText(sc[r])]
<1>3. ReplyText(sc[r]) \in Texts /\ n \in Nat /\ n >= 1
  <2>1. ReplyText(sc[r]) \in Texts
    BY <1>1, TextKnown DEF TypeOK
  <2> QED
    BY <2>1, Prefixing
<1>4. next[r] \in 1..(n + 1)
  BY <1>2, <1>3
<1>5. SpokenInStep(r)
  BY <1>2, <1>4 DEF SpokenInStep
<1> QED
  BY <1>2, <1>3, <1>5, Unsaid DEF Voiced

\* A step that leaves everything of a request alone.
LEMMA VoicedUntouched ==
    ASSUME NEW r \in Requests, Voiced(r),
           handler'[r] = handler[r], producer'[r] = producer[r],
           next'[r] = next[r], sc'[r] = sc[r], req'[r] = req[r],
           wire'[r] = wire[r], locals'[r] = locals[r], chunk'[r] = chunk[r]
    PROVE  Voiced(r)'
<1>1. UsageSeen(r)' <=> UsageSeen(r)
  BY DEF UsageSeen
<1>2. SpokenInStep(r)'
  BY <1>1 DEF Voiced, SpokenInStep
<1>3. Legible(wire[r], ReplyText(sc[r]))'
  BY DEF Voiced
<1> QED
  BY <1>2, <1>3 DEF Voiced

\* The steps before the stream, and those that end the request at once.
LEMMA VoicedBefore ==
    ASSUME TypeOK, TypeOK', Shapes, NEW r \in Requests, Sound(r), Voiced(r),
           \/ Arrive(r) \/ ResolveScenario(r) \/ Wake(r) \/ AnswerError(r)
           \/ StartStream(r)
    PROVE  Voiced(r)'
<1> DEFINE n == WordCount[ReplyText(sc[r])]
<1>0. handler \in [Requests -> HandlerStates] /\ sc \in [Requests -> Scenario]
  BY DEF TypeOK
<1>1. /\ handler[r] \in {"idle", "resolve", "latency", "answer"}
      /\ UNCHANGED <<req, next, locals, wire>>
  BY DEF Arrive, ResolveScenario, Wake, AnswerError, StartStream
<1>2. wire[r] = <<>> /\ next[r] = 1
  BY <1>1 DEF Voiced, SpokenInStep, Sound, ProducerInText
<1>3. /\ handler'[r] \in {"resolve", "latency", "answer", "open", "done"}
      /\ handler'[r] # "done" => req[r].valid
      /\ handler'[r] = "open" => sc'[r].error = NoError
  <2>1. CASE Arrive(r)
    <3>1. CASE req[r].valid
      <4>1. handler' = [handler EXCEPT ![r] = "resolve"]
        BY <2>1, <3>1, NeverRefused DEF Arrive
      <4> QED
        BY <1>0, <3>1, <4>1
    <3>2. CASE ~req[r].valid
      <4>1. handler' = [handler EXCEPT ![r] = "done"]
        BY <2>1, <3>2 DEF Arrive
      <4> QED
        BY <1>0, <4>1
    <3> QED
      BY <3>1, <3>2
  <2>2. CASE ResolveScenario(r)
    <3>1. /\ handler[r] = "resolve"
          /\ \E h \in {"latency", "answer"} : handler' = [handler EXCEPT ![r] = h]
      BY <2>2 DEF ResolveScenario
    <3> QED
      BY <1>0, <3>1 DEF Voiced, SpokenInStep
  <2>3. CASE Wake(r)
    <3>1. handler[r] = "latency" /\ handler' = [handler EXCEPT ![r] = "answer"]
      BY <2>3 DEF Wake
    <3> QED
      BY <1>0, <3>1 DEF Voiced, SpokenInStep
  <2>4. CASE AnswerError(r)
    BY <1>0, <2>4 DEF AnswerError
  <2>5. CASE StartStream(r)
    <3>1. /\ handler[r] = "answer" /\ sc[r].error = NoError /\ sc' = sc
          /\ handler' = [handler EXCEPT ![r] = "open"]
      BY <2>5 DEF StartStream, MayStream
    <3> QED
      BY <1>0, <3>1 DEF Voiced, SpokenInStep
  <2> QED
    BY <2>1, <2>2, <2>3, <2>4, <2>5
<1>4. ReplyText(sc'[r]) \in Texts /\ n' \in Nat /\ n' >= 1
  <2>1. ReplyText(sc'[r]) \in Texts
    BY TextKnown DEF TypeOK
  <2> QED
    BY <2>1, Prefixing
<1>5. next'[r] \in 1..(n' + 1)
  BY <1>1, <1>2, <1>4
<1> HIDE DEF n
<1>6. SpokenInStep(r)'
  BY <1>1, <1>2, <1>3, <1>5 DEF SpokenInStep, n
<1>7. Legible(wire'[r], ReplyText(sc'[r]))
  <2>1. wire'[r] = <<>>
    BY <1>1, <1>2
  <2> QED
    BY <1>4, <2>1, Unsaid
<1> QED
  BY <1>6, <1>7 DEF Voiced

\* An answer in one piece says all of the reply.
LEMMA VoicedWhole ==
    ASSUME TypeOK, Shapes, NEW r \in Requests, Voiced(r), AnswerWhole(r)
    PROVE  Voiced(r)' /\ Spoken(wire'[r]) = WordsOf(ReplyText(sc[r]))
<1> DEFINE t == ReplyText(sc[r])
           v == WholeReply(WordsOf(t), EstimateUsage(t))
<1>1. t \in Texts
  BY TextKnown DEF TypeOK
<1>2. /\ handler'[r] = "done" /\ wire'[r] = v
      /\ UNCHANGED <<req, sc, next, locals>>
  BY DEF AnswerWhole, TypeOK, Shapes
<1>3. SpokenInStep(r)'
  BY <1>2 DEF Voiced, SpokenInStep
<1> HIDE DEF t
<1>4. Legible(v, t) /\ Spoken(v) = WordsOf(t)
  <2>1. /\ WordCount[t] \in Nat /\ SubSeq(WordsOf(t), 1, WordCount[t]) = WordsOf(t)
        /\ WordsOf(t) \in Seq({t} \X Nat)
    BY <1>1, Prefixing
  <2>2. (\E R : v \in Seq(R)) /\ Spoken(v) = WordsOf(t)
    BY <2>1, WholeSpoken
  <2>3. WordCount[t] \in 0..WordCount[t]
    BY <2>1
  <2> QED
    BY <2>1, <2>2, <2>3 DEF Legible
<1> QED
  BY <1>2, <1>3, <1>4 DEF Voiced, t

\* The surface a client chooses is one of the five.
LEMMA SurfaceKnown ==
    ASSUME TypeOK, NEW r \in Requests
    PROVE  req[r].surface \in SurfaceNames
<1>1. req[r] \in Request
  BY ChatAssumption DEF TypeOK
<1> QED
  BY <1>1 DEF Request

LEMMA VoicedOpened ==
    ASSUME TypeOK, Shapes, NEW r \in Requests, Sound(r), Voiced(r), Open(r)
    PROVE  Voiced(r)'
<1> DEFINE t == ReplyText(sc[r])
           n == WordCount[t]
           v == Opening(req[r].surface)
<1>1. t \in Texts /\ req[r].surface \in SurfaceNames
  BY TextKnown, SurfaceKnown DEF TypeOK
<1>2. /\ handler[r] = "open"
      /\ handler'[r] = "range" /\ wire'[r] = v
      /\ UNCHANGED <<req, sc, next, locals>>
  <2>1. /\ handler' = [handler EXCEPT ![r] = "range"]
        /\ wire' = [wire EXCEPT ![r] = v]
        /\ handler[r] = "open" /\ UNCHANGED <<req, sc, next, locals>>
    BY NeverRefused DEF Open
  <2> QED
    BY <2>1 DEF TypeOK, Shapes
<1>3. /\ next[r] = 1 /\ locals[r].usage = NoUsage
      /\ req[r].valid /\ sc[r].error = NoError
  BY <1>2 DEF Sound, ProducerInText, Voiced, SpokenInStep, InitialLocals
<1>4. (\E R : v \in Seq(R)) /\ Spoken(v) = <<>> /\ ~UsageIn(v)
  BY <1>1, OpeningSilent
<1> HIDE DEF t, v
<1>5. n \in Nat /\ n >= 1 /\ SubSeq(WordsOf(t), 1, 0) = <<>>
  BY <1>1, Prefixing
<1>6. SpokenInStep(r)'
  <2>1. ~UsageSeen(r)'
    BY <1>2, <1>3, <1>4 DEF UsageSeen, UsageIn
  <2>2. next'[r] - 1 = 0 /\ next'[r] \in 1..(n + 1)
    BY <1>2, <1>3, <1>5
  <2>3. Spoken(wire'[r]) = SubSeq(WordsOf(t), 1, next'[r] - 1)
    BY <1>2, <1>4, <1>5, <2>2
  <2> QED
    BY <1>2, <1>3, <2>1, <2>2, <2>3 DEF SpokenInStep, t
<1>7. Legible(v, t)
  <2>1. 0 \in 0..n
    BY <1>5
  <2> QED
    BY <1>4, <1>5, <2>1 DEF Legible
<1> QED
  BY <1>2, <1>6, <1>7 DEF Voiced, t

LEMMA VoicedProducer ==
    ASSUME TypeOK, NEW r \in Requests, Voiced(r),
           ProducerCheck(r) \/ ProducerPace(r)
    PROVE  Voiced(r)'
<1>1. /\ producer[r] # "closed"
      /\ UNCHANGED <<handler, req, sc, next, chunk, locals, wire>>
  BY DEF ProducerCheck, ProducerPace
<1>2. UsageSeen(r)' <=> UsageSeen(r)
  BY <1>1 DEF UsageSeen
<1>3. SpokenInStep(r)'
  BY <1>1, <1>2 DEF Voiced, SpokenInStep
<1> QED
  BY <1>1, <1>3 DEF Voiced

LEMMA VoicedWord ==
    ASSUME TypeOK, Shapes, NEW r \in Requests, Sound(r), Voiced(r), HandOverWord(r)
    PROVE  Voiced(r)'
<1> DEFINE t == ReplyText(sc[r])
           n == WordCount[t]
<1>0. t \in Texts /\ next[r] \in Nat \ {0}
  BY TextKnown DEF TypeOK
<1>1. /\ producer[r] = "send" /\ handler[r] = "range"
      /\ chunk' = [chunk EXCEPT ![r] = WordChunk(<<t, next[r]>>, next[r] = 1)]
      /\ next' = [next EXCEPT ![r] = @ + 1]
      /\ handler' = [handler EXCEPT ![r] = "write"]
      /\ UNCHANGED <<req, sc, locals, wire>>
  BY DEF HandOverWord, TextSent
<1>2. /\ handler'[r] = "write" /\ next'[r] = next[r] + 1
      /\ chunk'[r] = WordChunk(<<t, next[r]>>, next[r] = 1)
  BY <1>1 DEF TypeOK, Shapes
<1>3. /\ ~UsageSeen(r) /\ req[r].valid /\ sc[r].error = NoError
      /\ Spoken(wire[r]) = SubSeq(WordsOf(t), 1, next[r] - 1)
  BY <1>1 DEF Voiced, SpokenInStep
<1>4. next[r] <= n
  BY <1>1 DEF Sound, ProducerInText
<1>5. n \in Nat /\ n >= 1
  BY <1>0, Prefixing
<1> HIDE DEF n
<1>6. /\ next'[r] - 1 = next[r] /\ next'[r] - 2 = next[r] - 1 /\ next'[r] > 1
      /\ next'[r] \in 1..(n + 1) /\ (next'[r] = 2) = (next[r] = 1)
  BY <1>0, <1>2, <1>4, <1>5
<1>7. ~UsageSeen(r)'
  BY <1>1, <1>3 DEF UsageSeen
<1>8. /\ chunk'[r] = WordChunk(<<t, next'[r] - 1>>, next'[r] = 2)
      /\ Spoken(wire'[r]) = SubSeq(WordsOf(t), 1, next'[r] - 2)
  BY <1>1, <1>2, <1>3, <1>6
<1>9. SpokenInStep(r)'
  BY <1>1, <1>2, <1>3, <1>6, <1>7, <1>8 DEF SpokenInStep, n
<1> QED
  BY <1>1, <1>9 DEF Voiced

LEMMA VoicedFinal ==
    ASSUME TypeOK, Shapes, NEW r \in Requests, Sound(r), Voiced(r), HandOverFinal(r)
    PROVE  Voiced(r)'
<1> DEFINE t == ReplyText(sc[r])
           n == WordCount[t]
<1>1. /\ producer[r] = "final" /\ handler[r] = "range"
      /\ chunk' = [chunk EXCEPT ![r] = FinalChunk(EstimateUsage(t))]
      /\ producer' = [producer EXCEPT ![r] = "closed"]
      /\ handler' = [handler EXCEPT ![r] = "write"]
      /\ UNCHANGED <<req, sc, next, locals, wire>>
  BY DEF HandOverFinal, TextSent
<1>2. /\ handler'[r] = "write" /\ producer'[r] = "closed"
      /\ chunk'[r] = FinalChunk(EstimateUsage(t))
  BY <1>1 DEF TypeOK, Shapes
<1>3. /\ ~UsageSeen(r) /\ req[r].valid /\ sc[r].error = NoError
      /\ Spoken(wire[r]) = SubSeq(WordsOf(t), 1, next[r] - 1)
      /\ next[r] \in 1..(n + 1)
  BY <1>1 DEF Voiced, SpokenInStep
<1>4. next[r] = n + 1
  BY <1>1 DEF Sound, ProducerInText
<1>5. t \in Texts
  BY TextKnown DEF TypeOK
<1>6. n \in Nat
  BY <1>5, Prefixing
<1> HIDE DEF n
<1>7. next[r] - 1 = n
  BY <1>4, <1>6
<1>8. ~UsageSeen(r)'
  BY <1>1, <1>3 DEF UsageSeen
<1>9. SpokenInStep(r)'
  BY <1>1, <1>2, <1>3, <1>4, <1>7, <1>8 DEF SpokenInStep, n
<1> QED
  BY <1>1, <1>9 DEF Voiced

\* Writing a chunk says its word, and the usage only with the final one.
LEMMA VoicedWritten ==
    ASSUME TypeOK, Shapes, NEW r \in Requests, Voiced(r), WriteChunk(r)
    PROVE  Voiced(r)'
<1> DEFINE t == ReplyText(sc[r])
           n == WordCount[t]
           c == chunk[r]
           upTo(k) == SubSeq(WordsOf(t), 1, k)
           said == Translate(req[r].surface, locals[r], c)
<1>1. /\ handler[r] = "write" /\ handler'[r] = "range"
      /\ wire'[r] = wire[r] \o said
      /\ locals'[r] = Absorb(req[r].surface, locals[r], c)
      /\ UNCHANGED <<req, sc, producer, next>>
  BY DEF WriteChunk, AfterWrite, TypeOK, Shapes
<1>2. t \in Texts /\ req[r].surface \in SurfaceNames
  BY TextKnown, SurfaceKnown DEF TypeOK
<1>3. /\ ~UsageSeen(r) /\ req[r].valid /\ sc[r].error = NoError
      /\ next[r] \in 1..(n + 1)
      /\ \/ /\ producer[r] = "closed" /\ next[r] = n + 1
            /\ c = FinalChunk(EstimateUsage(t))
            /\ Spoken(wire[r]) = upTo(n)
         \/ /\ next[r] > 1
            /\ c = WordChunk(<<t, next[r] - 1>>, next[r] = 2)
            /\ Spoken(wire[r]) = upTo(next[r] - 2)
  BY <1>1 DEF Voiced, SpokenInStep
<1>4. locals[r].usage = NoUsage /\ ~UsageIn(wire[r])
  BY <1>3 DEF UsageSeen, UsageIn
<1>5. PICK S : wire[r] \in Seq(S)
  BY DEF Voiced, Legible
<1>6. /\ n \in Nat
      /\ \A k \in 0..n : upTo(k) \o <<>> = upTo(k)
      /\ \A k \in 1..n : upTo(k - 1) \o <<<<t, k>>>> = upTo(k)
  BY <1>2, Prefixing
<1> HIDE DEF t, n, upTo
<1>7. PICK k \in 0..n : Spoken(wire[r]) = upTo(k)
  <2>1. n \in 0..n /\ (next[r] > 1 => next[r] - 2 \in 0..n)
    BY <1>3, <1>6
  <2> QED
    BY <1>3, <2>1
<1>8. Spoken(wire[r]) \o <<>> = Spoken(wire[r])
  BY <1>6, <1>7
<1> HIDE DEF c
<1>9. Adds(wire[r], said, c.words, c.usage)
  BY <1>2, <1>5, <1>8, ChunkAdds
<1>10. Spoken(wire'[r]) = upTo(next[r] - 1)
  <2>1. CASE c = FinalChunk(EstimateUsage(t)) /\ Spoken(wire[r]) = upTo(n)
             /\ next[r] = n + 1
    <3>1. c.words = <<>> /\ next[r] - 1 = n
      BY <1>6, <2>1 DEF FinalChunk
    <3> QED
      BY <1>1, <1>8, <1>9, <2>1, <3>1 DEF Adds
  <2>2. CASE /\ next[r] > 1
             /\ c = WordChunk(<<t, next[r] - 1>>, next[r] = 2)
             /\ Spoken(wire[r]) = upTo(next[r] - 2)
    <3>1. c.words = <<<<t, next[r] - 1>>>>
      BY <2>2 DEF WordChunk
    <3>2. next[r] - 1 \in 1..n /\ (next[r] - 1) - 1 = next[r] - 2
      BY <1>3, <1>6, <2>2
    <3>3. upTo(next[r] - 2) \o <<<<t, next[r] - 1>>>> = upTo(next[r] - 1)
      BY <1>6, <3>2
    <3> QED
      BY <1>1, <1>9, <2>2, <3>1, <3>3 DEF Adds
  <2> QED
    BY <1>3, <2>1, <2>2
<1>11. UsageSeen(r)' => producer[r] = "closed" /\ next[r] = n + 1
  <2> SUFFICES ASSUME ~(producer[r] = "closed" /\ next[r] = n + 1)
               PROVE  ~UsageSeen(r)'
    OBVIOUS
  <2>1. c.usage = NoUsage
    <3>1. c = WordChunk(<<t, next[r] - 1>>, next[r] = 2)
      BY <1>3
    <3>2. \A w, isFirst : WordChunk(w, isFirst).usage = NoUsage
      BY DEF WordChunk
    <3> QED
      BY <3>1, <3>2
  <2>2. ~UsageIn(wire'[r])
    BY <1>1, <1>4, <1>9, <2>1 DEF Adds
  <2>3. locals'[r].usage = NoUsage
    <3>1. \A surface, l, d :
            d.usage = NoUsage => Absorb(surface, l, d).usage = l.usage
      BY DEF Absorb
    <3> QED
      BY <1>1, <1>4, <2>1, <3>1
  <2> QED
    BY <2>2, <2>3 DEF UsageSeen, UsageIn
<1>12. SpokenInStep(r)'
  BY <1>1, <1>3, <1>10, <1>11 DEF SpokenInStep, t, n, upTo
<1>13. Legible(wire'[r], t)
  <2>1. next[r] - 1 \in 0..n /\ (next[r] = n + 1 => next[r] - 1 = n)
    BY <1>3, <1>6
  <2>2. UsageIn(wire'[r]) => next[r] - 1 = n
    BY <1>11, <2>1 DEF UsageSeen, UsageIn
  <2> QED
    BY <1>1, <1>9, <1>10, <2>1, <2>2 DEF Legible, Adds, n, upTo
<1> QED
  BY <1>1, <1>12, <1>13 DEF Voiced, t

\* The end of the stream says nothing new, whenever it comes.
LEMMA VoicedFinished ==
    ASSUME TypeOK, Shapes, NEW r \in Requests, Voiced(r), FinishStream(r)
    PROVE  Voiced(r)' /\ Spoken(wire'[r]) = Spoken(wire[r])
<1> DEFINE t == ReplyText(sc[r])
           n == WordCount[t]
           v == wire[r] \o Closing(req[r].surface, locals[r])
<1>1. /\ handler[r] = "range" /\ handler'[r] = "done" /\ wire'[r] = v
      /\ UNCHANGED <<req, sc, producer, next>>
  BY DEF FinishStream, TypeOK, Shapes
<1>2. req[r].surface \in SurfaceNames
  BY SurfaceKnown
<1>3. /\ Spoken(wire[r]) = SubSeq(WordsOf(t), 1, next[r] - 1)
      /\ UsageSeen(r) => next[r] = n + 1
      /\ next[r] \in 1..(n + 1)
  BY <1>1 DEF Voiced, SpokenInStep
<1>4. PICK S : wire[r] \in Seq(S)
  BY DEF Voiced, Legible
<1> HIDE DEF t, n
<1>5. /\ \E R : v \in Seq(R)
      /\ Spoken(v) = Spoken(wire[r])
      /\ ~UsageIn(wire[r]) /\ locals[r].usage = NoUsage => ~UsageIn(v)
  BY <1>2, <1>4, ClosingAdds
<1>6. UsageIn(v) => UsageSeen(r)
  BY <1>5 DEF UsageSeen, UsageIn
<1>7. SpokenInStep(r)'
  BY <1>1, <1>3 DEF SpokenInStep, n, t
<1>8. Legible(v, t)
  <2>0. t \in Texts
    BY TextKnown DEF TypeOK, t
  <2>1. n \in Nat
    BY <2>0, Prefixing DEF n
  <2>2. next[r] - 1 \in 0..n /\ (UsageIn(v) => next[r] - 1 = n)
    BY <1>3, <1>6, <2>1
  <2> QED
    BY <1>3, <1>5, <2>2 DEF Legible, n
<1> QED
  BY <1>1, <1>5, <1>7, <1>8 DEF Voiced, t

LEMMA VoicedClient ==
    ASSUME NEW r \in Requests, Voiced(r), ClientStep(r)
    PROVE  Voiced(r)'
BY VoicedUntouched DEF ClientStep, Stall, Resume, Disconnect, ClientBecomes

VoiceInv == \A r \in Requests : Voiced(r)

LEMMA NextVoiced == TypeOK /\ WireInv /\ VoiceInv /\ [Next]_vars => VoiceInv'
<1> SUFFICES ASSUME TypeOK, WireInv, VoiceInv, [Next]_vars, NEW r \in Requests
             PROVE  Voiced(r)'
  BY DEF VoiceInv
<1>0. TypeOK' /\ Shapes /\ Sound(r) /\ Voiced(r)
  BY NextType, WireInvParts DEF VoiceInv
<1>1. CASE \/ Arrive(r) \/ ResolveScenario(r) \/ Wake(r) \/ AnswerError(r)
           \/ StartStream(r)
  BY <1>0, <1>1, VoicedBefore
<1>2. CASE AnswerWhole(r)
  BY <1>0, <1>2, VoicedWhole
<1>3. CASE Open(r)
  BY <1>0, <1>3, VoicedOpened
<1>4. CASE ProducerCheck(r) \/ ProducerPace(r)
  BY <1>0, <1>4, VoicedProducer
<1>5. CASE HandOverWord(r)
  BY <1>0, <1>5, VoicedWord
<1>6. CASE HandOverFinal(r)
  BY <1>0, <1>6, VoicedFinal
<1>7. CASE WriteChunk(r)
  BY <1>0, <1>7, VoicedWritten
<1>8. CASE FinishStream(r)
  BY <1>0, <1>8, VoicedFinished
<1>9. CASE ClientStep(r)
  BY <1>0, <1>9, VoicedClient
<1>10. CASE ~StepOf(r)
  BY <1>0, <1>10, Bystander, VoicedUntouched DEF Spared
<1> QED
  BY <1>1, <1>2, <1>3, <1>4, <1>5, <1>6, <1>7, <1>8, <1>9, <1>10
     DEF StepOf, HandlerStep, ProducerStep, HandOver

\* No word is lost, repeated or reordered on its way to the wire, and none comes
\* from another scenario, also for a client that goes away.
THEOREM SpokenPrefix == Spec => []SpokenIsPrefixOfReply
<1>1. Init => VoiceInv
  BY InitVoiced DEF VoiceInv
<1>2. TypeOK /\ VoiceInv => SpokenIsPrefixOfReply
  BY VoicedEnough DEF VoiceInv, SpokenInv
<1> QED
  BY <1>1, <1>2, InitType, NextType, InitProcesses, NextProcesses, InitWire, NextWire,
     NextVoiced, PTL DEF Spec

\* A usage report never precedes a word of the reply it is about.
THEOREM UsageAfterText == Spec => []UsageOnlyWithFullText
<1>1. Init => VoiceInv
  BY InitVoiced DEF VoiceInv
<1>2. TypeOK /\ VoiceInv => UsageOnlyWithFullText
  BY VoicedEnough DEF VoiceInv, SpokenInv
<1> QED
  BY <1>1, <1>2, InitType, NextType, InitProcesses, NextProcesses, InitWire, NextWire,
     NextVoiced, PTL DEF Spec

-----------------------------------------------------------------------------

\* The conjunction the theorems rest on is itself an invariant.
THEOREM Inductive == Spec => []ChatInv
<1>1. Init => VoiceInv
  BY InitVoiced DEF VoiceInv
<1>2. TypeOK /\ VoiceInv => SpokenInv
  BY VoicedEnough DEF VoiceInv
<1> QED
  BY <1>1, <1>2, InitType, NextType, InitProcesses, NextProcesses, InitInForce,
     NextInForce, InitWire, NextWire, NextVoiced, PTL DEF Spec, ChatInv

-----------------------------------------------------------------------------
(* The refinement. *)

phases     == [r \in Requests |-> PhaseOf(r)]
deliveries == [r \in Requests |-> Delivered(r)]
leavers    == [r \in Requests |-> client[r] = "gone"]
lengths    == [s \in Scenario |-> ReplyLength(s)]
failures   == {s \in Scenario : s.error # NoError}

\* What the contract sees of a request that has no part in a step.
LEMMA SparedAbstractly ==
    ASSUME NEW r \in Requests, Spared(r)
    PROVE  /\ PhaseOf(r)' = PhaseOf(r) /\ Delivered(r)' = Delivered(r)
           /\ sc'[r] = sc[r] /\ client'[r] = client[r]
BY DEF Spared, PhaseOf, EndPhase, Delivered

\* A step of r changes at most r's place in each of the contract's variables.
LEMMA Framing ==
    ASSUME TypeOK, TypeOK', Shapes, NEW r \in Requests, StepOf(r)
    PROVE  /\ intended' = intended
           /\ phases' = [phases EXCEPT ![r] = PhaseOf(r)']
           /\ sc' = [sc EXCEPT ![r] = sc'[r]]
           /\ deliveries' = [deliveries EXCEPT ![r] = Delivered(r)']
           /\ leavers' = [leavers EXCEPT ![r] = client'[r] = "gone"]
<1>1. intended' = intended /\ \A q \in Requests \ {r} : Spared(q)
  BY Elsewhere
<1>2. \A q \in Requests \ {r} :
        /\ PhaseOf(q)' = PhaseOf(q) /\ Delivered(q)' = Delivered(q)
        /\ sc'[q] = sc[q] /\ client'[q] = client[q]
  BY <1>1, SparedAbstractly
<1>3. phases' = [phases EXCEPT ![r] = PhaseOf(r)']
  BY <1>2 DEF phases
<1>4. deliveries' = [deliveries EXCEPT ![r] = Delivered(r)']
  BY <1>2 DEF deliveries
<1>5. sc' = [sc EXCEPT ![r] = sc'[r]]
  BY <1>2 DEF TypeOK
<1>6. leavers' = [leavers EXCEPT ![r] = client'[r] = "gone"]
  BY <1>2 DEF leavers
<1> QED
  BY <1>1, <1>3, <1>4, <1>5, <1>6

LEMMA Stutters ==
    ASSUME TypeOK, TypeOK', Shapes, NEW r \in Requests, StepOf(r),
           PhaseOf(r)' = PhaseOf(r), Delivered(r)' = Delivered(r),
           sc'[r] = sc[r], (client'[r] = "gone") = (client[r] = "gone")
    PROVE  UNCHANGED Contract!vars
<1>1. /\ intended' = intended
      /\ phases' = [phases EXCEPT ![r] = PhaseOf(r)']
      /\ sc' = [sc EXCEPT ![r] = sc'[r]]
      /\ deliveries' = [deliveries EXCEPT ![r] = Delivered(r)']
      /\ leavers' = [leavers EXCEPT ![r] = client'[r] = "gone"]
  BY Framing
<1>2. phases' = phases
  BY <1>1 DEF phases
<1>3. deliveries' = deliveries
  BY <1>1 DEF deliveries
<1>4. leavers' = leavers
  BY <1>1 DEF leavers
<1>5. sc' = sc
  BY <1>1 DEF TypeOK
<1> QED
  BY <1>1, <1>2, <1>3, <1>4, <1>5 DEF phases, deliveries, leavers, Contract!vars

\* What the contract is told of the reply r is bound to.
LEMMA ReplyOf ==
    ASSUME TypeOK, NEW r \in Requests
    PROVE  LET t == ReplyText(sc[r])
               n == WordCount[t]
           IN  /\ t \in Texts /\ n \in Nat /\ n >= 1
               /\ lengths[sc[r]] = n
               /\ sc[r] \in failures <=> sc[r].error # NoError
               /\ \A k \in 0..n : Len(SubSeq(WordsOf(t), 1, k)) = k
               /\ Len(WordsOf(t)) = n
<1> DEFINE t == ReplyText(sc[r])
           n == WordCount[t]
<1>1. sc[r] \in Scenario
  BY DEF TypeOK
<1>2. lengths[sc[r]] = n /\ (sc[r] \in failures <=> sc[r].error # NoError)
  BY <1>1 DEF lengths, ReplyLength, failures
<1>3. t \in Texts
  BY <1>1, TextKnown
<1>4. /\ n \in Nat /\ n >= 1 /\ SubSeq(WordsOf(t), 1, n) = WordsOf(t)
      /\ \A k \in 0..n : Len(SubSeq(WordsOf(t), 1, k)) = k
  BY <1>3, Prefixing
<1>5. n \in 0..n
  BY <1>4
<1> QED
  BY <1>2, <1>3, <1>4, <1>5

LEMMA ArriveBegins ==
    ASSUME TypeOK, TypeOK', Shapes, NEW r \in Requests, Arrive(r)
    PROVE  Contract!Begin(r) \/ Contract!Refuse(r)
<1>1. /\ intended' = intended
      /\ phases' = [phases EXCEPT ![r] = PhaseOf(r)']
      /\ deliveries' = [deliveries EXCEPT ![r] = Delivered(r)']
      /\ leavers' = [leavers EXCEPT ![r] = client'[r] = "gone"]
  BY Framing DEF StepOf
<1>2. handler[r] = "idle" /\ UNCHANGED <<req, sc, client, wire>>
  BY DEF Arrive
<1>3. phases[r] = "new"
  BY <1>2 DEF phases, PhaseOf
<1>4. PhaseOf(r)' \in {"accepted", "refused"}
  <2>1. CASE req[r].valid
    <3>1. handler' = [handler EXCEPT ![r] = "resolve"]
      BY <2>1, NeverRefused DEF Arrive
    <3>2. handler'[r] = "resolve"
      BY <3>1 DEF TypeOK
    <3> QED
      BY <3>2 DEF PhaseOf
  <2>2. CASE ~req[r].valid
    <3>1. /\ handler' = [handler EXCEPT ![r] = "done"]
          /\ status' = [status EXCEPT ![r] = 400]
      BY <2>2 DEF Arrive
    <3>2. handler'[r] = "done" /\ status'[r] = 400 /\ ~req'[r].valid
      BY <1>2, <2>2, <3>1 DEF TypeOK
    <3> QED
      BY <3>2 DEF PhaseOf, EndPhase
  <2> QED
    BY <2>1, <2>2
<1>5. deliveries' = deliveries /\ leavers' = leavers
  BY <1>2 DEF deliveries, leavers, Delivered
<1> QED
  BY <1>1, <1>2, <1>3, <1>4, <1>5
     DEF phases, deliveries, leavers, Contract!Begin, Contract!Refuse

LEMMA ResolveBinds ==
    ASSUME TypeOK, TypeOK', Shapes, StoreAgrees, NEW r \in Requests,
           ResolveScenario(r)
    PROVE  Contract!Bind(r, req[r].model) /\ req[r].model \in Models
<1>1. /\ intended' = intended
      /\ phases' = [phases EXCEPT ![r] = PhaseOf(r)']
  BY Framing DEF StepOf, HandlerStep
<1>2. handler[r] = "resolve" /\ UNCHANGED <<client, wire>>
  BY DEF ResolveScenario
<1>3. phases[r] = "accepted"
  BY <1>2 DEF phases, PhaseOf
<1>4. req[r].model \in Models
  <2>1. req[r] \in Request
    BY ChatAssumption DEF TypeOK
  <2> QED
    BY <2>1 DEF Request
<1>5. PhaseOf(r)' = "bound"
  <2>1. \E h \in {"latency", "answer"} : handler' = [handler EXCEPT ![r] = h]
    BY DEF ResolveScenario
  <2>2. handler'[r] \in {"latency", "answer"}
    BY <2>1 DEF TypeOK
  <2> QED
    BY <2>2 DEF PhaseOf
<1>6. sc' = [sc EXCEPT ![r] = intended[req[r].model]]
  BY <1>4 DEF ResolveScenario, StoreAgrees
<1>7. deliveries' = deliveries /\ leavers' = leavers
  BY <1>2 DEF deliveries, leavers, Delivered
<1> QED
  BY <1>1, <1>3, <1>4, <1>5, <1>6, <1>7
     DEF phases, deliveries, leavers, Contract!Bind

LEMMA ErrorFails ==
    ASSUME TypeOK, TypeOK', Shapes, NEW r \in Requests, Voiced(r), AnswerError(r)
    PROVE  Contract!Fail(r)
<1>1. /\ intended' = intended
      /\ phases' = [phases EXCEPT ![r] = PhaseOf(r)']
  BY Framing DEF StepOf, HandlerStep
<1>2. /\ handler[r] = "answer" /\ sc[r].error # NoError
      /\ UNCHANGED <<req, sc, client, wire>>
  BY DEF AnswerError
<1>3. phases[r] = "bound" /\ sc[r] \in failures
  BY <1>2, ReplyOf DEF phases, PhaseOf
<1>4. PhaseOf(r)' = "failed"
  <2>1. handler'[r] = "done"
    BY DEF AnswerError, TypeOK
  <2>2. req'[r].valid /\ sc'[r].error # NoError
    BY <1>2 DEF Voiced, SpokenInStep
  <2> QED
    BY <2>1, <2>2 DEF PhaseOf, EndPhase
<1>5. deliveries' = deliveries /\ leavers' = leavers
  BY <1>2 DEF deliveries, leavers, Delivered
<1> QED
  BY <1>1, <1>2, <1>3, <1>4, <1>5
     DEF phases, deliveries, leavers, failures, Contract!Fail

LEMMA WholeDelivers ==
    ASSUME TypeOK, TypeOK', Shapes, NEW r \in Requests, Voiced(r), AnswerWhole(r)
    PROVE  Contract!DeliverAll(r)
<1> DEFINE n == WordCount[ReplyText(sc[r])]
<1>1. /\ intended' = intended
      /\ phases' = [phases EXCEPT ![r] = PhaseOf(r)']
      /\ deliveries' = [deliveries EXCEPT ![r] = Delivered(r)']
  BY Framing DEF StepOf, HandlerStep
<1>2. /\ handler[r] = "answer" /\ sc[r].error = NoError
      /\ UNCHANGED <<req, sc, client>>
  BY DEF AnswerWhole
<1>3. phases[r] = "bound" /\ sc[r] \notin failures /\ lengths[sc[r]] = n
  BY <1>2, ReplyOf DEF phases, PhaseOf
<1>4. deliveries[r] = 0 /\ Delivered(r)' = n
  <2>1. wire[r] = <<>> /\ Spoken(wire'[r]) = WordsOf(ReplyText(sc[r]))
    BY <1>2, VoicedWhole DEF Voiced, SpokenInStep
  <2>2. Len(WordsOf(ReplyText(sc[r]))) = n
    BY ReplyOf
  <2>3. Len(Spoken(<<>>)) = 0
    BY NothingSpoken
  <2> QED
    BY <2>1, <2>2, <2>3 DEF deliveries, Delivered
<1>5. PhaseOf(r)' = "complete"
  <2>1. handler'[r] = "done"
    BY DEF AnswerWhole, TypeOK
  <2>2. req'[r].valid /\ sc'[r].error = NoError
    BY <1>2 DEF Voiced, SpokenInStep
  <2>3. ReplyLength(sc[r])' = n
    BY <1>2 DEF ReplyLength
  <2> QED
    BY <1>4, <2>1, <2>2, <2>3 DEF PhaseOf, EndPhase
<1>6. leavers' = leavers
  BY <1>2 DEF leavers
<1> QED
  BY <1>1, <1>2, <1>3, <1>4, <1>5, <1>6
     DEF phases, deliveries, leavers, failures, lengths, Contract!DeliverAll

\* Writing a word delivers it; writing the final chunk delivers nothing.
LEMMA ChunkDelivers ==
    ASSUME TypeOK, TypeOK', Shapes, NEW r \in Requests, Voiced(r), WriteChunk(r)
    PROVE  Contract!Deliver(r) \/ UNCHANGED Contract!vars
<1> DEFINE t == ReplyText(sc[r])
           n == WordCount[t]
<1>1. /\ intended' = intended
      /\ phases' = [phases EXCEPT ![r] = PhaseOf(r)']
      /\ deliveries' = [deliveries EXCEPT ![r] = Delivered(r)']
  BY Framing DEF StepOf, HandlerStep
<1>2. /\ handler[r] = "write" /\ handler'[r] = "range"
      /\ UNCHANGED <<req, sc, client, producer, next>>
  BY DEF WriteChunk, AfterWrite, TypeOK
<1>3. /\ n \in Nat /\ lengths[sc[r]] = n
      /\ \A k \in 0..n : Len(SubSeq(WordsOf(t), 1, k)) = k
      /\ sc[r] \in failures <=> sc[r].error # NoError
  BY ReplyOf
<1>4. /\ sc[r].error = NoError /\ next[r] \in 1..(n + 1)
      /\ \/ next[r] = n + 1 /\ Spoken(wire[r]) = SubSeq(WordsOf(t), 1, n)
         \/ next[r] > 1 /\ Spoken(wire[r]) = SubSeq(WordsOf(t), 1, next[r] - 2)
  BY <1>2 DEF Voiced, SpokenInStep
<1>5. Spoken(wire'[r]) = SubSeq(WordsOf(t), 1, next[r] - 1)
  <2>1. SpokenInStep(r)'
    BY VoicedWritten DEF Voiced
  <2> QED
    BY <1>2, <2>1 DEF SpokenInStep
<1> HIDE DEF t, n
<1>6. /\ Delivered(r)' = next[r] - 1
      /\ \/ next[r] = n + 1 /\ Delivered(r) = n
         \/ next[r] > 1 /\ Delivered(r) = next[r] - 2
  <2>1. /\ next[r] - 1 \in 0..n /\ n \in 0..n
        /\ next[r] > 1 => next[r] - 2 \in 0..n
    BY <1>3, <1>4
  <2> QED
    BY <1>3, <1>4, <1>5, <2>1 DEF Delivered
<1>7. PhaseOf(r) = "bound" /\ PhaseOf(r)' = "bound"
  BY <1>2 DEF PhaseOf
<1>8. CASE next[r] = n + 1 /\ Delivered(r) = n
  <2>1. Delivered(r)' = Delivered(r)
    BY <1>3, <1>6, <1>8
  <2> QED
    BY <1>2, <1>7, <2>1, Stutters DEF StepOf, HandlerStep
<1>9. CASE next[r] > 1 /\ Delivered(r) = next[r] - 2
  <2>1. Delivered(r)' = Delivered(r) + 1 /\ Delivered(r) < n
    BY <1>3, <1>4, <1>6, <1>9
  <2>2. phases' = phases /\ phases[r] = "bound"
    BY <1>1, <1>7 DEF phases
  <2>3. leavers' = leavers
    BY <1>2 DEF leavers
  <2>4. deliveries[r] = Delivered(r)
    BY DEF deliveries
  <2>5. sc[r] \notin failures
    BY <1>3, <1>4
  <2> QED
    BY <1>1, <1>2, <1>3, <2>1, <2>2, <2>3, <2>4, <2>5
       DEF phases, deliveries, leavers, failures, lengths, Contract!Deliver
<1> QED
  BY <1>6, <1>8, <1>9

\* A stream that ends is complete, or cut short because its client has left.
LEMMA FinishEnds ==
    ASSUME TypeOK, TypeOK', Shapes, NEW r \in Requests, Sound(r), Voiced(r),
           FinishStream(r)
    PROVE  Contract!Complete(r) \/ Contract!CutShort(r)
<1> DEFINE t == ReplyText(sc[r])
           n == WordCount[t]
<1>1. /\ intended' = intended
      /\ phases' = [phases EXCEPT ![r] = PhaseOf(r)']
  BY Framing DEF StepOf, HandlerStep
<1>2. /\ handler[r] = "range" /\ producer[r] = "closed" /\ handler'[r] = "done"
      /\ UNCHANGED <<req, sc, client, producer, next>>
  BY DEF FinishStream, StreamEnded, TypeOK
<1>3. /\ n \in Nat /\ lengths[sc[r]] = n
      /\ \A k \in 0..n : Len(SubSeq(WordsOf(t), 1, k)) = k
      /\ sc[r] \in failures <=> sc[r].error # NoError
  BY ReplyOf
<1>4. /\ sc[r].error = NoError /\ next[r] \in 1..(n + 1) /\ req[r].valid
      /\ Spoken(wire[r]) = SubSeq(WordsOf(t), 1, next[r] - 1)
  BY <1>2 DEF Voiced, SpokenInStep
<1>5. client[r] # "gone" => next[r] = n + 1
  BY <1>2 DEF Sound, WireInStep, Streaming
<1>6. Delivered(r)' = Delivered(r)
  BY VoicedFinished DEF Delivered
<1>a. ReplyLength(sc[r])' = n
  BY <1>2 DEF ReplyLength
<1> HIDE DEF t, n
<1>7. Delivered(r) = next[r] - 1
  <2>1. next[r] - 1 \in 0..n
    BY <1>3, <1>4
  <2> QED
    BY <1>3, <1>4, <2>1 DEF Delivered
<1>8. PhaseOf(r)' = IF Delivered(r) = n THEN "complete" ELSE "cut"
  BY <1>2, <1>4, <1>6, <1>a DEF PhaseOf, EndPhase
<1>9. phases[r] = "bound" /\ deliveries[r] = Delivered(r)
  BY <1>2 DEF phases, deliveries, PhaseOf
<1>10. sc[r] \notin failures
  BY <1>3, <1>4
<1>11. leavers' = leavers /\ deliveries' = deliveries
  <2>1. deliveries' = [deliveries EXCEPT ![r] = Delivered(r)']
    BY Framing DEF StepOf, HandlerStep
  <2> QED
    BY <1>2, <1>6, <2>1 DEF leavers, deliveries
<1>12. CASE Delivered(r) = n
  BY <1>1, <1>2, <1>3, <1>8, <1>9, <1>10, <1>11, <1>12
     DEF phases, deliveries, leavers, failures, lengths, Contract!Complete
<1>13. CASE Delivered(r) # n
  <2>1. Delivered(r) < n
    BY <1>3, <1>4, <1>7, <1>13
  <2>2. leavers[r]
    <3>1. client[r] = "gone"
      BY <1>3, <1>5, <1>7, <1>13
    <3> QED
      BY <3>1 DEF leavers
  <2> QED
    BY <1>1, <1>2, <1>3, <1>8, <1>9, <1>11, <1>13, <2>1, <2>2
       DEF phases, deliveries, leavers, lengths, Contract!CutShort
<1> QED
  BY <1>12, <1>13

LEMMA ClientLeaves ==
    ASSUME TypeOK, TypeOK', Shapes, NEW r \in Requests, ClientStep(r)
    PROVE  Contract!Leave(r) \/ UNCHANGED Contract!vars
<1>1. /\ handler[r] \notin {"idle", "done"} /\ client[r] # "gone"
      /\ UNCHANGED <<handler, req, sc, wire, status>>
  BY DEF ClientStep, Stall, Resume, Disconnect, ClientBecomes, Active
<1>2. PhaseOf(r)' = PhaseOf(r) /\ Delivered(r)' = Delivered(r)
  BY <1>1 DEF PhaseOf, EndPhase, Delivered
<1>3. CASE client'[r] # "gone"
  BY <1>1, <1>2, <1>3, Stutters DEF StepOf
<1>4. CASE client'[r] = "gone"
  <2>1. /\ intended' = intended
        /\ phases' = [phases EXCEPT ![r] = PhaseOf(r)']
        /\ deliveries' = [deliveries EXCEPT ![r] = Delivered(r)']
        /\ leavers' = [leavers EXCEPT ![r] = client'[r] = "gone"]
    BY Framing DEF StepOf
  <2>2. phases' = phases /\ deliveries' = deliveries
    BY <1>2, <2>1 DEF phases, deliveries
  <2>3. phases[r] \in {"accepted", "bound"}
    BY <1>1 DEF phases, PhaseOf
  <2>4. leavers' = [leavers EXCEPT ![r] = TRUE]
    BY <1>4, <2>1
  <2> QED
    BY <1>1, <2>1, <2>2, <2>3, <2>4
       DEF phases, deliveries, leavers, Contract!Leave
<1> QED
  BY <1>3, <1>4

\* What the contract does not see: a handler that sleeps, starts a producer or
\* sends its header, and all that passes between the two goroutines.
LEMMA QuietSteps ==
    ASSUME TypeOK, TypeOK', Shapes, NEW r \in Requests, Sound(r), Voiced(r),
           \/ Wake(r) \/ StartStream(r) \/ Open(r) \/ ProducerStep(r) \/ HandOver(r)
    PROVE  UNCHANGED Contract!vars
<1>1. UNCHANGED <<sc, client>>
  BY DEF Wake, StartStream, Open, ProducerStep, ProducerCheck, ProducerPace,
         HandOver, HandOverWord, HandOverFinal
<1>2. PhaseOf(r)' = PhaseOf(r)
  <2>1. CASE Wake(r) \/ StartStream(r) \/ Open(r) \/ HandOver(r)
    <3>1. handler[r] \in {"latency", "answer", "open", "range"}
      BY <2>1 DEF Wake, StartStream, Open, HandOver, HandOverWord, HandOverFinal
    <3>2. handler'[r] \in {"answer", "open", "range", "write"}
      BY <2>1, NeverRefused
         DEF Wake, StartStream, Open, HandOver, HandOverWord, HandOverFinal, TypeOK
    <3> QED
      BY <3>1, <3>2 DEF PhaseOf
  <2>2. CASE ProducerStep(r)
    BY <2>2 DEF ProducerStep, ProducerCheck, ProducerPace, PhaseOf, EndPhase,
                Delivered
  <2> QED
    BY <2>1, <2>2
<1>3. Delivered(r)' = Delivered(r)
  <2>1. CASE Open(r)
    <3>1. /\ handler[r] = "open" /\ wire'[r] = Opening(req[r].surface)
      BY <2>1, NeverRefused DEF Open, Shapes
    <3>2. wire[r] = <<>>
      BY <3>1 DEF Voiced, SpokenInStep
    <3>3. Spoken(Opening(req[r].surface)) = <<>>
      BY SurfaceKnown, OpeningSilent
    <3> QED
      BY <3>1, <3>2, <3>3, NothingSpoken DEF Delivered
  <2>2. CASE ~Open(r)
    BY <2>2 DEF Wake, StartStream, ProducerStep, ProducerCheck, ProducerPace,
                HandOver, HandOverWord, HandOverFinal, Delivered
  <2> QED
    BY <2>1, <2>2
<1> QED
  BY <1>1, <1>2, <1>3, Stutters DEF StepOf, HandlerStep

\* A PUT for a model's chat installs its scenario; any other changes nothing here.
LEMMA AdminInstalls ==
    ASSUME TypeOK, NEW m \in Models, NEW op \in Operations, NEW s \in PutScenarios,
           AdminPut(m, op, s)
    PROVE  Contract!Install(m, s) \/ UNCHANGED Contract!vars
<1>1. UNCHANGED <<handler, req, sc, client, wire, status>>
  BY DEF AdminPut
<1>2. phases' = phases /\ deliveries' = deliveries /\ leavers' = leavers
  BY <1>1 DEF phases, deliveries, leavers, PhaseOf, EndPhase, Delivered
<1>3. intended' = [intended EXCEPT ![m] = s] \/ intended' = intended
  BY DEF AdminPut
<1> QED
  BY <1>1, <1>2, <1>3
     DEF phases, deliveries, leavers, Contract!Install, Contract!vars

\* Goroutines, channel and wire formats together implement the contract.
THEOREM ContractImplemented == Spec => ImplementsContract
<1> DEFINE Inv == TypeOK /\ HandlerAndProducer /\ LateProducer /\ StoreAgrees
                  /\ RequestInForce /\ WireInv /\ VoiceInv
<1>1. Spec => []Inv
  <2>1. Init => VoiceInv
    BY InitVoiced DEF VoiceInv
  <2> QED
    BY <2>1, InitType, NextType, InitProcesses, NextProcesses, InitInForce,
       NextInForce, InitWire, NextWire, NextVoiced, PTL DEF Spec
<1>2. Init => Contract!Init
  <2> SUFFICES ASSUME Init  PROVE Contract!Init
    OBVIOUS
  <2>1. intended \in [Models -> Scenario] /\ sc \in [Requests -> Scenario]
    BY InitType DEF TypeOK
  <2>2. phases = [r \in Requests |-> "new"]
    BY DEF Init, phases, PhaseOf
  <2>3. deliveries = [r \in Requests |-> 0]
    <3>1. Len(Spoken(<<>>)) = 0
      BY NothingSpoken
    <3> QED
      BY <3>1 DEF Init, deliveries, Delivered
  <2>4. leavers = [r \in Requests |-> FALSE]
    BY DEF Init, leavers
  <2> QED
    BY <2>1, <2>2, <2>3, <2>4 DEF phases, deliveries, leavers, Contract!Init
<1>3. Inv /\ [Next]_vars => [Contract!Next]_(Contract!vars)
  <2> SUFFICES ASSUME Inv, [Next]_vars
               PROVE  Contract!Next \/ UNCHANGED Contract!vars
    OBVIOUS
  <2>0. TypeOK' /\ Shapes /\ \A r \in Requests : Sound(r) /\ Voiced(r)
    BY NextType, WireInvParts DEF VoiceInv
  <2>1. ASSUME NEW m \in Models, NEW op \in Operations, NEW s \in PutScenarios,
               AdminPut(m, op, s)
        PROVE  Contract!Next \/ UNCHANGED Contract!vars
    <3>1. s \in Scenario
      BY ChatAssumption
    <3> QED
      BY <2>1, <3>1, AdminInstalls DEF Contract!Next
  <2>2. ASSUME NEW r \in Requests, Arrive(r)
        PROVE  Contract!Next
    BY <2>0, <2>2, ArriveBegins DEF Contract!Next
  <2>3. ASSUME NEW r \in Requests, HandlerStep(r)
        PROVE  Contract!Next \/ UNCHANGED Contract!vars
    <3>1. CASE ResolveScenario(r)
      BY <2>0, <3>1, ResolveBinds DEF Contract!Next
    <3>2. CASE AnswerError(r)
      BY <2>0, <3>2, ErrorFails DEF Contract!Next
    <3>3. CASE AnswerWhole(r)
      BY <2>0, <3>3, WholeDelivers DEF Contract!Next
    <3>4. CASE WriteChunk(r)
      BY <2>0, <3>4, ChunkDelivers DEF Contract!Next
    <3>5. CASE FinishStream(r)
      BY <2>0, <3>5, FinishEnds DEF Contract!Next
    <3>6. CASE Wake(r) \/ StartStream(r) \/ Open(r)
      BY <2>0, <3>6, QuietSteps
    <3> QED
      BY <2>3, <3>1, <3>2, <3>3, <3>4, <3>5, <3>6 DEF HandlerStep
  <2>4. ASSUME NEW r \in Requests, ProducerStep(r) \/ HandOver(r)
        PROVE  UNCHANGED Contract!vars
    BY <2>0, <2>4, QuietSteps
  <2>5. ASSUME NEW r \in Requests, ClientStep(r)
        PROVE  Contract!Next \/ UNCHANGED Contract!vars
    BY <2>0, <2>5, ClientLeaves DEF Contract!Next
  <2>6. ASSUME UNCHANGED vars  PROVE UNCHANGED Contract!vars
    BY <2>6 DEF vars, requestVars, Contract!vars, PhaseOf, EndPhase, Delivered
  <2> QED
    BY <2>1, <2>2, <2>3, <2>4, <2>5, <2>6 DEF Next, Idle
<1> QED
  BY <1>1, <1>2, <1>3, PTL DEF Spec, ImplementsContract, Contract!Spec
=============================================================================
