---------------------------- MODULE OneShotProofs ----------------------------
(***************************************************************************)
(* Proofs about OneShot: a one-shot request is answered by a scenario in   *)
(* force for its own operation.  The inductive invariant is OneShotInv.    *)
(***************************************************************************)
EXTENDS OneShot, ScenarioStoreProofs

\* What Resolve returns is a scenario.
LEMMA ResolveType ==
    ASSUME StoreTypeOK, NEW m \in Models, NEW op \in OneShotOps
    PROVE  Resolve(m, op) \in Scenario
BY DEF StoreTypeOK, Resolve, Scenario, Benign

\* A request that is not refused asks for a model.
LEMMA AskedModelType ==
    ASSUME NEW q \in Request, ~Refused(q)
    PROVE  AskedModel(q) \in Models /\ q.op \in OneShotOps
BY OneShotAssumption DEF Request, Refused, AskedModel

LEMMA InitInv == Init => OneShotInv
<1> SUFFICES ASSUME Init PROVE OneShotInv
  OBVIOUS
<1>1. StoreTypeOK
  <2>1. PICK entries \in SeedFiles : scenarios = LoadFile(entries)
    BY DEF Init
  <2>2. entries \in Seq(SeedEntry)
    BY OneShotAssumption
  <2> QED
    BY <2>1, <2>2, LoadFileType DEF StoreTypeOK
<1>2. intended \in [Models \X OneShotOps -> Scenario]
  BY <1>1, ResolveType DEF Init
<1>3. Benign \in Scenario
  BY DEF Benign, Scenario
<1>4. TypeOK
  BY <1>1, <1>2, <1>3, OneShotAssumption DEF Init, TypeOK
<1>5. StoreAgrees
  BY DEF Init, StoreAgrees
<1>6. RequestInForce /\ AnswerFollowsScenario
  BY DEF Init, RequestInForce, AnswerFollowsScenario
<1> QED
  BY <1>4, <1>5, <1>6 DEF OneShotInv

\* A PUT changes the one entry it names, in the store and in the admin's mind.
LEMMA AdminPutInv ==
    ASSUME OneShotInv, NEW m \in Models, NEW op \in Operations,
           NEW s \in PutScenarios, AdminPut(m, op, s)
    PROVE  OneShotInv'
<1>0. TypeOK /\ StoreAgrees /\ RequestInForce /\ AnswerFollowsScenario
  BY DEF OneShotInv
<1>1. s \in Scenario
  BY OneShotAssumption
<1>2. Put(AdminKey(m, op), s)
  BY DEF AdminPut
<1>3. StoreTypeOK'
  BY <1>0, <1>1, <1>2, PutType, AdminKeyInKeys DEF TypeOK
<1>4. intended' \in [Models \X OneShotOps -> Scenario]
  BY <1>0, <1>1 DEF AdminPut, TypeOK
<1>5. inForce' \in [Requests -> SUBSET Scenario]
  BY <1>0, <1>1 DEF AdminPut, TypeOK
<1>6. TypeOK'
  BY <1>0, <1>3, <1>4, <1>5, OneShotAssumption DEF AdminPut, TypeOK
<1>7. StoreAgrees'
  <2> SUFFICES ASSUME NEW n \in Models, NEW o \in OneShotOps
               PROVE  Resolve(n, o)' = intended'[<<n, o>>]
    BY DEF StoreAgrees
  <2>1. Resolve(n, o)' = IF op = o /\ n = m THEN s ELSE Resolve(n, o)
    BY <1>2, PutAgreesNamed, OneShotAssumption
  <2>2. intended'[<<n, o>>] = IF op = o /\ n = m THEN s ELSE intended[<<n, o>>]
    BY <1>0 DEF AdminPut, TypeOK
  <2> QED
    BY <1>0, <2>1, <2>2 DEF StoreAgrees
<1>8. RequestInForce'
  <2> SUFFICES ASSUME NEW r \in Requests
               PROVE  /\ handler[r] = "resolve" =>
                            intended'[<<AskedModel(req[r]), req[r].op>>] \in inForce'[r]
                      /\ handler[r] = "reply" => sc[r] \in inForce'[r]
                      /\ handler[r] \in {"resolve", "reply"} => ~Refused(req[r])
    BY DEF RequestInForce, AdminPut
  <2>1. inForce[r] \subseteq inForce'[r]
    BY <1>0 DEF AdminPut, TypeOK
  <2>2. CASE handler[r] = "resolve"
    <3>1. ~Refused(req[r]) /\ req[r] \in Request
      BY <1>0, <2>2, OneShotAssumption DEF RequestInForce, TypeOK
    <3>2. AskedModel(req[r]) \in Models /\ req[r].op \in OneShotOps
      BY <3>1, AskedModelType
    <3> DEFINE k == <<AskedModel(req[r]), req[r].op>>
    <3>3. CASE op = req[r].op /\ m = AskedModel(req[r])
      <4>1. intended'[k] = s
        BY <1>0, <3>2, <3>3 DEF AdminPut, TypeOK
      <4>2. s \in inForce'[r]
        BY <1>0, <2>2, <3>3 DEF AdminPut, TypeOK
      <4> QED
        BY <2>2, <3>1, <4>1, <4>2
    <3>4. CASE ~(op = req[r].op /\ m = AskedModel(req[r]))
      <4>1. intended'[k] = intended[k]
        BY <1>0, <3>2, <3>4 DEF AdminPut, TypeOK
      <4> QED
        BY <1>0, <2>1, <2>2, <3>1, <4>1 DEF RequestInForce
    <3> QED
      BY <3>3, <3>4
  <2>3. CASE handler[r] # "resolve"
    BY <1>0, <2>1, <2>3 DEF RequestInForce
  <2> QED
    BY <2>2, <2>3
<1>9. AnswerFollowsScenario'
  <2>1. \A r \in Requests : inForce[r] \subseteq inForce'[r]
    BY <1>0 DEF AdminPut, TypeOK
  <2>2. UNCHANGED <<handler, req, status>>
    BY DEF AdminPut
  <2> QED
    BY <1>0, <2>1, <2>2 DEF AnswerFollowsScenario
<1> QED
  BY <1>6, <1>7, <1>8, <1>9 DEF OneShotInv

\* A request's own steps leave the store alone.
LEMMA RequestInv ==
    ASSUME OneShotInv, NEW r \in Requests,
           Arrive(r) \/ ResolveScenario(r) \/ Reply(r)
    PROVE  OneShotInv'
<1>0. TypeOK /\ StoreAgrees /\ RequestInForce /\ AnswerFollowsScenario
  BY DEF OneShotInv
<1>1. UNCHANGED <<scenarios, intended, puts, now, req, took>>
  BY DEF Arrive, ResolveScenario, Reply
<1>2. StoreTypeOK' /\ StoreAgrees'
  BY <1>0, <1>1 DEF TypeOK, StoreTypeOK, StoreAgrees, Resolve
<1>3. req[r] \in Request
  BY <1>0, OneShotAssumption DEF TypeOK
<1>4. CASE Arrive(r) /\ Refused(req[r])
  <2>1. /\ status' = [status EXCEPT ![r] = 400]
        /\ handler' = [handler EXCEPT ![r] = "done"]
        /\ UNCHANGED <<inForce, sc>>
    BY <1>4 DEF Arrive
  <2>2. TypeOK'
    BY <1>0, <1>1, <1>2, <2>1 DEF TypeOK
  <2>3. RequestInForce'
    BY <1>0, <1>1, <2>1 DEF TypeOK, RequestInForce
  <2>4. ~(req[r].complete /\ (req[r].op = "image" \/ req[r].model # NoModel))
    BY <1>4, OneShotAssumption DEF Refused, AskedModel
  <2>5. AnswerFollowsScenario'
    BY <1>0, <1>1, <2>1, <2>4 DEF TypeOK, AnswerFollowsScenario
  <2> QED
    BY <1>2, <2>2, <2>3, <2>5 DEF OneShotInv
<1>5. CASE Arrive(r) /\ ~Refused(req[r])
  <2> DEFINE k == <<AskedModel(req[r]), req[r].op>>
  <2>1. /\ handler' = [handler EXCEPT ![r] = "resolve"]
        /\ inForce' = [inForce EXCEPT ![r] = {intended[k]}]
        /\ handler[r] = "idle"
        /\ UNCHANGED <<status, sc>>
    BY <1>5 DEF Arrive
  <2>2. intended[k] \in Scenario
    BY <1>0, <1>3, <1>5, AskedModelType DEF TypeOK
  <2> HIDE DEF k
  <2>3. TypeOK'
    BY <1>0, <1>1, <1>2, <2>1, <2>2 DEF TypeOK
  <2>4. ASSUME NEW q \in Requests, q # r
        PROVE  inForce'[q] = inForce[q] /\ handler'[q] = handler[q]
    BY <1>0, <2>1, <2>4 DEF TypeOK
  <2>5. inForce'[r] = {intended[k]} /\ handler'[r] = "resolve"
    BY <1>0, <2>1 DEF TypeOK
  <2>6. RequestInForce'
    BY <1>0, <1>1, <1>5, <2>1, <2>4, <2>5 DEF RequestInForce, k
  <2>7. AnswerFollowsScenario'
    BY <1>0, <1>1, <2>1, <2>4, <2>5 DEF AnswerFollowsScenario
  <2> QED
    BY <1>2, <2>3, <2>6, <2>7 DEF OneShotInv
<1>6. CASE ResolveScenario(r)
  <2> DEFINE s == Resolve(AskedModel(req[r]), AskedOp(req[r]))
  <2>1. /\ sc' = [sc EXCEPT ![r] = s]
        /\ handler' = [handler EXCEPT ![r] = "reply"]
        /\ handler[r] = "resolve"
        /\ UNCHANGED <<status, inForce>>
    BY <1>6 DEF ResolveScenario
  <2>2. ~Refused(req[r])
    BY <1>0, <2>1 DEF RequestInForce
  <2>3. AskedModel(req[r]) \in Models /\ req[r].op \in OneShotOps
    BY <1>3, <2>2, AskedModelType
  <2>4. s \in Scenario /\ s \in inForce[r]
    BY <1>0, <2>1, <2>3, ResolveType
       DEF RequestInForce, StoreAgrees, AskedOp, TypeOK
  <2> HIDE DEF s
  <2>5. TypeOK'
    BY <1>0, <1>1, <1>2, <2>1, <2>4 DEF TypeOK
  <2>6. RequestInForce'
    BY <1>0, <1>1, <2>1, <2>2, <2>4 DEF TypeOK, RequestInForce
  <2>7. AnswerFollowsScenario'
    BY <1>0, <1>1, <2>1 DEF TypeOK, AnswerFollowsScenario
  <2> QED
    BY <1>2, <2>5, <2>6, <2>7 DEF OneShotInv
<1>7. CASE Reply(r)
  <2>1. /\ status' = [status EXCEPT ![r] = StatusFor(sc[r])]
        /\ handler' = [handler EXCEPT ![r] = "done"]
        /\ handler[r] = "reply"
        /\ UNCHANGED <<sc, inForce>>
    BY <1>7 DEF Reply
  <2>2. StatusFor(sc[r]) \in {0, 200, 400} \cup {ErrorStatus(c) : c \in ErrorCodes}
    <3>1. sc[r] \in Scenario
      BY <1>0 DEF TypeOK
    <3> QED
      BY <3>1 DEF StatusFor, Scenario
  <2>3. TypeOK'
    BY <1>0, <1>1, <1>2, <2>1, <2>2 DEF TypeOK
  <2>4. RequestInForce'
    BY <1>0, <1>1, <2>1 DEF TypeOK, RequestInForce
  <2>5. sc[r] \in inForce[r] /\ ~Refused(req[r])
    BY <1>0, <2>1 DEF RequestInForce
  <2>6. req[r].complete /\ (req[r].op = "image" \/ req[r].model # NoModel)
    BY <2>5 DEF Refused, AskedModel
  <2>7. AnswerFollowsScenario'
    BY <1>0, <1>1, <2>1, <2>5, <2>6 DEF TypeOK, AnswerFollowsScenario
  <2> QED
    BY <1>2, <2>3, <2>4, <2>7 DEF OneShotInv
<1> QED
  BY <1>4, <1>5, <1>6, <1>7

LEMMA NextInv ==
    ASSUME OneShotInv, [Next]_vars
    PROVE  OneShotInv'
<1>1. CASE UNCHANGED vars
  BY <1>1 DEF vars, OneShotInv, TypeOK, StoreTypeOK, StoreAgrees, Resolve,
              RequestInForce, AnswerFollowsScenario
<1>2. CASE Tick
  <2>1. took' \in [Requests -> Nat] /\ now' \in 0..MaxTime
    BY <1>2, OneShotAssumption DEF Tick, OneShotInv, TypeOK
  <2>2. UNCHANGED <<scenarios, puts, handler, req, sc, status, intended, inForce>>
    BY <1>2 DEF Tick
  <2> QED
    BY <2>1, <2>2 DEF OneShotInv, TypeOK, StoreTypeOK, StoreAgrees, Resolve,
                      RequestInForce, AnswerFollowsScenario
<1> QED
  BY <1>1, <1>2, AdminPutInv, RequestInv DEF Next, Idle

\* OneShotInv holds in every state, for any requests, models and PUTs.
THEOREM OneShotInvariant == Spec => []OneShotInv
<1>1. OneShotInv /\ [Next]_vars => OneShotInv'
  BY NextInv
<1> QED
  BY InitInv, <1>1, PTL DEF Spec

\* A one-shot request is answered by a scenario that was in force for its own
\* operation and model (embedding.go:27-33, image.go:29-35, audio.go:62-84).
THEOREM AnswersFollow == Spec => []AnswerFollowsScenario
<1>1. OneShotInv => AnswerFollowsScenario
  BY DEF OneShotInv
<1> QED
  BY <1>1, OneShotInvariant, PTL

\* Types: the store and every request hold scenarios, statuses are those the
\* scenarios can ask for.
THEOREM OneShotTypes == Spec => []TypeOK
<1>1. OneShotInv => TypeOK
  BY DEF OneShotInv
<1> QED
  BY <1>1, OneShotInvariant, PTL
=============================================================================
