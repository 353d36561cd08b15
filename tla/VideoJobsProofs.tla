--------------------------- MODULE VideoJobsProofs ---------------------------
(***************************************************************************)
(* The guarantees of the video job map, for any number of creates, admin   *)
(* changes and restarts.                                                   *)
(***************************************************************************)
EXTENDS VideoJobs, ScenarioStoreProofs

LEMMA JobOfType ==
    ASSUME NEW a \in Asks
    PROVE  JobOf(a) \in Job
<1>1. a \in Ask
  BY VideoAssumption
<1>2. "4" \in Lengths
  BY DEF Lengths
<1> QED
  BY <1>1, <1>2 DEF Ask, Job, JobOf

LEMMA InitVideoInv == Init => VideoInv
<1> SUFFICES ASSUME Init  PROVE VideoInv
  OBVIOUS
<1>1. TypeOK
  <2>1. MaxRestarts \in Nat
    BY VideoAssumption
  <2> QED
    BY <2>1, LoadNothing DEF Init, TypeOK, StoreTypeOK, PCs, NoPoll
<1>2. Allocation /\ Alive
  BY DEF Init, Allocation, Alive, Current
<1> QED
  BY <1>1, <1>2 DEF VideoInv

LEMMA NextVideoInv == VideoInv /\ [Next]_vars => VideoInv'
<1> SUFFICES ASSUME VideoInv, [Next]_vars  PROVE VideoInv'
  OBVIOUS
<1>0. /\ StoreTypeOK
      /\ nextID \in Nat
      /\ DOMAIN jobs \subseteq 1..nextID
      /\ \A i \in DOMAIN jobs : jobs[i] \in Job
      /\ epoch \in 0..MaxRestarts
      /\ ask \in [Creates -> Asks]
      /\ pc \in [Creates -> PCs]
      /\ id \in [Creates -> Nat]
      /\ born \in [Creates -> 0..MaxRestarts]
      /\ poll \in [Creates -> [at : 0..MaxRestarts, found : BOOLEAN]]
      /\ MaxRestarts \in Nat
  BY VideoAssumption DEF VideoInv, TypeOK
<1>a. Allocation /\ Alive
  BY DEF VideoInv
<1>b. ASSUME UNCHANGED scenarios  PROVE StoreTypeOK'
  BY <1>0, <1>b DEF StoreTypeOK
\* Steps of the handler of c that touch neither the ids nor the map.
<1>c. ASSUME NEW c \in Creates, NEW p \in PCs \ {"insert"},
             pc' = [pc EXCEPT ![c] = p],
             p = "reply" => FALSE,
             p = "told" => pc[c] = "reply",
             UNCHANGED <<scenarios, nextID, jobs, epoch, ask, id, born, poll>>
      PROVE  VideoInv'
  <2>1. TypeOK'
    BY <1>0, <1>b, <1>c DEF TypeOK
  <2>2. Allocation' /\ Alive'
    BY <1>0, <1>a, <1>c DEF Allocation, Alive, Current
  <2> QED
    BY <2>1, <2>2 DEF VideoInv
<1>1. ASSUME NEW m \in Models, NEW s \in VideoScenarios, AdminPut(m, s)
      PROVE  VideoInv'
  <2>1. StoreTypeOK'
    <3>1. AdminKey(m, "video") \in Keys
      BY AdminKeyInKeys, VideoAssumption DEF Operations
    <3>2. s \in Scenario
      BY VideoAssumption
    <3>3. Put(AdminKey(m, "video"), s)
      BY <1>1 DEF AdminPut
    <3> QED
      BY <1>0, <3>1, <3>2, <3>3, PutType
  <2>2. UNCHANGED <<nextID, jobs, epoch, ask, pc, id, born, poll>>
    BY <1>1 DEF AdminPut, requestVars
  <2>3. TypeOK'
    BY <1>0, <2>1, <2>2 DEF TypeOK
  <2>4. Allocation' /\ Alive'
    BY <1>a, <2>2 DEF Allocation, Alive, Current
  <2> QED
    BY <2>3, <2>4 DEF VideoInv
<1>2. ASSUME NEW c \in Creates, Submit(c)  PROVE VideoInv'
  BY <1>2, <1>c DEF Submit, PCs
<1>3. ASSUME NEW c \in Creates, ResolveScenario(c)  PROVE VideoInv'
  BY <1>3, <1>c DEF ResolveScenario, PCs
<1>4. ASSUME NEW c \in Creates, Allocate(c)  PROVE VideoInv'
  <2>1. /\ pc[c] = "allocate"
        /\ id' = [id EXCEPT ![c] = nextID + 1]
        /\ nextID' = nextID + 1
        /\ born' = [born EXCEPT ![c] = epoch]
        /\ pc' = [pc EXCEPT ![c] = "insert"]
        /\ UNCHANGED <<scenarios, jobs, epoch, ask, poll>>
    BY <1>4 DEF Allocate, FreshId
  <2>2. TypeOK'
    <3>1. DOMAIN jobs \subseteq 1..(nextID + 1)
      BY <1>0
    <3> QED
      BY <1>0, <1>b, <2>1, <3>1 DEF TypeOK, PCs
  <2>3. Alive'
    BY <1>0, <1>a, <2>1 DEF Alive
  <2>4. nextID + 1 \notin DOMAIN jobs
    BY <1>0
  <2>5. ASSUME NEW d \in Creates, Current(d)', d # c
        PROVE  Current(d) /\ id'[d] = id[d] /\ pc'[d] = pc[d] /\ id[d] \in 1..nextID
    BY <1>0, <1>a, <2>1, <2>5 DEF Current, Allocation
  <2>6. id'[c] = nextID + 1 /\ pc'[c] = "insert"
    BY <1>0, <2>1
  <2>7. Allocation'
    <3> SUFFICES ASSUME NEW d \in Creates, Current(d)'
                 PROVE
          /\ id'[d] \in 1..nextID'
          /\ pc'[d] = "insert" => id'[d] \notin DOMAIN jobs'
          /\ pc'[d] \in {"reply", "told"} =>
                id'[d] \in DOMAIN jobs' /\ jobs'[id'[d]] = JobOf(ask'[d])
          /\ \A e \in Creates : Current(e)' /\ id'[d] = id'[e] => d = e
      BY DEF Allocation
    <3>1. CASE d = c
      BY <3>1, <1>0, <2>1, <2>4, <2>5, <2>6
    <3>2. CASE d # c
      <4>1. /\ Current(d) /\ id'[d] = id[d] /\ pc'[d] = pc[d]
            /\ id[d] \in 1..nextID
        BY <3>2, <2>5
      <4>2. ASSUME NEW e \in Creates, Current(e)', id'[d] = id'[e]
            PROVE  d = e
        <5>1. e # c
          BY <1>0, <2>6, <4>1, <4>2
        <5> QED
          BY <1>a, <2>5, <4>1, <4>2, <5>1 DEF Allocation
      <4> QED
        BY <1>0, <1>a, <2>1, <4>1, <4>2 DEF Allocation
    <3> QED
      BY <3>1, <3>2
  <2> QED
    BY <2>2, <2>3, <2>7 DEF VideoInv
<1>5. ASSUME NEW c \in Creates, Insert(c)  PROVE VideoInv'
  <2>1. /\ pc[c] = "insert"
        /\ jobs' = [k \in DOMAIN jobs \cup {id[c]} |->
                      IF k = id[c] THEN JobOf(ask[c]) ELSE jobs[k]]
        /\ pc' = [pc EXCEPT ![c] = "reply"]
        /\ UNCHANGED <<scenarios, nextID, epoch, ask, id, born, poll>>
    BY <1>5 DEF Insert, Enter
  <2>2. Current(c) /\ id[c] \in 1..nextID
    BY <1>a, <2>1 DEF Current, Alive, Allocation
  <2>3. TypeOK'
    <3>1. JobOf(ask[c]) \in Job
      BY <1>0, JobOfType
    <3>2. DOMAIN jobs' \subseteq 1..nextID /\ \A i \in DOMAIN jobs' : jobs'[i] \in Job
      BY <1>0, <2>1, <2>2, <3>1
    <3> QED
      BY <1>0, <1>b, <2>1, <3>2 DEF TypeOK, PCs
  <2>4. Alive'
    BY <1>0, <1>a, <2>1 DEF Alive
  <2>5. \A d \in Creates : Current(d)' <=> Current(d)
    BY <1>0, <2>1 DEF Current
  <2>6. \A d \in Creates : d # c /\ Current(d) => id[d] # id[c]
    BY <1>a, <2>2 DEF Allocation
  <2>7. Allocation'
    BY <1>0, <1>a, <2>1, <2>2, <2>5, <2>6 DEF Allocation
  <2> QED
    BY <2>3, <2>4, <2>7 DEF VideoInv
<1>6. ASSUME NEW c \in Creates, Reply(c)  PROVE VideoInv'
  BY <1>6, <1>c DEF Reply, MayReply, PCs
<1>7. ASSUME NEW c \in Creates, Get(c)  PROVE VideoInv'
  <2> DEFINE answer == [at |-> epoch, found |-> id[c] \in DOMAIN jobs]
  <2>1. /\ poll' = [poll EXCEPT ![c] = answer]
        /\ UNCHANGED <<scenarios, nextID, jobs, epoch, ask, pc, id, born>>
    BY <1>7 DEF Get
  <2>2. TypeOK'
    <3>1. answer \in [at : 0..MaxRestarts, found : BOOLEAN]
      BY <1>0
    <3> HIDE DEF answer
    <3>2. poll' \in [Creates -> [at : 0..MaxRestarts, found : BOOLEAN]]
      BY <1>0, <2>1, <3>1
    <3> QED
      BY <1>0, <1>b, <2>1, <3>2 DEF TypeOK
  <2>3. Allocation' /\ Alive'
    BY <1>a, <2>1 DEF Allocation, Alive, Current
  <2> QED
    BY <2>2, <2>3 DEF VideoInv
<1>8. ASSUME Restart  PROVE VideoInv'
  <2>1. /\ epoch < MaxRestarts
        /\ epoch' = epoch + 1
        /\ scenarios' = LoadFile(<<>>)
        /\ nextID' = 0
        /\ jobs' = [i \in {} |-> 0]
        /\ pc' = [c \in Creates |->
                    IF pc[c] \in {"resolve", "allocate", "insert", "reply"}
                    THEN "lost" ELSE pc[c]]
        /\ UNCHANGED <<ask, id, born, poll>>
    BY <1>8 DEF Restart
  <2>2. StoreTypeOK'
    BY <2>1, LoadNothing DEF StoreTypeOK
  <2>3. \A c \in Creates : pc'[c] \notin {"insert", "reply"} /\ pc'[c] \in PCs
    BY <1>0, <2>1 DEF PCs
  <2>4. \A c \in Creates : born'[c] < epoch'
    BY <1>0, <1>a, <2>1 DEF Alive
  <2>5. TypeOK'
    BY <1>0, <2>1, <2>2, <2>3 DEF TypeOK
  <2>6. Allocation' /\ Alive'
    <3>1. \A c \in Creates : born'[c] \in Int /\ epoch' \in Int
      BY <1>0, <2>1
    <3> QED
      BY <2>3, <2>4, <3>1 DEF Allocation, Alive, Current
  <2> QED
    BY <2>5, <2>6 DEF VideoInv
<1>9. ASSUME UNCHANGED vars  PROVE VideoInv'
  <2>1. UNCHANGED <<scenarios, nextID, jobs, epoch, ask, pc, id, born, poll>>
    BY <1>9 DEF vars, requestVars
  <2>2. TypeOK'
    BY <1>0, <1>b, <2>1 DEF TypeOK
  <2>3. Allocation' /\ Alive'
    BY <1>a, <2>1 DEF Allocation, Alive, Current
  <2> QED
    BY <2>2, <2>3 DEF VideoInv
<1> QED
  BY <1>1, <1>2, <1>3, <1>4, <1>5, <1>6, <1>7, <1>8, <1>9 DEF Next, Create

\* Types, unique ids and stored answers hold together.
THEOREM VideoInvariant == Spec => []VideoInv
BY InitVideoInv, NextVideoInv, PTL DEF Spec

\* Two creates served by one process never get the same id.
THEOREM UniqueIds == Spec => []IdsUnique
<1>1. VideoInv => IdsUnique
  BY DEF VideoInv, Allocation, IdsUnique
<1> QED
  BY <1>1, VideoInvariant, PTL

\* A client finds its job under the id it was told.
THEOREM ToldIsStored == Spec => []ToldJobIsStored
<1>1. VideoInv => ToldJobIsStored
  BY DEF VideoInv, Allocation, Current, ToldJobIsStored
<1> QED
  BY <1>1, VideoInvariant, PTL

\* A stored job is permanent while the process lives.
THEOREM PermanentJobs == Spec => JobsPermanent
<1>1. VideoInv /\ [Next]_vars =>
        [epoch' = epoch =>
           \A i \in DOMAIN jobs : i \in DOMAIN jobs' /\ jobs'[i] = jobs[i]]_vars
  <2> SUFFICES ASSUME VideoInv, [Next]_vars, epoch' = epoch,
                      NEW i \in DOMAIN jobs
               PROVE  i \in DOMAIN jobs' /\ jobs'[i] = jobs[i]
    OBVIOUS
  <2>1. CASE \E c \in Creates : Insert(c)
    <3>1. PICK c \in Creates : Insert(c)
      BY <2>1
    <3>2. id[c] \notin DOMAIN jobs
      BY <3>1 DEF Insert, VideoInv, Allocation, Alive, Current
    <3> QED
      BY <3>1, <3>2 DEF Insert, Enter
  <2>2. CASE UNCHANGED jobs
    BY <2>2
  <2>3. CASE Restart
    <3>1. epoch \in Int
      BY DEF VideoInv, TypeOK
    <3> QED
      BY <2>3, <3>1 DEF Restart
  <2> QED
    BY <2>1, <2>2, <2>3
       DEF Next, Create, AdminPut, Submit, ResolveScenario, Allocate, Reply, Get,
           vars
<1> QED
  BY <1>1, VideoInvariant, PTL DEF Spec, JobsPermanent

\* Types, for any creates and restarts.
THEOREM VideoTypes == Spec => []TypeOK
<1>1. VideoInv => TypeOK
  BY DEF VideoInv
<1> QED
  BY <1>1, VideoInvariant, PTL

LEMMA NextMissInv == VideoInv /\ MissInv /\ [Next]_vars => MissInv'
<1> SUFFICES ASSUME VideoInv, MissInv, [Next]_vars  PROVE MissInv'
  OBVIOUS
<1>0. /\ epoch \in Int
      /\ born \in [Creates -> 0..MaxRestarts]
      /\ pc \in [Creates -> PCs]
      /\ poll \in [Creates -> [at : 0..MaxRestarts, found : BOOLEAN]]
  BY VideoAssumption DEF VideoInv, TypeOK
<1>1. ASSUME NEW c \in Creates, Get(c)  PROVE MissInv'
  <2>1. /\ pc[c] = "told"
        /\ poll' = [poll EXCEPT ![c] = [at |-> epoch, found |-> id[c] \in DOMAIN jobs]]
        /\ UNCHANGED <<pc, born>>
    BY <1>1 DEF Get
  <2>2. id[c] \notin DOMAIN jobs => born[c] # epoch
    BY <2>1 DEF VideoInv, Allocation, Current
  <2>3. born[c] \in Int /\ born[c] <= epoch
    BY <1>0 DEF VideoInv, Alive
  <2>4. \A d \in Creates : poll'[d] =
           IF d = c THEN [at |-> epoch, found |-> id[c] \in DOMAIN jobs] ELSE poll[d]
    BY <1>0, <2>1
  <2>5. id[c] \notin DOMAIN jobs => epoch > born[c]
    BY <1>0, <2>2, <2>3
  <2>6. ASSUME NEW d \in Creates, ~poll'[d].found  PROVE poll'[d].at > born'[d]
    <3>1. CASE d = c
      <4>1. poll'[c] = [at |-> epoch, found |-> id[c] \in DOMAIN jobs]
        BY <2>4
      <4>2. poll'[c].at = epoch /\ poll'[c].found = (id[c] \in DOMAIN jobs)
        BY <4>1
      <4>3. id[c] \notin DOMAIN jobs
        BY <2>6, <3>1, <4>2
      <4> QED
        BY <2>1, <2>5, <3>1, <4>2, <4>3
    <3>2. CASE d # c
      <4>1. poll'[d] = poll[d]
        BY <2>4, <3>2
      <4> QED
        BY <2>1, <2>6, <4>1 DEF MissInv, MissMeansRestart
    <3> QED
      BY <3>1, <3>2
  <2>7. ASSUME NEW d \in Creates, poll'[d] # NoPoll  PROVE pc'[d] = "told"
    <3>1. CASE d = c
      BY <2>1, <3>1
    <3>2. CASE d # c
      <4>1. poll'[d] = poll[d]
        BY <2>4, <3>2
      <4> QED
        BY <2>1, <2>7, <4>1 DEF MissInv
    <3> QED
      BY <3>1, <3>2
  <2> QED
    BY <2>6, <2>7 DEF MissInv, MissMeansRestart
<1>2. ASSUME NEW c \in Creates, Allocate(c)  PROVE MissInv'
  <2>1. /\ pc[c] = "allocate" /\ poll' = poll
        /\ pc' = [pc EXCEPT ![c] = "insert"]
        /\ born' = [born EXCEPT ![c] = epoch]
    BY <1>2 DEF Allocate
  <2>2. poll[c] = NoPoll
    BY <2>1 DEF MissInv
  <2> QED
    BY <1>0, <2>1, <2>2 DEF MissInv, MissMeansRestart, NoPoll
<1>3. ASSUME UNCHANGED <<poll, born>>,
             \A c \in Creates : pc[c] = "told" => pc'[c] = "told"
      PROVE  MissInv'
  BY <1>3 DEF MissInv, MissMeansRestart
<1>4. ASSUME NEW c \in Creates,
             Submit(c) \/ ResolveScenario(c) \/ Insert(c) \/ Reply(c)
      PROVE  MissInv'
  BY <1>0, <1>3, <1>4 DEF Submit, ResolveScenario, Insert, Reply, MayReply
<1>5. ASSUME NEW m \in Models, NEW s \in VideoScenarios, AdminPut(m, s)
      PROVE  MissInv'
  BY <1>3, <1>5 DEF AdminPut, requestVars
<1>6. CASE Restart
  BY <1>3, <1>6 DEF Restart
<1>7. CASE UNCHANGED vars
  BY <1>3, <1>7 DEF vars, requestVars
<1> QED
  BY <1>1, <1>2, <1>4, <1>5, <1>6, <1>7 DEF Next, Create

\* A 404 for a job one was given means that the process has been restarted since.
THEOREM MissesExplained == Spec => []MissMeansRestart
<1>1. Init => MissInv
  BY DEF Init, MissInv, MissMeansRestart, NoPoll
<1>2. MissInv => MissMeansRestart
  BY DEF MissInv
<1> QED
  BY <1>1, <1>2, NextMissInv, VideoInvariant, PTL DEF Spec

-----------------------------------------------------------------------------
(* The refinement. *)

entries == [c \in Creates |-> IF pc[c] \in {"reply", "told"} THEN id[c] ELSE 0]
tolds == [c \in Creates |-> pc[c] = "told"]

\* What the registry does not see of a handler's step.
LEMMA RegistryStutters ==
    ASSUME VideoInv, UNCHANGED <<jobs, ask>>,
           \A c \in Creates :
              \/ pc'[c] = pc[c] /\ id'[c] = id[c]
              \/ {pc[c], pc'[c]} \cap {"reply", "told"} = {}
    PROVE  UNCHANGED Registry!vars
<1>1. entries' = entries
  BY DEF entries
<1>2. tolds' = tolds
  BY DEF tolds
<1> QED
  BY <1>1, <1>2 DEF entries, tolds, Registry!vars

\* The insert is the one step in which a create takes effect.
LEMMA InsertRegisters ==
    ASSUME VideoInv, NEW c \in Creates, Insert(c)
    PROVE  Registry!Register(c)
<1>1. /\ pc[c] = "insert"
      /\ jobs' = [k \in DOMAIN jobs \cup {id[c]} |->
                    IF k = id[c] THEN JobOf(ask[c]) ELSE jobs[k]]
      /\ pc' = [pc EXCEPT ![c] = "reply"]
      /\ UNCHANGED <<ask, id>>
      /\ pc \in [Creates -> PCs]
  BY DEF Insert, Enter, VideoInv, TypeOK
<1>2. id[c] \in Nat \ {0} /\ id[c] \notin DOMAIN jobs
  <2>1. Current(c)
    BY <1>1 DEF VideoInv, Alive, Current
  <2> QED
    BY <1>1, <2>1 DEF VideoInv, TypeOK, Allocation
<1>3. entries[c] = 0 /\ entries'[c] = id[c]
  BY <1>1 DEF entries
<1>4. entries' = [entries EXCEPT ![c] = id[c]]
  BY <1>1 DEF entries
<1>5. tolds' = tolds
  BY <1>1 DEF tolds
<1> QED
  BY <1>1, <1>2, <1>3, <1>4, <1>5 DEF entries, tolds, Registry!Register

LEMMA ReplyTells ==
    ASSUME VideoInv, NEW c \in Creates, Reply(c)
    PROVE  Registry!Tell(c)
<1>1. /\ pc[c] = "reply"
      /\ pc' = [pc EXCEPT ![c] = "told"]
      /\ UNCHANGED <<jobs, ask, id>>
      /\ pc \in [Creates -> PCs]
  BY DEF Reply, MayReply, VideoInv, TypeOK
<1>2. entries[c] # 0 /\ ~tolds[c]
  <2>1. Current(c)
    BY <1>1 DEF VideoInv, Alive, Current
  <2>2. id[c] \in DOMAIN jobs /\ DOMAIN jobs \subseteq 1..nextID
    BY <1>1, <2>1 DEF VideoInv, TypeOK, Allocation
  <2>3. id[c] # 0
    BY <2>2 DEF VideoInv, TypeOK
  <2>4. entries[c] = id[c]
    BY <1>1 DEF entries
  <2>5. ~tolds[c]
    BY <1>1 DEF tolds
  <2> QED
    BY <2>3, <2>4, <2>5
<1>3. entries' = entries
  BY <1>1 DEF entries
<1>4. tolds' = [tolds EXCEPT ![c] = TRUE]
  BY <1>1 DEF tolds
<1> QED
  BY <1>1, <1>2, <1>3, <1>4 DEF entries, tolds, Registry!Tell

LEMMA RestartCrashes == ASSUME VideoInv, Restart PROVE Registry!Crash
<1>1. /\ jobs' = [i \in {} |-> 0]
      /\ pc' = [c \in Creates |->
                  IF pc[c] \in {"resolve", "allocate", "insert", "reply"}
                  THEN "lost" ELSE pc[c]]
      /\ UNCHANGED <<ask, id>>
  BY DEF Restart
<1>2. entries' = [c \in Creates |-> IF tolds[c] THEN entries[c] ELSE 0]
  BY <1>1 DEF entries, tolds
<1>3. tolds' = tolds
  BY <1>1 DEF tolds
<1> QED
  BY <1>1, <1>2, <1>3 DEF entries, tolds, Registry!Crash

\* Counter, mutex and map implement the atomic registry: every step of the
\* code is a step of it or leaves it alone.
THEOREM RegistryImplemented == Spec => ImplementsRegistry
<1>1. Init => Registry!Init
  <2> SUFFICES ASSUME Init  PROVE Registry!Init
    OBVIOUS
  <2>1. [c \in Creates |-> JobOf(ask[c])] \in [Creates -> Job]
    BY JobOfType DEF Init
  <2> QED
    BY <2>1 DEF Init, Registry!Init
<1>2. VideoInv /\ [Next]_vars => [Registry!Next]_(Registry!vars)
  <2> SUFFICES ASSUME VideoInv, [Next]_vars
               PROVE  Registry!Next \/ UNCHANGED Registry!vars
    OBVIOUS
  <2>0. pc \in [Creates -> PCs] /\ id \in [Creates -> Nat]
    BY DEF VideoInv, TypeOK
  <2>1. CASE \E c \in Creates : Insert(c)
    BY <2>1, InsertRegisters DEF Registry!Next
  <2>2. CASE \E c \in Creates : Reply(c)
    BY <2>2, ReplyTells DEF Registry!Next
  <2>3. CASE Restart
    BY <2>3, RestartCrashes DEF Registry!Next
  <2>4. ASSUME NEW c \in Creates,
               Submit(c) \/ ResolveScenario(c) \/ Allocate(c)
        PROVE  UNCHANGED Registry!vars
    <3>1. /\ pc[c] \in {"idle", "resolve", "allocate"}
          /\ \E p \in {"resolve", "error", "allocate", "insert"} :
                pc' = [pc EXCEPT ![c] = p]
          /\ \A d \in Creates : d # c => id'[d] = id[d]
          /\ UNCHANGED <<jobs, ask>>
      BY <2>0, <2>4 DEF Submit, ResolveScenario, Allocate
    <3>2. \A d \in Creates :
             \/ pc'[d] = pc[d] /\ id'[d] = id[d]
             \/ {pc[d], pc'[d]} \cap {"reply", "told"} = {}
      BY <2>0, <3>1
    <3> QED
      BY <3>1, <3>2, RegistryStutters
  <2>5. CASE UNCHANGED <<jobs, ask, pc, id>>
    BY <2>5, RegistryStutters
  <2> QED
    BY <2>1, <2>2, <2>3, <2>4, <2>5
       DEF Next, Create, AdminPut, Get, vars, requestVars
<1> QED
  BY <1>1, <1>2, VideoInvariant, PTL DEF Spec, ImplementsRegistry, Registry!Spec
=============================================================================
