------------------------------ MODULE VideoJobs ------------------------------
(***************************************************************************)
(* Video generation jobs (internal/core/usecase/video.go and the OpenAI    *)
(* handlers in front of it).  A create takes its id from an atomic counter *)
(* and only later enters the job in the map, under a mutex, so concurrent  *)
(* creates interleave between the two; the job is complete from the start  *)
(* and the client polls it by id.  Counter and map live in memory: a       *)
(* restart empties both, and ids start over.                               *)
(***************************************************************************)
EXTENDS ScenarioStore

CONSTANTS
    Creates,        \* the POST /v1/videos of a behaviour, each sent at most once
    Asks,           \* what they may ask for
    VideoScenarios, \* what the admin may install for the video operation
    MaxRestarts     \* bound on the number of restarts

Lengths == {"", "4", "8"}

Ask == [valid : BOOLEAN, model : Models, prompt : STRING, seconds : Lengths]

ASSUME VideoAssumption ==
    /\ "video" \in OtherOps
    /\ Asks \subseteq Ask
    /\ VideoScenarios \subseteq Scenario
    /\ MaxRestarts \in Nat

VARIABLES
    nextID,     \* Video.nextID
    jobs,       \* Video.jobs: id to job
    epoch,      \* number of restarts so far
    ask,        \* ask[c]: the request body of create c
    pc,         \* pc[c]: where the handler of c is
    id,         \* id[c]: the id c was given, 0 before that
    born,       \* born[c]: the epoch in which c was given its id
    poll        \* poll[c]: the last answer to c's GET of its own job

requestVars == <<ask, pc, id, born, poll>>
vars == <<scenarios, nextID, jobs, epoch, requestVars>>

\* domain.Video, reduced to what the request decides.  The size is filled in
\* like the seconds and left out.
JobOf(a) ==
    [model |-> a.model, prompt |-> a.prompt,
     seconds |-> IF a.seconds = "" THEN "4" ELSE a.seconds]

Job == [model : Models, prompt : STRING, seconds : Lengths]

PCs == {"idle", "resolve", "allocate", "insert", "reply", "told", "error", "lost"}

\* Nothing asked, nothing missed.
NoPoll == [at |-> 0, found |-> TRUE]

Init ==
    /\ scenarios = LoadFile(<<>>)
    /\ nextID = 0
    /\ jobs = [i \in {} |-> 0]
    /\ epoch = 0
    /\ ask \in [Creates -> Asks]
    /\ pc = [c \in Creates |-> "idle"]
    /\ id = [c \in Creates |-> 0]
    /\ born = [c \in Creates |-> 0]
    /\ poll = [c \in Creates |-> NoPoll]

\* PUT /admin/scenarios for the video operation.
AdminPut(m, s) ==
    /\ Resolve(m, "video") # s
    /\ Put(AdminKey(m, "video"), s)
    /\ UNCHANGED <<nextID, jobs, epoch, requestVars>>

\* The body is decoded and checked: model and prompt must not be empty.
Submit(c) ==
    /\ pc[c] = "idle"
    /\ pc' = [pc EXCEPT ![c] = IF ask[c].valid THEN "resolve" ELSE "error"]
    /\ UNCHANGED <<scenarios, nextID, jobs, epoch, ask, id, born, poll>>

\* An injected error ends the request; the injected latency is not looked at.
ResolveScenario(c) ==
    /\ pc[c] = "resolve"
    /\ pc' = [pc EXCEPT ![c] =
                IF Resolve(ask[c].model, "video").error = NoError
                THEN "allocate" ELSE "error"]
    /\ UNCHANGED <<scenarios, nextID, jobs, epoch, ask, id, born, poll>>

\* Mutants: the first id the map does not hold; the counter before the add.
FreshId_FromMap == CHOOSE n \in 1..(nextID + 1) :
    n \notin DOMAIN jobs /\ \A k \in 1..(n - 1) : k \in DOMAIN jobs
FreshId_BeforeAdd == nextID

\* atomic.AddInt64(&v.nextID, 1).
FreshId == nextID + 1

Allocate(c) ==
    /\ pc[c] = "allocate"
    /\ id' = [id EXCEPT ![c] = FreshId]
    /\ nextID' = nextID + 1
    /\ born' = [born EXCEPT ![c] = epoch]
    /\ pc' = [pc EXCEPT ![c] = "insert"]
    /\ UNCHANGED <<scenarios, jobs, epoch, ask, poll>>

Enter(i, job) ==
    jobs' = [k \in DOMAIN jobs \cup {i} |-> IF k = i THEN job ELSE jobs[k]]

Insert(c) ==
    /\ pc[c] = "insert"
    /\ Enter(id[c], JobOf(ask[c]))
    /\ pc' = [pc EXCEPT ![c] = "reply"]
    /\ UNCHANGED <<scenarios, nextID, epoch, ask, id, born, poll>>

\* Mutant: the reply does not wait for the insert.
MayReply_Early(c) == pc[c] \in {"insert", "reply"}

MayReply(c) == pc[c] = "reply"

\* The job is sent to the client.
Reply(c) ==
    /\ MayReply(c)
    /\ pc' = [pc EXCEPT ![c] = "told"]
    /\ UNCHANGED <<scenarios, nextID, jobs, epoch, ask, id, born, poll>>

\* Mutant: an answered poll takes the job out of the map.
Get_Consumes(c) ==
    /\ pc[c] = "told"
    /\ jobs' = [i \in DOMAIN jobs \ {id[c]} |-> jobs[i]]
    /\ poll' = [poll EXCEPT ![c] = [at |-> epoch, found |-> id[c] \in DOMAIN jobs]]
    /\ UNCHANGED <<scenarios, nextID, epoch, ask, pc, id, born>>

\* GET /v1/videos/{id} and .../content look the job up alike.
Get(c) ==
    /\ pc[c] = "told"
    /\ poll' = [poll EXCEPT ![c] = [at |-> epoch, found |-> id[c] \in DOMAIN jobs]]
    /\ UNCHANGED <<scenarios, nextID, jobs, epoch, ask, pc, id, born>>

\* The process stops and starts again: requests in flight are lost.
Restart ==
    /\ epoch < MaxRestarts
    /\ epoch' = epoch + 1
    /\ scenarios' = LoadFile(<<>>)
    /\ nextID' = 0
    /\ jobs' = [i \in {} |-> 0]
    /\ pc' = [c \in Creates |->
                IF pc[c] \in {"resolve", "allocate", "insert", "reply"}
                THEN "lost" ELSE pc[c]]
    /\ UNCHANGED <<ask, id, born, poll>>

Create(c) ==
    ResolveScenario(c) \/ Allocate(c) \/ Insert(c) \/ Reply(c)

Next ==
    \/ \E m \in Models, s \in VideoScenarios : AdminPut(m, s)
    \/ \E c \in Creates : Submit(c)
    \/ \E c \in Creates : Create(c)
    \/ \E c \in Creates : Get(c)
    \/ Restart

Spec == Init /\ [][Next]_vars
-----------------------------------------------------------------------------
\* c has an id of the process that is running now.
Current(c) == pc[c] \in {"insert", "reply", "told"} /\ born[c] = epoch

\* Shapes of the variables: ids are counted from 1 and a job never sits at an
\* id the counter has not reached (video.go:70-86).
TypeOK ==
    /\ StoreTypeOK
    /\ nextID \in Nat
    /\ DOMAIN jobs \subseteq 1..nextID
    /\ \A i \in DOMAIN jobs : jobs[i] \in Job
    /\ epoch \in 0..MaxRestarts
    /\ ask \in [Creates -> Asks]
    /\ pc \in [Creates -> PCs]
    /\ id \in [Creates -> Nat]
    /\ born \in [Creates -> 0..MaxRestarts]
    /\ poll \in [Creates -> [at : 0..MaxRestarts, found : BOOLEAN]]

\* Two creates served by one process never share an id, however their
\* allocations and inserts interleave.
IdsUnique ==
    \A c, d \in Creates :
        Current(c) /\ Current(d) /\ id[c] = id[d] => c = d

\* A client that was told an id finds exactly the job it asked for under it,
\* as long as the process lives: the reply follows the insert, and no other
\* create overwrites it.
ToldJobIsStored ==
    \A c \in Creates :
        pc[c] = "told" /\ born[c] = epoch
            => id[c] \in DOMAIN jobs /\ jobs[id[c]] = JobOf(ask[c])

\* A 404 for a job one was given means that the process has been restarted.
MissMeansRestart ==
    \A c \in Creates : ~poll[c].found => poll[c].at > born[c]

\* While a process lives a stored job neither changes nor disappears.
JobsPermanent ==
    [][epoch' = epoch =>
        \A i \in DOMAIN jobs : i \in DOMAIN jobs' /\ jobs'[i] = jobs[i]]_vars

\* What makes IdsUnique, ToldJobIsStored and JobsPermanent inductive.
Allocation ==
    \A c \in Creates :
        Current(c) =>
            /\ id[c] \in 1..nextID
            /\ pc[c] = "insert" => id[c] \notin DOMAIN jobs
            /\ pc[c] \in {"reply", "told"} =>
                  id[c] \in DOMAIN jobs /\ jobs[id[c]] = JobOf(ask[c])
            /\ \A d \in Creates : Current(d) /\ id[c] = id[d] => c = d

Alive == \A c \in Creates :
    /\ pc[c] \in {"insert", "reply"} => born[c] = epoch
    /\ born[c] <= epoch

VideoInv == TypeOK /\ Allocation /\ Alive

\* What makes MissMeansRestart inductive: a client that was told nothing has
\* not asked, and one that was told keeps its id.
MissInv == MissMeansRestart /\ \A c \in Creates : poll[c] # NoPoll => pc[c] = "told"

\* A create takes effect when its job enters the map.
Registry == INSTANCE JobRegistry WITH
    Jobs <- Job,
    registry <- jobs,
    wanted <- [c \in Creates |-> JobOf(ask[c])],
    entry <- [c \in Creates |-> IF pc[c] \in {"reply", "told"} THEN id[c] ELSE 0],
    known <- [c \in Creates |-> pc[c] = "told"]

\* The job map implements the atomic registry (video.go:46-109).
ImplementsRegistry == Registry!Spec
=============================================================================
