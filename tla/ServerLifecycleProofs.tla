------------------------ MODULE ServerLifecycleProofs ------------------------
(***************************************************************************)
(* Proofs about ServerLifecycle: how a process ends and what it cuts, for  *)
(* any servers and requests.  The inductive invariant is LifecycleInv.     *)
(***************************************************************************)
EXTENDS ServerLifecycle, TLAPS

LEMMA InitInv == Init => LifecycleInv
<1> SUFFICES ASSUME Init PROVE LifecycleInv
  OBVIOUS
<1>1. TypeOK
  BY DEF Init, FirstWait, TypeOK
<1>2. \A s \in Servers : run[s] = "select" /\ ~errCh[s]
  BY DEF Init
<1>3. main \in {"signal", "servers"} /\ (process.awaitSignal => main = "signal")
  BY DEF Init, FirstWait
<1>4. \A r \in Requests : request[r] = "unsent"
  BY DEF Init
<1>5. \A s \in Servers : listener[s] = "start"
  BY DEF Init
<1> QED
  BY <1>1, <1>2, <1>3, <1>4, <1>5 DEF LifecycleInv, Accounted, CutOnlyAfterGrace,
     StaysUntilSignalled, Alive, ShuttingDown

\* The listener moves only while its server's Run has not seen it fail.
LEMMA ListenerInv ==
    ASSUME LifecycleInv, LifecycleAssumption, NEW s \in Servers,
           ListenerStep(s) \/ ListenFails(s)
    PROVE  LifecycleInv'
<1> USE DEF LifecycleInv, ListenerBecomes, Alive
<1>1. CASE Bind(s) \/ ListenFails(s) \/ StopServing(s)
  <2>1. /\ errCh' = errCh /\ UNCHANGED <<process, signalled, main, run, request>>
        /\ listener[s] \in {"start", "serving"}
        /\ \E to \in {"serving", "failed", "closed"} :
              listener' = [listener EXCEPT ![s] = to]
    BY <1>1 DEF Bind, ListenFails, StopServing
  <2>2. TypeOK'
    BY <2>1 DEF TypeOK
  <2>3. /\ s \in process.servers
        /\ \A q \in Servers :
              /\ listener[q] = "down" => listener'[q] = "down"
              /\ listener[q] # "start" => listener'[q] # "start"
              /\ q # s => listener'[q] = listener[q]
    BY <1>1, <2>1 DEF TypeOK, Bind, ListenFails, StopServing
  <2>4. Accounted'
    BY <2>1, <2>3, LifecycleAssumption DEF LifecycleAssumption, Accounted, ShuttingDown, InFlight
  <2>5. CutOnlyAfterGrace' /\ StaysUntilSignalled'
    BY <1>1, <2>1 DEF Accounted, CutOnlyAfterGrace, StaysUntilSignalled, TypeOK,
                      Bind, ListenFails, StopServing
  <2> QED
    BY <2>2, <2>4, <2>5
<1>2. CASE SendError(s)
  <2>1. TypeOK'
    BY <1>2 DEF SendError, TypeOK
  <2>2. Accounted'
    BY <1>2 DEF SendError, TypeOK, Accounted, ShuttingDown, InFlight
  <2>3. CutOnlyAfterGrace' /\ StaysUntilSignalled'
    BY <1>2 DEF SendError, CutOnlyAfterGrace, StaysUntilSignalled, TypeOK
  <2> QED
    BY <2>1, <2>2, <2>3
<1> QED
  BY <1>1, <1>2 DEF ListenerStep

\* Run returns "stopped" with nothing in flight and "failed" with its listener
\* down; nothing has been cut while the process lives.
LEMMA RunInv ==
    ASSUME LifecycleInv, LifecycleAssumption, NEW s \in Servers, RunStep(s)
    PROVE  LifecycleInv'
<1> USE DEF LifecycleInv, RunBecomes, Alive
<1>0. /\ UNCHANGED <<process, signalled, main, listener, request>>
      /\ run[s] \in {"select", "draining"}
      /\ main # "exited"
  BY DEF RunStep, SelectSignal, SelectError, ShutdownDone, ShutdownExpires
<1>1. TypeOK'
  BY DEF RunStep, SelectSignal, SelectError, ShutdownDone, ShutdownExpires, TypeOK
<1>2. Accounted'
  <2>1. CASE SelectSignal(s) \/ SelectError(s)
    BY <1>0, <2>1 DEF SelectSignal, SelectError, Accounted, TypeOK,
                      ShuttingDown, InFlight
  <2>2. CASE ShutdownDone(s)
    BY <1>0, <2>2 DEF ShutdownDone, Drained, Accounted, TypeOK,
                      ShuttingDown, InFlight
  <2>3. CASE ShutdownExpires(s)
    BY <1>0, <2>3 DEF ShutdownExpires, Accounted, TypeOK, ShuttingDown, InFlight
  <2> QED
    BY <2>1, <2>2, <2>3 DEF RunStep
<1>3. CutOnlyAfterGrace'
  <2>1. ASSUME NEW r \in Requests, request[r] = "cut"
        PROVE  run'[Home[r]] = run[Home[r]]
    <3>1. Home[r] # s
      BY <1>0, <2>1 DEF CutOnlyAfterGrace
    <3> QED
      BY <3>1 DEF RunStep, SelectSignal, SelectError, ShutdownDone,
                  ShutdownExpires, TypeOK, LifecycleAssumption
  <2> QED
    BY <1>0, <2>1 DEF CutOnlyAfterGrace
<1>4. StaysUntilSignalled'
  BY <1>0 DEF StaysUntilSignalled
<1> QED
  BY <1>1, <1>2, <1>3, <1>4

\* A request begins only on a server that is not shutting down.
LEMMA RequestInv ==
    ASSUME LifecycleInv, LifecycleAssumption, NEW r \in Requests,
           Accept(r) \/ Finish(r)
    PROVE  LifecycleInv'
<1> USE DEF LifecycleInv, Alive
<1>1. TypeOK'
  BY DEF Accept, Finish, TypeOK
<1>2. Accounted'
  BY DEF Accept, Finish, Accounted, TypeOK, ShuttingDown, InFlight,
         LifecycleAssumption
<1>3. CutOnlyAfterGrace' /\ StaysUntilSignalled'
  BY DEF Accept, Finish, CutOnlyAfterGrace, StaysUntilSignalled, TypeOK
<1> QED
  BY <1>1, <1>2, <1>3

\* main returns when every Run has: what is then in flight belongs to a server
\* that expired or failed.
LEMMA MainInv ==
    ASSUME LifecycleInv, LifecycleAssumption, MainStep
    PROVE  LifecycleInv'
<1> USE DEF LifecycleInv, Alive
<1>1. CASE MainSeesSignal
  BY <1>1 DEF MainSeesSignal, TypeOK, Accounted, CutOnlyAfterGrace,
              StaysUntilSignalled, ShuttingDown, InFlight
<1>2. CASE MainReturns
  <2>1. TypeOK'
    BY <1>2 DEF MainReturns, TypeOK
  <2>2. \A q \in Requests : request'[q] # "active"
    BY <1>2 DEF MainReturns
  <2>3. Accounted'
    BY <1>2, <2>2 DEF MainReturns, Accounted, ShuttingDown, InFlight
  <2>4. ASSUME NEW r \in Requests, request'[r] = "cut"
        PROVE  \/ signalled' /\ run'[Home[r]] = "expired"
               \/ listener'[Home[r]] = "down" /\ run'[Home[r]] = "failed"
    <3>1. CASE request[r] = "cut"
      BY <1>2, <3>1 DEF MainReturns, CutOnlyAfterGrace
    <3>2. CASE request[r] = "active"
      <4>1. Home[r] \in Servers /\ Returned(Home[r])
        BY <1>2, <3>2 DEF MainReturns, ServersDone, LifecycleAssumption, Accounted
      <4>2. run[Home[r]] # "stopped"
        BY <3>2, <4>1 DEF Accounted, InFlight
      <4> QED
        BY <1>2, <4>1, <4>2 DEF MainReturns, Returned, Accounted, ShuttingDown
    <3> QED
      BY <1>2, <2>4, <3>1, <3>2 DEF MainReturns
  <2>5. CutOnlyAfterGrace'
    BY <2>4 DEF CutOnlyAfterGrace
  <2>6. StaysUntilSignalled'
    BY <1>2 DEF MainReturns, Accounted, StaysUntilSignalled
  <2> QED
    BY <2>1, <2>3, <2>5, <2>6
<1> QED
  BY <1>1, <1>2 DEF MainStep

LEMMA NextInv ==
    ASSUME LifecycleInv, LifecycleAssumption, [Next]_vars
    PROVE  LifecycleInv'
<1>1. CASE UNCHANGED vars
  BY <1>1 DEF vars, LifecycleInv, TypeOK, Accounted, CutOnlyAfterGrace,
              StaysUntilSignalled, Alive, ShuttingDown, InFlight
<1>2. CASE Signal
  BY <1>2 DEF Signal, LifecycleInv, TypeOK, Accounted, CutOnlyAfterGrace,
              StaysUntilSignalled, Alive, ShuttingDown, InFlight
<1> QED
  BY <1>1, <1>2, ListenerInv, RunInv, RequestInv, MainInv DEF Next, Gone

\* LifecycleInv holds in every state of every process (server.go:15-38,
\* main.go:60-78).
THEOREM LifecycleInvariant == Spec => []LifecycleInv
<1>1. LifecycleInv /\ [Next]_vars => LifecycleInv'
  BY NextInv, LifecycleAssumption
<1> QED
  BY InitInv, <1>1, PTL DEF Spec

\* A request is cut only after its own server's grace period, or when its own
\* listener is lost: no other server's end cuts it (server.go:29-37).
THEOREM CutsAfterGrace == Spec => []CutOnlyAfterGrace
<1>1. LifecycleInv => CutOnlyAfterGrace
  BY DEF LifecycleInv
<1> QED
  BY <1>1, LifecycleInvariant, PTL

\* cmd/server ends on a signal and on nothing else (main.go:76).
THEOREM EndsOnSignalOnly == Spec => []StaysUntilSignalled
<1>1. LifecycleInv => StaysUntilSignalled
  BY DEF LifecycleInv
<1> QED
  BY <1>1, LifecycleInvariant, PTL
=============================================================================
