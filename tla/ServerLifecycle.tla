--------------------------- MODULE ServerLifecycle ---------------------------
(***************************************************************************)
(* Start and end of a process: main (cmd/server, cmd/openmeter-mock) and   *)
(* httpserver.Run, once per server of the process.  Run starts a goroutine *)
(* that listens and selects between the signal context and the listener's  *)
(* error; on a signal it shuts the server down and waits for the requests  *)
(* in flight, five seconds at most.  cmd/server runs two servers and waits *)
(* for the signal first, then for both; openmeter-mock runs one and ends   *)
(* when its Run returns.  When main returns, the process ends and takes    *)
(* the requests still in flight with it.  A request stands for its         *)
(* connection too: once shutting down, a server begins no other.           *)
(***************************************************************************)

CONSTANTS
    Servers,        \* the servers of all processes
    Processes,      \* the processes: which servers each has, and whether its
                    \* main waits for the signal before it waits for them
    Requests,       \* requests sent to the servers
    Home            \* Home[r]: the server r is sent to

ASSUME LifecycleAssumption ==
    /\ Home \in [Requests -> Servers]
    /\ Processes \subseteq [servers : SUBSET Servers, awaitSignal : BOOLEAN]

VARIABLES
    process,    \* the process whose life this is
    signalled,  \* the signal context is done
    main,       \* where main is: what it waits for, or "exited"
    run,        \* run[s]: where Run is, or how it returned
    listener,   \* listener[s]: where the goroutine that listens is
    errCh,      \* errCh[s]: the channel of Run holds the listener's error
    request     \* request[r]: "unsent", "active", "finished" or "cut"

vars == <<process, signalled, main, run, listener, errCh, request>>

\* Mutants: main does not wait for the signal, or always does.
FirstWait_Servers == "servers"
FirstWait_Signal == "signal"

FirstWait == IF process.awaitSignal THEN "signal" ELSE "servers"

Init ==
    /\ process \in Processes
    /\ signalled = FALSE
    /\ main = FirstWait
    /\ run = [s \in Servers |-> "select"]
    /\ listener = [s \in Servers |-> "start"]
    /\ errCh = [s \in Servers |-> FALSE]
    /\ request = [r \in Requests |-> "unsent"]

Alive == main # "exited"

\* Shutdown was called on the server, whatever became of it.
ShuttingDown(s) == run[s] \in {"draining", "stopped", "expired"}

Returned(s) == run[s] \in {"stopped", "expired", "failed"}

InFlight(s) == {r \in Requests : Home[r] = s /\ request[r] = "active"}

\* SIGINT or SIGTERM.  A second one changes nothing: NotifyContext keeps
\* catching them until main returns.
Signal ==
    /\ Alive /\ ~signalled
    /\ signalled' = TRUE
    /\ UNCHANGED <<process, main, run, listener, errCh, request>>

-----------------------------------------------------------------------------
(* The goroutine that listens. *)

ListenerBecomes(s, from, to) ==
    /\ Alive /\ s \in process.servers
    /\ listener[s] \in from
    /\ listener' = [listener EXCEPT ![s] = to]
    /\ UNCHANGED <<process, signalled, main, run, request>>

Bind(s) ==
    /\ ~ShuttingDown(s)
    /\ ListenerBecomes(s, {"start"}, "serving")
    /\ UNCHANGED errCh

\* The address cannot be had, or accepting fails for good.
ListenFails(s) ==
    /\ ListenerBecomes(s, {"start", "serving"}, "failed")
    /\ UNCHANGED errCh

\* The channel has room for the one error.
SendError(s) ==
    /\ ListenerBecomes(s, {"failed"}, "down")
    /\ errCh' = [errCh EXCEPT ![s] = TRUE]

\* ListenAndServe returns ErrServerClosed, which is not reported.
StopServing(s) ==
    /\ ShuttingDown(s)
    /\ ListenerBecomes(s, {"start", "serving"}, "closed")
    /\ UNCHANGED errCh

-----------------------------------------------------------------------------
(* Run. *)

RunBecomes(s, from, to) ==
    /\ Alive /\ s \in process.servers
    /\ run[s] = from
    /\ run' = [run EXCEPT ![s] = to]
    /\ UNCHANGED <<process, signalled, main, listener, request>>

\* The select takes either branch when both are ready.
SelectSignal(s) ==
    /\ signalled
    /\ RunBecomes(s, "select", "draining")
    /\ UNCHANGED errCh

\* The requests in flight are left running, and nobody waits for them.
SelectError(s) ==
    /\ errCh[s]
    /\ RunBecomes(s, "select", "failed")
    /\ errCh' = [errCh EXCEPT ![s] = FALSE]

\* Mutant: Close instead of Shutdown.
Drained_Any(s) == TRUE

Drained(s) == InFlight(s) = {}

ShutdownDone(s) ==
    /\ Drained(s)
    /\ RunBecomes(s, "draining", "stopped")
    /\ UNCHANGED errCh

\* Mutant: Shutdown is given a context without a deadline.
MayExpire_Never(s) == FALSE

MayExpire(s) == InFlight(s) # {}

\* Five seconds have passed; Shutdown gives up and leaves the requests running.
ShutdownExpires(s) ==
    /\ MayExpire(s)
    /\ RunBecomes(s, "draining", "expired")
    /\ UNCHANGED errCh

-----------------------------------------------------------------------------
(* Requests.  Nothing says that one ends: a stalled client holds it. *)

Accept(r) ==
    /\ Alive
    /\ listener[Home[r]] = "serving" /\ ~ShuttingDown(Home[r])
    /\ request[r] = "unsent"
    /\ request' = [request EXCEPT ![r] = "active"]
    /\ UNCHANGED <<process, signalled, main, run, listener, errCh>>

Finish(r) ==
    /\ Alive
    /\ request[r] = "active"
    /\ request' = [request EXCEPT ![r] = "finished"]
    /\ UNCHANGED <<process, signalled, main, run, listener, errCh>>

-----------------------------------------------------------------------------
(* main. *)

MainSeesSignal ==
    /\ main = "signal" /\ signalled
    /\ main' = "servers"
    /\ UNCHANGED <<process, signalled, run, listener, errCh, request>>

\* Mutant: main waits for the first server only.
ServersDone_First == \E s \in process.servers : Returned(s)

ServersDone == \A s \in process.servers : Returned(s)

MainReturns ==
    /\ main = "servers" /\ ServersDone
    /\ main' = "exited"
    /\ request' = [r \in Requests |->
                     IF request[r] = "active" THEN "cut" ELSE request[r]]
    /\ UNCHANGED <<process, signalled, run, listener, errCh>>

\* The process is gone.
Gone == ~Alive /\ UNCHANGED vars

-----------------------------------------------------------------------------

ListenerStep(s) == Bind(s) \/ SendError(s) \/ StopServing(s)

RunStep(s) ==
    SelectSignal(s) \/ SelectError(s) \/ ShutdownDone(s) \/ ShutdownExpires(s)

MainStep == MainSeesSignal \/ MainReturns

Next ==
    \/ Signal \/ MainStep \/ Gone
    \/ \E s \in Servers : ListenerStep(s) \/ ListenFails(s) \/ RunStep(s)
    \/ \E r \in Requests : Accept(r) \/ Finish(r)

Spec == Init /\ [][Next]_vars

\* The Go scheduler runs every goroutine that can move, and the shutdown's
\* timer fires.  No fairness for signals, listen errors and requests.
FairSpec ==
    /\ Spec
    /\ WF_vars(MainStep)
    /\ \A s \in Servers : WF_vars(ListenerStep(s)) /\ WF_vars(RunStep(s))

-----------------------------------------------------------------------------
(* Properties. *)

TypeOK ==
    /\ process \in Processes
    /\ signalled \in BOOLEAN
    /\ main \in {"signal", "servers", "exited"}
    /\ run \in [Servers -> {"select", "draining", "stopped", "expired", "failed"}]
    /\ listener \in [Servers -> {"start", "serving", "failed", "down", "closed"}]
    /\ errCh \in [Servers -> BOOLEAN]
    /\ request \in [Requests -> {"unsent", "active", "finished", "cut"}]

\* A request is cut only when its own server has been signalled and has let
\* the five seconds pass, or has lost its listener: the other server's quicker
\* shutdown or failure never ends it (server.go:29-37, main.go:60-78).
CutOnlyAfterGrace ==
    \A r \in Requests :
        request[r] = "cut" =>
            \/ signalled /\ run[Home[r]] = "expired"
            \/ listener[Home[r]] = "down" /\ run[Home[r]] = "failed"

\* The process of cmd/server outlives both listeners: it ends on a signal and
\* on nothing else (main.go:76), deaf if it must be.
StaysUntilSignalled == process.awaitSignal /\ ~Alive => signalled

\* A signal ends the process, whatever its requests and listeners do.
SignalStops == signalled ~> ~Alive

\* A process that does not wait for the signal ends when its listener fails.
FailureStops ==
    \A s \in Servers :
        listener[s] = "failed" /\ ~process.awaitSignal ~> ~Alive

\* What makes them inductive: how each Run came to return and what it left.
Accounted ==
    /\ \A s \in Servers :
        /\ ShuttingDown(s) => signalled
        /\ run[s] = "stopped" => InFlight(s) = {}
        /\ run[s] = "failed" \/ errCh[s] => listener[s] = "down"
    /\ \A r \in Requests : request[r] = "active" => listener[Home[r]] # "start"
    /\ \A s \in Servers : listener[s] # "start" => s \in process.servers
    /\ process.awaitSignal /\ main # "signal" => signalled
    /\ ~Alive => \A r \in Requests : request[r] # "active"

\* What holds at every step of the process's life.
LifecycleInv ==
    TypeOK /\ Accounted /\ CutOnlyAfterGrace /\ StaysUntilSignalled
=============================================================================
