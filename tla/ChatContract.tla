---------------------------- MODULE ChatContract ----------------------------
(***************************************************************************)
(* What chat generation promises, without goroutines, channels, frames or  *)
(* provider surfaces.  Each request is accepted, bound to the scenario in  *)
(* force for its model, and then either refused, failed with the injected  *)
(* error, or given the words of the reply one after the other.  It is      *)
(* complete only when it was given all of them, and cut short only if its  *)
(* client left.                                                            *)
(***************************************************************************)
EXTENDS Naturals

CONSTANTS
    Requests, Models, Scripts,
    ErrorScripts,   \* the scripts that inject an error
    Length          \* Length[s]: number of words of the reply to script s

VARIABLES
    current,    \* current[m]: the script in force for chat on model m
    phase,      \* phase[r]
    script,     \* script[r]: the script r was bound to, from "bound" on
    delivered,  \* delivered[r]: number of words given to r's client
    left        \* left[r]: r's client has gone away

vars == <<current, phase, script, delivered, left>>

Phases == {"new", "accepted", "bound", "refused", "failed", "complete", "cut"}

Begin(r) ==
    /\ phase[r] = "new"
    /\ phase' = [phase EXCEPT ![r] = "accepted"]
    /\ UNCHANGED <<current, script, delivered, left>>

Refuse(r) ==
    /\ phase[r] = "new"
    /\ phase' = [phase EXCEPT ![r] = "refused"]
    /\ UNCHANGED <<current, script, delivered, left>>

Install(m, s) ==
    /\ current' = [current EXCEPT ![m] = s]
    /\ UNCHANGED <<phase, script, delivered, left>>

Bind(r, m) ==
    /\ phase[r] = "accepted"
    /\ phase' = [phase EXCEPT ![r] = "bound"]
    /\ script' = [script EXCEPT ![r] = current[m]]
    /\ UNCHANGED <<current, delivered, left>>

Fail(r) ==
    /\ phase[r] = "bound"
    /\ script[r] \in ErrorScripts
    /\ phase' = [phase EXCEPT ![r] = "failed"]
    /\ UNCHANGED <<current, script, delivered, left>>

Deliver(r) ==
    /\ phase[r] = "bound"
    /\ script[r] \notin ErrorScripts
    /\ delivered[r] < Length[script[r]]
    /\ delivered' = [delivered EXCEPT ![r] = @ + 1]
    /\ UNCHANGED <<current, phase, script, left>>

\* A reply that is not streamed is delivered and complete in one step.
DeliverAll(r) ==
    /\ phase[r] = "bound"
    /\ script[r] \notin ErrorScripts
    /\ delivered[r] = 0
    /\ delivered' = [delivered EXCEPT ![r] = Length[script[r]]]
    /\ phase' = [phase EXCEPT ![r] = "complete"]
    /\ UNCHANGED <<current, script, left>>

Complete(r) ==
    /\ phase[r] = "bound"
    /\ script[r] \notin ErrorScripts
    /\ delivered[r] = Length[script[r]]
    /\ phase' = [phase EXCEPT ![r] = "complete"]
    /\ UNCHANGED <<current, script, delivered, left>>

CutShort(r) ==
    /\ phase[r] = "bound"
    /\ left[r]
    /\ delivered[r] < Length[script[r]]
    /\ phase' = [phase EXCEPT ![r] = "cut"]
    /\ UNCHANGED <<current, script, delivered, left>>

Leave(r) ==
    /\ phase[r] \in {"accepted", "bound"}
    /\ left' = [left EXCEPT ![r] = TRUE]
    /\ UNCHANGED <<current, phase, script, delivered>>

Init ==
    /\ current \in [Models -> Scripts]
    /\ phase = [r \in Requests |-> "new"]
    /\ script \in [Requests -> Scripts]
    /\ delivered = [r \in Requests |-> 0]
    /\ left = [r \in Requests |-> FALSE]

Next ==
    \/ \E m \in Models, s \in Scripts : Install(m, s)
    \/ \E r \in Requests :
        \/ Begin(r) \/ Refuse(r) \/ Fail(r) \/ Deliver(r) \/ DeliverAll(r)
        \/ Complete(r) \/ CutShort(r) \/ Leave(r)
        \/ \E m \in Models : Bind(r, m)

Spec == Init /\ [][Next]_vars
=============================================================================
