------------------------------ MODULE CallsView ------------------------------
(***************************************************************************)
(* The "calls" view over the ledger (scripts/create-calls-view.js): for    *)
(* each raw response one row, with an event of the same model received     *)
(* within a window around it, if there is one.                             *)
(***************************************************************************)
EXTENDS EventLedger

CONSTANT MatchWindow    \* 5000 ms in the script

ASSUME ViewAssumption == MatchWindow \in Nat

Distance(a, b) == IF a >= b THEN a - b ELSE b - a

\* The $match stage of the $lookup.
Candidates(call) ==
    {k \in DOMAIN events :
        /\ ModelOf[events[k].from] = ModelOf[raws[call].from]
        /\ Distance(events[k].at, raws[call].at) <= MatchWindow}

\* Mutant: the stage sorts descending.
Joined_Latest(call) ==
    {k \in Candidates(call) :
        \A j \in Candidates(call) : events[k].at >= events[j].at}

\* $sort by received_at ascending and $limit 1: any of the earliest.
Joined(call) ==
    {k \in Candidates(call) :
        \A j \in Candidates(call) : events[k].at <= events[j].at}

\* While the document of a call stays as it is, its row keeps having an event
\* once it has one, and changes it only for one received earlier (whose save
\* came later): a reader never sees a join disappear or move forward in time.
JoinMovesBack ==
    [][\A call \in DOMAIN raws :
        (Joined(call) # {} /\ raws'[call] = raws[call]) =>
            /\ Joined(call)' # {}
            /\ \A k \in Joined(call), j \in Joined(call)' :
                  events'[j].at <= events[k].at]_vars

\* create-calls-view.js:1-4 says that a raw response is joined with the event
\* "closest to it in time for the same model".
JoinsClosest ==
    \A call \in DOMAIN raws : \A k \in Joined(call) : \A j \in Candidates(call) :
        Distance(events[k].at, raws[call].at)
            <= Distance(events[j].at, raws[call].at)
=============================================================================
