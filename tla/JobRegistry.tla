----------------------------- MODULE JobRegistry -----------------------------
(***************************************************************************)
(* What the video job store promises: a registry in which a create is one  *)
(* atomic step that enters the job under an id nobody holds, and which     *)
(* only a crash empties.  A client learns its id after the entry is made.  *)
(***************************************************************************)
EXTENDS Naturals

CONSTANTS Creates, Jobs

VARIABLES
    registry,   \* id to job; an id is a positive number
    wanted,     \* wanted[c]: the job c asks for
    entry,      \* entry[c]: the id of c's entry, 0 if it has none
    known       \* known[c]: c's client has been told its id

vars == <<registry, wanted, entry, known>>

Init ==
    /\ registry = [i \in {} |-> 0]
    /\ wanted \in [Creates -> Jobs]
    /\ entry = [c \in Creates |-> 0]
    /\ known = [c \in Creates |-> FALSE]

\* Any free id will do.
Register(c) ==
    LET i == entry'[c]
    IN  /\ entry[c] = 0
        /\ i \in Nat \ {0} /\ i \notin DOMAIN registry
        /\ entry' = [entry EXCEPT ![c] = i]
        /\ registry' = [k \in DOMAIN registry \cup {i} |->
                            IF k = i THEN wanted[c] ELSE registry[k]]
        /\ UNCHANGED <<wanted, known>>

Tell(c) ==
    /\ entry[c] # 0
    /\ ~known[c]
    /\ known' = [known EXCEPT ![c] = TRUE]
    /\ UNCHANGED <<registry, wanted, entry>>

\* Everything is forgotten, and what was registered but not yet told is lost.
Crash ==
    /\ registry' = [i \in {} |-> 0]
    /\ entry' = [c \in Creates |-> IF known[c] THEN entry[c] ELSE 0]
    /\ UNCHANGED <<wanted, known>>

Next ==
    \/ \E c \in Creates : Tell(c) \/ Register(c)
    \/ Crash

Spec == Init /\ [][Next]_vars
=============================================================================
