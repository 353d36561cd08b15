--------------------------- MODULE ChatRefinement ---------------------------
(***************************************************************************)
(* ChatStream implements ChatContract.  A request is bound to its scenario *)
(* by the use case's one read of the store, and the words delivered are    *)
(* those a client can read off the wire, in whatever framing its provider  *)
(* uses.  What the handler's variables do not record of the end of a       *)
(* request (complete or cut short) is read off the wire as well.           *)
(***************************************************************************)
EXTENDS ChatStream

Delivered(r) == Len(Spoken(wire[r]))

ReplyLength(s) == WordCount[ReplyText(s)]

\* What became of a request whose handler has returned.
EndPhase(r) ==
    IF status[r] = 400 /\ ~req[r].valid THEN "refused"
    ELSE IF sc[r].error # NoError THEN "failed"
    ELSE IF Delivered(r) = ReplyLength(sc[r]) THEN "complete"
    ELSE "cut"

PhaseOf(r) ==
    IF handler[r] = "done" THEN EndPhase(r)
    ELSE IF handler[r] = "idle" THEN "new"
    ELSE IF handler[r] = "resolve" THEN "accepted"
    ELSE "bound"

Contract == INSTANCE ChatContract WITH
    Scripts <- Scenario,
    ErrorScripts <- {s \in Scenario : s.error # NoError},
    Length <- [s \in Scenario |-> ReplyLength(s)],
    current <- intended,
    phase <- [r \in Requests |-> PhaseOf(r)],
    script <- sc,
    delivered <- [r \in Requests |-> Delivered(r)],
    left <- [r \in Requests |-> client[r] = "gone"]

\* Chat generation implements its contract: every step of a handler, a producer,
\* a client or the admin (chat.go:25-134 and the handlers that call it) is a
\* step of ChatContract or leaves the abstract state alone.
ImplementsContract == Contract!Spec
=============================================================================
