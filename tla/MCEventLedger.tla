---------------------------- MODULE MCEventLedger ----------------------------
(* Instances of EventLedger, CallsView and Listings for TLC. *)
EXTENDS CallsView, Listings, TLC

CONSTANTS e1, e1again, e2, w1, broken, gpt, resp1, resp2, call1

\* Two events with one id (a cached call or a retry), another event, a raw
\* response, and a body that cannot be decoded.
MCDeliveries == {e1, e1again, e2, w1, broken}
MCKindOf == [d \in Deliveries |-> IF d = w1 THEN "raw" ELSE "event"]
MCKeyOf ==
    [d \in Deliveries |->
        CASE d = w1 -> call1 [] d = e2 -> resp2 [] OTHER -> resp1]
MCModelOf == [d \in Deliveries |-> gpt]

\* For the findings.
FewDeliveries == {e1, e2, w1}
CachedDeliveries == {e1, e1again, w1}
=============================================================================
