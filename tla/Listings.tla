------------------------------ MODULE Listings ------------------------------
(***************************************************************************)
(* GET /api/v1/events and GET /api/v1/raw-responses: the newest documents  *)
(* of a collection, as many as the query asks for within limits.  A        *)
(* listing changes nothing, so it is a function of the collection; of      *)
(* documents with one stamp MongoDB may show any first.  Only which        *)
(* documents are shown is kept, not their order.                           *)
(***************************************************************************)
EXTENDS EventLedger, FiniteSets, Integers, Sequences

CONSTANTS
    DefaultLimit,   \* 100 in the code
    MaxLimit        \* 500 in the code

ASSUME ListingAssumption ==
    /\ DefaultLimit \in Nat \ {0}
    /\ MaxLimit \in Nat \ {0}
    /\ DefaultLimit <= MaxLimit

\* What the handler passes on: the limit of the query, a sequence that is empty
\* when the parameter is missing or no number.
Asked(query) == IF query = <<>> THEN DefaultLimit ELSE query[1]

\* Mutant: the largest limit is taken for too large.
Limit_Exclusive(n) == IF n <= 0 \/ n >= MaxLimit THEN DefaultLimit ELSE n

\* What the use case makes of it.
Limit(n) == IF n <= 0 \/ n > MaxLimit THEN DefaultLimit ELSE n

Newest(collection, K) ==
    \A k \in K, j \in DOMAIN collection \ K : collection[k].at >= collection[j].at

\* The sets of keys a listing may show.
Shown(collection, query) ==
    LET size  == Cardinality(DOMAIN collection)
        limit == Limit(Asked(query))
    IN  {K \in SUBSET DOMAIN collection :
            /\ Cardinality(K) = IF size < limit THEN size ELSE limit
            /\ Newest(collection, K)}

CollectionOf(d) == IF KindOf[d] = "event" THEN events ELSE raws

\* Who was told that a delivery is stored finds its document in a listing of
\* n, 0 < n <= MaxLimit, unless n others are stamped as late as it is: no late
\* save, stray save or repeated delivery hides it (ingest.go:25-30,
\* event_repo.go:39-40).
AckedIsListed ==
    \A d \in Deliveries : answer[d] = 200 =>
        LET collection == CollectionOf(d)
            atLeastAsLate ==
                {k \in DOMAIN collection :
                    collection[k].at >= collection[KeyOf[d]].at}
        IN  \A n \in 1..MaxLimit : \A K \in Shown(collection, <<n>>) :
                KeyOf[d] \in K \/ Cardinality(atLeastAsLate) > n
=============================================================================
