------------------------- MODULE CallPipelineProofs -------------------------
(***************************************************************************)
(* Proofs about the ledger and the calls billed through it.                *)
(*                                                                         *)
(* EventLedger, for any deliveries: what is acknowledged is in the ledger  *)
(* and stays there, who was told so finds it among the newest, and the     *)
(* calls view never loses a join.  The inductive invariant is LedgerInv.   *)
(*                                                                         *)
(* CallPipeline: it is the ledger under particular senders, and what of    *)
(* its calls gets there, for any calls, deliveries, mishaps and any length *)
(* of time.  The inductive invariant is PipelineInv.                       *)
(***************************************************************************)
EXTENDS CallPipeline, Listings, CallsView, FiniteSetTheorems,
        WellFoundedInduction, TLAPS

\* A save gives its collection the document of its delivery or leaves both
\* collections alone, and no document of an event is ever replaced.
LEMMA WriteAdds ==
    ASSUME NEW d \in Deliveries, Write(d)
    PROVE  /\ \A k \in DOMAIN events : k \in DOMAIN events' /\ events'[k] = events[k]
           /\ DOMAIN raws \subseteq DOMAIN raws'
           /\ \A k \in DOMAIN events' :
                 \/ k \in DOMAIN events /\ events'[k] = events[k]
                 \/ KindOf[d] = "event" /\ k = KeyOf[d] /\ events'[k] = DocOf(d)
           /\ \A k \in DOMAIN raws' :
                 \/ k \in DOMAIN raws /\ raws'[k] = raws[k]
                 \/ KindOf[d] # "event" /\ k = KeyOf[d] /\ raws'[k] = DocOf(d)
           /\ (Accepts(d) /\ KindOf[d] = "event") =>
                 KeyOf[d] \in DOMAIN events' /\ events'[KeyOf[d]] = DocOf(d)
           /\ (Accepts(d) /\ KindOf[d] # "event") =>
                 KeyOf[d] \in DOMAIN raws' /\ raws'[KeyOf[d]] = DocOf(d)
<1>1. CASE ~Accepts(d)
  BY <1>1 DEF Write
<1>2. CASE Accepts(d) /\ KindOf[d] = "event"
  <2>1. KeyOf[d] \notin DOMAIN events
    BY <1>2 DEF Accepts
  <2>2. events' = With(events, KeyOf[d], DocOf(d)) /\ raws' = raws
    BY <1>2 DEF Write, Stored
  <2>3. /\ DOMAIN events' = DOMAIN events \cup {KeyOf[d]}
        /\ \A k \in DOMAIN events' :
              events'[k] = IF k = KeyOf[d] THEN DocOf(d) ELSE events[k]
    BY <2>2 DEF With
  <2> QED
    BY <1>2, <2>1, <2>2, <2>3
<1>3. CASE Accepts(d) /\ KindOf[d] # "event"
  <2>1. raws' = With(raws, KeyOf[d], DocOf(d)) /\ events' = events
    BY <1>3 DEF Write, Stored
  <2>2. /\ DOMAIN raws' = DOMAIN raws \cup {KeyOf[d]}
        /\ \A k \in DOMAIN raws' :
              raws'[k] = IF k = KeyOf[d] THEN DocOf(d) ELSE raws[k]
    BY <2>1 DEF With
  <2> QED
    BY <1>3, <2>1, <2>2
<1> QED
  BY <1>1, <1>2, <1>3

\* The document of a delivery is a document.
LEMMA DocOfType ==
    ASSUME TypeOK, NEW d \in Deliveries
    PROVE  DocOf(d) \in Document /\ DocOf(d).from = d
BY DEF TypeOK, DocOf, Document

\* The collections stay well-formed when a save is executed.
LEMMA WriteType ==
    ASSUME TypeOK, LedgerAssumption, NEW d \in Deliveries, Write(d)
    PROVE  /\ \A k \in DOMAIN events' :
                 events'[k] \in Document /\ KindOf[events'[k].from] = "event"
                                         /\ KeyOf[events'[k].from] = k
           /\ \A k \in DOMAIN raws' :
                 raws'[k] \in Document /\ KindOf[raws'[k].from] = "raw"
                                       /\ KeyOf[raws'[k].from] = k
<1>1. DocOf(d) \in Document /\ DocOf(d).from = d
  BY DocOfType
<1>2. KindOf[d] \in {"event", "raw"}
  BY DEF LedgerAssumption
<1>3. ASSUME NEW k \in DOMAIN events'
      PROVE  events'[k] \in Document /\ KindOf[events'[k].from] = "event"
                                     /\ KeyOf[events'[k].from] = k
  <2>1. CASE k \in DOMAIN events /\ events'[k] = events[k]
    BY <2>1 DEF TypeOK
  <2>2. CASE KindOf[d] = "event" /\ k = KeyOf[d] /\ events'[k] = DocOf(d)
    BY <1>1, <2>2
  <2> QED
    BY <1>3, <2>1, <2>2, WriteAdds
<1>4. ASSUME NEW k \in DOMAIN raws'
      PROVE  raws'[k] \in Document /\ KindOf[raws'[k].from] = "raw"
                                   /\ KeyOf[raws'[k].from] = k
  <2>1. CASE k \in DOMAIN raws /\ raws'[k] = raws[k]
    BY <2>1 DEF TypeOK
  <2>2. CASE KindOf[d] # "event" /\ k = KeyOf[d] /\ raws'[k] = DocOf(d)
    BY <1>1, <1>2, <2>2
  <2> QED
    BY <1>4, <2>1, <2>2, WriteAdds
<1> QED
  BY <1>3, <1>4

\* An acknowledgement stays good when an unrelated save is executed and no
\* stamp of an acknowledged delivery changes.
LEMMA AckSurvivesWrite ==
    ASSUME AckedIsStored, NEW d \in Deliveries, Write(d),
           NEW a \in Deliveries, answer[a] = 200, stamp' = stamp
    PROVE  IF KindOf[a] = "event"
           THEN KeyOf[a] \in DOMAIN events' /\ events'[KeyOf[a]] = DocOf(a)'
           ELSE KeyOf[a] \in DOMAIN raws'
<1>1. DocOf(a)' = DocOf(a)
  BY DEF DocOf
<1> QED
  BY <1>1, WriteAdds DEF AckedIsStored

\* The invariant holds at the start.
LEMMA LedgerInit == ASSUME LedgerAssumption, Init PROVE LedgerInv
<1>1. DOMAIN events = {} /\ DOMAIN raws = {}
  BY DEF Init, Empty
<1>2. TypeOK
  BY <1>1 DEF Init, TypeOK, LedgerAssumption
<1> QED
  BY <1>2 DEF Init, LedgerInv, SilentUntilAnswered, AckedIsStored

\* Every step preserves the invariant.
LEMMA LedgerStep ==
    ASSUME LedgerAssumption, LedgerInv, [Next]_vars
    PROVE  LedgerInv'
<1> USE DEF LedgerInv
<1>1. CASE Tick
  <2>1. TypeOK'
    BY <1>1 DEF Tick, TypeOK, Document, LedgerAssumption
  <2>2. AckedIsStored' /\ SilentUntilAnswered'
    BY <1>1 DEF Tick, AckedIsStored, SilentUntilAnswered, DocOf
  <2> QED
    BY <2>1, <2>2
<1>2. ASSUME NEW d \in Deliveries, Receive(d) PROVE LedgerInv'
  <2>1. answer[d] = 0
    BY <1>2 DEF Receive, SilentUntilAnswered
  <2>2. TypeOK'
    BY <1>2 DEF Receive, TypeOK, LedgerAssumption
  <2>3. SilentUntilAnswered'
    BY <1>2 DEF Receive, SilentUntilAnswered, TypeOK
  <2>4. ASSUME NEW a \in Deliveries, answer'[a] = 200
        PROVE  answer[a] = 200 /\ stamp'[a] = stamp[a]
    BY <1>2, <2>1, <2>4 DEF Receive, TypeOK
  <2>5. AckedIsStored'
    BY <1>2, <2>4 DEF Receive, AckedIsStored, DocOf
  <2> QED
    BY <2>2, <2>3, <2>5
<1>3. ASSUME NEW d \in Deliveries, Save(d) PROVE LedgerInv'
  <2>1. Write(d) /\ stamp' = stamp
    BY <1>3 DEF Save
  <2>2. SaveStatus(d) \in {200, 500}
    BY DEF SaveStatus
  <2>3. TypeOK'
    BY <1>3, <2>1, <2>2, WriteType DEF Save, Answered, TypeOK
  <2>4. SilentUntilAnswered'
    BY <1>3 DEF Save, Answered, SilentUntilAnswered, TypeOK
  <2>5. ASSUME NEW a \in Deliveries, answer'[a] = 200
        PROVE  IF KindOf[a] = "event"
               THEN KeyOf[a] \in DOMAIN events' /\ events'[KeyOf[a]] = DocOf(a)'
               ELSE KeyOf[a] \in DOMAIN raws'
    <3>1. CASE a = d
      <4>1. Accepts(d)
        BY <1>3, <2>5, <3>1 DEF Save, Answered, SaveStatus, TypeOK
      <4>2. DocOf(d)' = DocOf(d)
        BY <2>1 DEF DocOf
      <4> QED
        BY <2>1, <3>1, <4>1, <4>2, WriteAdds
    <3>2. CASE a # d
      <4>1. answer[a] = 200
        BY <1>3, <2>5, <3>2 DEF Save, Answered, TypeOK
      <4> QED
        BY <2>1, <4>1, AckSurvivesWrite
    <3> QED
      BY <3>1, <3>2
  <2>6. AckedIsStored'
    BY <2>5 DEF AckedIsStored
  <2> QED
    BY <2>3, <2>4, <2>6
<1>4. ASSUME NEW d \in Deliveries, SaveFails(d) PROVE LedgerInv'
  <2>1. TypeOK'
    BY <1>4 DEF SaveFails, Answered, TypeOK
  <2>2. SilentUntilAnswered'
    BY <1>4 DEF SaveFails, Answered, SilentUntilAnswered, TypeOK
  <2>3. AckedIsStored'
    BY <1>4 DEF SaveFails, Answered, AckedIsStored, DocOf, TypeOK
  <2> QED
    BY <2>1, <2>2, <2>3
<1>5. ASSUME NEW d \in Deliveries, Land(d) PROVE LedgerInv'
  <2>1. Write(d) /\ stamp' = stamp /\ answer' = answer /\ pc' = pc
    BY <1>5 DEF Land
  <2>2. TypeOK'
    BY <1>5, <2>1, WriteType DEF Land, TypeOK
  <2>3. SilentUntilAnswered'
    BY <2>1 DEF SilentUntilAnswered
  <2>4. AckedIsStored'
    BY <2>1, AckSurvivesWrite DEF AckedIsStored
  <2> QED
    BY <2>2, <2>3, <2>4
<1>6. CASE Crash
  <2>1. events' = events /\ raws' = raws
    BY <1>6 DEF Crash
  <2>2. TypeOK'
    BY <1>6, <2>1 DEF Crash, TypeOK, LedgerAssumption
  <2>3. SilentUntilAnswered'
    BY <1>6 DEF Crash, SilentUntilAnswered, TypeOK
  <2>4. AckedIsStored'
    BY <1>6, <2>1 DEF Crash, AckedIsStored, DocOf
  <2> QED
    BY <2>2, <2>3, <2>4
<1>7. CASE UNCHANGED vars
  BY <1>7 DEF vars, TypeOK, SilentUntilAnswered, AckedIsStored, DocOf
<1> QED
  BY <1>1, <1>2, <1>3, <1>4, <1>5, <1>6, <1>7 DEF Next, Handle, Idle

\* The inductive invariant of the ledger holds in every reachable state.
THEOREM LedgerInvariant == Spec => []LedgerInv
<1>1. Init => LedgerInv
  BY LedgerAssumption, LedgerInit
<1>2. LedgerInv /\ [Next]_vars => LedgerInv'
  BY LedgerAssumption, LedgerStep
<1> QED
  BY <1>1, <1>2, PTL DEF Spec

\* Types: every document was sent to the collection it is in, under its own key.
THEOREM LedgerTypes == Spec => []TypeOK
<1>1. LedgerInv => TypeOK
  BY DEF LedgerInv
<1> QED
  BY <1>1, LedgerInvariant, PTL

\* An acknowledged document is in the ledger, whatever crashes, duplicates and
\* stray saves follow.
THEOREM AckedStored == Spec => []AckedIsStored
<1>1. LedgerInv => AckedIsStored
  BY DEF LedgerInv
<1> QED
  BY <1>1, LedgerInvariant, PTL

\* An event id is acknowledged once: the ledger holds the document of only one
\* delivery, and every acknowledged one finds its own there.
THEOREM AckedOnce == Spec => []OneAckPerEvent
<1>1. ASSUME LedgerInv PROVE OneAckPerEvent
  <2>1. ASSUME NEW d \in Deliveries, NEW e \in Deliveries, SameEvent(d, e),
               answer[d] = 200, answer[e] = 200
        PROVE  d = e
    <3>1. events[KeyOf[d]] = DocOf(d) /\ events[KeyOf[e]] = DocOf(e)
      BY <1>1, <2>1 DEF LedgerInv, AckedIsStored, SameEvent
    <3>2. DocOf(d) = DocOf(e)
      BY <2>1, <3>1 DEF SameEvent
    <3>3. DocOf(d).from = d /\ DocOf(e).from = e
      BY DEF DocOf
    <3> QED
      BY <3>2, <3>3
  <2> QED
    BY <2>1 DEF OneAckPerEvent
<1> QED
  BY <1>1, LedgerInvariant, PTL

\* No step removes a document or changes that of an event.
LEMMA StepGrows ==
    ASSUME [Next]_vars
    PROVE  /\ \A k \in DOMAIN events : k \in DOMAIN events' /\ events'[k] = events[k]
           /\ DOMAIN raws \subseteq DOMAIN raws'
<1>1. CASE \E d \in Deliveries : Write(d)
  BY <1>1, WriteAdds
<1>2. CASE UNCHANGED <<events, raws>>
  BY <1>2
<1>3. (\E d \in Deliveries : Write(d)) \/ UNCHANGED <<events, raws>>
  BY DEF Next, Tick, Receive, Handle, Save, SaveFails, Land, Crash, Idle, vars
<1> QED
  BY <1>1, <1>2, <1>3

\* Nothing that was stored is removed, and no stored event is changed.
THEOREM OnlyGrows == Spec => LedgerGrows
<1>1. [Next]_vars =>
         [/\ \A k \in DOMAIN events : k \in DOMAIN events' /\ events'[k] = events[k]
          /\ DOMAIN raws \subseteq DOMAIN raws']_vars
  BY StepGrows
<1> QED
  BY <1>1, PTL DEF Spec, LedgerGrows

-----------------------------------------------------------------------------
(* What the listings show of the ledger. *)

\* There is never an infinity of documents: a save adds one key at most.
Finite == IsFiniteSet(DOMAIN events) /\ IsFiniteSet(DOMAIN raws)

LEMMA FiniteStep == ASSUME Finite, [Next]_vars PROVE Finite'
<1>1. ASSUME NEW d \in Deliveries, Write(d) PROVE Finite'
  <2>1. /\ IsFiniteSet(DOMAIN events \cup {KeyOf[d]})
        /\ IsFiniteSet(DOMAIN raws \cup {KeyOf[d]})
    BY FS_AddElement DEF Finite
  <2>2. /\ DOMAIN events' = DOMAIN events \/ DOMAIN events' = DOMAIN events \cup {KeyOf[d]}
        /\ DOMAIN raws' = DOMAIN raws \/ DOMAIN raws' = DOMAIN raws \cup {KeyOf[d]}
    BY <1>1 DEF Write, Stored, With
  <2> QED
    BY <2>1, <2>2 DEF Finite
<1>2. CASE UNCHANGED <<events, raws>>
  BY <1>2 DEF Finite
<1>3. (\E d \in Deliveries : Write(d)) \/ UNCHANGED <<events, raws>>
  BY DEF Next, Tick, Receive, Handle, Save, SaveFails, Land, Crash, Idle, vars
<1> QED
  BY <1>1, <1>2, <1>3

\* Within the limits a query gets what it asks for.
LEMMA LimitKept ==
    ASSUME ListingAssumption, NEW n \in 1..MaxLimit
    PROVE  Limit(Asked(<<n>>)) = n
<1>1. Asked(<<n>>) = n
  BY DEF Asked
<1> QED
  BY <1>1 DEF Limit, ListingAssumption

\* A key that is left out of a listing of n has n newer ones in it, or as new.
LEMMA LeftOut ==
    ASSUME ListingAssumption, NEW collection, IsFiniteSet(DOMAIN collection),
           \A k \in DOMAIN collection : collection[k].at \in Nat,
           NEW n \in 1..MaxLimit, NEW K \in Shown(collection, <<n>>),
           NEW key \in DOMAIN collection \ K
    PROVE  Cardinality({k \in DOMAIN collection :
                           collection[k].at >= collection[key].at}) > n
<1> DEFINE late == {k \in DOMAIN collection : collection[k].at >= collection[key].at}
<1>1. /\ K \subseteq DOMAIN collection
      /\ Cardinality(K) = IF Cardinality(DOMAIN collection) < n
                          THEN Cardinality(DOMAIN collection) ELSE n
      /\ Newest(collection, K)
  BY LimitKept DEF Shown
<1>2. IsFiniteSet(K) /\ Cardinality(K) \in Nat
  BY <1>1, FS_Subset, FS_CardinalityType
<1>3. /\ IsFiniteSet(K \cup {key})
      /\ Cardinality(K \cup {key}) = Cardinality(K) + 1
  BY <1>2, FS_AddElement
<1>4. Cardinality(K \cup {key}) <= Cardinality(DOMAIN collection)
  BY <1>1, <1>3, FS_Subset
<1>5. Cardinality(DOMAIN collection) \in Nat
  BY FS_CardinalityType
<1>6. Cardinality(K) = n
  BY <1>1, <1>2, <1>3, <1>4, <1>5
<1>7. K \cup {key} \subseteq late
  BY <1>1 DEF Newest
<1>8. IsFiniteSet(late)
  BY FS_Subset
<1>9. Cardinality(K \cup {key}) <= Cardinality(late) /\ Cardinality(late) \in Nat
  BY <1>7, <1>8, FS_Subset, FS_CardinalityType
<1> QED
  BY <1>3, <1>6, <1>9

\* An acknowledged document is among the newest of its collection
\* (ingest.go:25-30, event_repo.go:39-40).
THEOREM AckedListed == Spec => []AckedIsListed
<1>1. Init => Finite
  BY FS_EmptySet DEF Init, Empty, Finite
<1>2. Finite /\ [Next]_vars => Finite'
  BY FiniteStep
<1>3. ASSUME LedgerInv, Finite PROVE AckedIsListed
  <2>1. ASSUME NEW d \in Deliveries, answer[d] = 200,
               NEW n \in 1..MaxLimit, NEW K \in Shown(CollectionOf(d), <<n>>),
               KeyOf[d] \notin K
        PROVE  Cardinality({k \in DOMAIN CollectionOf(d) :
                   CollectionOf(d)[k].at >= CollectionOf(d)[KeyOf[d]].at}) > n
    <3>1. KeyOf[d] \in DOMAIN CollectionOf(d)
      BY <1>3, <2>1 DEF LedgerInv, AckedIsStored, CollectionOf
    <3>2. IsFiniteSet(DOMAIN CollectionOf(d))
      BY <1>3 DEF Finite, CollectionOf
    <3>3. \A k \in DOMAIN CollectionOf(d) : CollectionOf(d)[k].at \in Nat
      BY <1>3, LedgerAssumption
         DEF LedgerInv, TypeOK, Document, CollectionOf, LedgerAssumption
    <3> QED
      BY <2>1, <3>1, <3>2, <3>3, ListingAssumption, LeftOut
  <2> QED
    BY <2>1 DEF AckedIsListed
<1> QED
  BY <1>1, <1>2, <1>3, LedgerInvariant, PTL DEF Spec
-----------------------------------------------------------------------------
(* What the calls view shows of the ledger. *)

\* Of documents, one is the earliest.
LEMMA EarliestExists ==
    ASSUME NEW S, NEW k0 \in S, NEW at, \A k \in S : at[k] \in Nat
    PROVE  \E k \in S : \A j \in S : at[k] <= at[j]
<1> DEFINE T == {at[k] : k \in S}
<1>1. T \subseteq Nat /\ T # {}
  OBVIOUS
<1>2. PICK t \in T : \A u \in T : ~ (<<u, t>> \in OpToRel(<, Nat))
  <2>1. IsWellFoundedOn(OpToRel(<, Nat), Nat)
    BY NatLessThanWellFounded
  <2> QED
    BY <1>1, <2>1, WFMin
<1>3. PICK k \in S : t = at[k]
  OBVIOUS
<1>4. ASSUME NEW j \in S  PROVE at[k] <= at[j]
  <2>1. ~ (<<at[j], at[k]>> \in OpToRel(<, Nat))
    BY <1>2, <1>3
  <2>2. ~ (at[j] < at[k])
    BY <2>1 DEF OpToRel
  <2> QED
    BY <2>2
<1> QED
  BY <1>4

\* A reader of the view never sees a join disappear, or move forward in time, as
\* long as the document of the call is not replaced, whatever is saved, lost or
\* late (create-calls-view.js:12-29).
THEOREM JoinsMoveBack == Spec => JoinMovesBack
<1> DEFINE Moves(call) ==
              (Joined(call) # {} /\ raws'[call] = raws[call]) =>
                  /\ Joined(call)' # {}
                  /\ \A k \in Joined(call), j \in Joined(call)' :
                        events'[j].at <= events[k].at
<1>1. ASSUME LedgerInv', [Next]_vars, NEW call \in DOMAIN raws  PROVE Moves(call)
  <2> SUFFICES ASSUME Joined(call) # {}, raws'[call] = raws[call]
               PROVE  /\ Joined(call)' # {}
                      /\ \A k \in Joined(call), j \in Joined(call)' :
                            events'[j].at <= events[k].at
    OBVIOUS
  <2>1. \A k \in DOMAIN events : k \in DOMAIN events' /\ events'[k] = events[k]
    BY <1>1, StepGrows
  <2>2. \A k \in Candidates(call) : k \in Candidates(call)' /\ events'[k] = events[k]
    BY <2>1 DEF Candidates, Distance
  <2>3. \A k \in Joined(call) : k \in Candidates(call)' /\ events'[k] = events[k]
    BY <2>2 DEF Joined
  <2>4. \A k \in Joined(call), j \in Joined(call)' : events'[j].at <= events[k].at
    BY <2>3 DEF Joined
  <2>5. Joined(call)' # {}
    <3> DEFINE S == Candidates(call)'
               at == [k \in S |-> events'[k].at]
    <3>1. PICK k0 : k0 \in S
      BY <2>3
    <3>2. \A k \in S : at[k] \in Nat
      <4>1. \A k \in DOMAIN events' : events'[k] \in Document
        BY <1>1 DEF LedgerInv, TypeOK
      <4>2. \A k \in S : k \in DOMAIN events'
        BY DEF Candidates
      <4>3. \A k \in S : events'[k].at \in 0..MaxTime
        BY <4>1, <4>2 DEF Document
      <4> HIDE DEF S
      <4> QED
        BY <4>3
    <3> HIDE DEF S
    <3>3. PICK k \in S : \A j \in S : at[k] <= at[j]
      BY <3>1, <3>2, EarliestExists
    <3>4. \A j \in S : events'[k].at <= events'[j].at
      BY <3>3
    <3> QED
      BY <3>3, <3>4 DEF S, Joined
  <2> QED
    BY <2>4, <2>5
<1>2. LedgerInv' /\ [Next]_vars => [\A call \in DOMAIN raws : Moves(call)]_vars
  BY <1>1
<1> QED
  BY <1>2, LedgerInvariant, PTL DEF Spec, JoinMovesBack
-----------------------------------------------------------------------------
(* The calls. *)

\* Every step of the pipeline is a step of the ledger, or leaves it alone.
LEMMA LedgerSteps == ASSUME [PipelineNext]_pipelineVars PROVE [Next]_vars
BY DEF PipelineNext, CacheHit, Ask, MockReplies, MockRefuses, MockRestarts,
       PipelineReceive, PipelineHandle, PipelineSave, PipelineSaveFails,
       PipelineLand, LedgerTicks, LedgerCrashes, PipelineIdle, pipelineVars,
       vars, Next, Handle

\* A step is one of the calls or one of the ledger and its senders.
LEMMA StepKinds ==
    ASSUME [PipelineNext]_pipelineVars
    PROVE  \/ /\ UNCHANGED <<historyVars, vars>>
              /\ \/ MockRestarts
                 \/ \E c \in Calls :
                       CacheHit(c) \/ Ask(c) \/ MockReplies(c) \/ MockRefuses(c)
           \/ /\ UNCHANGED callVars
              /\ \/ \E d \in Deliveries :
                       \/ PipelineReceive(d) \/ PipelineSave(d)
                       \/ PipelineSaveFails(d) \/ PipelineLand(d)
                 \/ LedgerTicks \/ LedgerCrashes \/ UNCHANGED pipelineVars
BY DEF PipelineNext, CacheHit, Ask, MockReplies, MockRefuses, MockRestarts,
       PipelineReceive, PipelineHandle, PipelineSave, PipelineSaveFails,
       PipelineLand, LedgerTicks, LedgerCrashes, PipelineIdle, pipelineVars

\* A new reply has an id of its route's kind.
LEMMA ReplyIdType ==
    ASSUME PipelineAssumption, PipelineInv, NEW c \in Calls
    PROVE  /\ ReplyId(RouteOf[c]) \in IdsFor(RouteOf[c]) \cap ReplyIds
           /\ VideosAfter(RouteOf[c]) \in Nat
<1>1. VideosAfter(RouteOf[c]) \in Nat
  BY DEF PipelineInv, PipelineTypeOK, VideosAfter
<1>2. now \in Nat
  BY DEF PipelineInv, LedgerInv, TypeOK
<1>3. RouteOf[c] \in {"chat", "video", "plain"}
  BY DEF PipelineAssumption
<1> QED
  BY <1>1, <1>2, <1>3 DEF ReplyId, IdsFor, ReplyIds

LEMMA PipelineTypeInit ==
    ASSUME PipelineAssumption, LedgerAssumption, PipelineInit PROVE PipelineTypeOK
<1>1. TypeOK
  BY LedgerInit DEF PipelineInit, LedgerInv
<1>2. PICK session \in Sessions :
        status = [c \in Calls |-> IF c \in session THEN "new" ELSE "unmade"]
  BY DEF PipelineInit
<1>3. NoId \in ReplyIds
  BY DEF ReplyIds
<1> QED
  BY <1>1, <1>2, <1>3 DEF PipelineInit, PipelineTypeOK, Reply

LEMMA PipelineTypeStep ==
    ASSUME PipelineAssumption, LedgerAssumption, PipelineInv,
           [PipelineNext]_pipelineVars
    PROVE  PipelineTypeOK'
<1>1. TypeOK'
  BY LedgerSteps, LedgerStep DEF PipelineInv, LedgerInv
<1>2. PipelineTypeOK
  BY DEF PipelineInv
<1>3. /\ status' \in [Calls -> {"unmade", "new", "asked", "done", "failed"}]
      /\ reply' \in [Calls -> Reply]
      /\ made' \in Nat
      /\ restarts' \in Nat
  <2>1. CASE UNCHANGED callVars
    BY <1>2, <2>1 DEF callVars, PipelineTypeOK
  <2>2. CASE MockRestarts
    BY <1>2, <2>2 DEF MockRestarts, PipelineTypeOK
  <2>3. ASSUME NEW c \in Calls, CacheHit(c) PROVE <1>3!:
    <3>1. cache[RequestOf[c]] \in Reply
      BY <2>3 DEF CacheHit, Cached, PipelineInv, RepliesMade, Made, PipelineTypeOK
    <3> QED
      BY <1>2, <2>3, <3>1 DEF CacheHit, PipelineTypeOK
  <2>4. ASSUME NEW c \in Calls, Ask(c) \/ MockRefuses(c) PROVE <1>3!:
    BY <1>2, <2>4 DEF Ask, MockRefuses, PipelineTypeOK
  <2>5. ASSUME NEW c \in Calls, MockReplies(c) PROVE <1>3!:
    <3>1. [id |-> ReplyId(RouteOf[c]), by |-> c, life |-> restarts] \in Reply
      BY <1>2, ReplyIdType DEF Reply, PipelineTypeOK
    <3> QED
      BY <1>2, <2>5, <3>1, ReplyIdType DEF MockReplies, PipelineTypeOK
  <2> QED
    BY <2>1, <2>2, <2>3, <2>4, <2>5, StepKinds
<1>4. spoilt' \subseteq Deliveries /\ settled' \in [Deliveries -> SUBSET Deliveries]
  <2>1. CASE UNCHANGED historyVars
    BY <1>2, <2>1 DEF historyVars, PipelineTypeOK
  <2>2. ASSUME NEW d \in Deliveries, PipelineReceive(d) PROVE <1>4!:
    BY <1>2, <2>2 DEF PipelineReceive, PipelineTypeOK
  <2>3. ASSUME NEW d \in Deliveries, PipelineSaveFails(d) PROVE <1>4!:
    BY <1>2, <2>3 DEF PipelineSaveFails, PipelineTypeOK
  <2> QED
    BY <2>1, <2>2, <2>3, StepKinds DEF PipelineSave, PipelineLand, LedgerTicks,
       LedgerCrashes, pipelineVars
<1> QED
  BY <1>1, <1>3, <1>4 DEF PipelineTypeOK

\* A reply that was made stays the reply of the call it was made for.
LEMMA MadeStays ==
    ASSUME NEW x, NEW q, Made(x, q),
           \A c \in Calls : status[c] = "done" =>
               status'[c] = "done" /\ reply'[c] = reply[c]
    PROVE  Made(x, q)'
BY DEF Made

\* What a call was told, it keeps.
LEMMA DoneStays ==
    ASSUME PipelineInv, [PipelineNext]_pipelineVars,
           NEW c \in Calls, status[c] = "done"
    PROVE  status'[c] = "done" /\ reply'[c] = reply[c]
<1>1. PipelineTypeOK
  BY DEF PipelineInv
<1>2. CASE UNCHANGED callVars
  BY <1>2 DEF callVars
<1>3. CASE MockRestarts
  BY <1>3 DEF MockRestarts
<1>4. ASSUME NEW e \in Calls,
             CacheHit(e) \/ Ask(e) \/ MockReplies(e) \/ MockRefuses(e)
      PROVE  status'[c] = "done" /\ reply'[c] = reply[c]
  BY <1>1, <1>4 DEF CacheHit, Ask, MockReplies, MockRefuses, PipelineTypeOK
<1> QED
  BY <1>2, <1>3, <1>4, StepKinds

\* Replies and cache entries are made for their requests.
LEMMA RepliesStep ==
    ASSUME PipelineAssumption, PipelineInv, [PipelineNext]_pipelineVars
    PROVE  RepliesMade'
<1>1. PipelineTypeOK /\ RepliesMade
  BY DEF PipelineInv
<1>2. \A c \in Calls : status[c] = "done" =>
         status'[c] = "done" /\ reply'[c] = reply[c]
  BY DoneStays
<1>3. ASSUME NEW c \in Calls, status[c] = "done"
      PROVE  Made(reply[c], RequestOf[c])' /\ reply'[c].id \in IdsFor(RouteOf[c])
  BY <1>1, <1>2, <1>3, MadeStays DEF RepliesMade
<1>4. ASSUME NEW q \in DOMAIN cache, NEW x, x = cache[q]
      PROVE  Made(x, q)' /\ RouteOf[x.by] # "video"
  BY <1>1, <1>2, <1>4, MadeStays DEF RepliesMade
<1>5. CASE UNCHANGED callVars \/ MockRestarts \/ \E c \in Calls : Ask(c) \/ MockRefuses(c)
  <2>1. \A c \in Calls : status'[c] = "done" => status[c] = "done"
    BY <1>1, <1>5 DEF callVars, MockRestarts, Ask, MockRefuses, PipelineTypeOK
  <2>2. cache' = cache
    BY <1>5 DEF callVars, MockRestarts, Ask, MockRefuses
  <2> QED
    BY <1>3, <1>4, <2>1, <2>2 DEF RepliesMade, Made
<1>6. ASSUME NEW c \in Calls, CacheHit(c) PROVE RepliesMade'
  <2>1. /\ status' = [status EXCEPT ![c] = "done"]
        /\ reply'[c] = cache[RequestOf[c]]
        /\ cache' = cache
        /\ RequestOf[c] \in DOMAIN cache
    BY <1>1, <1>6 DEF CacheHit, Cached, PipelineTypeOK
  <2> DEFINE b == cache[RequestOf[c]].by
  <2>2. b \in Calls /\ status[b] = "done" /\ reply[b] = cache[RequestOf[c]]
    BY <1>1, <2>1 DEF RepliesMade, Made
  <2>3. reply[b].id \in IdsFor(RouteOf[b]) /\ RouteOf[b] = RouteOf[c]
    BY <1>1, <2>1, <2>2 DEF RepliesMade, Made, PipelineAssumption
  <2>4. Made(reply[c], RequestOf[c])' /\ reply'[c].id \in IdsFor(RouteOf[c])
    BY <1>4, <2>1, <2>2, <2>3 DEF Made
  <2>5. \A e \in Calls : status'[e] = "done" => e = c \/ status[e] = "done"
    BY <1>1, <2>1 DEF PipelineTypeOK
  <2> QED
    BY <1>3, <1>4, <2>1, <2>4, <2>5 DEF RepliesMade, Made
<1>7. ASSUME NEW c \in Calls, MockReplies(c) PROVE RepliesMade'
  <2>0. PICK new :
          new = [id |-> ReplyId(RouteOf[c]), by |-> c, life |-> restarts]
    OBVIOUS
  <2>1. /\ status' = [status EXCEPT ![c] = "done"]
        /\ reply' = [reply EXCEPT ![c] = new]
        /\ cache' = IF RouteOf[c] = "video" THEN cache
                    ELSE With(cache, RequestOf[c], new)
    BY <1>7, <2>0 DEF MockReplies
  <2>2. Made(new, RequestOf[c])' /\ reply'[c] = new
    BY <1>1, <2>0, <2>1 DEF Made, PipelineTypeOK
  <2>3. reply'[c].id \in IdsFor(RouteOf[c])
    BY <2>0, <2>2, ReplyIdType
  <2>4. \A e \in Calls : status'[e] = "done" => e = c \/ status[e] = "done"
    BY <1>1, <2>1 DEF PipelineTypeOK
  <2>5. ASSUME NEW q \in DOMAIN cache', NEW x, x = cache'[q]
        PROVE  Made(x, q)' /\ RouteOf[x.by] # "video"
    <3>1. CASE q \in DOMAIN cache /\ x = cache[q]
      BY <1>4, <3>1
    <3>2. CASE RouteOf[c] # "video" /\ q = RequestOf[c] /\ x = new
      BY <2>0, <2>2, <3>2
    <3> QED
      BY <2>1, <2>5, <3>1, <3>2 DEF With
  <2> QED
    BY <1>3, <2>2, <2>3, <2>4, <2>5 DEF RepliesMade, Made
<1> QED
  BY <1>5, <1>6, <1>7, StepKinds

\* The counter has passed every video of this life of the mock.
LEMMA VideosStep ==
    ASSUME PipelineAssumption, PipelineInv, [PipelineNext]_pipelineVars
    PROVE  VideosCounted'
<1>1. PipelineTypeOK /\ RepliesMade /\ VideosCounted
  BY DEF PipelineInv
<1>2. \A c \in Calls : status[c] = "done" =>
         status'[c] = "done" /\ reply'[c] = reply[c]
  BY DoneStays
<1>3. ASSUME NEW c \in Calls, status[c] = "done", RouteOf[c] = "video"
      PROVE  reply[c].id[2] \in Nat /\ reply[c].life \in Nat
  BY <1>1, <1>3 DEF RepliesMade, IdsFor, PipelineTypeOK, Reply
<1>4. CASE UNCHANGED callVars \/ MockRestarts \/ \E c \in Calls : Ask(c) \/ MockRefuses(c)
  <2>1. \A c \in Calls : status'[c] = "done" => status[c] = "done"
    BY <1>1, <1>4 DEF callVars, MockRestarts, Ask, MockRefuses, PipelineTypeOK
  <2>2. (made' = made /\ restarts' = restarts) \/ restarts' = restarts + 1
    BY <1>4 DEF callVars, MockRestarts, Ask, MockRefuses
  <2>3. restarts \in Nat
    BY <1>1 DEF PipelineTypeOK
  <2>4. ASSUME NEW c \in Calls, status'[c] = "done", RouteOf[c] = "video"
        PROVE  /\ reply'[c].by = c
               /\ reply'[c].life <= restarts'
               /\ reply'[c].life = restarts' => reply'[c].id[2] <= made'
    BY <1>1, <1>2, <1>3, <2>1, <2>2, <2>3, <2>4 DEF VideosCounted
  <2> QED
    BY <1>1, <1>2, <2>1, <2>4 DEF VideosCounted
<1>5. ASSUME NEW c \in Calls, CacheHit(c) PROVE VideosCounted'
  <2>1. RouteOf[c] # "video"
    BY <1>1, <1>5 DEF CacheHit, Cached, RepliesMade, Made, PipelineAssumption
  <2>2. /\ \A e \in Calls : status'[e] = "done" => e = c \/ status[e] = "done"
        /\ made' = made /\ restarts' = restarts
    BY <1>1, <1>5 DEF CacheHit, PipelineTypeOK
  <2> QED
    BY <1>1, <1>2, <2>1, <2>2 DEF VideosCounted
<1>6. ASSUME NEW c \in Calls, MockReplies(c) PROVE VideosCounted'
  <2>1. /\ \A e \in Calls : status'[e] = "done" => e = c \/ status[e] = "done"
        /\ reply'[c] = [id |-> ReplyId(RouteOf[c]), by |-> c, life |-> restarts]
        /\ made' = VideosAfter(RouteOf[c]) /\ restarts' = restarts
        /\ status[c] # "done"
    BY <1>1, <1>6 DEF MockReplies, PipelineTypeOK
  <2>2. made \in Nat /\ restarts \in Nat
    BY <1>1 DEF PipelineTypeOK
  <2>3. made <= made'
    BY <2>1, <2>2 DEF VideosAfter
  <2>4. ASSUME RouteOf[c] = "video"
        PROVE  reply'[c].id[2] = made + 1 /\ made' = made + 1
    BY <2>1, <2>4 DEF ReplyId, VideosAfter
  <2>5. ASSUME NEW e \in Calls, status'[e] = "done", RouteOf[e] = "video"
        PROVE  /\ reply'[e].by = e
               /\ reply'[e].life <= restarts'
               /\ reply'[e].life = restarts' => reply'[e].id[2] <= made'
    <3>1. CASE e = c
      BY <2>1, <2>2, <2>4, <2>5, <3>1
    <3>2. CASE e # c
      <4>1. status[e] = "done" /\ reply'[e] = reply[e]
        BY <1>2, <2>1, <2>5, <3>2
      <4>2. /\ reply[e].by = e /\ reply[e].life <= restarts
            /\ reply[e].life = restarts => reply[e].id[2] <= made
        BY <1>1, <2>5, <4>1 DEF VideosCounted
      <4>3. reply[e].id[2] \in Nat /\ made' \in Nat
        BY <1>3, <2>1, <2>5, <4>1, ReplyIdType
      <4> QED
        BY <2>1, <2>2, <2>3, <4>1, <4>2, <4>3
    <3> QED
      BY <3>1, <3>2
  <2>6. ASSUME NEW e \in Calls, status[e] = "done", RouteOf[e] = "video",
               RouteOf[c] = "video", reply'[c].life = reply[e].life
        PROVE  reply'[c].id # reply[e].id
    <3>1. reply[e].id[2] <= made /\ reply[e].id[2] \in Nat
      BY <1>1, <1>3, <2>1, <2>6 DEF VideosCounted
    <3> QED
      BY <2>2, <2>4, <2>6, <3>1
  <2>7. ASSUME NEW d \in Calls, NEW e \in Calls,
               status'[d] = "done", RouteOf[d] = "video",
               status'[e] = "done", RouteOf[e] = "video",
               reply'[d].life = reply'[e].life, reply'[d].id = reply'[e].id
        PROVE  d = e
    <3>1. CASE d # c /\ e # c
      BY <1>1, <1>2, <2>1, <2>7, <3>1 DEF VideosCounted
    <3>2. CASE d = c /\ e # c
      BY <1>2, <2>1, <2>6, <2>7, <3>2
    <3>3. CASE d # c /\ e = c
      BY <1>2, <2>1, <2>6, <2>7, <3>3
    <3> QED
      BY <3>1, <3>2, <3>3
  <2> QED
    BY <2>5, <2>7 DEF VideosCounted
<1> QED
  BY <1>4, <1>5, <1>6, StepKinds

\* What was posted stays posted: the call it is about is done.
LEMMA PostedStays ==
    ASSUME PipelineAssumption, PipelineInv, [PipelineNext]_pipelineVars,
           NEW d \in Deliveries, Posted(d)
    PROVE  Posted(d)'
<1>1. CallOf[d] \in Calls /\ status[CallOf[d]] = "done"
  BY DEF PipelineAssumption, Posted
<1>2. status'[CallOf[d]] = "done" /\ reply'[CallOf[d]] = reply[CallOf[d]]
  BY <1>1, DoneStays
<1> QED
  BY <1>2 DEF Posted, PostKey, EventKey, RawKey

\* Every handler and every document stems from a post.
LEMMA ReceivedStep ==
    ASSUME PipelineAssumption, LedgerAssumption, PipelineInv,
           [PipelineNext]_pipelineVars
    PROVE  ReceivedWerePosted'
<1>1. TypeOK /\ ReceivedWerePosted
  BY DEF PipelineInv, LedgerInv, ReceivedWerePosted
<1>2. \A d \in Deliveries : pc[d] # "sent" => Posted(d)'
  BY <1>1, PostedStays DEF ReceivedWerePosted
<1>3. CASE UNCHANGED vars
  BY <1>1, <1>2, <1>3 DEF vars, ReceivedWerePosted
<1>4. CASE LedgerTicks
  BY <1>1, <1>2, <1>4 DEF LedgerTicks, Tick, ReceivedWerePosted
<1>5. CASE LedgerCrashes
  BY <1>1, <1>2, <1>5 DEF LedgerCrashes, Crash, ReceivedWerePosted, TypeOK, Document
<1>6. ASSUME NEW d \in Deliveries, PipelineReceive(d) PROVE ReceivedWerePosted'
  <2>1. Posted(d)'
    BY <1>6, PostedStays DEF PipelineReceive
  <2>2. /\ pc[d] = "sent" /\ pc'[d] # "sent"
        /\ \A e \in Deliveries : e # d => pc'[e] = pc[e]
        /\ events' = events /\ raws' = raws /\ limbo' = limbo
    BY <1>1, <1>6 DEF PipelineReceive, Receive, TypeOK
  <2>3. /\ \A k \in DOMAIN events : events[k].from \in Deliveries
        /\ \A k \in DOMAIN raws : raws[k].from \in Deliveries
        /\ limbo \subseteq Deliveries
    BY <1>1 DEF TypeOK, Document
  <2> QED
    BY <1>1, <1>2, <2>1, <2>2, <2>3 DEF ReceivedWerePosted
<1>7. ASSUME NEW d \in Deliveries,
             PipelineSave(d) \/ PipelineSaveFails(d) \/ PipelineLand(d)
      PROVE  ReceivedWerePosted'
  <2>1. /\ pc[d] # "sent"
        /\ pc[d] = "save" \/ d \in limbo
        /\ d \in limbo => pc[d] # "save"
        /\ pc'[d] \notin {"sent", "save"}
        /\ \A e \in Deliveries : e # d => pc'[e] = pc[e]
        /\ limbo' \subseteq limbo \cup {d}
    BY <1>1, <1>7 DEF PipelineSave, PipelineSaveFails, PipelineLand, Save,
       SaveFails, Land, Answered, ReceivedWerePosted, TypeOK
  <2>2. /\ \A k \in DOMAIN events' :
              events'[k].from = d \/ (k \in DOMAIN events /\ events'[k] = events[k])
        /\ \A k \in DOMAIN raws' :
              raws'[k].from = d \/ (k \in DOMAIN raws /\ raws'[k] = raws[k])
    <3>1. DocOf(d).from = d
      BY DEF DocOf
    <3>2. CASE Write(d)
      BY <3>1, <3>2, WriteAdds
    <3>3. CASE UNCHANGED <<events, raws>>
      BY <3>3
    <3> QED
      BY <1>7, <3>2, <3>3 DEF PipelineSave, PipelineSaveFails, PipelineLand, Save,
         SaveFails, Land
  <2>3. /\ \A k \in DOMAIN events : events[k].from \in Deliveries
        /\ \A k \in DOMAIN raws : raws[k].from \in Deliveries
        /\ limbo \subseteq Deliveries
    BY <1>1 DEF TypeOK, Document
  <2> QED
    BY <1>1, <1>2, <2>1, <2>2, <2>3 DEF ReceivedWerePosted
<1> QED
  BY <1>3, <1>4, <1>5, <1>6, <1>7, StepKinds DEF pipelineVars

\* How a step changes the answers: only a save that is done adds one of 200 or
\* of 500, but for a failed save's.
LEMMA AnswerSteps ==
    ASSUME PipelineInv, [PipelineNext]_pipelineVars, NEW d \in Deliveries
    PROVE  \/ answer'[d] = answer[d]
           \/ PipelineReceive(d) /\ answer'[d] = 400 /\ answer[d] = 0
           \/ PipelineSave(d) /\ answer'[d] = SaveStatus(d) /\ answer[d] = 0
           \/ PipelineSaveFails(d) /\ answer'[d] = 500 /\ answer[d] = 0
<1>1. TypeOK /\ SilentUntilAnswered
  BY DEF PipelineInv, LedgerInv
<1>2. CASE UNCHANGED vars \/ LedgerTicks \/ LedgerCrashes
  BY <1>2 DEF vars, LedgerTicks, LedgerCrashes, Tick, Crash
<1>3. ASSUME NEW e \in Deliveries, PipelineReceive(e)
      PROVE  \/ answer'[d] = answer[d]
             \/ PipelineReceive(d) /\ answer'[d] = 400 /\ answer[d] = 0
  <2>1. Receive(e) /\ answer[e] = 0
    BY <1>1, <1>3 DEF PipelineReceive, Receive, SilentUntilAnswered
  <2>2. answer'[d] = answer[d] \/ (e = d /\ answer'[d] = 400)
    BY <1>1, <2>1 DEF Receive, TypeOK
  <2> QED
    BY <1>3, <2>1, <2>2
<1>4. ASSUME NEW e \in Deliveries, PipelineSave(e)
      PROVE  \/ answer'[d] = answer[d]
             \/ PipelineSave(d) /\ answer'[d] = SaveStatus(d) /\ answer[d] = 0
  <2>1. /\ pc[e] = "save" /\ answer[e] = 0
        /\ answer' = [answer EXCEPT ![e] = SaveStatus(e)]
    BY <1>1, <1>4 DEF PipelineSave, Save, Answered, SilentUntilAnswered
  <2>2. answer'[d] = answer[d] \/ (e = d /\ answer'[d] = SaveStatus(d))
    BY <1>1, <2>1 DEF TypeOK
  <2> QED
    BY <1>4, <2>1, <2>2
<1>5. ASSUME NEW e \in Deliveries, PipelineSaveFails(e)
      PROVE  \/ answer'[d] = answer[d]
             \/ PipelineSaveFails(d) /\ answer'[d] = 500 /\ answer[d] = 0
  <2>1. /\ pc[e] = "save" /\ answer[e] = 0
        /\ answer' = [answer EXCEPT ![e] = 500]
    BY <1>1, <1>5 DEF PipelineSaveFails, SaveFails, Answered, SilentUntilAnswered
  <2>2. answer'[d] = answer[d] \/ (e = d /\ answer'[d] = 500)
    BY <1>1, <2>1 DEF TypeOK
  <2> QED
    BY <1>5, <2>1, <2>2
<1>6. ASSUME NEW e \in Deliveries, PipelineLand(e) PROVE answer'[d] = answer[d]
  BY <1>6 DEF PipelineLand, Land
<1> QED
  BY <1>2, <1>3, <1>4, <1>5, <1>6, StepKinds DEF pipelineVars

\* A raw response is refused only when its save failed.
LEMMA RetriedStep ==
    ASSUME PipelineInv, [PipelineNext]_pipelineVars
    PROVE  RetriedRawAccepted'
<1>1. RetriedRawAccepted
  BY DEF PipelineInv
<1>2. spoilt \subseteq spoilt'
  BY StepKinds DEF PipelineReceive, PipelineSave, PipelineSaveFails, PipelineLand,
     LedgerTicks, LedgerCrashes, pipelineVars, historyVars
<1>3. ASSUME NEW d \in Deliveries, KindOf[d] = "raw", answer'[d] = 500
      PROVE  d \in spoilt'
  <2>1. SaveStatus(d) = 200
    BY <1>3 DEF SaveStatus, Accepts
  <2>2. CASE answer'[d] = answer[d]
    BY <1>1, <1>2, <1>3, <2>2 DEF RetriedRawAccepted
  <2>3. CASE PipelineSaveFails(d)
    BY <2>3 DEF PipelineSaveFails
  <2> QED
    BY <1>3, <2>1, <2>2, <2>3, AnswerSteps
<1> QED
  BY <1>3 DEF RetriedRawAccepted

\* An acknowledgement is final.
LEMMA AcknowledgedStep ==
    ASSUME PipelineInv, [PipelineNext]_pipelineVars
    PROVE  AcknowledgedAreThrough'
<1>1. /\ TypeOK /\ SilentUntilAnswered /\ ReceivedWerePosted
      /\ AcknowledgedAreThrough /\ PipelineTypeOK
  BY DEF PipelineInv, LedgerInv
<1>2. \A d \in Deliveries : answer[d] = 200 => answer'[d] = 200
  BY AnswerSteps
<1>3. ASSUME NEW d \in Deliveries, answer'[d] = 200 PROVE d \notin limbo'
  <2>1. d \notin limbo
    <3>1. CASE answer[d] = 200
      BY <1>1, <3>1 DEF AcknowledgedAreThrough
    <3>2. CASE PipelineSave(d)
      BY <1>1, <3>2 DEF PipelineSave, Save, ReceivedWerePosted
    <3> QED
      BY <1>3, <3>1, <3>2, AnswerSteps
  <2>2. CASE limbo' \subseteq limbo
    BY <2>1, <2>2
  <2>3. CASE LedgerCrashes
    BY <1>1, <1>3, <2>1, <2>3 DEF LedgerCrashes, Crash, SilentUntilAnswered
  <2>4. ASSUME NEW e \in Deliveries, PipelineSaveFails(e) PROVE d \notin limbo'
    BY <1>1, <1>3, <2>1, <2>4 DEF PipelineSaveFails, SaveFails, Answered, TypeOK
  <2>5. limbo' \subseteq limbo \/ LedgerCrashes \/ \E e \in Deliveries : PipelineSaveFails(e)
    BY StepKinds DEF PipelineReceive, Receive, PipelineSave, Save, PipelineLand,
       Land, LedgerTicks, Tick, pipelineVars, vars
  <2> QED
    BY <2>2, <2>3, <2>4, <2>5
<1>4. ASSUME NEW d \in Deliveries, NEW e \in settled'[d] PROVE answer'[e] = 200
  <2>1. CASE e \in settled[d]
    BY <1>1, <1>2, <2>1 DEF AcknowledgedAreThrough, PipelineTypeOK
  <2>2. CASE PipelineReceive(d) /\ e \in Deliveries /\ answer[e] = 200
    BY <1>2, <2>2
  <2>3. e \in settled[d] \/ (PipelineReceive(d) /\ e \in Deliveries /\ answer[e] = 200)
    <3>1. CASE UNCHANGED settled
      BY <3>1
    <3>2. ASSUME NEW x \in Deliveries, PipelineReceive(x)
          PROVE  \/ e \in settled[d]
                 \/ PipelineReceive(d) /\ e \in Deliveries /\ answer[e] = 200
      <4>1. settled'[x] = {y \in Deliveries : SameRaw(x, y) /\ answer[y] = 200}
        BY <1>1, <3>2 DEF PipelineReceive, PipelineTypeOK
      <4>2. x # d => settled'[d] = settled[d]
        BY <1>1, <3>2 DEF PipelineReceive, PipelineTypeOK
      <4> QED
        BY <1>4, <3>2, <4>1, <4>2
    <3> QED
      BY <3>1, <3>2, StepKinds DEF PipelineSave, PipelineSaveFails, PipelineLand,
         LedgerTicks, LedgerCrashes, pipelineVars, historyVars
  <2> QED
    BY <2>1, <2>2, <2>3
<1> QED
  BY <1>3, <1>4 DEF AcknowledgedAreThrough

\* Two calls with one event id are twins.
LEMMA SameKeyTwins ==
    ASSUME PipelineAssumption, PipelineInv,
           NEW c \in Calls, status[c] = "done",
           NEW e \in Calls, status[e] = "done", EventKey(c) = EventKey(e)
    PROVE  Twins(c, e)
<1>1. RepliesMade /\ VideosCounted
  BY DEF PipelineInv
<1>2. reply[c].id \in IdsFor(RouteOf[c]) /\ reply[e].id \in IdsFor(RouteOf[e])
  BY <1>1 DEF RepliesMade
<1>3. RouteOf[c] \in {"chat", "video", "plain"} /\ RouteOf[e] \in {"chat", "video", "plain"}
  BY DEF PipelineAssumption
<1>4. CASE reply[c].id = NoId /\ reply[e].id = NoId
  <2>1. CallIdOf[c] = CallIdOf[e]
    BY <1>4 DEF EventKey
  <2> QED
    BY <1>4, <2>1 DEF PipelineAssumption, Twins
<1>5. CASE reply[c].id # NoId /\ reply[e].id # NoId
  <2>1. reply[c].id = reply[e].id
    BY <1>5 DEF EventKey
  <2>2. CASE RouteOf[c] = "chat"
    BY <2>1, <2>2 DEF Twins
  <2>3. CASE RouteOf[c] = "video"
    <3>1. RouteOf[e] = "video"
      BY <1>2, <1>3, <1>5, <2>1, <2>3 DEF IdsFor
    <3> QED
      BY <1>1, <2>1, <2>3, <3>1 DEF VideosCounted, Twins
  <2> QED
    BY <1>2, <1>3, <1>5, <2>2, <2>3 DEF IdsFor
<1>6. reply[c].id = NoId <=> reply[e].id = NoId
  <2>1. reply[c].id \in ReplyIds /\ reply[e].id \in ReplyIds
    BY <1>2, <1>3 DEF IdsFor, ReplyIds
  <2> QED
    BY <2>1 DEF EventKey, PipelineAssumption
<1> QED
  BY <1>4, <1>5, <1>6

\* Twins stay twins.
LEMMA TwinsStay ==
    ASSUME NEW c \in Calls, reply'[c] = reply[c],
           NEW e \in Calls, reply'[e] = reply[e], Twins(c, e)
    PROVE  Twins(c, e)'
BY DEF Twins

\* Who executes a save is not known to have been acknowledged; no step does
\* anything else to the collections.
LEMMA CollectionSteps ==
    ASSUME PipelineInv, [PipelineNext]_pipelineVars
    PROVE  \/ UNCHANGED <<events, raws>>
           \/ \E d \in Deliveries : Write(d) /\ answer[d] # 200
<1>1. SilentUntilAnswered /\ AcknowledgedAreThrough
  BY DEF PipelineInv, LedgerInv
<1>2. ASSUME NEW d \in Deliveries, PipelineSave(d) \/ PipelineLand(d)
      PROVE  Write(d) /\ answer[d] # 200
  BY <1>1, <1>2 DEF PipelineSave, Save, PipelineLand, Land, SilentUntilAnswered,
                    AcknowledgedAreThrough
<1> QED
  BY <1>2, StepKinds DEF PipelineReceive, Receive, PipelineSaveFails, SaveFails,
     LedgerTicks, Tick, LedgerCrashes, Crash, pipelineVars, vars

\* A usage event that is refused stands back for a twin's, now and later.
LEMMA UsageStep ==
    ASSUME PipelineAssumption, LedgerAssumption, PipelineInv,
           [PipelineNext]_pipelineVars
    PROVE  UsageLostOnlyToTwins'
<1>1. /\ TypeOK /\ SilentUntilAnswered /\ ReceivedWerePosted
      /\ UsageLostOnlyToTwins
  BY DEF PipelineInv, LedgerInv
<1>2. \A k \in DOMAIN events :
         /\ k \in DOMAIN events' /\ events'[k] = events[k]
         /\ events[k].from \in Deliveries /\ KindOf[events[k].from] = "event"
         /\ KeyOf[events[k].from] = k
  BY <1>1, WriteAdds, CollectionSteps DEF TypeOK, Document
<1>3. spoilt \subseteq spoilt'
  BY StepKinds DEF PipelineReceive, PipelineSave, PipelineSaveFails, PipelineLand,
     LedgerTicks, LedgerCrashes, pipelineVars, historyVars
<1>4. \A d \in Deliveries : pc[d] # "sent" =>
         CallOf[d] \in Calls /\ status[CallOf[d]] = "done" /\ KeyOf[d] = PostKey(d)
  BY <1>1 DEF ReceivedWerePosted, Posted, PipelineAssumption
<1>5. ASSUME NEW d \in Deliveries, d \notin spoilt', KindOf[d] = "event",
             answer'[d] = 500
      PROVE  /\ KeyOf[d] \in DOMAIN events'
             /\ \E kept \in Deliveries :
                   /\ kept = events'[KeyOf[d]].from /\ kept # d
                   /\ Twins(CallOf[d], CallOf[kept])'
  <2> DEFINE kept == events[KeyOf[d]].from
  <2>1. pc[d] # "sent" /\ KeyOf[d] \in DOMAIN events /\ kept # d /\ Twins(CallOf[d], CallOf[kept])
    <3>1. CASE answer[d] = 500
      BY <1>1, <1>3, <1>5, <3>1 DEF UsageLostOnlyToTwins, SilentUntilAnswered
    <3>2. CASE PipelineSave(d) /\ SaveStatus(d) = 500
      <4>1. pc[d] = "save" /\ KeyOf[d] \in DOMAIN events
        BY <3>2 DEF PipelineSave, Save, SaveStatus, Accepts
      <4>2. kept # d /\ pc[kept] # "sent" /\ kept \in Deliveries
        BY <1>1, <1>2, <4>1 DEF ReceivedWerePosted
      <4>3. EventKey(CallOf[d]) = KeyOf[d] /\ EventKey(CallOf[kept]) = KeyOf[d]
        BY <1>2, <1>4, <1>5, <4>1, <4>2 DEF PostKey
      <4> QED
        BY <1>4, <4>1, <4>2, <4>3, SameKeyTwins
    <3>3. ~PipelineSaveFails(d)
      BY <1>5 DEF PipelineSaveFails
    <3> QED
      BY <1>5, <3>1, <3>2, <3>3, AnswerSteps
  <2>2. kept \in Deliveries /\ pc[kept] # "sent"
    BY <1>1, <1>2, <2>1 DEF ReceivedWerePosted
  <2>3. /\ reply'[CallOf[d]] = reply[CallOf[d]]
        /\ reply'[CallOf[kept]] = reply[CallOf[kept]]
    BY <1>4, <2>1, <2>2, DoneStays
  <2>4. PICK x : x = kept
    OBVIOUS
  <2>5. Twins(CallOf[d], CallOf[x])'
    BY <1>4, <2>1, <2>2, <2>3, <2>4, TwinsStay
  <2> QED
    BY <1>2, <2>1, <2>2, <2>4, <2>5
<1> QED
  BY <1>5 DEF UsageLostOnlyToTwins, Twins

\* What was acknowledged before a raw response was received is not stored
\* over it.
LEMMA RawsInOrderStep ==
    ASSUME LedgerAssumption, PipelineInv, [PipelineNext]_pipelineVars
    PROVE  RawsInOrder'
<1>1. /\ TypeOK /\ SilentUntilAnswered /\ AckedIsStored /\ AcknowledgedAreThrough
      /\ RawsInOrder
  BY DEF PipelineInv, LedgerInv
<1>2. AckedIsStored'
  BY LedgerSteps, LedgerStep DEF PipelineInv, LedgerInv
<1>3. ASSUME NEW d \in Deliveries, KindOf[d] = "raw", answer'[d] = 200
      PROVE  KeyOf[d] \in DOMAIN raws' /\ raws'[KeyOf[d]].from \notin settled'[d]
  <2>1. KeyOf[d] \in DOMAIN raws'
    BY <1>2, <1>3 DEF AckedIsStored
  <2>2. settled'[d] = settled[d]
    <3>1. ASSUME NEW x \in Deliveries, PipelineReceive(x) PROVE settled'[d] = settled[d]
      <4>1. CASE x = d
        BY <1>1, <1>3, <3>1, <4>1 DEF PipelineReceive, Receive, SilentUntilAnswered, TypeOK
      <4>2. CASE x # d
        BY <3>1, <4>2 DEF PipelineReceive
      <4> QED
        BY <4>1, <4>2
    <3> QED
      BY <3>1, StepKinds DEF PipelineSave, PipelineSaveFails, PipelineLand,
         LedgerTicks, LedgerCrashes, pipelineVars, historyVars
  <2>3. \A e \in settled[d] : answer[e] = 200
    BY <1>1 DEF AcknowledgedAreThrough
  <2>4. CASE answer[d] = 200
    <3>1. KeyOf[d] \in DOMAIN raws /\ raws[KeyOf[d]].from \notin settled[d]
      BY <1>1, <1>3, <2>4 DEF RawsInOrder
    <3>2. ASSUME NEW x \in Deliveries, Write(x), answer[x] # 200
          PROVE  raws'[KeyOf[d]].from \notin settled[d]
      <4>1. \/ raws'[KeyOf[d]] = raws[KeyOf[d]]
            \/ raws'[KeyOf[d]] = DocOf(x)
        BY <2>1, <3>2, WriteAdds
      <4> QED
        BY <2>3, <3>1, <3>2, <4>1 DEF DocOf
    <3> QED
      BY <2>1, <2>2, <3>1, <3>2, CollectionSteps
  <2>5. CASE PipelineSave(d) /\ answer[d] = 0 /\ SaveStatus(d) = 200
    <3>1. Write(d) /\ Accepts(d) /\ KindOf[d] # "event"
      BY <1>3, <2>5 DEF PipelineSave, Save, SaveStatus
    <3>2. raws'[KeyOf[d]] = DocOf(d)
      BY <3>1, WriteAdds
    <3> QED
      BY <2>1, <2>2, <2>3, <2>5, <3>2 DEF DocOf
  <2> QED
    BY <1>3, <2>4, <2>5, AnswerSteps
<1> QED
  BY <1>3 DEF RawsInOrder

\* Nothing has happened at the start.
LEMMA PipelineStart ==
    ASSUME PipelineAssumption, LedgerAssumption, PipelineInit PROVE PipelineInv
<1>1. LedgerInv /\ PipelineTypeOK
  BY LedgerInit, PipelineTypeInit DEF PipelineInit
<1>2. \A c \in Calls : status[c] # "done"
  BY DEF PipelineInit
<1>3. DOMAIN cache = {} /\ DOMAIN events = {} /\ DOMAIN raws = {} /\ limbo = {}
  BY DEF PipelineInit, Init, Empty
<1>4. \A d \in Deliveries : pc[d] = "sent" /\ answer[d] = 0 /\ settled[d] = {}
  BY DEF PipelineInit, Init
<1>5. RepliesMade /\ VideosCounted
  BY <1>2, <1>3 DEF RepliesMade, VideosCounted
<1>6. ReceivedWerePosted /\ AcknowledgedAreThrough
  BY <1>3, <1>4 DEF ReceivedWerePosted, AcknowledgedAreThrough
<1>7. UsageLostOnlyToTwins /\ RawsInOrder /\ RetriedRawAccepted
  BY <1>4 DEF UsageLostOnlyToTwins, RawsInOrder, RetriedRawAccepted
<1> QED
  BY <1>1, <1>5, <1>6, <1>7 DEF PipelineInv

LEMMA PipelineStep ==
    ASSUME PipelineAssumption, LedgerAssumption, PipelineInv,
           [PipelineNext]_pipelineVars
    PROVE  PipelineInv'
<1>1. LedgerInv'
  BY LedgerSteps, LedgerStep DEF PipelineInv
<1> QED
  BY <1>1, PipelineTypeStep, RepliesStep, VideosStep, ReceivedStep,
     AcknowledgedStep, UsageStep, RawsInOrderStep, RetriedStep DEF PipelineInv

\* The pipeline is the ledger under particular senders: what holds of the
\* ledger whatever is sent to it holds here.
THEOREM PipelineIsLedger == PipelineSpec => Spec
<1>1. PipelineInit => Init
  BY DEF PipelineInit
<1>2. [PipelineNext]_pipelineVars => [Next]_vars
  BY LedgerSteps
<1> QED
  BY <1>1, <1>2, PTL DEF PipelineSpec, Spec

\* The inductive invariant holds in every reachable state.
THEOREM PipelineInvariant == PipelineSpec => []PipelineInv
<1>1. PipelineInit => PipelineInv
  BY PipelineAssumption, LedgerAssumption, PipelineStart
<1>2. PipelineInv /\ [PipelineNext]_pipelineVars => PipelineInv'
  BY PipelineAssumption, LedgerAssumption, PipelineStep
<1> QED
  BY <1>1, <1>2, PTL DEF PipelineSpec

\* Calls, replies and the cache keep their shapes.
THEOREM PipelineTypes == PipelineSpec => []PipelineTypeOK
<1>1. PipelineInv => PipelineTypeOK
  BY DEF PipelineInv
<1> QED
  BY <1>1, PipelineInvariant, PTL

\* A usage event is lost only to that of a twin call (event_repo.go:35 with
\* chat.go:54 and video.go:70).
THEOREM UsageSafe == PipelineSpec => []UsageLostOnlyToTwins
<1>1. PipelineInv => UsageLostOnlyToTwins
  BY DEF PipelineInv
<1> QED
  BY <1>1, PipelineInvariant, PTL

\* No raw response is hidden by one acknowledged before it came
\* (raw_response.go:22).
THEOREM RawsOrdered == PipelineSpec => []RawsInOrder
<1>1. PipelineInv => RawsInOrder
  BY DEF PipelineInv
<1> QED
  BY <1>1, PipelineInvariant, PTL

\* A repeated raw response is not refused (raw_response_repo.go:34).
THEOREM RetriesAccepted == PipelineSpec => []RetriedRawAccepted
<1>1. PipelineInv => RetriedRawAccepted
  BY DEF PipelineInv
<1> QED
  BY <1>1, PipelineInvariant, PTL

\* The ledger has one usage event of a reply, however often the reply is served
\* from the cache (openmeter_events.feature:57-59).
THEOREM BilledOnce == PipelineSpec => []RepliesBilledOnce
<1>1. ASSUME PipelineInv PROVE RepliesBilledOnce
  <2>1. TypeOK /\ ReceivedWerePosted /\ RepliesMade
    BY <1>1 DEF PipelineInv, LedgerInv
  <2>2. ASSUME NEW k \in DOMAIN events
        PROVE  LET c == CallOf[events[k].from]
               IN  c \in Calls /\ status[c] = "done" /\ k = EventKey(c)
    <3>1. /\ events[k].from \in Deliveries /\ KeyOf[events[k].from] = k
          /\ KindOf[events[k].from] = "event"
      BY <2>1 DEF TypeOK, Document
    <3>2. Posted(events[k].from)
      BY <2>1, <3>1 DEF ReceivedWerePosted
    <3> QED
      BY <3>1, <3>2, PipelineAssumption DEF Posted, PostKey, PipelineAssumption
  <2>3. ASSUME NEW c \in Calls, status[c] = "done", reply[c].id # NoId
        PROVE  EventKey(c) = reply[reply[c].by].id
    BY <2>1, <2>3 DEF RepliesMade, Made, EventKey
  <2>4. ASSUME NEW c \in Calls, status[c] = "done"
        PROVE  reply[c] = reply[reply[c].by]
    BY <2>1, <2>4 DEF RepliesMade, Made
  <2>5. ASSUME NEW j \in DOMAIN events, NEW k \in DOMAIN events,
               reply[CallOf[events[j].from]].by = reply[CallOf[events[k].from]].by,
               reply[CallOf[events[j].from]].id # NoId
        PROVE  j = k
    BY <2>2, <2>3, <2>4, <2>5
  <2> QED
    BY <2>5 DEF RepliesBilledOnce
<1> QED
  BY <1>1, PipelineInvariant, PTL

\* The raw responses of two calls are two documents
\* (openmeter_events.feature:60-61).
THEOREM RawsApart == PipelineSpec => []RawsOfCallsApart
<1>1. ASSUME PipelineInv PROVE RawsOfCallsApart
  <2>1. TypeOK /\ SilentUntilAnswered /\ AckedIsStored /\ ReceivedWerePosted
    BY <1>1 DEF PipelineInv, LedgerInv
  <2>2. ASSUME NEW d \in Deliveries, KindOf[d] = "raw", pc[d] # "sent"
        PROVE  CallOf[d] \in Calls /\ KeyOf[d] = CallIdOf[CallOf[d]]
    BY <2>1, <2>2, PipelineAssumption
       DEF ReceivedWerePosted, Posted, PostKey, RawKey, PipelineAssumption
  <2>3. ASSUME NEW d \in Deliveries, KindOf[d] = "raw", answer[d] = 200
        PROVE  /\ KeyOf[d] \in DOMAIN raws
               /\ CallIdOf[CallOf[d]] # NoCallId =>
                     CallOf[raws[KeyOf[d]].from] = CallOf[d]
    <3>1. KeyOf[d] \in DOMAIN raws /\ pc[d] # "sent"
      BY <2>1, <2>3 DEF AckedIsStored, SilentUntilAnswered
    <3> DEFINE kept == raws[KeyOf[d]].from
    <3>2. /\ kept \in Deliveries /\ KindOf[kept] = "raw" /\ KeyOf[kept] = KeyOf[d]
          /\ pc[kept] # "sent"
      BY <2>1, <3>1 DEF TypeOK, Document, ReceivedWerePosted
    <3>3. CallIdOf[CallOf[kept]] = CallIdOf[CallOf[d]]
      BY <2>2, <2>3, <3>1, <3>2
    <3> QED
      BY <2>2, <2>3, <3>1, <3>2, <3>3, PipelineAssumption DEF PipelineAssumption
  <2> QED
    BY <2>3 DEF RawsOfCallsApart
<1> QED
  BY <1>1, PipelineInvariant, PTL
=============================================================================
