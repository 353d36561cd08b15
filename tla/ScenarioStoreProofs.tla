------------------------ MODULE ScenarioStoreProofs ------------------------
(* Facts about the scenario store that the proofs of its users rest on. *)
EXTENDS ScenarioStore, WellFoundedInduction, TLAPS

-----------------------------------------------------------------------------
(* The store's initial contents. *)

\* A non-empty set of naturals bounded by n has a largest element.
LEMMA LargestBelow ==
    ASSUME NEW n \in Nat, NEW S \in SUBSET (1..n), S # {}
    PROVE  \E i \in S : \A j \in S : j <= i
<1> DEFINE T == {n - i : i \in S}
<1>1. T \subseteq Nat /\ T # {}
  <2>1. \A i \in S : i \in 1..n /\ n - i \in Nat
    OBVIOUS
  <2>2. PICK i \in S : TRUE
    OBVIOUS
  <2>3. n - i \in T
    OBVIOUS
  <2> QED
    BY <2>1, <2>3
<1>2. PICK x \in T : \A y \in T : ~ (<<y, x>> \in OpToRel(<, Nat))
  <2> HIDE DEF T
  <2>1. IsWellFoundedOn(OpToRel(<, Nat), Nat)
    BY NatLessThanWellFounded
  <2> QED
    BY <1>1, <2>1, WFMin
<1>3. \A y \in T : ~ (y < x)
  <2> SUFFICES ASSUME NEW y \in T, y < x  PROVE FALSE
    OBVIOUS
  <2>1. y \in Nat /\ x \in Nat
    BY <1>1
  <2>2. <<y, x>> \in OpToRel(<, Nat)
    BY <2>1 DEF OpToRel
  <2> QED
    BY <2>2, <1>2
<1>4. PICK i \in S : x = n - i
  OBVIOUS
<1>5. ASSUME NEW j \in S  PROVE j <= i
  <2>1. n - j \in T
    OBVIOUS
  <2>2. ~ (n - j < n - i)
    BY <2>1, <1>3, <1>4
  <2> QED
    BY <2>2
<1> QED
  BY <1>5

\* LoadFile yields a store whose keys and scenarios are well formed.
LEMMA LoadFileType ==
    ASSUME NEW entries \in Seq(SeedEntry)
    PROVE  /\ DOMAIN LoadFile(entries) \subseteq Keys
           /\ \A k \in DOMAIN LoadFile(entries) : LoadFile(entries)[k] \in Scenario
<1> DEFINE keyOf(i) == Key(entries[i].model, entries[i].op)
           last(k)  == CHOOSE i \in DOMAIN entries :
                          /\ keyOf(i) = k
                          /\ \A j \in DOMAIN entries : keyOf(j) = k => j <= i
<1>1. ASSUME NEW i \in DOMAIN entries
      PROVE  entries[i].scenario \in Scenario /\ keyOf(i) \in Keys
  <2>1. entries[i] \in SeedEntry
    OBVIOUS
  <2> QED
    BY <2>1 DEF SeedEntry, Key, Keys, Operations
<1>2. ASSUME NEW i \in DOMAIN entries
      PROVE  last(keyOf(i)) \in DOMAIN entries
  <2> DEFINE S == {j \in DOMAIN entries : keyOf(j) = keyOf(i)}
  <2>1. Len(entries) \in Nat /\ S \in SUBSET (1..Len(entries)) /\ S # {}
    OBVIOUS
  <2>2. PICK m \in S : \A j \in S : j <= m
    <3> HIDE DEF S
    <3> QED BY <2>1, LargestBelow
  <2>3. \E m2 \in DOMAIN entries :
            /\ keyOf(m2) = keyOf(i)
            /\ \A j \in DOMAIN entries : keyOf(j) = keyOf(i) => j <= m2
    BY <2>2
  <2> QED
    BY <2>3
<1>3. LoadFile(entries) =
        [k \in {keyOf(i) : i \in DOMAIN entries} |-> entries[last(k)].scenario]
  BY DEF LoadFile
<1> HIDE DEF keyOf, last
<1> QED
  BY <1>1, <1>2, <1>3

\* Without a scenario file the store starts empty.
LEMMA LoadNothing == DOMAIN LoadFile(<<>>) = {}
BY DEF LoadFile

-----------------------------------------------------------------------------
(* Changing the store. *)

\* A PUT keeps the store well formed.
LEMMA PutType ==
    ASSUME StoreTypeOK, NEW k \in Keys, NEW s \in Scenario, Put(k, s)
    PROVE  StoreTypeOK'
BY DEF StoreTypeOK, Put

LEMMA AdminKeyInKeys ==
    ASSUME NEW m \in Models, NEW op \in Operations
    PROVE  AdminKey(m, op) \in Keys
BY DEF AdminKey, Keys, Operations

\* A PUT changes what a model's chat resolves to exactly when the admin asked
\* for that model and for "chat" or for no operation at all.
LEMMA PutAgrees ==
    ASSUME NEW m \in Models, NEW op \in Operations, NEW s,
           NEW n \in Models, Put(AdminKey(m, op), s)
    PROVE  Resolve(n, "chat")' =
              IF op \in {"", "chat"} /\ n = m THEN s ELSE Resolve(n, "chat")
<1>1. Key(n, "chat") = <<n, "chat">>
  BY DEF Key
<1>2. "chat" \notin OtherOps /\ "" \notin OtherOps
  BY StoreAssumption
<1>3. AdminKey(m, op) = <<n, "chat">> <=> op \in {"", "chat"} /\ n = m
  BY <1>2 DEF AdminKey, Operations
<1> QED
  BY <1>1, <1>3 DEF Put, Resolve

\* The same for an operation other than chat, which has to be named.
LEMMA PutAgreesNamed ==
    ASSUME NEW m \in Models, NEW op \in Operations, NEW s,
           NEW n \in Models, NEW o \in OtherOps, Put(AdminKey(m, op), s)
    PROVE  Resolve(n, o)' = IF op = o /\ n = m THEN s ELSE Resolve(n, o)
<1>1. "chat" \notin OtherOps /\ "" \notin OtherOps
  BY StoreAssumption
<1>2. Key(n, o) = <<n, o>>
  BY <1>1 DEF Key
<1>3. AdminKey(m, op) = <<n, o>> <=> op = o /\ n = m
  BY <1>1 DEF AdminKey, Operations
<1> QED
  BY <1>2, <1>3 DEF Put, Resolve
=============================================================================
