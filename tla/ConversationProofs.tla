------------------------- MODULE ConversationProofs -------------------------
(***************************************************************************)
(* Proofs about Conversation: what a request is told and charged, for any  *)
(* catalog, system prompts, histories, utterances and replies, and any     *)
(* number of turns and requests.  The inductive invariant is               *)
(* ConversationInv.                                                        *)
(***************************************************************************)
EXTENDS Conversation, Integers, SequenceTheorems, WellFoundedInduction, TLAPS

(* The length of texts. *)

\* A set with 0 that has the successors of its members contains the naturals.
LEMMA Induction ==
    ASSUME NEW S, 0 \in S, \A n \in Nat : n \in S => n + 1 \in S
    PROVE  \A n \in Nat : n \in S
<1> SUFFICES ASSUME Nat \ S # {}  PROVE FALSE
  OBVIOUS
<1>1. PICK x \in Nat \ S : \A y \in Nat \ S : ~ (<<y, x>> \in OpToRel(<, Nat))
  <2>1. IsWellFoundedOn(OpToRel(<, Nat), Nat) /\ Nat \ S \subseteq Nat
    BY NatLessThanWellFounded
  <2> QED
    BY <2>1, WFMin
<1>2. x - 1 \in Nat /\ x - 1 < x /\ (x - 1) + 1 = x
  <2>1. x \in Nat /\ x # 0
    OBVIOUS
  <2> QED
    BY <2>1
<1>3. <<x - 1, x>> \in OpToRel(<, Nat)
  BY <1>2 DEF OpToRel
<1>4. x - 1 \in S
  BY <1>1, <1>2, <1>3
<1> QED
  BY <1>1, <1>2, <1>4

\* Adding up texts, one by one.
LEMMA BytesRecursion ==
    ASSUME NEW w
    PROVE  /\ BytesUpTo(w, 0) = 0
           /\ \A n \in Nat : BytesUpTo(w, n + 1) = BytesUpTo(w, n) + w[n + 1]
<1> DEFINE Good(g, n) == g = [i \in 0..n |-> IF i = 0 THEN 0 ELSE g[i - 1] + w[i]]
           adder(n) == CHOOSE g : Good(g, n)
<1>1. \A n : BytesUpTo(w, n) = adder(n)[n]
  BY DEF BytesUpTo
<1>2. \A n \in Nat : \E g : Good(g, n)
  <2> DEFINE S == {n \in Nat : \E g : Good(g, n)}
  <2>1. 0 \in S
    <3>1. Good([i \in 0..0 |-> 0], 0)
      OBVIOUS
    <3> QED
      BY <3>1
  <2>2. ASSUME NEW n \in Nat, n \in S  PROVE n + 1 \in S
    <3>1. PICK g : Good(g, n)
      BY <2>2
    <3> DEFINE h == [i \in 0..(n + 1) |-> IF i = 0 THEN 0 ELSE g[i - 1] + w[i]]
    <3>2. \A i \in 0..n : h[i] = g[i]
      BY <3>1
    <3>3. \A i \in 0..(n + 1) : i # 0 => i - 1 \in 0..n
      OBVIOUS
    <3>4. \A i \in 0..(n + 1) : i # 0 => h[i - 1] = g[i - 1]
      BY <3>2, <3>3
    <3>5. Good(h, n + 1)
      BY <3>4
    <3>6. n + 1 \in Nat
      OBVIOUS
    <3> HIDE DEF Good
    <3> QED
      BY <3>5, <3>6
  <2> HIDE DEF S
  <2>3. \A n \in Nat : n \in S
    BY <2>1, <2>2, Induction
  <2> QED
    BY <2>3 DEF S
<1>3. \A n \in Nat : Good(adder(n), n)
  BY <1>2
<1>4. ASSUME NEW n \in Nat  PROVE adder(n)[0] = 0
  <2>1. Good(adder(n), n)
    BY <1>3, Zenon
  <2>2. 0 \in 0..n
    OBVIOUS
  <2> HIDE DEF adder
  <2> QED
    BY <2>1, <2>2
<1>5. ASSUME NEW n \in Nat, NEW i \in 1..n
      PROVE  adder(n)[i] = adder(n)[i - 1] + w[i]
  <2>1. Good(adder(n), n)
    BY <1>3, Zenon
  <2>2. i \in 0..n /\ i # 0
    OBVIOUS
  <2> HIDE DEF adder
  <2> QED
    BY <2>1, <2>2
<1> HIDE DEF adder
\* Two sums agree as far as both go.
<1>6. ASSUME NEW n \in Nat  PROVE adder(n + 1)[n] = adder(n)[n]
  <2> DEFINE S == {i \in Nat : i <= n => adder(n + 1)[i] = adder(n)[i]}
  <2>1. 0 \in S
    BY <1>4
  <2>2. ASSUME NEW i \in Nat, i \in S  PROVE i + 1 \in S
    <3> SUFFICES ASSUME i + 1 <= n
                 PROVE  adder(n + 1)[i + 1] = adder(n)[i + 1]
      OBVIOUS
    <3>1. adder(n + 1)[i] = adder(n)[i]
      BY <2>2
    <3>2. i + 1 \in 1..n /\ i + 1 \in 1..(n + 1) /\ n + 1 \in Nat /\ (i + 1) - 1 = i
      OBVIOUS
    <3> QED
      BY <1>5, <3>1, <3>2
  <2> HIDE DEF S
  <2>3. n \in S
    BY <2>1, <2>2, Induction
  <2> QED
    BY <2>3 DEF S
<1>7. ASSUME NEW n \in Nat
      PROVE  adder(n + 1)[n + 1] = adder(n)[n] + w[n + 1]
  <2>1. n + 1 \in Nat /\ n + 1 \in 1..(n + 1) /\ (n + 1) - 1 = n
    OBVIOUS
  <2> QED
    BY <1>5, <1>6, <2>1
<1> QED
  BY <1>1, <1>4, <1>7

\* The length of numbers that agree with others up to n.
LEMMA BytesAgree ==
    ASSUME NEW v, NEW w, NEW n \in Nat, \A i \in 1..n : v[i] = w[i]
    PROVE  BytesUpTo(v, n) = BytesUpTo(w, n)
<1> DEFINE S == {k \in Nat : k <= n => BytesUpTo(v, k) = BytesUpTo(w, k)}
<1>1. 0 \in S
  BY BytesRecursion
<1>2. ASSUME NEW k \in Nat, k \in S  PROVE k + 1 \in S
  <2> SUFFICES ASSUME k + 1 <= n
               PROVE  BytesUpTo(v, k + 1) = BytesUpTo(w, k + 1)
    OBVIOUS
  <2>1. BytesUpTo(v, k) = BytesUpTo(w, k) /\ v[k + 1] = w[k + 1]
    BY <1>2
  <2> QED
    BY <2>1, BytesRecursion
<1> HIDE DEF S
<1>3. n \in S
  BY <1>1, <1>2, Induction
<1> QED
  BY <1>3 DEF S

\* A length is a natural number.
LEMMA BytesType ==
    ASSUME NEW w \in Seq(Nat)
    PROVE  /\ \A n \in 0..Len(w) : BytesUpTo(w, n) \in Nat
           /\ Bytes(w) \in Nat
<1> DEFINE S == {k \in Nat : k <= Len(w) => BytesUpTo(w, k) \in Nat}
<1>0. Len(w) \in Nat
  BY LenProperties
<1>1. 0 \in S
  BY BytesRecursion
<1>2. ASSUME NEW k \in Nat, k \in S  PROVE k + 1 \in S
  <2> SUFFICES ASSUME k + 1 <= Len(w)
               PROVE  BytesUpTo(w, k + 1) \in Nat
    OBVIOUS
  <2>1. BytesUpTo(w, k) \in Nat /\ k + 1 \in 1..Len(w)
    BY <1>0, <1>2
  <2>2. w[k + 1] \in Nat
    BY <2>1, ElementOfSeq
  <2>3. BytesUpTo(w, k + 1) = BytesUpTo(w, k) + w[k + 1]
    BY BytesRecursion
  <2> HIDE DEF S
  <2> QED
    BY <2>1, <2>2, <2>3
<1> HIDE DEF S
<1>3. \A k \in Nat : k \in S
  BY <1>1, <1>2, Induction
<1> QED
  BY <1>0, <1>3 DEF S, Bytes

\* Texts that begin with one more are longer by it.
LEMMA BytesLed ==
    ASSUME NEW a \in Nat, NEW v, NEW w, NEW n \in Nat,
           v[1] = a, \A i \in 1..n : v[i + 1] = w[i],
           \A i \in 1..n : w[i] \in Nat
    PROVE  BytesUpTo(v, n + 1) = a + BytesUpTo(w, n)
<1> DEFINE S == {k \in Nat : k <= n => /\ BytesUpTo(w, k) \in Nat
                                       /\ BytesUpTo(v, k + 1) = a + BytesUpTo(w, k)}
<1>1. 0 \in S
  <2>1. BytesUpTo(v, 0 + 1) = BytesUpTo(v, 0) + v[0 + 1]
    BY BytesRecursion
  <2> QED
    BY <2>1, BytesRecursion
<1>2. ASSUME NEW k \in Nat, k \in S  PROVE k + 1 \in S
  <2> SUFFICES ASSUME k + 1 <= n
               PROVE  /\ BytesUpTo(w, k + 1) \in Nat
                      /\ BytesUpTo(v, (k + 1) + 1) = a + BytesUpTo(w, k + 1)
    OBVIOUS
  <2>1. /\ BytesUpTo(w, k) \in Nat /\ BytesUpTo(v, k + 1) = a + BytesUpTo(w, k)
        /\ k + 1 \in Nat /\ w[k + 1] \in Nat /\ v[(k + 1) + 1] = w[k + 1]
    BY <1>2
  <2>2. /\ BytesUpTo(w, k + 1) = BytesUpTo(w, k) + w[k + 1]
        /\ BytesUpTo(v, (k + 1) + 1) = BytesUpTo(v, k + 1) + v[(k + 1) + 1]
    BY <2>1, BytesRecursion
  <2> QED
    BY <2>1, <2>2
<1> HIDE DEF S
<1>3. n \in S
  BY <1>1, <1>2, Induction
<1> QED
  BY <1>3 DEF S

\* No text, and one.
LEMMA BytesFew ==
    /\ Bytes(<<>>) = 0
    /\ \A a \in Nat : Bytes(<<a>>) = a
<1>1. Bytes(<<>>) = 0
  BY BytesRecursion, EmptySeq DEF Bytes
<1>2. ASSUME NEW a \in Nat  PROVE Bytes(<<a>>) = a
  <2>1. BytesUpTo(<<a>>, 0 + 1) = BytesUpTo(<<a>>, 0) + <<a>>[0 + 1]
    BY BytesRecursion
  <2>2. Len(<<a>>) = 1 /\ <<a>>[1] = a
    OBVIOUS
  <2> QED
    BY <2>1, <2>2, BytesRecursion DEF Bytes
<1> QED
  BY <1>1, <1>2
-----------------------------------------------------------------------------
(* What each surface makes of a conversation. *)

\* No block, and one.
LEMMA FewBlocks ==
    /\ SystemBlocks(<<>>) = <<>>
    /\ \A s \in Nat : SystemBlocks(<<s>>) =
                         IF s = 0 THEN <<>> ELSE <<Message("system", s)>>
<1> DEFINE step(b, g, i) == IF b[i] = 0 THEN g[i - 1]
                            ELSE Append(g[i - 1], Message("system", b[i]))
           Good(b, g) == g = [i \in 0..Len(b) |-> IF i = 0 THEN <<>> ELSE step(b, g, i)]
           reader(b) == CHOOSE g : Good(b, g)
<1>1. \A b : SystemBlocks(b) = reader(b)[Len(b)]
  BY DEF SystemBlocks
<1>2. SystemBlocks(<<>>) = <<>>
  <2>1. Len(<<>>) = 0 /\ 0 \in 0..0 /\ \A i \in 0..0 : i = 0
    OBVIOUS
  <2>2. Good(<<>>, [i \in 0..0 |-> <<>>])
    BY <2>1
  <2>3. Good(<<>>, reader(<<>>))
    BY <2>2
  <2>4. reader(<<>>)[0] = <<>>
    <3> HIDE DEF reader
    <3> QED
      BY <2>1, <2>3
  <2> QED
    BY <1>1, <2>1, <2>4
<1>3. ASSUME NEW s \in Nat
      PROVE  SystemBlocks(<<s>>) = IF s = 0 THEN <<>> ELSE <<Message("system", s)>>
  <2> DEFINE b == <<s>>
             told == IF s = 0 THEN <<>> ELSE Append(<<>>, Message("system", s))
             g == [i \in 0..1 |-> IF i = 0 THEN <<>> ELSE told]
  <2>1. /\ Len(b) = 1 /\ b[1] = s
        /\ 0 \in 0..1 /\ 1 \in 0..1 /\ 1 - 1 = 0 /\ \A i \in 0..1 : i = 0 \/ i = 1
    OBVIOUS
  <2> HIDE DEF b
  <2>2. Good(b, g)
    <3>1. g[0] = <<>>
      OBVIOUS
    <3>2. step(b, g, 1) = told
      BY <2>1, <3>1
    <3>3. \A i \in 0..1 : g[i] = IF i = 0 THEN <<>> ELSE step(b, g, i)
      BY <2>1, <3>2
    <3> QED
      BY <2>1, <3>3
  <2>3. Good(b, reader(b))
    BY <2>2
  <2> HIDE DEF reader
  <2>4. reader(b)[0] = <<>> /\ reader(b)[1] = step(b, reader(b), 1)
    BY <2>1, <2>3
  <2>5. reader(b)[1] = told
    BY <2>1, <2>4
  <2>6. Append(<<>>, Message("system", s)) = <<Message("system", s)>>
    OBVIOUS
  <2> QED
    BY <1>1, <2>1, <2>5, <2>6 DEF b
<1> QED
  BY <1>2, <1>3

\* What a message of a user or an assistant is.
Said == [role : {"user", "assistant"}, bytes : Nat]

\* A conversation that the mock can be asked about.
Conversational(c) == c.system \in Seq(Nat) /\ c.turns \in Seq(Turn)

\* The turns, with the length of what was said in each.
LEMMA TurnsSaid ==
    ASSUME NEW c, Conversational(c)
    PROVE  /\ Turns(c) \in Seq(Said) /\ Len(Turns(c)) = Len(c.turns)
           /\ \A i \in 1..Len(c.turns) :
                 /\ c.turns[i] \in Turn
                 /\ Turns(c)[i] = Message(c.turns[i].role, Bytes(c.turns[i].texts))
                 /\ Bytes(c.turns[i].texts) \in Nat
<1> DEFINE n == Len(c.turns)
<1>1. n \in Nat /\ DOMAIN c.turns = 1..n
  BY LenProperties DEF Conversational
<1>2. ASSUME NEW i \in 1..n
      PROVE  /\ c.turns[i] \in Turn /\ Bytes(c.turns[i].texts) \in Nat
             /\ Message(c.turns[i].role, Bytes(c.turns[i].texts)) \in Said
  <2>1. c.turns[i] \in Turn
    BY ElementOfSeq DEF Conversational
  <2>2. c.turns[i].texts \in Seq(Nat) /\ c.turns[i].role \in {"user", "assistant"}
    BY <2>1 DEF Turn
  <2>3. Bytes(c.turns[i].texts) \in Nat
    BY <2>2, BytesType
  <2> QED
    BY <2>1, <2>2, <2>3 DEF Message, Said
<1>3. Turns(c) = [i \in 1..n |-> Message(c.turns[i].role, Bytes(c.turns[i].texts))]
  BY <1>1 DEF Turns
<1>4. Turns(c) \in [1..n -> Said]
  BY <1>2, <1>3
<1>5. Turns(c) \in Seq(Said) /\ Len(Turns(c)) = n
  BY <1>1, <1>4
<1> QED
  BY <1>2, <1>3, <1>5

\* OpenAI's "chat" treats the system prompt like a turn.
LEMMA ChatTold ==
    ASSUME NEW c, Conversational(c)
    PROVE  ChatMessages("string", c) =
              IF c.system = <<>> THEN Turns(c)
              ELSE <<Message("system", Bytes(c.system))>> \o Turns(c)
<1> DEFINE system == [role |-> "system", texts |-> c.system]
           all == <<system>> \o c.turns
           lead == Message("system", Bytes(c.system))
           n == Len(c.turns)
<1>1. n \in Nat /\ DOMAIN c.turns = 1..n /\ c.turns \in Seq(Turn)
  BY LenProperties DEF Conversational
<1>2. CASE c.system = <<>>
  BY <1>2 DEF ChatMessages, Turns, StringBytes
<1>3. CASE c.system # <<>>
  <2> DEFINE S == Turn \cup {system}
             R == Said \cup {lead}
  <2>1. c.turns \in Seq(S) /\ <<system>> \in Seq(S) /\ Len(<<system>>) = 1
    BY <1>1, SeqMonotonic
  <2>2. /\ Turns(c) \in Seq(R) /\ <<lead>> \in Seq(R) /\ Len(<<lead>>) = 1
        /\ Len(Turns(c)) = n
    BY TurnsSaid, SeqMonotonic
  <2> HIDE DEF S, R
  <2>3. /\ all \in Seq(S) /\ Len(all) = 1 + n
        /\ all[1] = system
        /\ \A i \in 1..(1 + n) : i # 1 => all[i] = c.turns[i - 1]
    BY <1>1, <2>1, ConcatProperties
  <2>4. /\ <<lead>> \o Turns(c) \in Seq(R) /\ Len(<<lead>> \o Turns(c)) = 1 + n
        /\ (<<lead>> \o Turns(c))[1] = lead
        /\ \A i \in 1..(1 + n) : i # 1 => (<<lead>> \o Turns(c))[i] = Turns(c)[i - 1]
    BY <1>1, <2>2, ConcatProperties
  <2> HIDE DEF all
  <2> DEFINE m == [i \in 1..(1 + n) |-> Message(all[i].role, Bytes(all[i].texts))]
  <2>5. DOMAIN all = 1..(1 + n)
    BY <2>3, LenProperties
  <2>6. ChatMessages("string", c) = m
    BY <1>3, <2>5 DEF ChatMessages, StringBytes, all
  <2>7. \A i \in 1..(1 + n) : m[i] = (<<lead>> \o Turns(c))[i]
    <3>1. m[1] = lead
      BY <1>1, <2>3
    <3>2. ASSUME NEW i \in 1..(1 + n), i # 1
          PROVE  m[i] = Turns(c)[i - 1]
      <4>1. i - 1 \in 1..n
        BY <1>1, <3>2
      <4>2. m[i] = Message(c.turns[i - 1].role, Bytes(c.turns[i - 1].texts))
        BY <2>3, <3>2
      <4>3. Turns(c)[i - 1] = Message(c.turns[i - 1].role, Bytes(c.turns[i - 1].texts))
        BY <4>1, TurnsSaid
      <4> QED
        BY <4>2, <4>3
    <3> HIDE DEF m
    <3> QED
      BY <2>4, <3>1, <3>2
  <2>8. DOMAIN (<<lead>> \o Turns(c)) = 1..(1 + n)
    BY <2>4, LenProperties
  <2>9. \A v : v \in Seq(R) /\ DOMAIN v = 1..(1 + n) =>
           v = [i \in 1..(1 + n) |-> v[i]]
    BY LenProperties
  <2>10. <<lead>> \o Turns(c) = [i \in 1..(1 + n) |-> (<<lead>> \o Turns(c))[i]]
    BY <2>4, <2>8, <2>9
  <2>11. m = [i \in 1..(1 + n) |-> (<<lead>> \o Turns(c))[i]]
    BY <2>7
  <2> QED
    BY <1>3, <2>6, <2>10, <2>11
<1> QED
  BY <1>2, <1>3

\* The form of contents that a surface reads.
ItsForm(surface) == IF surface \in OpenAI THEN "string" ELSE "blocks"

\* A system prompt in one block, or none, is told as it is, before the turns, by
\* every surface but InvokeModelWithResponseStream; those that leave an empty one
\* out differ in nothing else.
LEMMA Told ==
    ASSUME NEW c, Conversational(c), Len(c.system) <= 1,
           NEW surface \in Surfaces \ {"invokeStream"}
    PROVE  LET m == Messages(surface, ItsForm(surface), c)
           IN  \/ m = Turns(c) /\ Bytes(c.system) = 0
               \/ m = <<Message("system", Bytes(c.system))>> \o Turns(c)
<1> DEFINE lead == Message("system", Bytes(c.system))
           Fine(m) == \/ m = Turns(c) /\ Bytes(c.system) = 0
                      \/ m = <<lead>> \o Turns(c)
<1>1. c.system = <<>> \/ \E s \in Nat : c.system = <<s>>
  <2>1. c.system \in Seq(Nat) /\ Len(c.system) \in Nat
    BY LenProperties DEF Conversational
  <2>2. CASE Len(c.system) = 0
    BY <2>1, <2>2, EmptySeq
  <2>3. CASE Len(c.system) = 1
    <3>1. c.system[1] \in Nat
      BY <2>1, <2>3, ElementOfSeq
    <3>2. <<c.system[1]>> \in Seq(Nat) /\ Len(<<c.system[1]>>) = 1
      BY <3>1
    <3>3. c.system = <<c.system[1]>>
      BY <2>1, <2>3, <3>2, SeqEqual
    <3> QED
      BY <3>1, <3>3
  <2> QED
    BY <2>1, <2>2, <2>3
<1>2. Turns(c) \in Seq(Said) /\ <<>> \o Turns(c) = Turns(c)
  BY TurnsSaid, ConcatEmptySeq
<1>3. c.system = <<>> => Bytes(c.system) = 0
  BY BytesFew
<1>4. Fine(SystemString(c) \o Turns(c))
  BY <1>2 DEF SystemString
<1>5. Fine(ChatMessages("string", c))
  BY <1>3, ChatTold
<1>6. ResponsesMessages("string", c) = SystemString(c) \o Turns(c)
  BY DEF ResponsesMessages, StringBytes, Turns
<1>7. Fine(ConverseMessages(c))
  <2>1. CASE c.system = <<>>
    BY <1>2, <1>3, <2>1, FewBlocks DEF ConverseMessages
  <2>2. ASSUME NEW s \in Nat, c.system = <<s>>  PROVE Fine(ConverseMessages(c))
    <3>1. /\ Bytes(c.system) = s
          /\ SystemBlocks(c.system) = IF s = 0 THEN <<>> ELSE <<lead>>
      BY <2>2, BytesFew, FewBlocks
    <3> QED
      BY <1>2, <3>1 DEF ConverseMessages
  <2> QED
    BY <1>1, <2>1, <2>2
<1>8. Fine(GenerateMessages(c))
  <2>1. \A i \in DOMAIN c.turns :
           ContentToDomainRole(VertexRole(c.turns[i].role)) = c.turns[i].role
    <3>1. DOMAIN c.turns = 1..Len(c.turns)
      BY LenProperties DEF Conversational
    <3>2. \A i \in DOMAIN c.turns : c.turns[i] \in Turn
      BY <3>1, TurnsSaid
    <3>3. \A i \in DOMAIN c.turns : c.turns[i].role \in {"user", "assistant"}
      BY <3>2 DEF Turn
    <3> QED
      BY <3>3 DEF ContentToDomainRole, VertexRole
  <2>2. [i \in DOMAIN c.turns |->
            Message(ContentToDomainRole(VertexRole(c.turns[i].role)),
                    Bytes(c.turns[i].texts))] = Turns(c)
    BY <2>1 DEF Turns
  <2>3. GenerateMessages(c) = (IF c.system = <<>> THEN <<>> ELSE <<lead>>) \o Turns(c)
    BY <2>2 DEF GenerateMessages
  <2> QED
    BY <1>2, <1>3, <2>3
<1>9. Fine(Messages(surface, ItsForm(surface), c))
  <2> HIDE DEF Fine
  <2>1. CASE surface = "chat"
    BY <1>5, <2>1 DEF Messages, ItsForm, OpenAI
  <2>2. CASE surface = "responses"
    BY <1>4, <1>6, <2>2 DEF Messages, ItsForm, OpenAI
  <2>3. CASE surface = "converse"
    BY <1>7, <2>3 DEF Messages
  <2>4. CASE surface = "invoke"
    BY <1>4, <2>4 DEF Messages, InvokeMessages
  <2>5. CASE surface = "generate"
    BY <1>8, <2>5 DEF Messages
  <2> QED
    BY <2>1, <2>2, <2>3, <2>4, <2>5 DEF Surfaces, OpenAI
<1> QED
  BY <1>9

\* The tokens of messages, of which one leads.
LEMMA TokensLed ==
    ASSUME NEW T \in Seq(Said), NEW bytes \in Nat, NEW role
    PROVE  /\ PromptTokens(T) \in Nat
           /\ PromptTokens(<<Message(role, bytes)>> \o T) = bytes \div 4 + PromptTokens(T)
<1> DEFINE lead == Message(role, bytes)
           n == Len(T)
           R == Said \cup {lead}
           m == <<lead>> \o T
           w == [i \in 1..n |-> T[i].bytes \div 4]
           v == [i \in 1..(n + 1) |-> m[i].bytes \div 4]
<1>1. n \in Nat /\ DOMAIN T = 1..n /\ n + 1 \in Nat
  BY LenProperties
<1>2. \A i \in 1..n : T[i].bytes \in Nat
  <2>1. \A i \in 1..n : T[i] \in Said
    BY ElementOfSeq
  <2> QED
    BY <2>1 DEF Said
<1>3. \A b \in Nat : b \div 4 \in Nat
  OBVIOUS
<1>4. w \in Seq(Nat) /\ Len(w) = n
  BY <1>1, <1>2, <1>3
<1>5. PromptTokens(T) = BytesUpTo(w, n)
  BY <1>1, <1>4 DEF PromptTokens, Bytes
<1>6. T \in Seq(R) /\ <<lead>> \in Seq(R) /\ Len(<<lead>>) = 1 /\ lead.bytes = bytes
  BY SeqMonotonic DEF Message
<1> HIDE DEF R, lead
<1>7. /\ m \in Seq(R) /\ Len(m) = n + 1 /\ m[1] = lead
      /\ \A i \in 1..n : m[i + 1] = T[i]
  BY <1>1, <1>6, ConcatProperties
<1>8. DOMAIN m = 1..(n + 1)
  BY <1>7, LenProperties
<1> HIDE DEF m
<1>9. Len(v) = n + 1 /\ PromptTokens(m) = BytesUpTo(v, n + 1)
  BY <1>1, <1>8 DEF PromptTokens, Bytes
<1>10. /\ v[1] = bytes \div 4 /\ \A i \in 1..n : v[i + 1] = w[i]
       /\ \A i \in 1..n : w[i] \in Nat
  BY <1>1, <1>2, <1>3, <1>6, <1>7
<1> HIDE DEF v, w
<1>11. BytesUpTo(v, n + 1) = bytes \div 4 + BytesUpTo(w, n)
  BY <1>1, <1>3, <1>10, BytesLed
<1>12. BytesUpTo(w, n) \in Nat
  BY <1>4, BytesType DEF Bytes
<1> QED
  BY <1>5, <1>9, <1>11, <1>12 DEF m, lead

\* Turns say nothing as the system.
LEMMA TurnsHeard ==
    ASSUME NEW c, Conversational(c)
    PROVE  Heard(Turns(c)) = Turns(c)
<1>1. Turns(c) \in Seq(Said)
  BY TurnsSaid
<1>2. CASE Turns(c) = <<>>
  BY <1>2 DEF Heard
<1>3. CASE Turns(c) # <<>>
  <2>1. Head(Turns(c)) \in Said
    BY <1>1, <1>3, HeadTailProperties
  <2>2. Head(Turns(c)).role # "system"
    BY <2>1 DEF Said
  <2>3. Head(Turns(c)) # Message("system", 0)
    BY <2>2 DEF Message
  <2> QED
    BY <2>3 DEF Heard
<1> QED
  BY <1>2, <1>3

\* What is heard of a conversation, and what it costs, where nothing is withheld.
LEMMA HeardInFull ==
    ASSUME NEW c, Conversational(c), Len(c.system) <= 1,
           NEW surface \in Surfaces \ {"invokeStream"}
    PROVE  LET m == Messages(surface, ItsForm(surface), c)
           IN  /\ Heard(m) = IF Bytes(c.system) = 0 THEN Turns(c)
                             ELSE <<Message("system", Bytes(c.system))>> \o Turns(c)
               /\ PromptTokens(m) = Bytes(c.system) \div 4 + PromptTokens(Turns(c))
               /\ PromptTokens(Turns(c)) \in Nat
<1> DEFINE lead == Message("system", Bytes(c.system))
           T == Turns(c)
           n == Len(T)
           m == Messages(surface, ItsForm(surface), c)
<1>1. T \in Seq(Said) /\ Bytes(c.system) \in Nat
  BY TurnsSaid, BytesType DEF Conversational
<1>2. (m = T /\ Bytes(c.system) = 0) \/ m = <<lead>> \o T
  BY Told
<1> HIDE DEF m, T
<1>3. PromptTokens(m) = Bytes(c.system) \div 4 + PromptTokens(T) /\ PromptTokens(T) \in Nat
  <2>1. /\ PromptTokens(T) \in Nat
        /\ PromptTokens(<<lead>> \o T) = Bytes(c.system) \div 4 + PromptTokens(T)
    BY <1>1, TokensLed
  <2>2. CASE m = T /\ Bytes(c.system) = 0
    <3>1. Bytes(c.system) \div 4 = 0
      BY <2>2
    <3>2. \A k \in Nat : 0 + k = k
      OBVIOUS
    <3> QED
      BY <2>1, <2>2, <3>1, <3>2
  <2>3. CASE m = <<lead>> \o T
    BY <2>1, <2>3
  <2> QED
    BY <1>2, <2>2, <2>3
<1>4. Heard(T) = T
  BY TurnsHeard DEF T
<1>5. /\ Head(<<lead>> \o T) = lead /\ Tail(<<lead>> \o T) = T
      /\ <<lead>> \o T # <<>>
  <2> DEFINE R == Said \cup {lead}
             w == <<lead>> \o T
  <2>1. T \in Seq(R) /\ <<lead>> \in Seq(R) /\ Len(<<lead>>) = 1
    BY <1>1, SeqMonotonic
  <2> HIDE DEF R
  <2>2. /\ w \in Seq(R) /\ Len(w) = 1 + Len(T) /\ w[1] = lead /\ Len(T) \in Nat
        /\ \A i \in 1..Len(T) : w[i + 1] = T[i]
    BY <2>1, ConcatProperties, LenProperties
  <2> HIDE DEF w
  <2>3. w # <<>>
    BY <2>2, EmptySeq
  <2>4. /\ Tail(w) \in Seq(R) /\ Len(Tail(w)) = Len(T)
        /\ \A i \in 1..Len(T) : Tail(w)[i] = T[i]
    BY <2>2, <2>3, HeadTailProperties
  <2>5. Tail(w) = T
    BY <2>1, <2>4, SeqEqual
  <2>6. Head(w) = lead
    BY <2>2
  <2> QED
    BY <2>3, <2>5, <2>6 DEF w
<1>6. lead = Message("system", 0) <=> Bytes(c.system) = 0
  BY DEF Message
<1>7. Heard(<<lead>> \o T) = IF Bytes(c.system) = 0 THEN T ELSE <<lead>> \o T
  BY <1>5, <1>6 DEF Heard
<1>8. Heard(m) = IF Bytes(c.system) = 0 THEN T ELSE <<lead>> \o T
  BY <1>2, <1>4, <1>7
<1> QED
  BY <1>3, <1>8 DEF m, T

\* The tokens of a system prompt in one piece.
LEMMA SystemCharged ==
    ASSUME NEW c, Conversational(c)
    PROVE  PromptTokens(SystemString(c)) = Bytes(c.system) \div 4
<1>1. Bytes(c.system) \in Nat
  BY BytesType DEF Conversational
<1>2. <<>> \in Seq(Said) /\ PromptTokens(<<>>) = 0
  <2>1. <<>> \in Seq(Said) /\ [i \in DOMAIN <<>> |-> <<>>[i].bytes \div 4] = <<>>
    BY EmptySeq
  <2> QED
    BY <2>1, BytesFew DEF PromptTokens
<1>3. CASE Bytes(c.system) = 0
  <2>1. SystemString(c) = <<>> /\ Bytes(c.system) \div 4 = 0
    BY <1>3 DEF SystemString
  <2> QED
    BY <1>2, <2>1
<1>4. CASE Bytes(c.system) # 0
  <2> DEFINE lead == Message("system", Bytes(c.system))
  <2>1. PromptTokens(<<lead>> \o <<>>) = Bytes(c.system) \div 4 + PromptTokens(<<>>)
    BY <1>1, <1>2, TokensLed
  <2>2. <<lead>> \o <<>> = <<lead>> /\ SystemString(c) = <<lead>>
    BY <1>4 DEF SystemString
  <2>3. Bytes(c.system) \div 4 + 0 = Bytes(c.system) \div 4
    BY <1>1
  <2> QED
    BY <1>2, <2>1, <2>2, <2>3
<1> QED
  BY <1>3, <1>4

\* What is withheld of a conversation and what is heard of it are the system prompt
\* and the turns, and so are the costs, on whatever surface.
LEMMA HeardAndCharged ==
    ASSUME NEW c, Conversational(c), Len(c.system) <= 1, NEW surface \in Surfaces
    PROVE  LET m == Messages(surface, ItsForm(surface), c)
               w == IF surface = "invokeStream" THEN SystemString(c) ELSE <<>>
           IN  /\ w \o Heard(m) = SystemString(c) \o Turns(c)
               /\ PromptTokens(w) + PromptTokens(m)
                     = Bytes(c.system) \div 4 + PromptTokens(Turns(c))
               /\ PromptTokens(Turns(c)) \in Nat
<1> DEFINE m == Messages(surface, ItsForm(surface), c)
           T == Turns(c)
           lead == Message("system", Bytes(c.system))
<1>1. T \in Seq(Said) /\ Bytes(c.system) \in Nat /\ <<>> \o T = T
  BY TurnsSaid, BytesType, ConcatEmptySeq DEF Conversational
<1>2. PromptTokens(T) \in Nat
  BY <1>1, TokensLed
<1>3. CASE surface = "invokeStream"
  <2>1. m = T
    BY <1>3 DEF Messages, InvokeStreamMessages
  <2> QED
    BY <1>2, <1>3, <2>1, TurnsHeard, SystemCharged
<1>4. CASE surface # "invokeStream"
  <2>1. /\ Heard(m) = IF Bytes(c.system) = 0 THEN T ELSE <<lead>> \o T
        /\ PromptTokens(m) = Bytes(c.system) \div 4 + PromptTokens(T)
    BY <1>4, HeardInFull
  <2> HIDE DEF m, T, lead
  <2>2. Heard(m) = SystemString(c) \o T
    BY <1>1, <2>1 DEF SystemString, lead
  <2>3. PromptTokens(<<>>) = 0
    <3>1. [i \in DOMAIN <<>> |-> <<>>[i].bytes \div 4] = <<>>
      BY EmptySeq
    <3> QED
      BY <3>1, BytesFew DEF PromptTokens
  <2>4. <<>> \o Heard(m) = Heard(m)
    <3>1. Heard(m) \in Seq(Said \cup {lead})
      <4>1. T \in Seq(Said \cup {lead}) /\ <<lead>> \in Seq(Said \cup {lead})
        BY <1>1, SeqMonotonic
      <4>2. <<lead>> \o T \in Seq(Said \cup {lead})
        BY <4>1, ConcatProperties
      <4> QED
        BY <2>1, <4>1, <4>2
    <3> QED
      BY <3>1, ConcatEmptySeq
  <2>5. Bytes(c.system) \div 4 + PromptTokens(T) \in Nat
    BY <1>1, <1>2
  <2>6. PromptTokens(<<>>) + PromptTokens(m) = Bytes(c.system) \div 4 + PromptTokens(T)
    BY <2>1, <2>3, <2>5
  <2> QED
    BY <1>2, <1>4, <2>2, <2>4, <2>6 DEF m, T
<1> QED
  BY <1>3, <1>4
-----------------------------------------------------------------------------
(* The invariant. *)

\* The conversations of the client and of its requests.
LEMMA ConversationsAre ==
    ASSUME ConversationAssumption, NEW c \in [system : Systems, turns : Seq(Turn)]
    PROVE  Conversational(c)
BY DEF ConversationAssumption, Conversational

\* An entry more in a log.
LEMMA LogGrows ==
    ASSUME NEW l, l \in Seq(Range(l)), NEW e
    PROVE  LET m == Append(l, e)
           IN  /\ m \in Seq(Range(m)) /\ Len(m) = Len(l) + 1 /\ m # <<>>
               /\ Len(l) \in Nat
               /\ \A i \in DOMAIN m : (i \in DOMAIN l /\ m[i] = l[i]) \/ m[i] = e
<1> DEFINE S == Range(l) \cup {e}
           m == Append(l, e)
<1>1. l \in Seq(S) /\ e \in S /\ Len(l) \in Nat /\ DOMAIN l = 1..Len(l)
  BY SeqMonotonic, LenProperties
<1> HIDE DEF S
<1>2. /\ m \in Seq(S) /\ Len(m) = Len(l) + 1 /\ m # <<>>
      /\ \A i \in 1..Len(l) : m[i] = l[i]
      /\ m[Len(l) + 1] = e
  BY <1>1, AppendProperties
<1> HIDE DEF m
<1>3. DOMAIN m = 1..(Len(l) + 1)
  BY <1>2, LenProperties
<1>4. m \in Seq(Range(m))
  <2>1. \A i \in DOMAIN m : m[i] \in Range(m)
    BY DEF Range
  <2>2. m \in [1..Len(m) -> Range(m)] /\ Len(m) \in Nat
    <3>1. m \in [1..Len(m) -> S] /\ Len(m) \in Nat
      BY <1>2, LenProperties
    <3> QED
      BY <2>1, <3>1
  <2> QED
    BY <2>2, SeqDef
<1>5. \A i \in DOMAIN m : (i \in DOMAIN l /\ m[i] = l[i]) \/ m[i] = e
  BY <1>1, <1>2, <1>3
<1> QED
  BY <1>1, <1>2, <1>4, <1>5 DEF m

\* What the chat use case is asked is accounted for.
LEMMA ChatAccounted ==
    ASSUME ConversationAssumption, TypeOK,
           NEW surface \in Surfaces, NEW form \in Forms, NEW action, NEW served,
           action # "countTokens", Chat(surface, form, action, served)
    PROVE  \E e : /\ log' = Append(log, e) /\ Accounted(e)
                  /\ e.asked = action /\ e.served = served.action
                  /\ e.model = served.model
<1> DEFINE entry(status, messages, prompt, reply) ==
              [surface |-> surface, form |-> form, conv |-> conv, asked |-> action,
               served |-> served.action, model |-> served.model, status |-> status,
               messages |-> messages, prompt |-> prompt, reply |-> reply,
               completion |-> IF reply = 0 THEN 0 ELSE CompletionTokens(reply)]
<1>1. conv \in [system : Systems, turns : Seq(Turn)]
  BY DEF TypeOK
<1>2. CASE Refused(surface, form, conv)
  <2>1. log' = Append(log, entry(400, <<>>, 0, 0))
    BY <1>2 DEF Chat, Logged
  <2>2. Accounted(entry(400, <<>>, 0, 0))
    BY <1>1 DEF Accounted
  <2> QED
    BY <2>1, <2>2
<1>3. CASE ~Refused(surface, form, conv)
  <2> DEFINE messages == Messages(surface, form, conv)
  <2>1. PICK reply \in Replies :
           log' = Append(log, entry(200, messages, PromptTokens(messages), reply))
    BY <1>3 DEF Chat, Logged
  <2> DEFINE e == entry(200, messages, PromptTokens(messages), reply)
  <2>2. reply # 0
    BY DEF ConversationAssumption
  <2>3. Accounted(e)
    BY <1>1, <1>3, <2>2 DEF Accounted
  <2> QED
    BY <2>1, <2>3
<1> QED
  BY <1>2, <1>3

\* The path of a model and an action is split where they were put together; and
\* that of a model alone does not end in an action.
LEMMA DispatchSplits ==
    ASSUME NEW id \in Seq(Pieces), id # <<>>, Last(id) \notin VertexActions
    PROVE  /\ \A action \in VertexActions :
                 /\ Dispatch(Append(id, action)).model = id
                 /\ Dispatch(Append(id, action)).action = action
           /\ Dispatch(id).action \notin VertexActions
<1>1. Len(id) \in Nat \ {0}
  BY EmptySeq
<1>2. ASSUME NEW action \in VertexActions
      PROVE  /\ Dispatch(Append(id, action)).model = id
             /\ Dispatch(Append(id, action)).action = action
  <2> DEFINE S == Pieces \cup {action}
             path == Append(id, action)
  <2>1. id \in Seq(S) /\ action \in S
    BY SeqMonotonic
  <2> HIDE DEF S
  <2>2. /\ path \in Seq(S) /\ Len(path) = Len(id) + 1 /\ path[Len(id) + 1] = action
        /\ \A i \in 1..Len(id) : path[i] = id[i]
    BY <2>1, AppendProperties
  <2> HIDE DEF path
  <2>3. Len(path) # 1 /\ Len(path) - 1 = Len(id)
    BY <1>1, <2>2
  <2>4. Last(path) = action
    BY <2>2 DEF Last
  <2>5. Front(path) = id
    <3>1. \A i \in 1..Len(id) : path[i] \in S /\ id[i] \in S
      BY <2>1, <2>2, ElementOfSeq
    <3>2. /\ SubSeq(path, 1, Len(id)) \in Seq(S)
          /\ Len(SubSeq(path, 1, Len(id))) = Len(id)
          /\ \A i \in 1..Len(id) : SubSeq(path, 1, Len(id))[i] = path[1 + i - 1]
      BY <1>1, <3>1, SubSeqProperties
    <3>3. \A i \in 1..Len(id) : SubSeq(path, 1, Len(id))[i] = id[i]
      BY <2>2, <3>2
    <3>4. SubSeq(path, 1, Len(id)) = id
      BY <2>1, <3>2, <3>3, SeqEqual
    <3> QED
      BY <2>3, <3>4 DEF Front
  <2> QED
    BY <2>3, <2>4, <2>5 DEF Dispatch, path
<1>3. Dispatch(id).action \notin VertexActions
  BY DEF Dispatch, VertexActions
<1> QED
  BY <1>2, <1>3

\* An entry about the model that was picked: the handler that was asked for, if
\* there was one.
Named(e) == IF e.asked = "none" THEN e.status = 404
            ELSE e.served = e.asked /\ e.model = picked.id

\* What a request to the other surfaces adds to the log.
LEMMA AskAccounted ==
    ASSUME ConversationAssumption, TypeOK,
           NEW surface \in Surfaces \ {"generate"}, NEW form \in Forms,
           Ask(surface, form)
    PROVE  \E e : log' = Append(log, e) /\ Accounted(e) /\ Named(e)
<1> DEFINE served == [model |-> picked.id, action |-> "chat"]
<1>1. Chat(surface, form, "chat", served)
  BY DEF Ask
<1> HIDE DEF served
<1>2. PICK e : /\ log' = Append(log, e) /\ Accounted(e)
               /\ e.asked = "chat" /\ e.served = served.action
               /\ e.model = served.model
  BY <1>1, ChatAccounted
<1> QED
  BY <1>2 DEF Named, served

\* And to Vertex's.
LEMMA AskVertexAccounted ==
    ASSUME ConversationAssumption, TypeOK, NEW form \in Forms,
           NEW action \in VertexActions \cup {"none"}, AskVertex(form, action)
    PROVE  \E e : log' = Append(log, e) /\ Accounted(e) /\ Named(e)
<1> DEFINE path == IF action = "none" THEN picked.id ELSE Append(picked.id, action)
           served == Dispatch(path)
           entry(status, prompt) ==
              [surface |-> "generate", form |-> form, conv |-> conv, asked |-> action,
               served |-> served.action, model |-> served.model, status |-> status,
               messages |-> <<>>, prompt |-> prompt, reply |-> 0, completion |-> 0]
<1>1. /\ conv \in [system : Systems, turns : Seq(Turn)] /\ "generate" \in Surfaces
      /\ "generate" \notin OpenAI
  BY DEF TypeOK, Surfaces, OpenAI
<1>2. /\ picked.id \in Seq(Pieces) /\ picked.id # <<>>
      /\ Last(picked.id) \notin VertexActions
  <2>1. picked \in Range(Catalog)
    BY DEF TypeOK, AskVertex, MayAsk
  <2> QED
    BY <2>1 DEF ConversationAssumption
<1>3. (CASE served.action = "countTokens" ->
               IF Refused("generate", form, conv)
               THEN Logged("generate", form, action, served, 400, <<>>, 0, 0)
               ELSE Logged("generate", form, action, served, 200, <<>>, CountTokens(conv), 0)
         [] served.action \in VertexActions \ {"countTokens"} ->
               Chat("generate", form, action, served)
         [] OTHER -> Logged("generate", form, action, served, 404, <<>>, 0, 0))
  BY DEF AskVertex
<1>4. "none" \notin VertexActions /\ "countTokens" \in VertexActions
  BY DEF VertexActions
<1>5. CASE action = "none"
  <2>1. path = picked.id
    BY <1>5
  <2>2. served.action \notin VertexActions
    BY <1>2, <2>1, DispatchSplits
  <2> HIDE DEF served
  <2>3. Logged("generate", form, action, served, 404, <<>>, 0, 0)
    BY <1>3, <1>4, <2>2
  <2>4. log' = Append(log, entry(404, 0))
    BY <2>3 DEF Logged
  <2>5. Accounted(entry(404, 0))
    BY <1>1 DEF Accounted
  <2>6. Named(entry(404, 0))
    BY <1>5 DEF Named
  <2> QED
    BY <2>4, <2>5, <2>6
<1>6. CASE action # "none"
  <2>1. path = Append(picked.id, action) /\ action \in VertexActions
    BY <1>6
  <2>2. served.action = action /\ served.model = picked.id
    BY <1>2, <2>1, DispatchSplits
  <2> HIDE DEF served
  <2>3. CASE action = "countTokens"
    <3>1. IF Refused("generate", form, conv)
          THEN Logged("generate", form, action, served, 400, <<>>, 0, 0)
          ELSE Logged("generate", form, action, served, 200, <<>>, CountTokens(conv), 0)
      BY <1>3, <2>2, <2>3
    <3>2. \/ log' = Append(log, entry(400, 0))
          \/ log' = Append(log, entry(200, CountTokens(conv)))
      BY <3>1 DEF Logged
    <3>3. Accounted(entry(400, 0)) /\ Accounted(entry(200, CountTokens(conv)))
      BY <1>1, <2>3 DEF Accounted
    <3>4. Named(entry(400, 0)) /\ Named(entry(200, CountTokens(conv)))
      BY <1>6, <2>2 DEF Named
    <3> QED
      BY <3>2, <3>3, <3>4
  <2>4. CASE action # "countTokens"
    <3>1. Chat("generate", form, action, served)
      BY <1>3, <2>1, <2>2, <2>4
    <3>2. PICK e : /\ log' = Append(log, e) /\ Accounted(e)
                   /\ e.asked = action /\ e.served = served.action
                   /\ e.model = served.model
      BY <1>1, <2>4, <3>1, ChatAccounted
    <3> QED
      BY <1>6, <2>2, <3>2 DEF Named
  <2> QED
    BY <2>3, <2>4
<1> QED
  BY <1>5, <1>6

\* What is kept of a step: the type of the client's state, and an account of
\* every request.
LEMMA NextAccounted ==
    ASSUME ConversationAssumption, ConversationInv, NamesMeanOneModel, [Next]_vars
    PROVE  ConversationInv' /\ NamesMeanOneModel'
<1>0. /\ TypeOK /\ \A i \in DOMAIN log : Accounted(log[i]) /\ Named(log[i])
      /\ details # NoModel => details = picked
  BY DEF ConversationInv, NamesMeanOneModel, Named
\* A request.
<1>1. ASSUME MayAsk, \E e : log' = Append(log, e) /\ Accounted(e) /\ Named(e)
      PROVE  ConversationInv' /\ NamesMeanOneModel'
  <2>1. UNCHANGED <<picked, details, conv>> /\ picked # NoModel /\ Len(log) < MaxAsked
    BY <1>1 DEF MayAsk
  <2>2. PICK e : log' = Append(log, e) /\ Accounted(e) /\ Named(e)
    BY <1>1
  <2>3. /\ log' \in Seq(Range(log')) /\ Len(log') = Len(log) + 1 /\ Len(log) \in Nat
        /\ \A i \in DOMAIN log' : (i \in DOMAIN log /\ log'[i] = log[i]) \/ log'[i] = e
    BY <1>0, <2>2, LogGrows DEF TypeOK
  <2>4. \A i \in DOMAIN log' : Accounted(log'[i]) /\ Named(log'[i])
    BY <1>0, <2>2, <2>3
  <2>5. TypeOK'
    BY <1>0, <2>1, <2>3 DEF TypeOK, ConversationAssumption
  <2>6. NamesMeanOneModel'
    BY <1>0, <2>1, <2>4 DEF NamesMeanOneModel, Named
  <2> QED
    BY <2>4, <2>5, <2>6 DEF ConversationInv
\* A change of the conversation.
<1>2. ASSUME UNCHANGED <<picked, details, log>>, Len(conv.turns) < MaxTurns,
             NEW turn \in Turn,
             conv' = [conv EXCEPT !.turns = Append(@, turn)]
      PROVE  ConversationInv' /\ NamesMeanOneModel'
  <2>1. conv \in [system : Systems, turns : Seq(Turn)] /\ conv.turns \in Seq(Turn)
    BY <1>0 DEF TypeOK
  <2>2. /\ Append(conv.turns, turn) \in Seq(Turn)
        /\ Len(Append(conv.turns, turn)) = Len(conv.turns) + 1
        /\ Len(conv.turns) \in Nat
    BY <2>1, AppendProperties, LenProperties
  <2>3. /\ conv' \in [system : Systems, turns : Seq(Turn)]
        /\ conv'.turns = Append(conv.turns, turn)
    BY <1>2, <2>1, <2>2
  <2>4. Len(conv'.turns) <= MaxTurns
    BY <1>2, <2>2, <2>3 DEF ConversationAssumption
  <2>5. TypeOK'
    BY <1>0, <1>2, <2>3, <2>4 DEF TypeOK
  <2> QED
    BY <1>0, <1>2, <2>5 DEF ConversationInv, NamesMeanOneModel, Named
<1>3. ASSUME NEW provider \in Providers, Pick(provider)
      PROVE  ConversationInv' /\ NamesMeanOneModel'
  <2>1. picked' \in Range(Catalog)
    BY <1>3 DEF Pick, Listed
  <2>2. details = NoModel /\ log = <<>> /\ UNCHANGED <<details, conv, log>>
    BY <1>0, <1>3 DEF Pick, TypeOK
  <2>3. DOMAIN log = {}
    BY <2>2
  <2> QED
    BY <1>0, <2>1, <2>2, <2>3 DEF ConversationInv, TypeOK, NamesMeanOneModel
<1>4. ASSUME LookUp  PROVE ConversationInv' /\ NamesMeanOneModel'
  <2>1. /\ picked \in Range(Catalog) /\ details' = Get(picked.id)
        /\ UNCHANGED <<picked, conv, log>> /\ picked # NoModel
    BY <1>0, <1>4 DEF LookUp, TypeOK
  <2>2. DOMAIN Catalog \subseteq Int
    <3>1. Catalog \in Seq(Range(Catalog))
      BY DEF ConversationAssumption
    <3> QED
      BY <3>1, LenProperties
  <2>3. PICK k \in DOMAIN Catalog : Catalog[k] = picked
    BY <2>1 DEF Range
  <2>4. {i \in DOMAIN Catalog : Catalog[i].id = picked.id} = {k}
    BY <2>3 DEF ConversationAssumption
  <2>5. Get(picked.id) = Catalog[CHOOSE i \in {k} : \A j \in {k} : i <= j]
    BY <2>4 DEF Get
  <2>6. (CHOOSE i \in {k} : \A j \in {k} : i <= j) = k
    BY <2>2
  <2>7. details' = picked
    BY <2>1, <2>3, <2>5, <2>6
  <2> QED
    BY <1>0, <2>1, <2>7 DEF ConversationInv, TypeOK, NamesMeanOneModel, Named
<1>5. ASSUME NEW texts \in Utterances, Say(texts)
      PROVE  ConversationInv' /\ NamesMeanOneModel'
  <2>1. [role |-> "user", texts |-> texts] \in Turn
    BY DEF Turn, ConversationAssumption
  <2> QED
    BY <1>2, <1>5, <2>1 DEF Say
<1>6. ASSUME NEW surface \in Surfaces \ {"generate"}, NEW form \in Forms,
             Ask(surface, form)
      PROVE  ConversationInv' /\ NamesMeanOneModel'
  <2>1. \E e : log' = Append(log, e) /\ Accounted(e) /\ Named(e)
    BY <1>0, <1>6, AskAccounted
  <2> QED
    BY <1>1, <1>6, <2>1 DEF Ask
<1>7. ASSUME NEW form \in Forms, NEW action \in VertexActions \cup {"none"},
             AskVertex(form, action)
      PROVE  ConversationInv' /\ NamesMeanOneModel'
  <2>1. \E e : log' = Append(log, e) /\ Accounted(e) /\ Named(e)
    BY <1>0, <1>7, AskVertexAccounted
  <2> QED
    BY <1>1, <1>7, <2>1 DEF AskVertex
<1>8. CASE Keep
  <2>1. Last(log).reply \in Nat
    <3>1. Len(log) \in Nat \ {0} /\ DOMAIN log = 1..Len(log)
      BY <1>0, <1>8, EmptySeq, LenProperties DEF Keep, TypeOK
    <3>2. Len(log) \in DOMAIN log /\ Last(log) = log[Len(log)]
      BY <3>1 DEF Last
    <3>3. Accounted(Last(log))
      BY <1>0, <3>2
    <3>4. Replies \subseteq Nat
      BY DEF ConversationAssumption
    <3>5. ASSUME NEW e, Accounted(e)  PROVE e.reply \in Nat
      <4>1. e.reply = 0 \/ e.reply \in Replies
        BY <3>5 DEF Accounted
      <4>2. 0 \in Nat
        OBVIOUS
      <4> QED
        BY <3>4, <4>1, <4>2, Zenon
    <3> QED
      BY <3>3, <3>5
  <2>2. [role |-> "assistant", texts |-> <<Last(log).reply>>] \in Turn
    BY <2>1 DEF Turn
  <2> QED
    BY <1>2, <1>8, <2>2 DEF Keep
<1>9. CASE UNCHANGED vars
  BY <1>0, <1>9 DEF vars, ConversationInv, TypeOK, NamesMeanOneModel, Named
<1>10. CASE Leave
  BY <1>9, <1>10 DEF Leave
<1> QED
  BY <1>3, <1>4, <1>5, <1>6, <1>7, <1>8, <1>9, <1>10 DEF Next

\* A client that has not begun has asked nothing.
LEMMA InitAccounted ==
    ASSUME ConversationAssumption, Init
    PROVE  ConversationInv /\ NamesMeanOneModel
<1>1. conv \in [system : Systems, turns : Seq(Turn)] /\ Len(conv.turns) <= MaxTurns
  BY DEF Init, ConversationAssumption
<1>2. log = <<>> /\ DOMAIN log = {} /\ log \in Seq(Range(log)) /\ Len(log) <= MaxAsked
  BY EmptySeq DEF Init, ConversationAssumption
<1> QED
  BY <1>1, <1>2 DEF Init, ConversationInv, TypeOK, NamesMeanOneModel

\* ConversationInv and NamesMeanOneModel hold together in every state.
LEMMA Accounts == Spec => [](ConversationInv /\ NamesMeanOneModel)
<1>1. Init => ConversationInv /\ NamesMeanOneModel
  BY InitAccounted, ConversationAssumption
<1>2. ConversationInv /\ NamesMeanOneModel /\ [Next]_vars
         => (ConversationInv /\ NamesMeanOneModel)'
  BY NextAccounted, ConversationAssumption
<1> QED
  BY <1>1, <1>2, PTL DEF Spec

\* What every request is told and charged is a matter of the conversation it
\* carried, whatever was asked before (chat.go:30-60,
\* counttokens_handler.go:10-25).
THEOREM ConversationInvariant == Spec => []ConversationInv
BY Accounts, PTL

\* Types: the model that was picked is of the catalog, and so is what was said of
\* it; the conversation and the log are within their bounds.
THEOREM ConversationTypes == Spec => []TypeOK
<1>1. ConversationInv => TypeOK
  BY DEF ConversationInv
<1> QED
  BY <1>1, ConversationInvariant, PTL

\* The name of a model means that model wherever it is used, for any catalog
\* without two models of one id or one named like an action
\* (model_repo.go:77-84, vertex/router.go:32-51).
THEOREM NamesMean == Spec => []NamesMeanOneModel
BY Accounts, PTL
-----------------------------------------------------------------------------
(* What follows for two requests. *)

\* What an answer of the use case tells and charges.
LEMMA BilledFor ==
    ASSUME ConversationAssumption, NEW e, Accounted(e), Billed(e)
    PROVE  /\ Conversational(e.conv) /\ e.surface \in Surfaces
           /\ e.messages = Messages(e.surface, ItsForm(e.surface), e.conv)
           /\ e.prompt = PromptTokens(e.messages)
           /\ e.reply \in Replies /\ e.completion = CompletionTokens(e.reply)
<1>1. e.conv \in [system : Systems, turns : Seq(Turn)] /\ e.surface \in Surfaces
  BY DEF Accounted
<1>2. e.form = ItsForm(e.surface)
  BY DEF Billed, ItsForm
<1>3. /\ e.messages = Messages(e.surface, e.form, e.conv)
      /\ e.prompt = PromptTokens(e.messages)
      /\ e.reply \in Replies /\ e.completion = CompletionTokens(e.reply)
  BY DEF Accounted, Billed
<1> QED
  BY <1>1, <1>2, <1>3, ConversationsAre

\* What it was told and charged, with what the surface withheld.
LEMMA BilledDue ==
    ASSUME ConversationAssumption, NEW e, Accounted(e), Billed(e),
           Len(e.conv.system) <= 1
    PROVE  /\ Withheld(e) \o Heard(e.messages) = SystemString(e.conv) \o Turns(e.conv)
           /\ PromptTokens(Withheld(e)) + e.prompt
                 = Bytes(e.conv.system) \div 4 + PromptTokens(Turns(e.conv))
           /\ PromptTokens(Turns(e.conv)) \in Nat
<1> DEFINE c == e.conv
           surface == e.surface
           m == Messages(surface, ItsForm(surface), c)
           w == IF surface = "invokeStream" THEN SystemString(c) ELSE <<>>
<1>1. /\ Conversational(c) /\ surface \in Surfaces /\ Len(c.system) <= 1
      /\ e.messages = m /\ e.prompt = PromptTokens(m)
  BY BilledFor
<1>2. Withheld(e) = w
  BY DEF Withheld
<1> HIDE DEF c, surface
<1>3. /\ w \o Heard(m) = SystemString(c) \o Turns(c)
      /\ PromptTokens(w) + PromptTokens(m)
            = Bytes(c.system) \div 4 + PromptTokens(Turns(c))
      /\ PromptTokens(Turns(c)) \in Nat
  BY <1>1, HeardAndCharged
<1> HIDE DEF m, w
<1> QED
  BY <1>1, <1>2, <1>3 DEF c

\* On every surface the chat use case is told the same and charges the same, but
\* for the system prompt where the surface withholds it (convert.go:11-31,
\* invoke_handler.go:24-40, invoke_stream_handler.go:42-52, chat_handler.go:14-26,
\* responses_handler.go:38-68).
THEOREM SameOnEverySurface == Spec => []SameEverywhere
<1>1. ASSUME ConversationInv  PROVE SameEverywhere
  <2> SUFFICES ASSUME NEW i \in DOMAIN log, NEW j \in DOMAIN log,
                      Billed(log[i]), Billed(log[j]), log[i].conv = log[j].conv,
                      Len(log[i].conv.system) <= 1
               PROVE  /\ Withheld(log[i]) \o Heard(log[i].messages)
                            = Withheld(log[j]) \o Heard(log[j].messages)
                      /\ PromptTokens(Withheld(log[i])) + log[i].prompt
                            = PromptTokens(Withheld(log[j])) + log[j].prompt
    BY DEF SameEverywhere
  <2> DEFINE c == log[i].conv
             whole == SystemString(c) \o Turns(c)
             due == Bytes(c.system) \div 4 + PromptTokens(Turns(c))
  <2>1. ASSUME NEW e, Accounted(e), Billed(e), e.conv = c
        PROVE  /\ Withheld(e) \o Heard(e.messages) = whole
               /\ PromptTokens(Withheld(e)) + e.prompt = due
    <3>1. Conversational(c) /\ Len(c.system) <= 1
      BY <2>1, BilledFor, ConversationAssumption
    <3> HIDE DEF c
    <3> QED
      BY <2>1, <3>1, BilledDue, ConversationAssumption
  <2>2. Accounted(log[i]) /\ Accounted(log[j])
    BY <1>1 DEF ConversationInv
  <2> HIDE DEF whole, due
  <2> QED
    BY <2>1, <2>2
<1> QED
  BY <1>1, ConversationInvariant, PTL

\* The tokens of turns, of a conversation and of one that goes on.
LEMMA TokensGoOn ==
    ASSUME NEW before, NEW after, Conversational(before), Conversational(after),
           Len(after.turns) = Len(before.turns) + 2,
           SubSeq(after.turns, 1, Len(before.turns)) = before.turns
    PROVE  LET n == Len(before.turns)
           IN  PromptTokens(Turns(after)) =
                  PromptTokens(Turns(before))
                      + Bytes(after.turns[n + 1].texts) \div 4
                      + Bytes(after.turns[n + 2].texts) \div 4
<1> DEFINE n == Len(before.turns)
           T == Turns(before)
           U == Turns(after)
           w == [i \in 1..n |-> T[i].bytes \div 4]
           v == [i \in 1..(n + 2) |-> U[i].bytes \div 4]
<1>1. n \in Nat /\ n + 1 \in Nat /\ n + 2 \in Nat /\ (n + 1) + 1 = n + 2
  BY LenProperties DEF Conversational
<1>2. ASSUME NEW i \in 1..n  PROVE before.turns[i] = after.turns[i]
  <2>1. \A k \in 1..n : after.turns[k] \in Turn
    BY <1>1, TurnsSaid
  <2>2. SubSeq(after.turns, 1, n)[i] = after.turns[1 + i - 1]
    BY <1>1, <2>1, SubSeqProperties
  <2> QED
    BY <2>2
<1>3. /\ T \in Seq(Said) /\ Len(T) = n /\ U \in Seq(Said) /\ Len(U) = n + 2
      /\ \A i \in 1..n : T[i] = Message(before.turns[i].role, Bytes(before.turns[i].texts))
      /\ \A i \in 1..(n + 2) :
            /\ U[i] = Message(after.turns[i].role, Bytes(after.turns[i].texts))
            /\ Bytes(after.turns[i].texts) \in Nat
  BY TurnsSaid
<1> HIDE DEF T, U
<1>4. DOMAIN T = 1..n /\ DOMAIN U = 1..(n + 2)
  BY <1>3, LenProperties
<1>5. PromptTokens(T) = BytesUpTo(w, n) /\ PromptTokens(U) = BytesUpTo(v, n + 2)
  <2>1. Len(w) = n /\ Len(v) = n + 2
    BY <1>1
  <2> QED
    BY <1>4, <2>1 DEF PromptTokens, Bytes
<1>6. \A i \in 1..n : v[i] = w[i]
  <2>1. \A i \in 1..n : i \in 1..(n + 2)
    BY <1>1
  <2>2. \A i \in 1..n : T[i] = U[i]
    BY <1>2, <1>3, <2>1
  <2> QED
    BY <2>1, <2>2
<1>7. /\ v[n + 1] = Bytes(after.turns[n + 1].texts) \div 4
      /\ v[(n + 1) + 1] = Bytes(after.turns[n + 2].texts) \div 4
  <2>1. n + 1 \in 1..(n + 2) /\ n + 2 \in 1..(n + 2)
    BY <1>1
  <2>2. ASSUME NEW k \in 1..(n + 2)
        PROVE  U[k].bytes = Bytes(after.turns[k].texts)
    <3>1. U[k] = Message(after.turns[k].role, Bytes(after.turns[k].texts))
      BY <1>3
    <3> QED
      BY <3>1 DEF Message
  <2>3. v[n + 1] = U[n + 1].bytes \div 4 /\ v[n + 2] = U[n + 2].bytes \div 4
    BY <2>1
  <2> HIDE DEF v
  <2> QED
    BY <1>1, <2>2, <2>3
<1> HIDE DEF v, w
<1>8. BytesUpTo(v, n) = BytesUpTo(w, n)
  BY <1>1, <1>6, BytesAgree
<1>9. /\ BytesUpTo(v, n + 1) = BytesUpTo(v, n) + v[n + 1]
      /\ BytesUpTo(v, (n + 1) + 1) = BytesUpTo(v, n + 1) + v[(n + 1) + 1]
  BY <1>1, BytesRecursion
<1> QED
  BY <1>1, <1>5, <1>7, <1>8, <1>9 DEF T, U

\* A reply costs as a part of the next prompt what it cost as a completion, but
\* nothing if it has less than four bytes (chat.go:155-169,
\* invoke_stream_handler.go:42-52).
THEOREM RepliesCost == Spec => []RepliesCostAgain
<1>1. ASSUME ConversationInv  PROVE RepliesCostAgain
  <2> SUFFICES ASSUME NEW i \in DOMAIN log, NEW j \in DOMAIN log,
                      Billed(log[i]), Billed(log[j]),
                      log[i].conv.system = log[j].conv.system,
                      Len(log[i].conv.system) <= 1,
                      Len(log[j].conv.turns) = Len(log[i].conv.turns) + 2,
                      SubSeq(log[j].conv.turns, 1, Len(log[i].conv.turns))
                         = log[i].conv.turns,
                      log[j].conv.turns[Len(log[i].conv.turns) + 1].texts
                         = <<log[i].reply>>
               PROVE  PromptTokens(Withheld(log[j])) + log[j].prompt =
                         PromptTokens(Withheld(log[i])) + log[i].prompt
                             + Bytes(log[j].conv.turns[Len(log[i].conv.turns) + 2].texts) \div 4
                             + (IF log[i].reply < 4 THEN 0 ELSE log[i].completion)
    BY DEF RepliesCostAgain
  <2> DEFINE before == log[i].conv
             after == log[j].conv
             n == Len(before.turns)
             reply == log[i].reply
             said == Bytes(after.turns[n + 2].texts) \div 4
             system == Bytes(before.system) \div 4
             told == PromptTokens(Turns(before))
             was == PromptTokens(Withheld(log[i])) + log[i].prompt
             is == PromptTokens(Withheld(log[j])) + log[j].prompt
  <2>1. /\ Conversational(before) /\ Conversational(after)
        /\ was = system + told /\ told \in Nat
        /\ is = system + PromptTokens(Turns(after))
        /\ reply \in Replies /\ log[i].completion = CompletionTokens(reply)
    <3>1. Accounted(log[i]) /\ Accounted(log[j])
      BY <1>1 DEF ConversationInv
    <3>2. Len(log[j].conv.system) <= 1
      OBVIOUS
    <3> QED
      BY <3>1, <3>2, BilledFor, BilledDue, ConversationAssumption
  <2>2. Bytes(<<reply>>) = reply /\ reply \in Nat
    BY <2>1, BytesFew, ConversationAssumption DEF ConversationAssumption
  <2>3. PromptTokens(Turns(after)) = told + reply \div 4 + said
    BY <2>1, <2>2, TokensGoOn
  <2>5. system \in Nat /\ said \in Nat
    <3> HIDE DEF said
    <3>1. Bytes(before.system) \in Nat
      BY <2>1, BytesType DEF Conversational
    <3>2. n + 2 \in 1..Len(after.turns)
      <4>1. n \in Nat
        BY <2>1, LenProperties DEF Conversational
      <4> QED
        BY <4>1
    <3> HIDE DEF after, n
    <3>3. Bytes(after.turns[n + 2].texts) \in Nat
      BY <2>1, <3>2, TurnsSaid
    <3> QED
      BY <3>1, <3>3 DEF said
  <2>6. reply \div 4 = IF reply < 4 THEN 0 ELSE log[i].completion
    <3>1. \A k \in Nat : k < 4 => k \div 4 = 0
      OBVIOUS
    <3>2. \A k \in Nat : ~(k < 4) => k \div 4 # 0
      OBVIOUS
    <3>3. ~(reply < 4) => log[i].completion = reply \div 4
      BY <2>1, <2>2, <3>2 DEF CompletionTokens, AtLeastOne
    <3> QED
      BY <2>2, <3>1, <3>3
  <2> HIDE DEF said, system, told, was, is
  <2>7. is = system + (told + reply \div 4 + said) /\ reply \div 4 \in Nat
    BY <2>1, <2>2, <2>3
  <2>8. is = (system + told) + said + reply \div 4
    BY <2>1, <2>5, <2>7
  <2> QED
    BY <2>1, <2>6, <2>8 DEF said, was, is
<1> QED
  BY <1>1, ConversationInvariant, PTL

\* countTokens foretells what generateContent charges, except that it never says
\* nothing (counttokens_handler.go:16-22).
THEOREM CountForetells == Spec => []CountAgrees
<1>1. ASSUME ConversationInv  PROVE CountAgrees
  <2> SUFFICES ASSUME NEW i \in DOMAIN log, NEW j \in DOMAIN log,
                      log[i].asked = "countTokens", log[i].status = 200,
                      Billed(log[j]), log[i].conv = log[j].conv,
                      log[i].conv.system = <<>>
               PROVE  log[i].prompt = AtLeastOne(log[j].prompt)
    BY DEF CountAgrees
  <2> DEFINE c == log[j].conv
  <2>1. /\ Conversational(c) /\ log[j].surface \in Surfaces
        /\ log[j].prompt =
              PromptTokens(Messages(log[j].surface, ItsForm(log[j].surface), c))
    <3>1. Accounted(log[j])
      BY <1>1 DEF ConversationInv
    <3> QED
      BY <3>1, BilledFor, ConversationAssumption
  <2>2. log[i].prompt = CountTokens(c)
    <3>1. Accounted(log[i])
      BY <1>1 DEF ConversationInv
    <3> QED
      BY <3>1 DEF Accounted
  <2>3. c.system = <<>> /\ Len(c.system) <= 1 /\ Bytes(c.system) = 0
    <3>1. c.system = <<>>
      OBVIOUS
    <3>2. Len(<<>>) <= 1
      OBVIOUS
    <3> QED
      BY <3>1, <3>2, BytesFew
  <2> HIDE DEF c
  <2>4. log[j].prompt = PromptTokens(Turns(c))
    <3>1. CASE log[j].surface = "invokeStream"
      BY <2>1, <3>1 DEF Messages, InvokeStreamMessages
    <3>2. CASE log[j].surface # "invokeStream"
      <4> DEFINE surface == log[j].surface
      <4>1. /\ surface \in Surfaces \ {"invokeStream"}
            /\ log[j].prompt = PromptTokens(Messages(surface, ItsForm(surface), c))
        BY <2>1, <3>2
      <4> HIDE DEF surface
      <4>2. /\ log[j].prompt = Bytes(c.system) \div 4 + PromptTokens(Turns(c))
            /\ PromptTokens(Turns(c)) \in Nat
        BY <2>1, <2>3, <4>1, HeardInFull
      <4>3. Bytes(c.system) \div 4 = 0
        BY <2>3
      <4>4. \A k \in Nat : 0 + k = k
        OBVIOUS
      <4> QED
        BY <4>2, <4>3, <4>4
    <3> QED
      BY <3>1, <3>2
  <2>5. [k \in DOMAIN Turns(c) |-> Turns(c)[k].bytes \div 4]
           = [k \in DOMAIN c.turns |-> Bytes(c.turns[k].texts) \div 4]
    <3>1. DOMAIN Turns(c) = DOMAIN c.turns
      BY DEF Turns
    <3>2. \A k \in DOMAIN c.turns : Turns(c)[k].bytes = Bytes(c.turns[k].texts)
      BY DEF Turns, Message
    <3> QED
      BY <3>1, <3>2
  <2>6. CountTokens(c) = AtLeastOne(PromptTokens(Turns(c)))
    BY <2>5 DEF CountTokens, PromptTokens
  <2> QED
    BY <2>2, <2>4, <2>6
<1> QED
  BY <1>1, ConversationInvariant, PTL
=============================================================================
