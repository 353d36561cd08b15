------------------------- MODULE WireFormatsProofs -------------------------
(***************************************************************************)
(* What a handler writes for the chunks of a reply, one after the other,   *)
(* is the complete stream of the reply, on every surface and for every     *)
(* text: the arithmetic of prefixes the proof of                           *)
(* ConnectedClientGetsWholeReply rests on.                                 *)
(***************************************************************************)
EXTENDS WireFormats, Integers, SequenceTheorems, WellFoundedInduction, TLAPS

-----------------------------------------------------------------------------
(* Frames and sequences of frames. *)

AnyUsage == [prompt : Nat, completion : Nat, total : Nat]

FrameKinds ==
    {"data", "[DONE]",
     "response.created", "response.output_item.added",
     "response.output_text.delta", "response.output_item.done",
     "response.completed",
     "messageStart", "contentBlockDelta", "contentBlockStop", "messageStop",
     "metadata",
     "message_start", "content_block_start", "content_block_delta",
     "content_block_stop", "message_delta", "message_stop",
     "[", "element", ",", "]"}

AnyFrame(W) ==
    [kind : FrameKinds, words : Seq(W), role : BOOLEAN, finish : {"", "stop"},
     usage : AnyUsage]

\* A sequence whose next Len(T) elements are those of T.
LEMMA Extend ==
    ASSUME NEW S, NEW E \in Seq(S), NEW T \in Seq(S), NEW a \in Nat,
           a + Len(T) <= Len(E),
           \A i \in 1..Len(T) : T[i] = E[a + i]
    PROVE  SubSeq(E, 1, a) \o T = SubSeq(E, 1, a + Len(T))
<1> DEFINE A == SubSeq(E, 1, a)
           B == SubSeq(E, 1, a + Len(T))
<1>0. Len(T) \in Nat /\ Len(E) \in Nat
  BY LenProperties
<1>1. \A i \in 1..Len(E) : E[i] \in S
  BY ElementOfSeq
<1>2. A \in Seq(S) /\ Len(A) = a /\ \A i \in 1..a : A[i] = E[i]
  <2>1. \A i \in 1..a : E[i] \in S
    BY <1>0, <1>1
  <2>2. /\ A \in Seq(S)
        /\ Len(A) = IF 1 <= a THEN a - 1 + 1 ELSE 0
        /\ \A i \in 1..(a - 1 + 1) : A[i] = E[1 + i - 1]
    BY <2>1, SubSeqProperties
  <2> QED
    BY <2>2
<1>3. /\ B \in Seq(S) /\ Len(B) = a + Len(T)
      /\ \A i \in 1..(a + Len(T)) : B[i] = E[i]
  <2> DEFINE b == a + Len(T)
  <2>0. b \in Nat
    BY <1>0
  <2>1. \A i \in 1..b : E[i] \in S
    BY <1>0, <1>1
  <2> HIDE DEF b
  <2>2. /\ SubSeq(E, 1, b) \in Seq(S)
        /\ Len(SubSeq(E, 1, b)) = IF 1 <= b THEN b - 1 + 1 ELSE 0
        /\ \A i \in 1..(b - 1 + 1) : SubSeq(E, 1, b)[i] = E[1 + i - 1]
    BY <2>0, <2>1, SubSeqProperties
  <2>3. /\ SubSeq(E, 1, b) \in Seq(S) /\ Len(SubSeq(E, 1, b)) = b
        /\ \A i \in 1..b : SubSeq(E, 1, b)[i] = E[i]
    BY <2>0, <2>2
  <2> QED
    BY <2>3 DEF b
<1> HIDE DEF A, B
<1>4. /\ A \o T \in Seq(S) /\ Len(A \o T) = a + Len(T)
      /\ \A i \in 1..(a + Len(T)) :
            (A \o T)[i] = IF i <= a THEN A[i] ELSE T[i - a]
  BY <1>2, ConcatProperties
<1>5. \A i \in 1..(a + Len(T)) : (A \o T)[i] = B[i]
  <2> SUFFICES ASSUME NEW i \in 1..(a + Len(T))  PROVE (A \o T)[i] = B[i]
    OBVIOUS
  <2>0. i \in Nat /\ 1 <= i
    BY <1>0
  <2>1. CASE i <= a
    <3>1. i \in 1..a
      BY <2>0, <2>1
    <3>2. A[i] = E[i]
      BY <1>2, <3>1
    <3>3. (A \o T)[i] = A[i]
      BY <1>4, <2>1
    <3> QED
      BY <1>3, <3>2, <3>3
  <2>2. CASE i > a
    <3>1. i - a \in 1..Len(T) /\ a + (i - a) = i
      BY <1>0, <2>2
    <3>2. T[i - a] = E[i]
      BY <3>1
    <3> QED
      BY <1>0, <1>3, <1>4, <2>2, <3>2
  <2> QED
    <3>1. i <= a \/ i > a
      BY <2>0
    <3> QED
      BY <2>1, <2>2, <3>1, Zenon
<1>6. A \o T = B
  BY <1>0, <1>3, <1>4, <1>5, SeqEqual
<1> QED
  BY <1>6 DEF A, B

\* What stands where in three sequences one after the other.
LEMMA ThreeParts ==
    ASSUME NEW S, NEW A \in Seq(S), NEW B \in Seq(S), NEW C \in Seq(S)
    PROVE  /\ A \o B \o C \in Seq(S)
           /\ Len(A \o B \o C) = Len(A) + Len(B) + Len(C)
           /\ \A i \in 1..Len(A) : (A \o B \o C)[i] = A[i]
           /\ \A i \in 1..Len(B) : (A \o B \o C)[Len(A) + i] = B[i]
           /\ \A i \in 1..Len(C) : (A \o B \o C)[Len(A) + Len(B) + i] = C[i]
<1> DEFINE AB == A \o B
<1>0. Len(A) \in Nat /\ Len(B) \in Nat /\ Len(C) \in Nat
  BY LenProperties
<1>1. /\ AB \in Seq(S) /\ Len(AB) = Len(A) + Len(B)
      /\ \A i \in 1..(Len(A) + Len(B)) :
            AB[i] = IF i <= Len(A) THEN A[i] ELSE B[i - Len(A)]
  BY ConcatProperties
<1> HIDE DEF AB
<1>2. /\ AB \o C \in Seq(S) /\ Len(AB \o C) = Len(AB) + Len(C)
      /\ \A i \in 1..(Len(AB) + Len(C)) :
            (AB \o C)[i] = IF i <= Len(AB) THEN AB[i] ELSE C[i - Len(AB)]
  <2>1. AB \in Seq(S)
    BY <1>1
  <2> QED
    BY <2>1, ConcatProperties, Zenon
<1>3. \A i \in 1..Len(A) : (AB \o C)[i] = A[i]
  BY <1>0, <1>1, <1>2
<1>4. \A i \in 1..Len(B) : (AB \o C)[Len(A) + i] = B[i]
  <2> SUFFICES ASSUME NEW i \in 1..Len(B)
               PROVE  (AB \o C)[Len(A) + i] = B[i]
    OBVIOUS
  <2>1. /\ Len(A) + i \in 1..(Len(A) + Len(B)) /\ ~(Len(A) + i <= Len(A))
        /\ Len(A) + i - Len(A) = i
    BY <1>0
  <2>2. AB[Len(A) + i] = B[i]
    BY <1>1, <2>1
  <2>3. (AB \o C)[Len(A) + i] = AB[Len(A) + i]
    BY <1>0, <1>1, <1>2, <2>1
  <2> QED
    BY <2>2, <2>3
<1>5. \A i \in 1..Len(C) : (AB \o C)[Len(A) + Len(B) + i] = C[i]
  <2> SUFFICES ASSUME NEW i \in 1..Len(C)
               PROVE  (AB \o C)[Len(A) + Len(B) + i] = C[i]
    OBVIOUS
  <2>1. /\ Len(A) + Len(B) + i \in 1..(Len(AB) + Len(C))
        /\ ~(Len(A) + Len(B) + i <= Len(AB))
        /\ Len(A) + Len(B) + i - Len(AB) = i
    BY <1>0, <1>1
  <2> QED
    BY <1>2, <2>1
<1> QED
  BY <1>1, <1>2, <1>3, <1>4, <1>5 DEF AB

LEMMA FrameType ==
    ASSUME NEW W, NEW k \in FrameKinds, NEW ws \in Seq(W), NEW role \in BOOLEAN,
           NEW f \in {"", "stop"}, NEW u \in AnyUsage
    PROVE  Frame(k, ws, role, f, u) \in AnyFrame(W)
BY DEF Frame, AnyFrame

LEMMA MarkType ==
    ASSUME NEW W, NEW k \in FrameKinds
    PROVE  Mark(k) \in AnyFrame(W)
<1>1. NoUsage \in AnyUsage
  BY DEF NoUsage, AnyUsage
<1>2. <<>> \in Seq(W)
  BY EmptySeq
<1> QED
  BY <1>1, <1>2 DEF Mark, Frame, AnyFrame

LEMMA NoUsageType == NoUsage \in AnyUsage
BY DEF NoUsage, AnyUsage

\* The words of a reply, each in a frame of its own.
LEMMA DeltasType ==
    ASSUME NEW W, NEW words \in Seq(W), NEW k \in FrameKinds
    PROVE  LET d == [i \in 1..Len(words) |->
                        Frame(k, <<words[i]>>, FALSE, "", NoUsage)]
           IN  d \in Seq(AnyFrame(W)) /\ Len(d) = Len(words)
<1> DEFINE d == [i \in 1..Len(words) |->
                    Frame(k, <<words[i]>>, FALSE, "", NoUsage)]
<1>0. Len(words) \in Nat
  BY LenProperties
<1>1. \A i \in 1..Len(words) : d[i] \in AnyFrame(W)
  <2> SUFFICES ASSUME NEW i \in 1..Len(words)  PROVE d[i] \in AnyFrame(W)
    OBVIOUS
  <2>1. words[i] \in W
    BY ElementOfSeq
  <2>2. <<words[i]>> \in Seq(W)
    BY <2>1
  <2> QED
    BY <2>2, NoUsageType DEF Frame, AnyFrame
<1>2. d \in [1..Len(words) -> AnyFrame(W)]
  BY <1>1
<1>3. d \in Seq(AnyFrame(W)) /\ Len(d) = Len(words)
  <2> HIDE DEF d
  <2> QED
    BY <1>0, <1>2
<1> QED
  BY <1>3

\* Short sequences.
LEMMA Listed ==
    ASSUME NEW S, NEW a \in S, NEW b \in S, NEW c \in S
    PROVE  /\ <<a>> \in Seq(S) /\ Len(<<a>>) = 1
           /\ <<a, b>> \in Seq(S) /\ Len(<<a, b>>) = 2
           /\ <<a, b, c>> \in Seq(S) /\ Len(<<a, b, c>>) = 3
OBVIOUS

\* The last elements of a prefix.
LEMMA Prefixes ==
    ASSUME NEW S, NEW E \in Seq(S), NEW a \in Nat
    PROVE  /\ a <= Len(E) => SubSeq(E, 1, a) \o <<>> = SubSeq(E, 1, a)
           /\ a + 1 <= Len(E)
                => SubSeq(E, 1, a) \o <<E[a + 1]>> = SubSeq(E, 1, a + 1)
           /\ a + 2 <= Len(E)
                => SubSeq(E, 1, a) \o <<E[a + 1], E[a + 2]>> = SubSeq(E, 1, a + 2)
           /\ a + 3 <= Len(E)
                => SubSeq(E, 1, a) \o <<E[a + 1], E[a + 2], E[a + 3]>>
                   = SubSeq(E, 1, a + 3)
           /\ SubSeq(E, 1, 0) = <<>>
           /\ SubSeq(E, 1, Len(E)) = E
<1>0. Len(E) \in Nat /\ \A i \in 1..Len(E) : E[i] \in S
  BY LenProperties, ElementOfSeq
<1>1. ASSUME a <= Len(E)  PROVE SubSeq(E, 1, a) \o <<>> = SubSeq(E, 1, a)
  <2>1. SubSeq(E, 1, a) \in Seq(S)
    BY <1>0, <1>1, SubSeqProperties
  <2> QED
    BY <2>1, ConcatEmptySeq
<1>2. ASSUME a + 1 <= Len(E)
      PROVE  SubSeq(E, 1, a) \o <<E[a + 1]>> = SubSeq(E, 1, a + 1)
  <2> DEFINE T == <<E[a + 1]>>
  <2>1. E[a + 1] \in S
    BY <1>0, <1>2
  <2>2. T \in Seq(S) /\ Len(T) = 1 /\ \A i \in 1..1 : T[i] = E[a + i]
    BY <2>1
  <2> HIDE DEF T
  <2>3. SubSeq(E, 1, a) \o T = SubSeq(E, 1, a + 1)
    BY <1>2, <2>2, Extend
  <2> QED
    BY <2>3 DEF T
<1>3. ASSUME a + 2 <= Len(E)
      PROVE  SubSeq(E, 1, a) \o <<E[a + 1], E[a + 2]>> = SubSeq(E, 1, a + 2)
  <2> DEFINE T == <<E[a + 1], E[a + 2]>>
  <2>1. E[a + 1] \in S /\ E[a + 2] \in S
    BY <1>0, <1>3
  <2>2. T \in Seq(S) /\ Len(T) = 2 /\ \A i \in 1..2 : T[i] = E[a + i]
    BY <2>1
  <2> HIDE DEF T
  <2>3. SubSeq(E, 1, a) \o T = SubSeq(E, 1, a + 2)
    BY <1>3, <2>2, Extend
  <2> QED
    BY <2>3 DEF T
<1>4. ASSUME a + 3 <= Len(E)
      PROVE  SubSeq(E, 1, a) \o <<E[a + 1], E[a + 2], E[a + 3]>>
             = SubSeq(E, 1, a + 3)
  <2> DEFINE T == <<E[a + 1], E[a + 2], E[a + 3]>>
  <2>1. E[a + 1] \in S /\ E[a + 2] \in S /\ E[a + 3] \in S
    BY <1>0, <1>4
  <2>2. T \in Seq(S) /\ Len(T) = 3 /\ \A i \in 1..3 : T[i] = E[a + i]
    BY <2>1
  <2> HIDE DEF T
  <2>3. SubSeq(E, 1, a) \o T = SubSeq(E, 1, a + 3)
    BY <1>4, <2>2, Extend
  <2> QED
    BY <2>3 DEF T
<1>5. SubSeq(E, 1, 0) = <<>>
  BY SubSeqEmpty
<1>6. SubSeq(E, 1, Len(E)) = E
  BY SubSeqFull
<1> QED
  BY <1>1, <1>2, <1>3, <1>4, <1>5, <1>6, Zenon

\* Frames written one after the other.
LEMMA Tuples ==
    ASSUME NEW a, NEW b, NEW c
    PROVE  /\ <<>> \o <<>> = <<>>
           /\ <<>> \o <<a>> = <<a>>
           /\ <<a>> \o <<>> = <<a>>
           /\ <<a>> \o <<b>> = <<a, b>>
           /\ <<>> \o <<a, b>> = <<a, b>>
           /\ <<a, b>> \o <<>> = <<a, b>>
           /\ <<a, b>> \o <<c>> = <<a, b, c>>
           /\ <<a, b, c>> \o <<>> = <<a, b, c>>
<1> DEFINE S == {a, b, c}
<1>1. /\ <<>> \in Seq(S) /\ <<a>> \in Seq(S) /\ <<a, b>> \in Seq(S)
      /\ <<a, b, c>> \in Seq(S)
  OBVIOUS
<1>2. <<a>> \o <<b>> = <<a, b>>
  <2>1. /\ <<a>> \o <<b>> \in Seq(S) /\ Len(<<a>> \o <<b>>) = 2
        /\ (<<a>> \o <<b>>)[1] = a /\ (<<a>> \o <<b>>)[2] = b
    BY ConcatProperties
  <2> DEFINE L == <<a>> \o <<b>>
             R == <<a, b>>
  <2>2. R \in Seq(S) /\ Len(R) = 2 /\ R[1] = a /\ R[2] = b
    OBVIOUS
  <2>3. L \in Seq(S) /\ Len(L) = 2 /\ L[1] = a /\ L[2] = b
    BY <2>1
  <2> HIDE DEF L, R
  <2>4. L = R
    BY <2>2, <2>3, SeqEqual
  <2> QED
    BY <2>4 DEF L, R
<1>3. <<a, b>> \o <<c>> = <<a, b, c>>
  <2>1. /\ <<a, b>> \o <<c>> \in Seq(S) /\ Len(<<a, b>> \o <<c>>) = 3
        /\ (<<a, b>> \o <<c>>)[1] = a /\ (<<a, b>> \o <<c>>)[2] = b
        /\ (<<a, b>> \o <<c>>)[3] = c
    BY ConcatProperties
  <2> DEFINE L == <<a, b>> \o <<c>>
             R == <<a, b, c>>
  <2>2. R \in Seq(S) /\ Len(R) = 3 /\ R[1] = a /\ R[2] = b /\ R[3] = c
    OBVIOUS
  <2>3. L \in Seq(S) /\ Len(L) = 3 /\ L[1] = a /\ L[2] = b /\ L[3] = c
    BY <2>1
  <2> HIDE DEF L, R
  <2>4. L = R
    BY <2>2, <2>3, SeqEqual
  <2> QED
    BY <2>4 DEF L, R
<1> HIDE DEF S
<1> QED
  BY <1>1, <1>2, <1>3, ConcatEmptySeq, Zenon

-----------------------------------------------------------------------------
(* The surfaces. *)

\* A stream the handlers make of a reply of the surface: the opening is a
\* prefix of the expected stream, every chunk extends the prefix, and the
\* closing completes it.
WellMade(surface, words, usage) ==
    LET n == Len(words)
        whole == ExpectedWire(surface, words, usage)
        upTo(k, final) == SubSeq(whole, 1, WrittenUpTo(surface, k, final))
        locals(k, final) == LocalsAfter(surface, words, k, final, usage)
    IN  /\ upTo(0, FALSE) = Opening(surface)
        /\ \A k \in 0..(n - 1) :
              upTo(k, FALSE)
                \o Translate(surface, locals(k, FALSE), WordChunk(words[k + 1], k = 0))
                = upTo(k + 1, FALSE)
        /\ upTo(n, FALSE) \o Translate(surface, locals(n, FALSE), FinalChunk(usage))
             = upTo(n, TRUE)
        /\ upTo(n, TRUE) \o Closing(surface, locals(n, TRUE)) = whole

LEMMA OpenAIWire ==
    ASSUME NEW W, NEW words \in Seq(W), words # <<>>, NEW usage \in AnyUsage
    PROVE  WellMade("openai", words, usage)
<1> DEFINE n == Len(words)
           word(i) == Frame("data", <<words[i]>>, i = 1, "", NoUsage)
           final == Frame("data", <<>>, FALSE, "stop", usage)
           B == [i \in 1..n |-> word(i)]
           C == <<final, Mark("[DONE]")>>
           E == ExpectedWire("openai", words, usage)
<1>0. n \in Nat /\ n >= 1
  BY EmptySeq, LenProperties
<1>1. \A i \in 1..n : word(i) \in AnyFrame(W)
  <2> SUFFICES ASSUME NEW i \in 1..n  PROVE word(i) \in AnyFrame(W)
    OBVIOUS
  <2>1. <<words[i]>> \in Seq(W)
    BY ElementOfSeq
  <2>2. (i = 1) \in BOOLEAN
    OBVIOUS
  <2> QED
    BY <2>1, <2>2, NoUsageType DEF Frame, AnyFrame, FrameKinds
<1>2. final \in AnyFrame(W)
  BY EmptySeq DEF Frame, AnyFrame, FrameKinds
<1>3. Mark("[DONE]") \in AnyFrame(W)
  BY MarkType DEF FrameKinds
<1>4. E = B \o C
  BY DEF ExpectedWire
<1>a. \A k \in 0..(n - 1) :
        OpenAIFrames(WordChunk(words[k + 1], k = 0)) = <<word(k + 1)>>
  <2> SUFFICES ASSUME NEW k \in 0..(n - 1)
               PROVE  OpenAIFrames(WordChunk(words[k + 1], k = 0)) = <<word(k + 1)>>
    OBVIOUS
  <2>1. (k + 1 = 1) = (k = 0)
    BY <1>0
  <2> QED
    BY <2>1 DEF OpenAIFrames, WordChunk
<1>b. OpenAIFrames(FinalChunk(usage)) = <<final>>
  BY DEF OpenAIFrames, FinalChunk
<1> HIDE DEF n, word, final, E
<1>5. B \in Seq(AnyFrame(W)) /\ Len(B) = n /\ \A i \in 1..n : B[i] = word(i)
  <2>1. B \in [1..n -> AnyFrame(W)]
    BY <1>1
  <2>2. \A i \in 1..n : B[i] = word(i)
    OBVIOUS
  <2> HIDE DEF B
  <2> QED
    BY <1>0, <2>1, <2>2
<1>6. C \in Seq(AnyFrame(W)) /\ Len(C) = 2
      /\ C[1] = final /\ C[2] = Mark("[DONE]")
  BY <1>2, <1>3
<1> HIDE DEF B, C
<1>7. /\ E \in Seq(AnyFrame(W)) /\ Len(E) = n + 2
      /\ \A i \in 1..n : E[i] = word(i)
      /\ E[n + 1] = final /\ E[n + 2] = Mark("[DONE]")
  <2>1. /\ B \o C \in Seq(AnyFrame(W)) /\ Len(B \o C) = Len(B) + Len(C)
        /\ \A i \in 1..(Len(B) + Len(C)) :
              (B \o C)[i] = IF i <= Len(B) THEN B[i] ELSE C[i - Len(B)]
    BY <1>5, <1>6, ConcatProperties
  <2> QED
    BY <1>0, <1>4, <1>5, <1>6, <2>1
<1>8. SubSeq(E, 1, 0) = <<>>
  BY <1>7, Prefixes
<1>9. ASSUME NEW k \in 0..(n - 1)
      PROVE  SubSeq(E, 1, k) \o <<word(k + 1)>> = SubSeq(E, 1, k + 1)
  <2>1. k \in Nat /\ k + 1 \in 1..n /\ k + 1 <= Len(E)
    BY <1>0, <1>7
  <2>2. E[k + 1] = word(k + 1)
    BY <1>7, <2>1
  <2>3. SubSeq(E, 1, k) \o <<E[k + 1]>> = SubSeq(E, 1, k + 1)
    BY <1>7, <2>1, Prefixes
  <2> QED
    BY <2>2, <2>3
<1>10. SubSeq(E, 1, n) \o <<final>> = SubSeq(E, 1, n + 1)
  <2>1. SubSeq(E, 1, n) \o <<E[n + 1]>> = SubSeq(E, 1, n + 1)
    BY <1>0, <1>7, Prefixes
  <2> QED
    BY <1>7, <2>1
<1>11. SubSeq(E, 1, n + 1) \o <<Mark("[DONE]")>> = E
  <2>1. n + 1 \in Nat /\ (n + 1) + 1 = n + 2
    BY <1>0
  <2>2. SubSeq(E, 1, n + 1) \o <<E[n + 2]>> = SubSeq(E, 1, n + 2)
    BY <1>7, <2>1, Prefixes
  <2> QED
    BY <1>7, <2>2, Prefixes
<1> QED
  <2>1. /\ \A k \in Nat : WrittenUpTo("openai", k, FALSE) = k
        /\ WrittenUpTo("openai", n, TRUE) = n + 1
    BY <1>0 DEF WrittenUpTo
  <2>2. \A l, c : Translate("openai", l, c) = OpenAIFrames(c)
    BY DEF Translate
  <2>3. Opening("openai") = <<>> /\ \A l : Closing("openai", l) = <<Mark("[DONE]")>>
    BY DEF Opening, Closing
  <2>4. ASSUME NEW k \in 0..(n - 1)
        PROVE  SubSeq(E, 1, WrittenUpTo("openai", k, FALSE))
                 \o Translate("openai", LocalsAfter("openai", words, k, FALSE, usage),
                              WordChunk(words[k + 1], k = 0))
               = SubSeq(E, 1, WrittenUpTo("openai", k + 1, FALSE))
    <3>1. k \in Nat /\ k + 1 \in Nat
      BY <1>0
    <3>2. SubSeq(E, 1, k) \o <<word(k + 1)>> = SubSeq(E, 1, k + 1)
      BY <1>9
    <3>3. Translate("openai", LocalsAfter("openai", words, k, FALSE, usage),
                    WordChunk(words[k + 1], k = 0)) = <<word(k + 1)>>
      <4>1. OpenAIFrames(WordChunk(words[k + 1], k = 0)) = <<word(k + 1)>>
        BY <1>a
      <4> QED
        BY <4>1 DEF Translate
    <3>4. /\ WrittenUpTo("openai", k, FALSE) = k
          /\ WrittenUpTo("openai", k + 1, FALSE) = k + 1
      BY <2>1, <3>1
    <3> QED
      BY <3>2, <3>3, <3>4, Zenon
  <2>5. SubSeq(E, 1, WrittenUpTo("openai", n, FALSE))
          \o Translate("openai", LocalsAfter("openai", words, n, FALSE, usage),
                       FinalChunk(usage))
        = SubSeq(E, 1, WrittenUpTo("openai", n, TRUE))
    BY <1>0, <1>10, <1>b, <2>1, <2>2
  <2>6. SubSeq(E, 1, WrittenUpTo("openai", 0, FALSE)) = Opening("openai")
    BY <1>8, <2>1, <2>3
  <2>7. SubSeq(E, 1, WrittenUpTo("openai", n, TRUE))
          \o Closing("openai", LocalsAfter("openai", words, n, TRUE, usage)) = E
    BY <1>11, <2>1, <2>3
  <2> QED
    BY <2>4, <2>5, <2>6, <2>7 DEF WellMade, E, n

\* E is a head A, a body B written element by element, and a tail C.
Assembly(A, B, C, E) ==
    /\ Len(E) = Len(A) + Len(B) + Len(C)
    /\ SubSeq(E, 1, Len(A)) = A
    /\ \A k \in 0..(Len(B) - 1) :
          SubSeq(E, 1, Len(A) + k) \o <<B[k + 1]>> = SubSeq(E, 1, Len(A) + k + 1)
    /\ SubSeq(E, 1, Len(A) + Len(B)) \o C = E

LEMMA Assembled ==
    ASSUME NEW S, NEW A \in Seq(S), NEW B \in Seq(S), NEW C \in Seq(S),
           NEW E, E = A \o B \o C
    PROVE  E \in Seq(S) /\ Assembly(A, B, C, E)
<1> DEFINE a == Len(A)
           n == Len(B)
<1>0. a \in Nat /\ n \in Nat /\ Len(C) \in Nat
  BY LenProperties
<1>1. /\ E \in Seq(S) /\ Len(E) = a + n + Len(C)
      /\ \A i \in 1..a : E[i] = A[i]
      /\ \A i \in 1..n : E[a + i] = B[i]
      /\ \A i \in 1..Len(C) : E[a + n + i] = C[i]
  BY ThreeParts
<1>2. a + n \in Nat /\ a + n + Len(C) <= Len(E)
  BY <1>0, <1>1
<1>3. SubSeq(E, 1, a) = A
  <2>1. /\ 0 \in Nat /\ 0 + Len(A) <= Len(E)
        /\ \A i \in 1..Len(A) : A[i] = E[0 + i]
    BY <1>0, <1>1
  <2>2. SubSeq(E, 1, 0) \o A = SubSeq(E, 1, 0 + Len(A))
    BY <1>1, <2>1, Extend
  <2>3. SubSeq(E, 1, 0) = <<>> /\ <<>> \o A = A
    BY <1>1, <2>1, Prefixes, ConcatEmptySeq
  <2> QED
    BY <1>0, <2>2, <2>3
<1> HIDE DEF a, n
<1>4. ASSUME NEW k \in 0..(n - 1)
      PROVE  SubSeq(E, 1, a + k) \o <<B[k + 1]>> = SubSeq(E, 1, a + k + 1)
  <2>1. /\ k + 1 \in 1..n /\ a + k \in Nat /\ a + (k + 1) = a + k + 1
        /\ (a + k) + 1 <= Len(E)
    BY <1>0, <1>1
  <2>2. E[a + k + 1] = B[k + 1]
    BY <1>1, <2>1
  <2>3. SubSeq(E, 1, a + k) \o <<E[(a + k) + 1]>> = SubSeq(E, 1, (a + k) + 1)
    BY <1>1, <2>1, Prefixes
  <2> QED
    BY <2>2, <2>3
<1>5. SubSeq(E, 1, a + n) \o C = E
  <2>1. SubSeq(E, 1, a + n) \o C = SubSeq(E, 1, a + n + Len(C))
    BY <1>1, <1>2, Extend
  <2>2. SubSeq(E, 1, Len(E)) = E
    BY <1>1, SubSeqFull
  <2> QED
    BY <1>1, <2>1, <2>2
<1> QED
  BY <1>1, <1>3, <1>4, <1>5 DEF Assembly, a, n

LEMMA BedrockWire ==
    ASSUME NEW W, NEW words \in Seq(W), words # <<>>, NEW usage \in AnyUsage,
           NEW surface \in BedrockStreams
    PROVE  WellMade(surface, words, usage)
<1> DEFINE n == Len(words)
           kind == IF surface = "converse" THEN "contentBlockDelta"
                                           ELSE "content_block_delta"
           word(i) == Frame(kind, <<words[i]>>, FALSE, "", NoUsage)
           A == Opening(surface)
           B == [i \in 1..n |-> word(i)]
           C == Closing(surface, LocalsAfter(surface, words, n, TRUE, usage))
           E == ExpectedWire(surface, words, usage)
<1>0. n \in Nat /\ n >= 1
  BY EmptySeq, LenProperties
<1>1. surface = "converse" \/ surface = "invoke"
  BY DEF BedrockStreams
<1>2. kind \in FrameKinds
  BY DEF FrameKinds
<1>3. B \in Seq(AnyFrame(W)) /\ Len(B) = n /\ \A i \in 1..n : B[i] = word(i)
  <2>1. /\ B \in Seq(AnyFrame(W)) /\ Len(B) = Len(words)
    BY <1>2, DeltasType
  <2> QED
    BY <2>1
<1>4. A \in Seq(AnyFrame(W)) /\ Len(A) = IF surface = "converse" THEN 1 ELSE 2
  <2>1. \A k \in FrameKinds : Mark(k) \in AnyFrame(W)
    BY MarkType
  <2>2. /\ Mark("messageStart") \in AnyFrame(W)
        /\ Mark("message_start") \in AnyFrame(W)
        /\ Mark("content_block_start") \in AnyFrame(W)
    BY <2>1 DEF FrameKinds
  <2> QED
    BY <1>1, <2>2 DEF Opening
<1>5. C = IF surface = "converse"
          THEN <<Mark("contentBlockStop"),
                 Frame("messageStop", <<>>, FALSE, "stop", NoUsage),
                 Frame("metadata", <<>>, FALSE, "", usage)>>
          ELSE <<Mark("content_block_stop"),
                 Frame("message_delta", <<>>, FALSE, "stop", usage),
                 Mark("message_stop")>>
  BY <1>1 DEF Closing, LocalsAfter, BedrockStreams
<1>6. C \in Seq(AnyFrame(W)) /\ Len(C) = 3
  <2>1. \A k \in FrameKinds : Mark(k) \in AnyFrame(W)
    BY MarkType
  <2>2. /\ Mark("contentBlockStop") \in AnyFrame(W)
        /\ Mark("content_block_stop") \in AnyFrame(W)
        /\ Mark("message_stop") \in AnyFrame(W)
    BY <2>1 DEF FrameKinds
  <2>3. /\ Frame("messageStop", <<>>, FALSE, "stop", NoUsage) \in AnyFrame(W)
        /\ Frame("metadata", <<>>, FALSE, "", usage) \in AnyFrame(W)
        /\ Frame("message_delta", <<>>, FALSE, "stop", usage) \in AnyFrame(W)
    BY EmptySeq, NoUsageType DEF Frame, AnyFrame, FrameKinds
  <2>4. CASE surface = "converse"
    <3>1. C = <<Mark("contentBlockStop"),
                Frame("messageStop", <<>>, FALSE, "stop", NoUsage),
                Frame("metadata", <<>>, FALSE, "", usage)>>
      BY <1>5, <2>4
    <3> HIDE DEF C
    <3> QED
      BY <2>2, <2>3, <3>1, Listed
  <2>5. CASE surface = "invoke"
    <3>1. C = <<Mark("content_block_stop"),
                Frame("message_delta", <<>>, FALSE, "stop", usage),
                Mark("message_stop")>>
      BY <1>5, <2>5
    <3> HIDE DEF C
    <3> QED
      BY <2>2, <2>3, <3>1, Listed
  <2> QED
    BY <1>1, <2>4, <2>5
<1>7. E = A \o B \o C
  BY <1>1, <1>5 DEF ExpectedWire, Opening
<1>8. \A l : \A k \in 0..(n - 1) :
        Translate(surface, l, WordChunk(words[k + 1], k = 0)) = <<word(k + 1)>>
  BY <1>1 DEF Translate, BedrockFrames, WordChunk
<1>9. \A l : Translate(surface, l, FinalChunk(usage)) = <<>>
  BY <1>1 DEF Translate, BedrockFrames, FinalChunk
<1> DEFINE at(k) == WrittenUpTo(surface, k, FALSE)
           atEnd == WrittenUpTo(surface, n, TRUE)
<1>10. (\A k \in Nat : at(k) = Len(A) + k) /\ atEnd = Len(A) + n
  BY <1>1, <1>4 DEF WrittenUpTo
<1> HIDE DEF n, kind, word, A, B, C, E, at, atEnd
<1>11. /\ E \in Seq(AnyFrame(W)) /\ Len(E) = Len(A) + n + 3
       /\ SubSeq(E, 1, Len(A)) = A
       /\ \A k \in 0..(n - 1) :
             SubSeq(E, 1, Len(A) + k) \o <<B[k + 1]>>
             = SubSeq(E, 1, Len(A) + k + 1)
       /\ SubSeq(E, 1, Len(A) + n) \o C = E
  <2> DEFINE S == AnyFrame(W)
  <2>1. A \in Seq(S) /\ B \in Seq(S) /\ C \in Seq(S)
    BY <1>3, <1>4, <1>6
  <2> HIDE DEF S
  <2>2. E \in Seq(S) /\ Assembly(A, B, C, E)
    BY <1>7, <2>1, Assembled
  <2>3. Len(B) = n /\ Len(C) = 3
    BY <1>3, <1>6
  <2> QED
    BY <2>2, <2>3, Zenon DEF Assembly, S
<1> QED
  <2>0. Len(A) \in Nat
    BY <1>4, LenProperties
  <2>1. SubSeq(E, 1, at(0)) = A
    <3>1. at(0) = Len(A)
      <4>1. 0 \in Nat /\ Len(A) + 0 = Len(A)
        BY <2>0
      <4>2. at(0) = Len(A) + 0
        BY <1>10, <4>1, Zenon
      <4> QED
        BY <4>1, <4>2, Zenon
    <3> QED
      BY <1>11, <3>1
  <2>2. ASSUME NEW k \in 0..(n - 1)
        PROVE  SubSeq(E, 1, at(k))
                 \o Translate(surface, LocalsAfter(surface, words, k, FALSE, usage),
                              WordChunk(words[k + 1], k = 0))
               = SubSeq(E, 1, at(k + 1))
    <3>1. k \in Nat /\ k + 1 \in Nat /\ k + 1 \in 1..n
      BY <1>0
    <3>2. SubSeq(E, 1, Len(A) + k) \o <<word(k + 1)>> = SubSeq(E, 1, Len(A) + k + 1)
      BY <1>3, <1>11, <3>1
    <3>3. Translate(surface, LocalsAfter(surface, words, k, FALSE, usage),
                    WordChunk(words[k + 1], k = 0)) = <<word(k + 1)>>
      BY <1>8
    <3>4. at(k) = Len(A) + k /\ at(k + 1) = Len(A) + k + 1
      BY <1>10, <2>0, <3>1
    <3> QED
      BY <3>2, <3>3, <3>4, Zenon
  <2>3. SubSeq(E, 1, at(n))
          \o Translate(surface, LocalsAfter(surface, words, n, FALSE, usage),
                       FinalChunk(usage))
        = SubSeq(E, 1, atEnd)
    <3>1. Len(A) + n \in Nat /\ Len(A) + n <= Len(E)
      BY <1>0, <1>11, <2>0
    <3>2. SubSeq(E, 1, Len(A) + n) \o <<>> = SubSeq(E, 1, Len(A) + n)
      BY <1>11, <3>1, Prefixes
    <3>3. at(n) = Len(A) + n /\ atEnd = Len(A) + n
      BY <1>0, <1>10
    <3> QED
      BY <1>9, <3>2, <3>3, Zenon
  <2>4. SubSeq(E, 1, atEnd) \o C = E
    BY <1>0, <1>10, <1>11
  <2> QED
    BY <2>1, <2>2, <2>3, <2>4 DEF WellMade, A, C, E, n, at, atEnd

\* What the Responses handler writes for the first word, for another word, and
\* for the final chunk.
LEMMA ResponsesChunks ==
    ASSUME NEW l, NEW c
    PROVE  /\ l.first /\ c.words # <<>> /\ c.finish = ""
                => ResponsesFrames(l, c)
                   = <<Mark("response.created"), Mark("response.output_item.added"),
                       Frame("response.output_text.delta", c.words, FALSE, "", NoUsage)>>
           /\ ~l.first /\ c.words # <<>> /\ c.finish = ""
                => ResponsesFrames(l, c)
                   = <<Frame("response.output_text.delta", c.words, FALSE, "", NoUsage)>>
           /\ ~l.first /\ c.words = <<>> /\ c.finish = "stop"
                => ResponsesFrames(l, c)
                   = <<Frame("response.output_item.done", l.fullText \o c.words,
                             FALSE, "", NoUsage),
                       Frame("response.completed", l.fullText \o c.words, FALSE,
                             "stop", c.usage)>>
<1>1. ASSUME l.first, c.words # <<>>, c.finish = ""
      PROVE  ResponsesFrames(l, c)
             = <<Mark("response.created"), Mark("response.output_item.added"),
                 Frame("response.output_text.delta", c.words, FALSE, "", NoUsage)>>
  <2>1. ResponsesFrames(l, c)
        = <<Mark("response.created"), Mark("response.output_item.added")>>
          \o <<Frame("response.output_text.delta", c.words, FALSE, "", NoUsage)>>
          \o <<>>
    BY <1>1 DEF ResponsesFrames
  <2> QED
    BY <2>1, Tuples, Zenon
<1>2. ASSUME ~l.first, c.words # <<>>, c.finish = ""
      PROVE  ResponsesFrames(l, c)
             = <<Frame("response.output_text.delta", c.words, FALSE, "", NoUsage)>>
  <2>1. ResponsesFrames(l, c)
        = <<>>
          \o <<Frame("response.output_text.delta", c.words, FALSE, "", NoUsage)>>
          \o <<>>
    BY <1>2 DEF ResponsesFrames
  <2> QED
    BY <2>1, Tuples, Zenon
<1>3. ASSUME ~l.first, c.words = <<>>, c.finish = "stop"
      PROVE  ResponsesFrames(l, c)
             = <<Frame("response.output_item.done", l.fullText \o c.words,
                       FALSE, "", NoUsage),
                 Frame("response.completed", l.fullText \o c.words, FALSE,
                       "stop", c.usage)>>
  <2>1. ResponsesFrames(l, c)
        = <<>> \o <<>>
          \o <<Frame("response.output_item.done", l.fullText \o c.words,
                     FALSE, "", NoUsage),
               Frame("response.completed", l.fullText \o c.words, FALSE,
                     "stop", c.usage)>>
    BY <1>3 DEF ResponsesFrames
  <2> QED
    BY <2>1, Tuples, Zenon
<1> QED
  BY <1>1, <1>2, <1>3

\* What Vertex writes for the first word and for every other chunk.
LEMMA VertexChunks ==
    ASSUME NEW l, NEW c
    PROVE  /\ l.first => VertexFrames(l, c)
                = <<Frame("element", c.words, FALSE, "stop", c.usage)>>
           /\ ~l.first => VertexFrames(l, c)
                = <<Mark(","), Frame("element", c.words, FALSE, "stop", c.usage)>>
<1>1. ASSUME l.first
      PROVE  VertexFrames(l, c) = <<Frame("element", c.words, FALSE, "stop", c.usage)>>
  <2>1. VertexFrames(l, c)
        = <<>> \o <<Frame("element", c.words, FALSE, "stop", c.usage)>>
    BY <1>1 DEF VertexFrames
  <2> QED
    BY <2>1, Tuples, Zenon
<1>2. ASSUME ~l.first
      PROVE  VertexFrames(l, c)
             = <<Mark(","), Frame("element", c.words, FALSE, "stop", c.usage)>>
  <2>1. VertexFrames(l, c)
        = <<Mark(",")>> \o <<Frame("element", c.words, FALSE, "stop", c.usage)>>
    BY <1>2 DEF VertexFrames
  <2> QED
    BY <2>1, Tuples, Zenon
<1> QED
  BY <1>1, <1>2

LEMMA ResponsesWire ==
    ASSUME NEW W, NEW words \in Seq(W), words # <<>>, NEW usage \in AnyUsage
    PROVE  WellMade("responses", words, usage)
<1> DEFINE n == Len(words)
           word(i) == Frame("response.output_text.delta", <<words[i]>>, FALSE,
                            "", NoUsage)
           done == Frame("response.output_item.done", words, FALSE, "", NoUsage)
           completed == Frame("response.completed", words, FALSE, "stop", usage)
           A == <<Mark("response.created"), Mark("response.output_item.added")>>
           B == [i \in 1..n |-> word(i)]
           C == <<done, completed>>
           E == ExpectedWire("responses", words, usage)
           before(k) == LocalsAfter("responses", words, k, FALSE, usage)
           after == LocalsAfter("responses", words, n, TRUE, usage)
           chunkOf(k) == WordChunk(words[k + 1], k = 0)
           at(k) == WrittenUpTo("responses", k, FALSE)
           atEnd == WrittenUpTo("responses", n, TRUE)
<1>0. n \in Nat /\ n >= 1
  BY EmptySeq, LenProperties
<1>1. B \in Seq(AnyFrame(W)) /\ Len(B) = n /\ \A i \in 1..n : B[i] = word(i)
  <2>1. "response.output_text.delta" \in FrameKinds
    BY DEF FrameKinds
  <2>2. B \in Seq(AnyFrame(W)) /\ Len(B) = Len(words)
    BY <2>1, DeltasType
  <2> QED
    BY <2>2
<1>2. A \in Seq(AnyFrame(W)) /\ Len(A) = 2
  <2>1. \A k \in FrameKinds : Mark(k) \in AnyFrame(W)
    BY MarkType
  <2>2. /\ Mark("response.created") \in AnyFrame(W)
        /\ Mark("response.output_item.added") \in AnyFrame(W)
    BY <2>1 DEF FrameKinds
  <2> QED
    BY <2>2, Listed
<1>3. C \in Seq(AnyFrame(W)) /\ Len(C) = 2
  <2>1. done \in AnyFrame(W) /\ completed \in AnyFrame(W)
    BY NoUsageType DEF Frame, AnyFrame, FrameKinds
  <2> QED
    BY <2>1, Listed
<1>4. E = A \o B \o C
  BY DEF ExpectedWire
<1>5. \A k \in 1..(n - 1) : Translate("responses", before(k), chunkOf(k)) = <<word(k + 1)>>
  <2> SUFFICES ASSUME NEW k \in 1..(n - 1)
               PROVE  Translate("responses", before(k), chunkOf(k)) = <<word(k + 1)>>
    OBVIOUS
  <2>0. k # 0
    BY <1>0
  <2>1. ~before(k).first
    BY <2>0 DEF LocalsAfter
  <2>2. /\ chunkOf(k).words = <<words[k + 1]>> /\ chunkOf(k).words # <<>>
        /\ chunkOf(k).finish = ""
    BY DEF WordChunk
  <2>3. Translate("responses", before(k), chunkOf(k))
        = ResponsesFrames(before(k), chunkOf(k))
    BY DEF Translate
  <2> HIDE DEF before, chunkOf
  <2> QED
    BY <2>1, <2>2, <2>3, ResponsesChunks
<1>6. Translate("responses", before(0), chunkOf(0)) = A \o <<word(1)>>
  <2>1. before(0).first
    BY DEF LocalsAfter
  <2>2. /\ chunkOf(0).words = <<words[1]>> /\ chunkOf(0).words # <<>>
        /\ chunkOf(0).finish = ""
    BY DEF WordChunk
  <2>3. Translate("responses", before(0), chunkOf(0))
        = ResponsesFrames(before(0), chunkOf(0))
    BY DEF Translate
  <2> HIDE DEF before, chunkOf
  <2>4. Translate("responses", before(0), chunkOf(0))
        = <<Mark("response.created"), Mark("response.output_item.added"), word(1)>>
    BY <2>1, <2>2, <2>3, ResponsesChunks
  <2> QED
    BY <2>4, Tuples, Zenon
<1>7. Translate("responses", before(n), FinalChunk(usage)) = C
  <2>1. SubSeq(words, 1, n) \o <<>> = words
    BY SubSeqFull, ConcatEmptySeq
  <2>2. before(n).fullText = SubSeq(words, 1, n)
    BY DEF LocalsAfter
  <2>0. n # 0
    BY <1>0
  <2>3. ~before(n).first
    BY <2>0 DEF LocalsAfter
  <2>4. /\ FinalChunk(usage).words = <<>>
        /\ FinalChunk(usage).finish = "stop"
        /\ FinalChunk(usage).usage = usage
    BY DEF FinalChunk
  <2>5. Translate("responses", before(n), FinalChunk(usage))
        = ResponsesFrames(before(n), FinalChunk(usage))
    BY DEF Translate
  <2> HIDE DEF before
  <2>6. Translate("responses", before(n), FinalChunk(usage))
        = <<Frame("response.output_item.done",
                  before(n).fullText \o FinalChunk(usage).words, FALSE, "", NoUsage),
            Frame("response.completed",
                  before(n).fullText \o FinalChunk(usage).words, FALSE, "stop",
                  FinalChunk(usage).usage)>>
    BY <2>3, <2>4, <2>5, ResponsesChunks
  <2> QED
    BY <2>1, <2>2, <2>4, <2>6
<1>8. Opening("responses") = <<>> /\ Closing("responses", after) = <<>>
  BY DEF Opening, Closing
<1>9. (\A k \in Nat : at(k) = IF k = 0 THEN 0 ELSE k + 2) /\ atEnd = n + 4
  BY <1>0 DEF WrittenUpTo
<1> HIDE DEF n, word, done, completed, A, B, C, E, before, after, chunkOf, at, atEnd
<1>10. E \in Seq(AnyFrame(W)) /\ Assembly(A, B, C, E)
  BY <1>1, <1>2, <1>3, <1>4, Assembled
<1>11. /\ Len(E) = n + 4
       /\ SubSeq(E, 1, 2) = A
       /\ \A k \in 0..(n - 1) :
             SubSeq(E, 1, 2 + k) \o <<B[k + 1]>> = SubSeq(E, 1, 2 + k + 1)
       /\ SubSeq(E, 1, 2 + n) \o C = E
  <2>1. Len(E) = 2 + n + 2 /\ 2 + n + 2 = n + 4
    BY <1>0, <1>1, <1>2, <1>3, <1>10 DEF Assembly
  <2> QED
    BY <1>1, <1>2, <1>10, <2>1, Zenon DEF Assembly
<1>12. at(0) = 0 /\ at(n) = 2 + n
  BY <1>0, <1>9
<1>13. SubSeq(E, 1, at(0)) = <<>>
  BY <1>10, <1>12, Prefixes
<1>14. ASSUME NEW k \in 0..(n - 1)
       PROVE  SubSeq(E, 1, at(k)) \o Translate("responses", before(k), chunkOf(k))
              = SubSeq(E, 1, at(k + 1))
  <2>1. /\ k \in Nat /\ k + 1 \in Nat /\ k + 1 \in 1..n /\ k + 1 # 0
        /\ k + 1 + 2 = 2 + k + 1
    BY <1>0
  <2>2. at(k + 1) = 2 + k + 1
    BY <1>9, <2>1
  <2>3. SubSeq(E, 1, 2 + k) \o <<word(k + 1)>> = SubSeq(E, 1, 2 + k + 1)
    BY <1>1, <1>11, <2>1
  <2>4. CASE k = 0
    <3>1. A \o <<word(1)>> = SubSeq(E, 1, 3)
      <4>1. 2 + k = 2 /\ k + 1 = 1 /\ 2 + k + 1 = 3
        BY <2>4
      <4> QED
        BY <1>11, <2>3, <4>1, Zenon
    <3>2. word(1) \in AnyFrame(W)
      BY <1>0, <1>1, ElementOfSeq
    <3>3. A \o <<word(1)>> \in Seq(AnyFrame(W))
      BY <1>2, <3>2, Listed, ConcatProperties
    <3>4. <<>> \o (A \o <<word(1)>>) = A \o <<word(1)>>
      BY <3>3, ConcatEmptySeq
    <3>5. at(k + 1) = 3 /\ at(k) = at(0)
      BY <2>2, <2>4
    <3>6. Translate("responses", before(k), chunkOf(k)) = A \o <<word(1)>>
      BY <1>6, <2>4
    <3> QED
      BY <1>13, <3>1, <3>4, <3>5, <3>6, Zenon
  <2>5. CASE k # 0
    <3>1. k \in 1..(n - 1) /\ at(k) = 2 + k
      BY <1>0, <1>9, <2>1, <2>5
    <3> QED
      BY <1>5, <2>2, <2>3, <3>1, Zenon
  <2> QED
    BY <2>4, <2>5
<1>15. SubSeq(E, 1, at(n)) \o Translate("responses", before(n), FinalChunk(usage))
       = SubSeq(E, 1, atEnd)
  <2>1. SubSeq(E, 1, atEnd) = E
    BY <1>9, <1>10, <1>11, SubSeqFull
  <2> QED
    BY <1>7, <1>11, <1>12, <2>1, Zenon
<1>16. SubSeq(E, 1, atEnd) \o Closing("responses", after) = E
  BY <1>8, <1>9, <1>10, <1>11, SubSeqFull, ConcatEmptySeq
<1> QED
  BY <1>8, <1>13, <1>14, <1>15, <1>16
     DEF WellMade, E, n, before, after, chunkOf, at, atEnd

\* In the array Vertex writes, words stand at the even places.
LEMMA VertexWire ==
    ASSUME NEW W, NEW words \in Seq(W), words # <<>>, NEW usage \in AnyUsage
    PROVE  WellMade("vertex", words, usage)
<1> DEFINE n == Len(words)
           word(i) == Frame("element", <<words[i]>>, FALSE, "stop", NoUsage)
           final == Frame("element", <<>>, FALSE, "stop", usage)
           E == ExpectedWire("vertex", words, usage)
           before(k) == LocalsAfter("vertex", words, k, FALSE, usage)
           after == LocalsAfter("vertex", words, n, TRUE, usage)
           chunkOf(k) == WordChunk(words[k + 1], k = 0)
           at(k) == WrittenUpTo("vertex", k, FALSE)
           atEnd == WrittenUpTo("vertex", n, TRUE)
           place(i) == CASE i = 1         -> Mark("[")
                         [] i = 2 * n + 3 -> Mark("]")
                         [] i = 2 * n + 2 -> final
                         [] i % 2 = 0 /\ i < 2 * n + 2 -> word(i \div 2)
                         [] OTHER         -> Mark(",")
<1>0. n \in Nat /\ n >= 1
  BY EmptySeq, LenProperties
<1>1. \A i \in 1..n : word(i) \in AnyFrame(W)
  <2> SUFFICES ASSUME NEW i \in 1..n  PROVE word(i) \in AnyFrame(W)
    OBVIOUS
  <2>1. <<words[i]>> \in Seq(W)
    BY ElementOfSeq
  <2> QED
    BY <2>1, NoUsageType DEF Frame, AnyFrame, FrameKinds
<1>2. /\ final \in AnyFrame(W) /\ Mark("[") \in AnyFrame(W)
      /\ Mark(",") \in AnyFrame(W) /\ Mark("]") \in AnyFrame(W)
  <2>1. final \in AnyFrame(W)
    BY EmptySeq DEF Frame, AnyFrame, FrameKinds
  <2>2. \A k \in FrameKinds : Mark(k) \in AnyFrame(W)
    BY MarkType
  <2> QED
    BY <2>1, <2>2 DEF FrameKinds
<1>3. E = [i \in 1..(2 * n + 3) |-> place(i)]
  BY DEF ExpectedWire
<1>4. \A k \in 1..(n - 1) :
        Translate("vertex", before(k), chunkOf(k)) = <<Mark(","), word(k + 1)>>
  <2> SUFFICES ASSUME NEW k \in 1..(n - 1)
               PROVE  Translate("vertex", before(k), chunkOf(k))
                      = <<Mark(","), word(k + 1)>>
    OBVIOUS
  <2>0. k # 0
    BY <1>0
  <2>1. ~before(k).first
    BY <2>0 DEF LocalsAfter
  <2>2. chunkOf(k).words = <<words[k + 1]>> /\ chunkOf(k).usage = NoUsage
    BY DEF WordChunk
  <2>3. Translate("vertex", before(k), chunkOf(k)) = VertexFrames(before(k), chunkOf(k))
    BY DEF Translate
  <2> HIDE DEF before, chunkOf
  <2> QED
    BY <2>1, <2>2, <2>3, VertexChunks
<1>5. Translate("vertex", before(0), chunkOf(0)) = <<word(1)>>
  <2>1. before(0).first
    BY DEF LocalsAfter
  <2>2. chunkOf(0).words = <<words[1]>> /\ chunkOf(0).usage = NoUsage
    BY DEF WordChunk
  <2>3. Translate("vertex", before(0), chunkOf(0)) = VertexFrames(before(0), chunkOf(0))
    BY DEF Translate
  <2> HIDE DEF before, chunkOf
  <2> QED
    BY <2>1, <2>2, <2>3, VertexChunks
<1>6. Translate("vertex", before(n), FinalChunk(usage)) = <<Mark(","), final>>
  <2>0. n # 0
    BY <1>0
  <2>1. ~before(n).first
    BY <2>0 DEF LocalsAfter
  <2>2. FinalChunk(usage).words = <<>> /\ FinalChunk(usage).usage = usage
    BY DEF FinalChunk
  <2>3. Translate("vertex", before(n), FinalChunk(usage))
        = VertexFrames(before(n), FinalChunk(usage))
    BY DEF Translate
  <2> HIDE DEF before
  <2> QED
    BY <2>1, <2>2, <2>3, VertexChunks
<1>7. Opening("vertex") = <<Mark("[")>> /\ Closing("vertex", after) = <<Mark("]")>>
  BY DEF Opening, Closing
<1>8. (\A k \in Nat : at(k) = IF k = 0 THEN 1 ELSE 2 * k) /\ atEnd = 2 * n + 2
  BY <1>0 DEF WrittenUpTo
<1> HIDE DEF n, word, final, E, before, after, chunkOf, at, atEnd
<1>9. /\ place(1) = Mark("[")
      /\ \A k \in 1..n : place(2 * k) = word(k)
      /\ \A k \in 1..n : place(2 * k + 1) = Mark(",")
      /\ place(2 * n + 2) = final
      /\ place(2 * n + 3) = Mark("]")
  <2>1. place(1) = Mark("[")
    <3>1. 1 # 2 * n + 3 /\ 1 # 2 * n + 2 /\ 1 % 2 # 0
      BY <1>0
    <3> QED
      BY <3>1
  <2>2. ASSUME NEW k \in 1..n  PROVE place(2 * k) = word(k)
    <3>1. /\ 2 * k # 1 /\ 2 * k # 2 * n + 3 /\ 2 * k # 2 * n + 2
          /\ (2 * k) % 2 = 0 /\ 2 * k < 2 * n + 2 /\ (2 * k) \div 2 = k
      BY <1>0
    <3> QED
      BY <3>1
  <2>3. ASSUME NEW k \in 1..n  PROVE place(2 * k + 1) = Mark(",")
    <3>1. /\ 2 * k + 1 # 1 /\ 2 * k + 1 # 2 * n + 3 /\ 2 * k + 1 # 2 * n + 2
          /\ (2 * k + 1) % 2 # 0
      BY <1>0
    <3> QED
      BY <3>1
  <2>4. place(2 * n + 2) = final
    <3>1. /\ 2 * n + 2 # 1 /\ 2 * n + 2 # 2 * n + 3
          /\ ~(2 * n + 2 < 2 * n + 2)
      BY <1>0
    <3> QED
      BY <3>1
  <2>5. place(2 * n + 3) = Mark("]")
    <3>1. /\ 2 * n + 3 # 1 /\ 2 * n + 3 # 2 * n + 2
          /\ ~(2 * n + 3 < 2 * n + 2)
      BY <1>0
    <3> QED
      BY <3>1
  <2> QED
    BY <2>1, <2>2, <2>3, <2>4, <2>5
<1>10. ASSUME NEW i \in 1..(2 * n + 3)  PROVE place(i) \in AnyFrame(W)
  <2>1. CASE i % 2 = 0 /\ i < 2 * n + 2
    <3>1. i \div 2 \in 1..n
      BY <1>0, <2>1
    <3>2. place(i) \in {Mark("["), Mark("]"), final, word(i \div 2)}
      BY <2>1
    <3> QED
      BY <1>1, <1>2, <3>1, <3>2
  <2>2. CASE ~(i % 2 = 0 /\ i < 2 * n + 2)
    <3>1. place(i) \in {Mark("["), Mark("]"), final, Mark(",")}
      BY <2>2
    <3> QED
      BY <1>2, <3>1
  <2> QED
    BY <2>1, <2>2
<1> HIDE DEF place
<1>11. /\ E \in Seq(AnyFrame(W)) /\ Len(E) = 2 * n + 3
       /\ \A i \in 1..(2 * n + 3) : E[i] = place(i)
  <2> DEFINE m == 2 * n + 3
  <2>0. m \in Nat
    BY <1>0
  <2>1. \A i \in 1..m : place(i) \in AnyFrame(W)
    BY <1>10
  <2> HIDE DEF m
  <2>2. E = [i \in 1..m |-> place(i)]
    BY <1>3 DEF m
  <2>3. E \in [1..m -> AnyFrame(W)] /\ \A i \in 1..m : E[i] = place(i)
    BY <2>1, <2>2
  <2>4. E \in Seq(AnyFrame(W)) /\ Len(E) = m
    BY <2>0, <2>3
  <2> QED
    BY <2>3, <2>4 DEF m
<1>12. SubSeq(E, 1, at(0)) = <<Mark("[")>>
  <2>1. 0 \in Nat /\ 0 + 1 = 1 /\ 0 + 1 <= Len(E) /\ 1 \in 1..(2 * n + 3)
    BY <1>0, <1>11
  <2>2. SubSeq(E, 1, 0) \o <<E[0 + 1]>> = SubSeq(E, 1, 0 + 1) /\ SubSeq(E, 1, 0) = <<>>
    BY <1>11, <2>1, Prefixes
  <2>3. <<>> \o <<E[1]>> = <<E[1]>>
    BY Tuples
  <2>4. E[1] = Mark("[")
    BY <1>9, <1>11, <2>1
  <2>5. at(0) = 1
    BY <1>8
  <2> QED
    BY <2>1, <2>2, <2>3, <2>4, <2>5
<1>13. ASSUME NEW k \in 0..(n - 1)
       PROVE  SubSeq(E, 1, at(k)) \o Translate("vertex", before(k), chunkOf(k))
              = SubSeq(E, 1, at(k + 1))
  <2>1. /\ k \in Nat /\ k + 1 \in Nat /\ k + 1 \in 1..n /\ k + 1 # 0
        /\ 2 * (k + 1) = 2 * k + 2 /\ 2 * k + 2 \in 1..(2 * n + 3)
    BY <1>0
  <2>2. at(k + 1) = 2 * k + 2
    BY <1>8, <2>1
  <2>3. E[2 * k + 2] = word(k + 1)
    BY <1>9, <1>11, <2>1
  <2>4. CASE k = 0
    <3>1. 1 \in Nat /\ 1 + 1 <= Len(E)
      BY <1>0, <1>11
    <3>2. SubSeq(E, 1, 1) \o <<E[1 + 1]>> = SubSeq(E, 1, 1 + 1)
      BY <1>11, <3>1, Prefixes
    <3>3. at(0) = 1 /\ at(k) = at(0) /\ at(k + 1) = 1 + 1
      BY <1>8, <2>2, <2>4
    <3>4. E[1 + 1] = word(1)
      BY <2>3, <2>4
    <3>5. Translate("vertex", before(k), chunkOf(k)) = <<word(1)>>
      BY <1>5, <2>4
    <3> QED
      BY <3>2, <3>3, <3>4, <3>5, Zenon
  <2>5. CASE k # 0
    <3>1. k \in 1..(n - 1) /\ k \in 1..n /\ 2 * k \in Nat /\ (2 * k) + 2 <= Len(E)
          /\ 2 * k + 1 \in 1..(2 * n + 3)
      BY <1>0, <1>11, <2>5
    <3>2. SubSeq(E, 1, 2 * k) \o <<E[2 * k + 1], E[2 * k + 2]>>
          = SubSeq(E, 1, 2 * k + 2)
      BY <1>11, <3>1, Prefixes
    <3>3. E[2 * k + 1] = Mark(",")
      BY <1>9, <1>11, <3>1
    <3>4. at(k) = 2 * k
      BY <1>8, <2>1, <2>5
    <3>5. Translate("vertex", before(k), chunkOf(k)) = <<Mark(","), word(k + 1)>>
      BY <1>4, <3>1
    <3> QED
      BY <2>2, <2>3, <3>2, <3>3, <3>4, <3>5, Zenon
  <2> QED
    BY <2>4, <2>5
<1>14. SubSeq(E, 1, at(n)) \o Translate("vertex", before(n), FinalChunk(usage))
       = SubSeq(E, 1, atEnd)
  <2>1. /\ n \in 1..n /\ 2 * n \in Nat /\ (2 * n) + 2 <= Len(E)
        /\ 2 * n + 1 \in 1..(2 * n + 3) /\ 2 * n + 2 \in 1..(2 * n + 3)
    BY <1>0, <1>11
  <2>2. SubSeq(E, 1, 2 * n) \o <<E[2 * n + 1], E[2 * n + 2]>> = SubSeq(E, 1, 2 * n + 2)
    BY <1>11, <2>1, Prefixes
  <2>3. E[2 * n + 1] = Mark(",") /\ E[2 * n + 2] = final
    BY <1>9, <1>11, <2>1
  <2>4. at(n) = 2 * n
    BY <1>0, <1>8
  <2> QED
    BY <1>6, <1>8, <2>2, <2>3, <2>4, Zenon
<1>15. SubSeq(E, 1, atEnd) \o Closing("vertex", after) = E
  <2>1. /\ 2 * n + 2 \in Nat /\ (2 * n + 2) + 1 = 2 * n + 3
        /\ (2 * n + 2) + 1 <= Len(E) /\ 2 * n + 3 \in 1..(2 * n + 3)
    BY <1>0, <1>11
  <2>2. SubSeq(E, 1, 2 * n + 2) \o <<E[(2 * n + 2) + 1]>> = SubSeq(E, 1, (2 * n + 2) + 1)
    BY <1>11, <2>1, Prefixes
  <2>3. SubSeq(E, 1, 2 * n + 3) = E
    BY <1>11, SubSeqFull
  <2>4. E[2 * n + 3] = Mark("]")
    BY <1>9, <1>11, <2>1
  <2> QED
    BY <1>7, <1>8, <2>1, <2>2, <2>3, <2>4
<1> QED
  BY <1>7, <1>12, <1>13, <1>14, <1>15
     DEF WellMade, E, n, before, after, chunkOf, at, atEnd

LEMMA EveryWire ==
    ASSUME NEW W, NEW words \in Seq(W), words # <<>>, NEW usage \in AnyUsage,
           NEW surface \in SurfaceNames
    PROVE  WellMade(surface, words, usage)
BY OpenAIWire, BedrockWire, ResponsesWire, VertexWire
   DEF SurfaceNames, BedrockStreams

\* The locals of a handler as it absorbs the chunks of a reply.
LocalsKept(surface, words, usage) ==
    LET n == Len(words)
        locals(k, final) == LocalsAfter(surface, words, k, final, usage)
    IN  /\ locals(0, FALSE) = InitialLocals
        /\ \A k \in 0..(n - 1) :
              Absorb(surface, locals(k, FALSE), WordChunk(words[k + 1], k = 0))
              = locals(k + 1, FALSE)
        /\ Absorb(surface, locals(n, FALSE), FinalChunk(usage)) = locals(n, TRUE)

LEMMA EveryLocals ==
    ASSUME NEW W, NEW words \in Seq(W), words # <<>>, NEW usage, usage # NoUsage,
           NEW surface \in SurfaceNames
    PROVE  LocalsKept(surface, words, usage)
<1> DEFINE n == Len(words)
           before(k) == LocalsAfter(surface, words, k, FALSE, usage)
           after == LocalsAfter(surface, words, n, TRUE, usage)
           chunkOf(k) == WordChunk(words[k + 1], k = 0)
<1>0. n \in Nat /\ n # 0
  BY EmptySeq, LenProperties
<1>1. before(0) = InitialLocals
  <2>1. SubSeq(words, 1, 0) = <<>>
    BY Prefixes
  <2> QED
    BY <2>1 DEF LocalsAfter, InitialLocals, SurfaceNames
<1>2. ASSUME NEW k \in 0..(n - 1)
      PROVE  Absorb(surface, before(k), chunkOf(k)) = before(k + 1)
  <2>1. k \in Nat /\ k + 1 # 0 /\ k + 1 <= Len(words)
    BY <1>0
  <2>2. SubSeq(words, 1, k) \o <<words[k + 1]>> = SubSeq(words, 1, k + 1)
    BY <2>1, Prefixes
  <2> QED
    BY <2>1, <2>2 DEF LocalsAfter, SurfaceNames, Absorb, WordChunk, BedrockStreams
<1>3. Absorb(surface, before(n), FinalChunk(usage)) = after
  <2>1. SubSeq(words, 1, n) \o <<>> = SubSeq(words, 1, n)
    BY <1>0, Prefixes
  <2> QED
    BY <1>0, <2>1
       DEF LocalsAfter, SurfaceNames, Absorb, FinalChunk, BedrockStreams
<1> QED
  BY <1>1, <1>2, <1>3 DEF LocalsKept

-----------------------------------------------------------------------------
(* What a client reads: the text and the usage on a wire, and what the frames
   written next add to them. *)

\* A set with 0 that has the successors of its members contains the naturals.
LEMMA Induction ==
    ASSUME NEW S, 0 \in S, \A n \in Nat : n \in S => n + 1 \in S
    PROVE  \A n \in Nat : n \in S
<1> SUFFICES ASSUME Nat \ S # {}  PROVE FALSE
  OBVIOUS
<1>1. PICK x \in Nat \ S : \A y \in Nat \ S : ~ (<<y, x>> \in OpToRel(<, Nat))
  <2>1. IsWellFoundedOn(OpToRel(<, Nat), Nat) /\ Nat \ S \subseteq Nat
    BY NatLessThanWellFounded
  <2> QED
    BY <2>1, WFMin
<1>2. x - 1 \in Nat /\ x - 1 < x /\ (x - 1) + 1 = x
  <2>1. x \in Nat /\ x # 0
    OBVIOUS
  <2> QED
    BY <2>1
<1>3. <<x - 1, x>> \in OpToRel(<, Nat)
  BY <1>2 DEF OpToRel
<1>4. x - 1 \in S
  BY <1>1, <1>2, <1>3
<1> QED
  BY <1>1, <1>2, <1>4

\* Reading a wire, frame by frame.
LEMMA SpokenRecursion ==
    ASSUME NEW w
    PROVE  /\ SpokenUpTo(w, 0) = <<>>
           /\ \A n \in Nat :
                SpokenUpTo(w, n + 1) =
                    IF w[n + 1].kind \in SpokenKinds
                    THEN SpokenUpTo(w, n) \o w[n + 1].words
                    ELSE SpokenUpTo(w, n)
<1> DEFINE step(g, i) == IF w[i].kind \in SpokenKinds
                         THEN g[i - 1] \o w[i].words
                         ELSE g[i - 1]
           Good(g, n) == g = [i \in 0..n |-> IF i = 0 THEN <<>> ELSE step(g, i)]
           reader(n) == CHOOSE g : Good(g, n)
<1>1. \A n : SpokenUpTo(w, n) = reader(n)[n]
  BY DEF SpokenUpTo
<1>2. \A n \in Nat : \E g : Good(g, n)
  <2> DEFINE S == {n \in Nat : \E g : Good(g, n)}
  <2>1. 0 \in S
    <3>1. Good([i \in 0..0 |-> <<>>], 0)
      OBVIOUS
    <3> QED
      BY <3>1
  <2>2. ASSUME NEW n \in Nat, n \in S  PROVE n + 1 \in S
    <3>1. PICK g : Good(g, n)
      BY <2>2
    <3> DEFINE h == [i \in 0..(n + 1) |-> IF i = 0 THEN <<>> ELSE step(g, i)]
    <3>2. \A i \in 0..n : h[i] = g[i]
      BY <3>1
    <3>3. \A i \in 0..(n + 1) : i # 0 => i - 1 \in 0..n
      OBVIOUS
    <3>4. \A i \in 0..(n + 1) : i # 0 => h[i - 1] = g[i - 1]
      BY <3>2, <3>3
    <3>5. Good(h, n + 1)
      BY <3>4
    <3>6. n + 1 \in Nat
      OBVIOUS
    <3> HIDE DEF Good
    <3> QED
      BY <3>5, <3>6
  <2> HIDE DEF S
  <2>3. \A n \in Nat : n \in S
    BY <2>1, <2>2, Induction
  <2> QED
    BY <2>3 DEF S
<1>3. \A n \in Nat : Good(reader(n), n)
  BY <1>2
<1>4. ASSUME NEW n \in Nat  PROVE reader(n)[0] = <<>>
  <2>1. Good(reader(n), n)
    BY <1>3, Zenon
  <2>2. 0 \in 0..n
    OBVIOUS
  <2> HIDE DEF reader
  <2> QED
    BY <2>1, <2>2
<1>5. ASSUME NEW n \in Nat, NEW i \in 1..n  PROVE reader(n)[i] = step(reader(n), i)
  <2>1. Good(reader(n), n)
    BY <1>3, Zenon
  <2>2. i \in 0..n /\ i # 0
    OBVIOUS
  <2> HIDE DEF reader
  <2> QED
    BY <2>1, <2>2
<1> HIDE DEF reader
\* Two readers agree as far as both have read.
<1>6. ASSUME NEW n \in Nat  PROVE reader(n + 1)[n] = reader(n)[n]
  <2> DEFINE S == {i \in Nat : i <= n => reader(n + 1)[i] = reader(n)[i]}
  <2>1. 0 \in S
    BY <1>4
  <2>2. ASSUME NEW i \in Nat, i \in S  PROVE i + 1 \in S
    <3> SUFFICES ASSUME i + 1 <= n
                 PROVE  reader(n + 1)[i + 1] = reader(n)[i + 1]
      OBVIOUS
    <3>1. reader(n + 1)[i] = reader(n)[i]
      BY <2>2
    <3>2. i + 1 \in 1..n /\ i + 1 \in 1..(n + 1) /\ n + 1 \in Nat /\ (i + 1) - 1 = i
      OBVIOUS
    <3> QED
      BY <1>5, <3>1, <3>2
  <2> HIDE DEF S
  <2>3. n \in S
    BY <2>1, <2>2, Induction
  <2> QED
    BY <2>3 DEF S
<1>7. ASSUME NEW n \in Nat
      PROVE  reader(n + 1)[n + 1] = IF w[n + 1].kind \in SpokenKinds
                                    THEN reader(n)[n] \o w[n + 1].words
                                    ELSE reader(n)[n]
  <2>1. n + 1 \in Nat /\ n + 1 \in 1..(n + 1) /\ (n + 1) - 1 = n
    OBVIOUS
  <2> QED
    BY <1>5, <1>6, <2>1
<1> QED
  BY <1>1, <1>4, <1>7

LEMMA NothingSpoken == Spoken(<<>>) = <<>>
BY SpokenRecursion, EmptySeq DEF Spoken

\* A frame more on the wire.
LEMMA SpokenMore ==
    ASSUME NEW S, NEW w \in Seq(S), NEW f \in S
    PROVE  Spoken(w \o <<f>>) = IF f.kind \in SpokenKinds THEN Spoken(w) \o f.words
                                                          ELSE Spoken(w)
<1> DEFINE v == w \o <<f>>
           n == Len(w)
<1>1. n \in Nat /\ <<f>> \in Seq(S) /\ Len(<<f>>) = 1
  BY LenProperties
<1>2. Len(v) = n + 1 /\ v[n + 1] = f /\ \A i \in 1..n : v[i] = w[i]
  BY <1>1, ConcatProperties
<1> HIDE DEF v, n
<1> DEFINE Same == {k \in Nat : k <= n => SpokenUpTo(v, k) = SpokenUpTo(w, k)}
<1>3. 0 \in Same
  BY SpokenRecursion
<1>4. ASSUME NEW k \in Nat, k \in Same  PROVE k + 1 \in Same
  <2> SUFFICES ASSUME k + 1 <= n
               PROVE  SpokenUpTo(v, k + 1) = SpokenUpTo(w, k + 1)
    OBVIOUS
  <2>1. SpokenUpTo(v, k) = SpokenUpTo(w, k) /\ v[k + 1] = w[k + 1]
    BY <1>1, <1>2, <1>4
  <2> QED
    BY <2>1, SpokenRecursion
<1> HIDE DEF Same
<1>5. n \in Same
  BY <1>1, <1>3, <1>4, Induction
<1>6. SpokenUpTo(v, n) = SpokenUpTo(w, n)
  BY <1>1, <1>5 DEF Same
<1>7. SpokenUpTo(v, n + 1) = IF f.kind \in SpokenKinds
                             THEN SpokenUpTo(w, n) \o f.words
                             ELSE SpokenUpTo(w, n)
  BY <1>1, <1>2, <1>6, SpokenRecursion
<1> QED
  BY <1>2, <1>7 DEF Spoken, v, n
\* Whether a usage is among the frames of a wire.
UsageIn(w) == \E i \in DOMAIN w : w[i].usage # NoUsage

LEMMA UsageInMore ==
    ASSUME NEW S, NEW w \in Seq(S), NEW T \in Seq(S), ~UsageIn(w), ~UsageIn(T)
    PROVE  ~UsageIn(w \o T)
<1>1. /\ Len(w) \in Nat /\ Len(T) \in Nat
      /\ DOMAIN w = 1..Len(w) /\ DOMAIN T = 1..Len(T)
  BY LenProperties
<1>2. /\ w \o T \in Seq(S) /\ Len(w \o T) = Len(w) + Len(T)
      /\ \A i \in 1..(Len(w) + Len(T)) :
            (w \o T)[i] = IF i <= Len(w) THEN w[i] ELSE T[i - Len(w)]
  BY ConcatProperties
<1>3. DOMAIN (w \o T) = 1..(Len(w) + Len(T))
  BY <1>2, LenProperties
<1> SUFFICES ASSUME NEW i \in 1..(Len(w) + Len(T))
             PROVE  (w \o T)[i].usage = NoUsage
  BY <1>3 DEF UsageIn
<1>4. CASE i <= Len(w)
  <2>1. i \in DOMAIN w
    BY <1>1, <1>4
  <2> QED
    BY <1>2, <1>4, <2>1 DEF UsageIn
<1>5. CASE i > Len(w)
  <2>1. i - Len(w) \in DOMAIN T /\ ~(i <= Len(w))
    BY <1>1, <1>5
  <2> QED
    BY <1>2, <2>1 DEF UsageIn
<1> QED
  BY <1>1, <1>4, <1>5

\* Frames without new text, and frames with the given words.
Mute(R, X) == X \in Seq(R) /\ \A v \in Seq(R) : Spoken(v \o X) = Spoken(v)

Speaks(R, X, words) ==
    X \in Seq(R) /\ \A v \in Seq(R) : Spoken(v \o X) = Spoken(v) \o words

LEMMA Nothing ==
    ASSUME NEW R
    PROVE  Mute(R, <<>>) /\ ~UsageIn(<<>>)
<1>1. <<>> \in Seq(R) /\ DOMAIN <<>> = {}
  OBVIOUS
<1>2. \A v \in Seq(R) : v \o <<>> = v
  BY ConcatEmptySeq
<1> QED
  BY <1>1, <1>2 DEF Mute, UsageIn

LEMMA OneFrame ==
    ASSUME NEW R, NEW a \in R
    PROVE  /\ a.kind \notin SpokenKinds => Mute(R, <<a>>)
           /\ a.kind \in SpokenKinds => Speaks(R, <<a>>, a.words)
           /\ UsageIn(<<a>>) <=> a.usage # NoUsage
<1>1. <<a>> \in Seq(R) /\ DOMAIN <<a>> = {1} /\ <<a>>[1] = a
  OBVIOUS
<1>2. \A v \in Seq(R) : Spoken(v \o <<a>>) = IF a.kind \in SpokenKinds
                                            THEN Spoken(v) \o a.words
                                            ELSE Spoken(v)
  BY SpokenMore
<1>3. UsageIn(<<a>>) <=> a.usage # NoUsage
  BY <1>1, Zenon DEF UsageIn
<1>4. /\ a.kind \notin SpokenKinds => Mute(R, <<a>>)
      /\ a.kind \in SpokenKinds => Speaks(R, <<a>>, a.words)
  BY <1>1, <1>2 DEF Mute, Speaks
<1> QED
  BY <1>3, <1>4

LEMMA TwoFrames ==
    ASSUME NEW R, NEW a \in R, NEW b \in R,
           a.kind \notin SpokenKinds, b.kind \notin SpokenKinds
    PROVE  /\ Mute(R, <<a, b>>)
           /\ UsageIn(<<a, b>>) <=> a.usage # NoUsage \/ b.usage # NoUsage
<1>1. /\ <<a, b>> \in Seq(R) /\ <<a>> \in Seq(R) /\ <<b>> \in Seq(R)
      /\ DOMAIN <<a, b>> = {1, 2} /\ <<a, b>>[1] = a /\ <<a, b>>[2] = b
  OBVIOUS
<1>2. ASSUME NEW v \in Seq(R)  PROVE Spoken(v \o <<a, b>>) = Spoken(v)
  <2>1. v \o <<a, b>> = (v \o <<a>>) \o <<b>> /\ v \o <<a>> \in Seq(R)
    <3>1. (v \o <<a>>) \o <<b>> = v \o (<<a>> \o <<b>>)
      BY <1>1, ConcatAssociative
    <3>2. v \o <<a>> \in Seq(R)
      BY <1>1, ConcatProperties
    <3> QED
      BY <3>1, <3>2, Tuples, Zenon
  <2>2. Mute(R, <<a>>) /\ Mute(R, <<b>>)
    BY OneFrame
  <2> QED
    BY <2>1, <2>2, Zenon DEF Mute
<1>3. UsageIn(<<a, b>>) <=> a.usage # NoUsage \/ b.usage # NoUsage
  BY <1>1, Zenon DEF UsageIn
<1> QED
  BY <1>1, <1>2, <1>3 DEF Mute

LEMMA ThreeFrames ==
    ASSUME NEW R, NEW a \in R, NEW b \in R, NEW c \in R,
           a.kind \notin SpokenKinds, b.kind \notin SpokenKinds,
           c.kind \notin SpokenKinds
    PROVE  /\ Mute(R, <<a, b, c>>)
           /\ UsageIn(<<a, b, c>>) <=> \/ a.usage # NoUsage \/ b.usage # NoUsage
                                      \/ c.usage # NoUsage
<1>1. /\ <<a, b, c>> \in Seq(R) /\ <<a, b>> \in Seq(R) /\ <<c>> \in Seq(R)
      /\ DOMAIN <<a, b, c>> = {1, 2, 3}
      /\ <<a, b, c>>[1] = a /\ <<a, b, c>>[2] = b /\ <<a, b, c>>[3] = c
  OBVIOUS
<1>2. ASSUME NEW v \in Seq(R)  PROVE Spoken(v \o <<a, b, c>>) = Spoken(v)
  <2>1. v \o <<a, b, c>> = (v \o <<a, b>>) \o <<c>> /\ v \o <<a, b>> \in Seq(R)
    <3>1. (v \o <<a, b>>) \o <<c>> = v \o (<<a, b>> \o <<c>>)
      BY <1>1, ConcatAssociative
    <3>2. v \o <<a, b>> \in Seq(R)
      BY <1>1, ConcatProperties
    <3> QED
      BY <3>1, <3>2, Tuples, Zenon
  <2>2. Mute(R, <<a, b>>) /\ Mute(R, <<c>>)
    BY OneFrame, TwoFrames
  <2> QED
    BY <2>1, <2>2, Zenon DEF Mute
<1>3. UsageIn(<<a, b, c>>) <=> \/ a.usage # NoUsage \/ b.usage # NoUsage
                              \/ c.usage # NoUsage
  BY <1>1, Zenon DEF UsageIn
<1> QED
  BY <1>1, <1>2, <1>3 DEF Mute

\* What a sequence T of frames does when it is written after w: it adds words to
\* the text, and a usage only if there is one to report.
Adds(w, T, words, usage) ==
    /\ \E R : w \o T \in Seq(R)
    /\ Spoken(w \o T) = Spoken(w) \o words
    /\ ~UsageIn(w) /\ usage = NoUsage => ~UsageIn(w \o T)

\* Marks before the words, the words, and what is said of the whole after them.
LEMMA InParts ==
    ASSUME NEW S, NEW w \in Seq(S), NEW words, NEW usage, NEW X, NEW Y, NEW Z,
           Mute(S, X), ~UsageIn(X),
           Y \in Seq(S),
           \A v \in Seq(S) : Spoken(v) = Spoken(w)
                                => Spoken(v \o Y) = Spoken(v) \o words,
           ~UsageIn(Y) \/ usage # NoUsage,
           Mute(S, Z), ~UsageIn(Z) \/ usage # NoUsage
    PROVE  Adds(w, X \o Y \o Z, words, usage)
<1> DEFINE wX == w \o X
           wXY == wX \o Y
<1>0. X \in Seq(S) /\ Z \in Seq(S)
  BY DEF Mute
<1>1. wX \in Seq(S) /\ wXY \in Seq(S) /\ X \o Y \in Seq(S)
  BY <1>0, ConcatProperties
<1>2. wXY = w \o (X \o Y)
  BY <1>0, ConcatAssociative
<1>3. w \o ((X \o Y) \o Z) = (w \o (X \o Y)) \o Z
  BY <1>0, <1>1, ConcatAssociative
<1>4. wXY \o Z \in Seq(S)
  BY <1>0, <1>1, ConcatProperties
<1>5. Spoken(wX) = Spoken(w) /\ Spoken(wXY) = Spoken(w) \o words
  BY <1>1 DEF Mute
<1>7. ASSUME ~UsageIn(w), usage = NoUsage  PROVE ~UsageIn(wXY \o Z)
  <2>1. ~UsageIn(wX)
    BY <1>0, <1>7, UsageInMore
  <2>2. ~UsageIn(wXY)
    BY <1>1, <1>7, <2>1, UsageInMore
  <2> HIDE DEF wXY
  <2> QED
    BY <1>0, <1>1, <1>7, <2>2, UsageInMore
<1> HIDE DEF wXY
<1>6. Spoken(wXY \o Z) = Spoken(w) \o words
  BY <1>1, <1>5 DEF Mute
<1>8. w \o (X \o Y \o Z) = wXY \o Z
  BY <1>2, <1>3
<1> QED
  BY <1>4, <1>6, <1>7, <1>8 DEF Adds

\* A chunk adds its words to the text, however the surface frames it, and a usage
\* only if it has one.
LEMMA ChunkAdds ==
    ASSUME NEW S, NEW w \in Seq(S), NEW surface \in SurfaceNames, NEW l, NEW c,
           Spoken(w) \o <<>> = Spoken(w)
    PROVE  Adds(w, Translate(surface, l, c), c.words, c.usage)
<1>1. ASSUME NEW kind \in SpokenKinds, NEW role, NEW finish, NEW usage \in {NoUsage, c.usage}
      PROVE  Adds(w, <<Frame(kind, c.words, role, finish, usage)>>, c.words, c.usage)
  <2> DEFINE f == Frame(kind, c.words, role, finish, usage)
             R == S \cup {f}
  <2>1. f.kind \in SpokenKinds /\ f.words = c.words /\ f.usage = usage
    BY DEF Frame
  <2>2. w \in Seq(R) /\ f \in R
    BY SeqMonotonic
  <2> HIDE DEF R, f
  <2>3. Speaks(R, <<f>>, c.words) /\ (UsageIn(<<f>>) <=> usage # NoUsage)
    BY <2>1, <2>2, OneFrame
  <2>4. w \o <<f>> \in Seq(R) /\ Spoken(w \o <<f>>) = Spoken(w) \o c.words
    BY <2>2, <2>3, ConcatProperties DEF Speaks
  <2>5. ASSUME ~UsageIn(w), c.usage = NoUsage  PROVE ~UsageIn(w \o <<f>>)
    BY <2>2, <2>3, <2>5, UsageInMore DEF Speaks
  <2> QED
    BY <2>4, <2>5 DEF Adds, f
<1>2. CASE surface = "openai"
  BY <1>1, <1>2 DEF Translate, OpenAIFrames, SpokenKinds
<1>3. ASSUME NEW kind \in SpokenKinds
      PROVE  Adds(w, BedrockFrames(kind, c), c.words, c.usage)
  <2>1. CASE c.words = <<>>
    <3>1. w \o <<>> = w
      BY ConcatEmptySeq
    <3> QED
      BY <2>1, <3>1 DEF BedrockFrames, Adds
  <2>2. CASE c.words # <<>>
    BY <1>1, <2>2 DEF BedrockFrames
  <2> QED
    BY <2>1, <2>2
<1>4. CASE surface \in {"converse", "invoke"}
  BY <1>3, <1>4 DEF Translate, SpokenKinds
<1>5. CASE surface = "vertex"
  <2> DEFINE f == Frame("element", c.words, FALSE, "stop", c.usage)
             comma == Mark(",")
             X == IF l.first THEN <<>> ELSE <<comma>>
             R == S \cup {f, comma}
  <2>1. w \in Seq(R) /\ f \in R /\ comma \in R
    BY SeqMonotonic
  <2>2. /\ f.kind \in SpokenKinds /\ f.words = c.words /\ f.usage = c.usage
        /\ comma.kind \notin SpokenKinds /\ comma.usage = NoUsage
    BY DEF Frame, Mark, SpokenKinds
  <2>3. Translate(surface, l, c) = X \o <<f>>
    BY <1>5 DEF Translate, VertexFrames
  <2> HIDE DEF R, f, comma
  <2>4. Mute(R, X) /\ ~UsageIn(X)
    <3>1. /\ Mute(R, <<>>) /\ ~UsageIn(<<>>)
          /\ Mute(R, <<comma>>) /\ ~UsageIn(<<comma>>)
      BY <2>1, <2>2, Nothing, OneFrame
    <3> QED
      BY <3>1, Zenon
  <2>5. Speaks(R, <<f>>, c.words) /\ (UsageIn(<<f>>) <=> c.usage # NoUsage)
    BY <2>1, <2>2, OneFrame
  <2>6. Mute(R, <<>>) /\ ~UsageIn(<<>>)
    BY Nothing
  <2> HIDE DEF X
  <2>7. Adds(w, X \o <<f>> \o <<>>, c.words, c.usage)
    <3> DEFINE Y == <<f>>
               Z == <<>>
    <3>1. /\ Y \in Seq(R) /\ (~UsageIn(Y) \/ c.usage # NoUsage)
          /\ \A v \in Seq(R) : Spoken(v) = Spoken(w)
                                  => Spoken(v \o Y) = Spoken(v) \o c.words
      BY <2>5 DEF Speaks
    <3>2. Mute(R, Z) /\ (~UsageIn(Z) \/ c.usage # NoUsage)
      BY <2>6
    <3> HIDE DEF Y, Z
    <3>3. Adds(w, X \o Y \o Z, c.words, c.usage)
      BY <2>1, <2>4, <3>1, <3>2, InParts
    <3> QED
      BY <3>3 DEF Y, Z
  <2>8. X \o <<f>> \o <<>> = X \o <<f>>
    <3>1. X \o <<f>> \in Seq(R)
      BY <2>4, <2>5, ConcatProperties DEF Mute, Speaks
    <3> QED
      BY <3>1, ConcatEmptySeq
  <2> QED
    BY <2>3, <2>7, <2>8
<1>6. CASE surface = "responses"
  <2> DEFINE fullText == l.fullText \o c.words
             created == Mark("response.created")
             added == Mark("response.output_item.added")
             delta == Frame("response.output_text.delta", c.words, FALSE, "", NoUsage)
             done == Frame("response.output_item.done", fullText, FALSE, "", NoUsage)
             completed == Frame("response.completed", fullText, FALSE, c.finish, c.usage)
             X == IF l.first THEN <<created, added>> ELSE <<>>
             Y == IF c.words # <<>> THEN <<delta>> ELSE <<>>
             Z == IF c.finish # "" THEN <<done, completed>> ELSE <<>>
             R == S \cup {created, added, delta, done, completed}
  <2>1. /\ w \in Seq(R) /\ created \in R /\ added \in R /\ delta \in R
        /\ done \in R /\ completed \in R
    BY SeqMonotonic
  <2>2. /\ delta.kind \in SpokenKinds /\ delta.words = c.words /\ delta.usage = NoUsage
        /\ created.kind \notin SpokenKinds /\ created.usage = NoUsage
        /\ added.kind \notin SpokenKinds /\ added.usage = NoUsage
        /\ done.kind \notin SpokenKinds /\ done.usage = NoUsage
        /\ completed.kind \notin SpokenKinds /\ completed.usage = c.usage
    BY DEF Frame, Mark, SpokenKinds
  <2>8. Translate(surface, l, c) = X \o Y \o Z
    BY <1>6 DEF Translate, ResponsesFrames
  <2> HIDE DEF R, created, added, delta, done, completed
  <2>0. Mute(R, <<>>) /\ ~UsageIn(<<>>)
    BY Nothing
  <2>3. Mute(R, X) /\ ~UsageIn(X)
    <3>1. Mute(R, <<created, added>>) /\ ~UsageIn(<<created, added>>)
      BY <2>1, <2>2, TwoFrames
    <3> QED
      BY <2>0, <3>1, Zenon
  <2>4. /\ Y \in Seq(R) /\ ~UsageIn(Y)
        /\ \A v \in Seq(R) : Spoken(v) = Spoken(w) => Spoken(v \o Y) = Spoken(v) \o c.words
    <3>1. Speaks(R, <<delta>>, c.words) /\ ~UsageIn(<<delta>>)
      BY <2>1, <2>2, OneFrame
    <3>4. CASE c.words = <<>>
      <4>1. Y = <<>>
        BY <3>4
      <4> HIDE DEF Y
      <4> QED
        BY <2>0, <3>4, <4>1 DEF Mute
    <3>5. CASE c.words # <<>>
      <4>1. Y = <<delta>>
        BY <3>5
      <4> HIDE DEF Y
      <4> QED
        BY <3>1, <4>1 DEF Speaks
    <3> QED
      BY <3>4, <3>5
  <2>5. Mute(R, Z) /\ (~UsageIn(Z) \/ c.usage # NoUsage)
    <3>1. /\ Mute(R, <<done, completed>>)
          /\ ~UsageIn(<<done, completed>>) \/ c.usage # NoUsage
      BY <2>1, <2>2, TwoFrames
    <3> QED
      BY <2>0, <3>1, Zenon
  <2> HIDE DEF X, Y, Z
  <2>6. Adds(w, X \o Y \o Z, c.words, c.usage)
    BY <2>1, <2>3, <2>4, <2>5, InParts
  <2> QED
    BY <2>6, <2>8
<1> QED
  BY <1>2, <1>4, <1>5, <1>6 DEF SurfaceNames

\* The frames that open a stream have no text and no usage.
LEMMA OpeningSilent ==
    ASSUME NEW surface \in SurfaceNames
    PROVE  LET o == Opening(surface)
           IN  (\E R : o \in Seq(R)) /\ Spoken(o) = <<>> /\ ~UsageIn(o)
<1>1. ASSUME NEW R, NEW X, Mute(R, X)  PROVE Spoken(X) = <<>>
  <2>1. <<>> \in Seq(R) /\ <<>> \o X = X
    BY <1>1, ConcatEmptySeq DEF Mute
  <2> QED
    BY <1>1, <2>1, NothingSpoken DEF Mute
<1>2. \A k : k \notin SpokenKinds =>
        Mark(k).kind \notin SpokenKinds /\ Mark(k).usage = NoUsage
  BY DEF Mark, Frame
<1>3. CASE surface \in {"openai", "responses"}
  <2>1. Opening(surface) = <<>>
    BY <1>3 DEF Opening
  <2> QED
    BY <2>1, Nothing, NothingSpoken DEF Mute
<1>4. ASSUME NEW a, Opening(surface) = <<Mark(a)>>, a \notin SpokenKinds
      PROVE  LET o == Opening(surface)
             IN  (\E R : o \in Seq(R)) /\ Spoken(o) = <<>> /\ ~UsageIn(o)
  <2>1. Mark(a).kind \notin SpokenKinds /\ Mark(a).usage = NoUsage
    BY <1>2, <1>4
  <2>2. Mute({Mark(a)}, <<Mark(a)>>) /\ ~UsageIn(<<Mark(a)>>)
    BY <2>1, OneFrame
  <2>3. <<Mark(a)>> \in Seq({Mark(a)}) /\ Spoken(<<Mark(a)>>) = <<>>
    BY <1>1, <2>2 DEF Mute
  <2> QED
    BY <1>4, <2>2, <2>3
<1>5. CASE surface = "invoke"
  <2> DEFINE a == Mark("message_start")
             b == Mark("content_block_start")
  <2>2. Opening(surface) = <<a, b>>
    BY <1>5 DEF Opening
  <2>3. /\ a.kind \notin SpokenKinds /\ a.usage = NoUsage
        /\ b.kind \notin SpokenKinds /\ b.usage = NoUsage
    BY DEF SpokenKinds, Mark, Frame
  <2> HIDE DEF a, b
  <2>4. Mute({a, b}, <<a, b>>) /\ ~UsageIn(<<a, b>>)
    BY <2>3, TwoFrames
  <2>5. <<a, b>> \in Seq({a, b}) /\ Spoken(<<a, b>>) = <<>>
    BY <1>1, <2>4 DEF Mute
  <2> QED
    BY <2>2, <2>4, <2>5
<1>6. CASE surface \in {"converse", "vertex"}
  <2>1. "messageStart" \notin SpokenKinds /\ "[" \notin SpokenKinds
    BY DEF SpokenKinds
  <2> QED
    BY <1>4, <1>6, <2>1 DEF Opening
<1> QED
  BY <1>3, <1>5, <1>6 DEF SurfaceNames

\* Neither have those that close it, except for the usage the handler has kept.
LEMMA ClosingAdds ==
    ASSUME NEW S, NEW w \in Seq(S), NEW surface \in SurfaceNames, NEW l
    PROVE  LET v == w \o Closing(surface, l)
           IN  /\ \E R : v \in Seq(R)
               /\ Spoken(v) = Spoken(w)
               /\ ~UsageIn(w) /\ l.usage = NoUsage => ~UsageIn(v)
<1> DEFINE Fine(T) == LET v == w \o T
                      IN  /\ \E R : v \in Seq(R)
                          /\ Spoken(v) = Spoken(w)
                          /\ ~UsageIn(w) /\ l.usage = NoUsage => ~UsageIn(v)
<1>a. ASSUME NEW R, NEW T, Mute(R, T), w \in Seq(R), ~UsageIn(T) \/ l.usage # NoUsage
      PROVE  Fine(T)
  <2>1. w \o T \in Seq(R) /\ Spoken(w \o T) = Spoken(w)
    BY <1>a, ConcatProperties DEF Mute
  <2>2. ASSUME ~UsageIn(w), l.usage = NoUsage  PROVE ~UsageIn(w \o T)
    BY <1>a, <2>2, UsageInMore DEF Mute
  <2> QED
    BY <2>1, <2>2
<1> HIDE DEF Fine
<1>0. Fine(<<>>)
  BY <1>a, Nothing
<1>b. ASSUME NEW a, a.kind \notin SpokenKinds, a.usage = NoUsage
      PROVE  Fine(<<a>>)
  <2> DEFINE R == S \cup {a}
  <2>1. w \in Seq(R) /\ a \in R
    BY SeqMonotonic
  <2> HIDE DEF R
  <2>2. Mute(R, <<a>>) /\ ~UsageIn(<<a>>)
    BY <1>b, <2>1, OneFrame
  <2> QED
    BY <1>a, <2>1, <2>2
<1>1. ASSUME NEW a, NEW b, NEW c,
             a.kind \notin SpokenKinds, b.kind \notin SpokenKinds,
             c.kind \notin SpokenKinds,
             a.usage \in {NoUsage, l.usage}, b.usage \in {NoUsage, l.usage},
             c.usage \in {NoUsage, l.usage}
      PROVE  Fine(<<a, b, c>>)
  <2> DEFINE R == S \cup {a, b, c}
  <2>1. w \in Seq(R) /\ a \in R /\ b \in R /\ c \in R
    BY SeqMonotonic
  <2> HIDE DEF R
  <2>2. Mute(R, <<a, b, c>>) /\ (~UsageIn(<<a, b, c>>) \/ l.usage # NoUsage)
    BY <1>1, <2>1, ThreeFrames
  <2> QED
    BY <1>a, <2>1, <2>2
<1>2. \A k : k \notin SpokenKinds =>
        Mark(k).kind \notin SpokenKinds /\ Mark(k).usage = NoUsage
  BY DEF Mark, Frame
<1>3. \A k : k \notin SpokenKinds => Fine(<<Mark(k)>>)
  BY <1>b, <1>2
<1>4. /\ "[DONE]" \notin SpokenKinds /\ "]" \notin SpokenKinds
      /\ "contentBlockStop" \notin SpokenKinds /\ "messageStop" \notin SpokenKinds
      /\ "metadata" \notin SpokenKinds /\ "content_block_stop" \notin SpokenKinds
      /\ "message_delta" \notin SpokenKinds /\ "message_stop" \notin SpokenKinds
  BY DEF SpokenKinds
<1>5. CASE surface \in {"openai", "responses", "vertex"}
  BY <1>0, <1>3, <1>4, <1>5 DEF Closing, Fine
<1>6. CASE surface = "converse"
  <2> DEFINE a == Mark("contentBlockStop")
             b == Frame("messageStop", <<>>, FALSE, l.finish, NoUsage)
             c == Frame("metadata", <<>>, FALSE, "", l.usage)
  <2>1. /\ a.kind \notin SpokenKinds /\ b.kind \notin SpokenKinds
        /\ c.kind \notin SpokenKinds
        /\ a.usage \in {NoUsage, l.usage} /\ b.usage \in {NoUsage, l.usage}
        /\ c.usage \in {NoUsage, l.usage}
    BY <1>4 DEF Mark, Frame
  <2>2. Closing(surface, l) = <<a, b, c>>
    BY <1>6 DEF Closing
  <2> HIDE DEF a, b, c
  <2>3. Fine(<<a, b, c>>)
    BY <1>1, <2>1
  <2> QED
    BY <2>2, <2>3 DEF Fine
<1>7. CASE surface = "invoke"
  <2> DEFINE a == Mark("content_block_stop")
             b == Frame("message_delta", <<>>, FALSE, l.finish, l.usage)
             c == Mark("message_stop")
  <2>1. /\ a.kind \notin SpokenKinds /\ b.kind \notin SpokenKinds
        /\ c.kind \notin SpokenKinds
        /\ a.usage \in {NoUsage, l.usage} /\ b.usage \in {NoUsage, l.usage}
        /\ c.usage \in {NoUsage, l.usage}
    BY <1>4 DEF Mark, Frame
  <2>2. Closing(surface, l) = <<a, b, c>>
    BY <1>7 DEF Closing
  <2> HIDE DEF a, b, c
  <2>3. Fine(<<a, b, c>>)
    BY <1>1, <2>1
  <2> QED
    BY <2>2, <2>3 DEF Fine
<1> QED
  BY <1>5, <1>6, <1>7 DEF SurfaceNames

\* A reply in one piece is spoken as a whole.
LEMMA WholeSpoken ==
    ASSUME NEW W, NEW words \in Seq(W), NEW usage
    PROVE  LET v == WholeReply(words, usage)
           IN  (\E R : v \in Seq(R)) /\ Spoken(v) = words
<1> DEFINE f == Frame("body", words, FALSE, "stop", usage)
<1>1. f.kind \in SpokenKinds /\ f.words = words
  BY DEF Frame, SpokenKinds
<1>2. WholeReply(words, usage) = <<f>>
  BY DEF WholeReply
<1> HIDE DEF f
<1>3. <<>> \in Seq({f}) /\ f \in {f} /\ <<f>> \in Seq({f})
  OBVIOUS
<1>5. Spoken(<<>> \o <<f>>) = <<>> \o words
  BY <1>1, <1>3, NothingSpoken, SpokenMore
<1>6. <<>> \o <<f>> = <<f>> /\ <<>> \o words = words
  BY <1>3, ConcatEmptySeq
<1> QED
  BY <1>2, <1>3, <1>5, <1>6
=============================================================================
