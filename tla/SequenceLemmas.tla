---------------------------- MODULE SequenceLemmas ----------------------------
(***************************************************************************)
(* Induction for the proofs about queues and streams, stated with sets in  *)
(* place of operators, and what FlattenSeq of the community modules makes  *)
(* of a sequence of sequences.                                             *)
(***************************************************************************)
EXTENDS Integers, Sequences, SequencesExt, SequenceTheorems, WellFoundedInduction, TLAPS

\* A set of numbers with 0 and the successors of its members has all of them.
LEMMA NatSetInduction ==
    ASSUME NEW T, 0 \in T, \A n \in Nat : n \in T => n + 1 \in T
    PROVE  Nat \subseteq T
<1> DEFINE Rest == Nat \ T
           Less == {p \in Nat \X Nat : p[1] < p[2]}
<1>1. IsWellFoundedOn(Less, Nat)
  BY NatLessThanWellFounded DEF OpToRel
<1>2. SUFFICES ASSUME Rest # {} PROVE FALSE
  OBVIOUS
<1>3. PICK n \in Rest : \A k \in Rest : <<k, n>> \notin Less
  <2>. Rest \subseteq Nat
    OBVIOUS
  <2>. HIDE DEF Rest, Less
  <2>. QED BY <1>1, <1>2, WFMin
<1>4. n \in Nat /\ n # 0 /\ n - 1 \in Nat /\ n - 1 < n /\ (n - 1) + 1 = n
  OBVIOUS
<1>5. n - 1 \in T
  BY <1>3, <1>4
<1>. QED BY <1>4, <1>5

\* A set of sequences with the empty one and all that begin with a member of it and
\* have one element more has all of them.
LEMMA SeqSetInduction ==
    ASSUME NEW S, NEW T,
           <<>> \in T,
           \A s \in Seq(S), e \in S : s \in T => Append(s, e) \in T
    PROVE  Seq(S) \subseteq T
<1> DEFINE N == {n \in Nat : \A s \in Seq(S) : Len(s) = n => s \in T}
<1>1. 0 \in N
  BY EmptySeq
<1>2. ASSUME NEW n \in Nat, n \in N
      PROVE  n + 1 \in N
  <2>1. SUFFICES ASSUME NEW s \in Seq(S), Len(s) = n + 1
                 PROVE  s \in T
    OBVIOUS
  <2>2. s # <<>>
    BY <2>1, EmptySeq
  <2>3. PICK r \in Seq(S), e \in S : s = Append(r, e)
    BY <2>2, SequenceEmptyOrAppend
  <2>4. Len(s) = Len(r) + 1 /\ Len(r) \in Nat
    BY <2>3, AppendProperties, LenProperties
  <2>5. Len(r) = n
    BY <2>1, <2>4
  <2>. QED BY <1>2, <2>3, <2>5
<1>3. Nat \subseteq N
  <2>. HIDE DEF N
  <2>. QED BY <1>1, <1>2, NatSetInduction
<1>. QED BY <1>3, LenProperties

-----------------------------------------------------------------------------
(* FlattenSeq *)

\* f[i] is the concatenation of the first i sequences of ss.
Flattens(f, ss, S) ==
    /\ f \in [1..Len(ss) -> Seq(S)]
    /\ \A i \in 1..Len(ss) : f[i] = IF i = 1 THEN ss[i] ELSE f[i - 1] \o ss[i]

\* The function that FlattenSeq chooses exists, and is what its recursion says.
LEMMA FlattenSeqRecursion ==
    ASSUME NEW S, NEW ss \in Seq(Seq(S)), Len(ss) # 0
    PROVE  \E f : Flattens(f, ss, S) /\ FlattenSeq(ss) = f[Len(ss)]
<1> DEFINE Part(f, n) == /\ f \in [1..n -> Seq(S)]
                         /\ \A i \in 1..n : f[i] = IF i = 1 THEN ss[i] ELSE f[i - 1] \o ss[i]
           N == {n \in Nat : n <= Len(ss) => \E f : Part(f, n)}
<1>1. Len(ss) \in Nat /\ \A i \in 1..Len(ss) : ss[i] \in Seq(S)
  BY LenProperties, ElementOfSeq
<1>2. 0 \in N
  <2>1. Part([i \in 1..0 |-> <<>>], 0)
    OBVIOUS
  <2>. QED BY <2>1
<1>3. ASSUME NEW n \in Nat, n \in N
      PROVE  n + 1 \in N
  <2>1. SUFFICES ASSUME n + 1 <= Len(ss)
                 PROVE  \E f : Part(f, n + 1)
    OBVIOUS
  <2>2. PICK f : Part(f, n)
    BY <1>1, <1>3, <2>1
  <2> DEFINE g == [i \in 1..(n + 1) |->
                      IF i = 1 THEN ss[i] ELSE f[i - 1] \o ss[i]]
  <2>3. \A i \in 1..(n + 1) : i # 1 => i - 1 \in 1..n
    OBVIOUS
  <2>4. \A i \in 1..(n + 1) : g[i] \in Seq(S)
    BY <1>1, <2>1, <2>2, <2>3, ConcatProperties
  <2>5. ASSUME NEW i \in 1..n
        PROVE  g[i] = f[i]
    <3>1. f[i] = IF i = 1 THEN ss[i] ELSE f[i - 1] \o ss[i]
      BY <2>2
    <3>2. i \in 1..(n + 1)
      OBVIOUS
    <3>. QED BY <3>1, <3>2
  <2>6. Part(g, n + 1)
    <3>1. g \in [1..(n + 1) -> Seq(S)]
      BY <2>4
    <3>2. \A i \in 1..(n + 1) : g[i] = IF i = 1 THEN ss[i] ELSE g[i - 1] \o ss[i]
      BY <2>3, <2>5
    <3>. QED BY <3>1, <3>2
  <2>. QED BY <2>6
<1>4. \E f : Part(f, Len(ss))
  <2>1. Nat \subseteq N
    <3>. HIDE DEF N
    <3>. QED BY <1>2, <1>3, NatSetInduction
  <2>2. Len(ss) \in N
    <3>. HIDE DEF N
    <3>. QED BY <1>1, <2>1
  <2>. HIDE DEF Part
  <2>. QED BY <1>1, <2>2
<1> DEFINE Defined(f) == f = [i \in 1..Len(ss) |-> IF i = 1 THEN ss[i] ELSE f[i - 1] \o ss[i]]
           F == CHOOSE f : Defined(f)
<1>5. \E f : Defined(f)
  <2>1. PICK f : Part(f, Len(ss))
    BY <1>4
  <2>2. Defined(f)
    BY <2>1
  <2>. QED BY <2>2
<1>6. Defined(F)
  BY <1>5
<1>7. FlattenSeq(ss) = F[Len(ss)]
  BY DEF FlattenSeq
<1>8. \A i \in 1..Len(ss) : F[i] = IF i = 1 THEN ss[i] ELSE F[i - 1] \o ss[i]
  <2>. HIDE DEF F
  <2>. QED BY <1>6
<1>9. \A i \in 1..Len(ss) : F[i] \in Seq(S)
  <2> DEFINE M == {n \in Nat : n + 1 \in 1..Len(ss) => F[n + 1] \in Seq(S)}
  <2>. HIDE DEF F
  <2>1. 0 \in M
    BY <1>1, <1>8
  <2>2. ASSUME NEW n \in Nat, n \in M
        PROVE  n + 1 \in M
    <3>1. SUFFICES ASSUME (n + 1) + 1 \in 1..Len(ss)
                   PROVE  F[(n + 1) + 1] \in Seq(S)
      OBVIOUS
    <3>2. F[n + 1] \in Seq(S)
      BY <1>1, <2>2, <3>1
    <3> DEFINE i == (n + 1) + 1
    <3>3. F[i] = F[n + 1] \o ss[i]
      <4>1. F[i] = IF i = 1 THEN ss[i] ELSE F[i - 1] \o ss[i]
        BY <1>8, <3>1
      <4>2. i # 1 /\ i - 1 = n + 1
        OBVIOUS
      <4>. QED BY <4>1, <4>2
    <3>. QED BY <1>1, <3>1, <3>2, <3>3, ConcatProperties
  <2>3. Nat \subseteq M
    <3>. HIDE DEF M
    <3>. QED BY <2>1, <2>2, NatSetInduction
  <2>. SUFFICES ASSUME NEW i \in 1..Len(ss) PROVE F[i] \in Seq(S)
    OBVIOUS
  <2>4. i - 1 \in Nat /\ (i - 1) + 1 = i
    BY <1>1
  <2>. QED BY <2>3, <2>4
<1>10. F = [i \in 1..Len(ss) |-> F[i]]
  <2>. HIDE DEF F
  <2>. QED BY <1>6
<1>11. Flattens(F, ss, S)
  <2>. HIDE DEF F
  <2>. QED BY <1>8, <1>9, <1>10 DEF Flattens
<1>. QED BY <1>7, <1>11

\* The concatenation of the first n sequences depends on those alone.
LEMMA FlattensPrefix ==
    ASSUME NEW S, NEW ss \in Seq(Seq(S)), NEW tt \in Seq(Seq(S)),
           NEW f, NEW g, Flattens(f, ss, S), Flattens(g, tt, S),
           NEW n \in 1..Len(ss), n <= Len(tt), \A i \in 1..n : ss[i] = tt[i]
    PROVE  f[n] = g[n]
<1> DEFINE M == {k \in Nat : k + 1 \in 1..n => f[k + 1] = g[k + 1]}
<1>1. Len(ss) \in Nat /\ Len(tt) \in Nat
  BY LenProperties
<1>2. ASSUME NEW i \in 1..n
      PROVE  /\ f[i] = IF i = 1 THEN ss[i] ELSE f[i - 1] \o ss[i]
             /\ g[i] = IF i = 1 THEN ss[i] ELSE g[i - 1] \o ss[i]
  <2>1. i \in 1..Len(ss) /\ i \in 1..Len(tt) /\ ss[i] = tt[i]
    BY <1>1
  <2>2. f[i] = IF i = 1 THEN ss[i] ELSE f[i - 1] \o ss[i]
    BY <2>1 DEF Flattens
  <2>3. g[i] = IF i = 1 THEN tt[i] ELSE g[i - 1] \o tt[i]
    BY <2>1 DEF Flattens
  <2>. QED BY <2>1, <2>2, <2>3
<1>3. 0 \in M
  BY <1>2
<1>4. ASSUME NEW k \in Nat, k \in M
      PROVE  k + 1 \in M
  <2> DEFINE i == (k + 1) + 1
  <2>1. SUFFICES ASSUME i \in 1..n
                 PROVE  f[i] = g[i]
    OBVIOUS
  <2>2. i # 1 /\ i - 1 = k + 1 /\ k + 1 \in 1..n
    BY <1>1, <2>1
  <2>3. f[i - 1] = g[i - 1]
    BY <1>4, <2>2
  <2>4. f[i] = f[i - 1] \o ss[i] /\ g[i] = g[i - 1] \o ss[i]
    BY <1>2, <2>1, <2>2
  <2>. QED BY <2>3, <2>4
<1>5. Nat \subseteq M
  <2>. HIDE DEF M
  <2>. QED BY <1>3, <1>4, NatSetInduction
<1>6. n - 1 \in Nat /\ (n - 1) + 1 = n
  BY <1>1
<1>7. n - 1 \in M
  <2>. HIDE DEF M
  <2>. QED BY <1>5, <1>6
<1>. QED BY <1>6, <1>7

LEMMA FlattenEmpty == FlattenSeq(<<>>) = <<>>
BY EmptySeq DEF FlattenSeq

LEMMA FlattenType ==
    ASSUME NEW S, NEW ss \in Seq(Seq(S))
    PROVE  FlattenSeq(ss) \in Seq(S)
<1>1. CASE Len(ss) = 0
  <2>1. ss = <<>>
    BY <1>1, EmptySeq
  <2>. QED BY <2>1, FlattenEmpty, EmptySeq
<1>2. CASE Len(ss) # 0
  <2>1. PICK f : Flattens(f, ss, S) /\ FlattenSeq(ss) = f[Len(ss)]
    BY <1>2, FlattenSeqRecursion
  <2>2. Len(ss) \in 1..Len(ss)
    BY <1>2, LenProperties
  <2>. QED BY <2>1, <2>2 DEF Flattens
<1>. QED BY <1>1, <1>2

\* A sequence more at the end.
LEMMA FlattenAppend ==
    ASSUME NEW S, NEW ss \in Seq(Seq(S)), NEW x \in Seq(S)
    PROVE  FlattenSeq(Append(ss, x)) = FlattenSeq(ss) \o x
<1> DEFINE tt == Append(ss, x)
           n == Len(ss)
<1>1. /\ tt \in Seq(Seq(S)) /\ Len(tt) = n + 1 /\ n \in Nat
      /\ \A i \in 1..n : tt[i] = ss[i]
      /\ tt[n + 1] = x
  BY AppendProperties, LenProperties
<1>. HIDE DEF tt, n
<1>2. PICK g : Flattens(g, tt, S) /\ FlattenSeq(tt) = g[n + 1]
  BY <1>1, FlattenSeqRecursion
<1>3. g[n + 1] = IF n + 1 = 1 THEN x ELSE g[(n + 1) - 1] \o x
  <2>1. n + 1 \in 1..Len(tt)
    BY <1>1
  <2>2. g[n + 1] = IF n + 1 = 1 THEN tt[n + 1] ELSE g[(n + 1) - 1] \o tt[n + 1]
    BY <1>2, <2>1 DEF Flattens
  <2>. QED BY <1>1, <2>2
<1>4. CASE n = 0
  <2>1. ss = <<>>
    BY <1>4, EmptySeq DEF n
  <2>. QED BY <1>2, <1>3, <1>4, <2>1, FlattenEmpty, ConcatEmptySeq DEF tt
<1>5. CASE n # 0
  <2>1. PICK f : Flattens(f, ss, S) /\ FlattenSeq(ss) = f[n]
    BY <1>5, FlattenSeqRecursion DEF n
  <2>2. f[n] = g[n]
    <3>1. n \in 1..Len(ss) /\ n <= Len(tt)
      BY <1>1, <1>5 DEF n
    <3>2. \A i \in 1..n : ss[i] = tt[i]
      BY <1>1
    <3>3. tt \in Seq(Seq(S)) /\ Flattens(f, ss, S) /\ Flattens(g, tt, S)
      BY <1>1, <1>2, <2>1
    <3>. QED BY <3>1, <3>2, <3>3, FlattensPrefix
  <2>3. (n + 1) - 1 = n /\ n + 1 # 1
    <3>1. n \in Nat
      BY <1>1
    <3>. QED BY <3>1, <1>5
  <2>. QED BY <1>2, <1>3, <2>1, <2>2, <2>3 DEF tt
<1>. QED BY <1>4, <1>5 DEF tt

LEMMA FlattenOne ==
    ASSUME NEW S, NEW x \in Seq(S)
    PROVE  FlattenSeq(<<x>>) = x
<1>1. <<x>> = Append(<<>>, x) /\ <<>> \in Seq(Seq(S))
  BY EmptySeq
<1>2. FlattenSeq(Append(<<>>, x)) = FlattenSeq(<<>>) \o x
  BY <1>1, FlattenAppend
<1>3. <<>> \o x = x
  BY ConcatEmptySeq
<1>. QED BY <1>1, <1>2, <1>3, FlattenEmpty

\* The parts of a sequence of sequences one after the other.
LEMMA FlattenConcat ==
    ASSUME NEW S, NEW ss \in Seq(Seq(S)), NEW tt \in Seq(Seq(S))
    PROVE  FlattenSeq(ss \o tt) = FlattenSeq(ss) \o FlattenSeq(tt)
<1> DEFINE T == {uu \in Seq(Seq(S)) : FlattenSeq(ss \o uu) = FlattenSeq(ss) \o FlattenSeq(uu)}
<1>1. <<>> \in T
  BY EmptySeq, ConcatEmptySeq, FlattenEmpty, FlattenType
<1>2. ASSUME NEW uu \in Seq(Seq(S)), NEW x \in Seq(S), uu \in T
      PROVE  Append(uu, x) \in T
  <2>1. /\ Append(uu, x) \in Seq(Seq(S)) /\ Append(uu, x) = uu \o <<x>>
        /\ ss \o uu \in Seq(Seq(S)) /\ <<x>> \in Seq(Seq(S))
    BY AppendProperties, AppendIsConcat, ConcatProperties
  <2>2. ss \o Append(uu, x) = Append(ss \o uu, x)
    <3>1. Append(ss \o uu, x) = (ss \o uu) \o <<x>>
      BY <2>1, AppendIsConcat
    <3>2. (ss \o uu) \o <<x>> = ss \o (uu \o <<x>>)
      BY <2>1, ConcatAssociative, SMTT(60)
    <3>. QED BY <2>1, <3>1, <3>2
  <2>3. FlattenSeq(ss \o Append(uu, x)) = (FlattenSeq(ss) \o FlattenSeq(uu)) \o x
    <3>1. FlattenSeq(Append(ss \o uu, x)) = FlattenSeq(ss \o uu) \o x
      BY <2>1, FlattenAppend
    <3>. QED BY <1>2, <2>2, <3>1
  <2>4. @ = FlattenSeq(ss) \o FlattenSeq(Append(uu, x))
    <3> DEFINE a == FlattenSeq(ss)
               b == FlattenSeq(uu)
    <3>1. a \in Seq(S) /\ b \in Seq(S)
      BY FlattenType
    <3>2. FlattenSeq(Append(uu, x)) = b \o x
      BY FlattenAppend
    <3>. HIDE DEF a, b
    <3>3. (a \o b) \o x = a \o (b \o x)
      BY <3>1, ConcatAssociative, SMTT(60)
    <3>. QED BY <3>2, <3>3 DEF a, b
  <2>. QED BY <2>1, <2>3, <2>4
<1>3. Seq(Seq(S)) \subseteq T
  <2>. HIDE DEF T
  <2>. QED BY <1>1, <1>2, SeqSetInduction
<1>. QED BY <1>3

LEMMA HeadTailConcat ==
    ASSUME NEW S, NEW s \in Seq(S), s # <<>>
    PROVE  /\ s = <<Head(s)>> \o Tail(s) /\ <<Head(s)>> \in Seq(S)
           /\ Head(s) = s[1] /\ Tail(s) \in Seq(S) /\ Head(s) \in S
<1>1. Len(s) \in Nat \ {0} /\ s[1] \in S
  <2>1. Len(s) \in Nat \ {0}
    BY EmptySeq
  <2>. QED BY <2>1, ElementOfSeq
<1>2. s = SubSeq(s, 1, Len(s))
  BY SubSeqFull
<1>3. SubSeq(s, 1, Len(s)) = <<s[1]>> \o SubSeq(s, 2, Len(s))
  BY <1>1, SubSeqRecursiveFirst
<1>4. Tail(s) = SubSeq(s, 2, Len(s)) /\ Tail(s) \in Seq(S)
  BY TailIsSubSeq, HeadTailProperties
<1>5. Head(s) = s[1]
  OBVIOUS
<1>. QED BY <1>1, <1>2, <1>3, <1>4, <1>5

\* The first sequence, and the others.
LEMMA FlattenHeadTail ==
    ASSUME NEW S, NEW ss \in Seq(Seq(S)), ss # <<>>
    PROVE  FlattenSeq(ss) = ss[1] \o FlattenSeq(Tail(ss))
<1>1. /\ ss = <<ss[1]>> \o Tail(ss) /\ Tail(ss) \in Seq(Seq(S))
      /\ <<ss[1]>> \in Seq(Seq(S)) /\ ss[1] \in Seq(S)
  BY HeadTailConcat
<1>2. FlattenSeq(<<ss[1]>> \o Tail(ss)) = FlattenSeq(<<ss[1]>>) \o FlattenSeq(Tail(ss))
  BY <1>1, FlattenConcat
<1>3. FlattenSeq(<<ss[1]>>) = ss[1]
  BY <1>1, FlattenOne
<1>. QED BY <1>1, <1>2, <1>3

LEMMA FrontLastConcat ==
    ASSUME NEW S, NEW s \in Seq(S), s # <<>>
    PROVE  /\ s = Front(s) \o <<Last(s)>> /\ s = Append(Front(s), Last(s))
           /\ Front(s) \in Seq(S) /\ Last(s) \in S /\ <<Last(s)>> \in Seq(S)
           /\ Len(Front(s)) = Len(s) - 1
<1> DEFINE n == Len(s)
<1>1. n \in Nat \ {0} /\ n \in 1..n
  BY EmptySeq
<1>2. s[n] \in S /\ \A i \in 1..(n - 1) : s[i] \in S
  BY <1>1, ElementOfSeq
<1>3. SubSeq(s, 1, n - 1) \in Seq(S) /\ Len(SubSeq(s, 1, n - 1)) = n - 1
  <2>. HIDE DEF n
  <2>1. n - 1 \in Nat
    BY <1>1
  <2>2. Len(SubSeq(s, 1, n - 1)) = IF 1 <= n - 1 THEN (n - 1) - 1 + 1 ELSE 0
    BY <1>2, <2>1, SubSeqProperties
  <2>3. SubSeq(s, 1, n - 1) \in Seq(S)
    BY <1>2, <2>1, SubSeqProperties, SMTT(60)
  <2>. QED BY <2>1, <2>2, <2>3
<1>4. s = SubSeq(s, 1, n - 1) \o <<s[n]>>
  <2>1. s = SubSeq(s, 1, n)
    BY SubSeqFull
  <2>2. SubSeq(s, 1, n) = SubSeq(s, 1, n - 1) \o <<s[n]>>
    BY <1>1, SubSeqRecursiveSecond
  <2>. QED BY <2>1, <2>2
<1>5. Append(SubSeq(s, 1, n - 1), s[n]) = SubSeq(s, 1, n - 1) \o <<s[n]>>
  BY <1>2, <1>3, AppendIsConcat
<1>6. Front(s) = SubSeq(s, 1, n - 1) /\ Last(s) = s[n]
  BY DEF Front, Last
<1>7. <<s[n]>> \in Seq(S)
  BY <1>2
<1>. HIDE DEF n
<1>. QED BY <1>2, <1>3, <1>4, <1>5, <1>6, <1>7 DEF n

\* The last sequence, and those before it.
LEMMA FlattenFrontLast ==
    ASSUME NEW S, NEW ss \in Seq(Seq(S)), ss # <<>>
    PROVE  FlattenSeq(ss) = FlattenSeq(Front(ss)) \o Last(ss)
<1>1. ss = Append(Front(ss), Last(ss)) /\ Front(ss) \in Seq(Seq(S)) /\ Last(ss) \in Seq(S)
  BY FrontLastConcat
<1>2. FlattenSeq(Append(Front(ss), Last(ss))) = FlattenSeq(Front(ss)) \o Last(ss)
  BY <1>1, FlattenAppend
<1>. QED BY <1>1, <1>2


\* Another last element.
LEMMA ReplaceLast ==
    ASSUME NEW S, NEW s \in Seq(S), s # <<>>, NEW x \in S
    PROVE  [s EXCEPT ![Len(s)] = x] = Append(Front(s), x)
<1> DEFINE n == Len(s)
           t == [s EXCEPT ![n] = x]
           u == Append(Front(s), x)
<1>1. n \in Nat \ {0} /\ n \in 1..Len(s)
  BY EmptySeq
<1>2. t \in Seq(S) /\ Len(t) = n /\ \A j \in 1..n : t[j] = IF j = n THEN x ELSE s[j]
  BY <1>1, ExceptSeq
<1>3. Front(s) \in Seq(S) /\ Len(Front(s)) = n - 1
  BY FrontLastConcat
<1>4. \A j \in 1..(n - 1) : Front(s)[j] = s[j]
  <2>1. s = Append(Front(s), Last(s)) /\ Last(s) \in S
    BY FrontLastConcat
  <2>2. \A j \in 1..Len(Front(s)) : Append(Front(s), Last(s))[j] = Front(s)[j]
    BY <1>3, <2>1, AppendProperties
  <2>. QED BY <1>3, <2>1, <2>2
<1>5. /\ u \in Seq(S) /\ Len(u) = n /\ u[n] = x
      /\ \A j \in 1..(n - 1) : u[j] = s[j]
  <2>1. /\ u \in Seq(S) /\ Len(u) = Len(Front(s)) + 1
        /\ \A j \in 1..Len(Front(s)) : u[j] = Front(s)[j]
        /\ u[Len(Front(s)) + 1] = x
    BY <1>3, AppendProperties
  <2>2. (n - 1) + 1 = n
    BY <1>1
  <2>. QED BY <1>3, <1>4, <2>1, <2>2
<1>6. ASSUME NEW j \in 1..n
      PROVE  t[j] = u[j]
  <2>1. j = n \/ j \in 1..(n - 1)
    BY <1>1
  <2>. HIDE DEF t, u, n
  <2>. QED BY <1>1, <1>2, <1>5, <2>1
<1>. HIDE DEF t, u
<1>7. t = u
  BY <1>2, <1>5, <1>6, SeqEqual, SMTT(60)
<1>. QED BY <1>7 DEF t, u

\* A sequence cut in two.
LEMMA CutConcat ==
    ASSUME NEW S, NEW s \in Seq(S), NEW n \in 0..Len(s)
    PROVE  /\ s = SubSeq(s, 1, n) \o SubSeq(s, n + 1, Len(s))
           /\ SubSeq(s, 1, n) \in Seq(S) /\ Len(SubSeq(s, 1, n)) = n
           /\ SubSeq(s, n + 1, Len(s)) \in Seq(S)
           /\ Len(SubSeq(s, n + 1, Len(s))) = Len(s) - n
<1> DEFINE m == Len(s)
<1>1. m \in Nat /\ n \in Nat /\ n <= m
  BY LenProperties
<1>2. \A i \in 1..m : s[i] \in S
  BY ElementOfSeq
<1>3. SubSeq(s, 1, n) \o SubSeq(s, n + 1, m) = SubSeq(s, 1, m)
  <2>1. 1 \in 1..(m + 1) /\ n \in (1 - 1)..m /\ m \in n..m
    <3>. HIDE DEF m
    <3>. QED BY <1>1
  <2>. QED BY <2>1, ConcatAdjacentSubSeq
<1>4. SubSeq(s, 1, m) = s
  BY SubSeqFull
<1>5. SubSeq(s, 1, n) \in Seq(S) /\ Len(SubSeq(s, 1, n)) = n
  <2>. HIDE DEF m
  <2>1. \A i \in 1..n : s[i] \in S
    BY <1>1, <1>2
  <2>2. Len(SubSeq(s, 1, n)) = IF 1 <= n THEN n - 1 + 1 ELSE 0
    BY <1>1, <2>1, SubSeqProperties
  <2>3. SubSeq(s, 1, n) \in Seq(S)
    BY <1>1, <2>1, SubSeqProperties
  <2>. QED BY <1>1, <2>2, <2>3
<1>6. SubSeq(s, n + 1, m) \in Seq(S) /\ Len(SubSeq(s, n + 1, m)) = m - n
  <2>. HIDE DEF m
  <2>1. \A i \in (n + 1)..m : s[i] \in S
    BY <1>1, <1>2
  <2>2. n + 1 \in Int
    BY <1>1
  <2>3. Len(SubSeq(s, n + 1, m)) = IF n + 1 <= m THEN m - (n + 1) + 1 ELSE 0
    BY <1>1, <2>1, <2>2, SubSeqProperties
  <2>4. SubSeq(s, n + 1, m) \in Seq(S)
    BY <1>1, <2>1, <2>2, SubSeqProperties
  <2>. QED BY <1>1, <2>3, <2>4
<1>. HIDE DEF m
<1>. QED BY <1>3, <1>4, <1>5, <1>6 DEF m

\* A concatenation is cut where its parts meet.
LEMMA CutAt ==
    ASSUME NEW S, NEW s \in Seq(S), NEW t \in Seq(S)
    PROVE  /\ SubSeq(s \o t, 1, Len(s)) = s
           /\ SubSeq(s \o t, Len(s) + 1, Len(s \o t)) = t
<1> DEFINE m == Len(s)
           u == s \o t
           p == SubSeq(u, 1, m)
           q == SubSeq(u, m + 1, Len(u))
<1>1. /\ m \in Nat /\ Len(t) \in Nat /\ u \in Seq(S) /\ Len(u) = m + Len(t)
      /\ \A i \in 1..(m + Len(t)) : u[i] = IF i <= m THEN s[i] ELSE t[i - m]
  BY ConcatProperties, LenProperties
<1>. HIDE DEF u
<1>2. m \in 0..Len(u)
  BY <1>1
<1>3. u = p \o q /\ p \in Seq(S) /\ Len(p) = m /\ q \in Seq(S)
  BY <1>1, <1>2, CutConcat
<1>4. \A i \in 1..m : u[i] \in S
  BY <1>1, ElementOfSeq
<1>5. \A i \in 1..(m - 1 + 1) : p[i] = u[1 + i - 1]
  BY <1>1, <1>4, SubSeqProperties
<1>. HIDE DEF p, q
<1>6. ASSUME NEW i \in 1..m
      PROVE  p[i] = s[i]
  <2>1. /\ i \in 1..(m - 1 + 1) /\ 1 + i - 1 = i
        /\ i \in 1..(m + Len(t)) /\ i <= m
    BY <1>1
  <2>2. p[i] = u[i]
    <3>1. p[i] = u[1 + i - 1]
      BY <1>5, <2>1
    <3>. QED BY <2>1, <3>1
  <2>. QED BY <1>1, <2>1, <2>2
<1>7. p = s
  BY <1>3, <1>6, SeqEqual
<1>8. s \o q = s \o t
  BY <1>3, <1>7 DEF u
<1>9. q = t
  BY <1>3, <1>8, ConcatSimplifications
<1>. QED BY <1>7, <1>9 DEF p, q, u

\* What is left of s behind its first k elements.
Behind(s, k) == SubSeq(s, k + 1, Len(s))

LEMMA CutBehind ==
    ASSUME NEW S, NEW s \in Seq(S), NEW n \in 0..Len(s)
    PROVE  /\ s = SubSeq(s, 1, n) \o Behind(s, n)
           /\ SubSeq(s, 1, n) \in Seq(S) /\ Len(SubSeq(s, 1, n)) = n
           /\ Behind(s, n) \in Seq(S) /\ Len(Behind(s, n)) = Len(s) - n
<1>1. Behind(s, n) = SubSeq(s, n + 1, Len(s))
  BY DEF Behind
<1> DEFINE p == SubSeq(s, 1, n)
           q == SubSeq(s, n + 1, Len(s))
<1>2. s = p \o q /\ p \in Seq(S) /\ Len(p) = n /\ q \in Seq(S) /\ Len(q) = Len(s) - n
  BY CutConcat, ZenonT(60)
<1>. HIDE DEF p, q
<1>3. Behind(s, n) = q
  BY <1>1 DEF q
<1>4. SubSeq(s, 1, n) = p
  BY DEF p
<1>. QED BY <1>2, <1>3, <1>4

LEMMA BehindConcat ==
    ASSUME NEW S, NEW s \in Seq(S), NEW t \in Seq(S)
    PROVE  /\ \A k \in 0..Len(s) : Behind(s \o t, k) = Behind(s, k) \o t
           /\ \A k \in 0..Len(t) : Behind(s \o t, Len(s) + k) = Behind(t, k)
<1>1. ASSUME NEW k \in 0..Len(s)
      PROVE  Behind(s \o t, k) = Behind(s, k) \o t
  <2> DEFINE p == SubSeq(s, 1, k)
             q == Behind(s, k)
  <2>1. s = p \o q /\ p \in Seq(S) /\ Len(p) = k /\ q \in Seq(S)
    BY CutBehind
  <2>. HIDE DEF p, q
  <2>2. s \o t = p \o (q \o t) /\ q \o t \in Seq(S)
    BY <2>1, ConcatAssociative, ConcatProperties, SMTT(60)
  <2>3. Behind(p \o (q \o t), Len(p)) = q \o t
    BY <2>1, <2>2, CutAt DEF Behind
  <2>. QED BY <2>1, <2>2, <2>3 DEF q
<1>2. ASSUME NEW k \in 0..Len(t)
      PROVE  Behind(s \o t, Len(s) + k) = Behind(t, k)
  <2> DEFINE p == SubSeq(t, 1, k)
             q == Behind(t, k)
  <2>1. t = p \o q /\ p \in Seq(S) /\ Len(p) = k /\ q \in Seq(S)
    BY CutBehind
  <2>. HIDE DEF p, q
  <2>2. s \o t = (s \o p) \o q /\ s \o p \in Seq(S)
    BY <2>1, ConcatAssociative, ConcatProperties, SMTT(60)
  <2>3. Len(s \o p) = Len(s) + k
    BY <2>1, ConcatProperties
  <2>4. Behind((s \o p) \o q, Len(s \o p)) = q
    BY <2>1, <2>2, CutAt DEF Behind
  <2>. QED BY <2>2, <2>3, <2>4 DEF q
<1>. QED BY <1>1, <1>2

-----------------------------------------------------------------------------
(* FoldLeft.  Its value is that of a function on the sets of indices, which *)
(* CHOOSE picks.  A fold is to be shown to be one whose step is a function  *)
(* of what was computed and the next element.                              *)

\* A set of indices that is not empty has a greatest one.
LEMMA MaxExists ==
    ASSUME NEW n \in Nat, NEW s \in SUBSET (1..n), s # {}
    PROVE  Max(s) \in s /\ \A y \in s : Max(s) >= y
<1> DEFINE Has(t) == \E x \in t : \A y \in t : x >= y
           N == {m \in Nat : \A t \in SUBSET (1..m) : t # {} => Has(t)}
<1>1. 0 \in N
  <2>1. 1..0 = {}
    OBVIOUS
  <2>. HIDE DEF Has
  <2>. QED BY <2>1
<1>2. ASSUME NEW m \in Nat, m \in N
      PROVE  m + 1 \in N
  <2>1. SUFFICES ASSUME NEW t \in SUBSET (1..(m + 1)), t # {}
                 PROVE  Has(t)
    OBVIOUS
  <2>2. CASE m + 1 \in t
    <3>1. \A y \in t : m + 1 >= y
      OBVIOUS
    <3>. QED BY <2>2, <3>1
  <2>3. CASE m + 1 \notin t
    <3>1. t \in SUBSET (1..m)
      BY <2>3
    <3>. QED BY <1>2, <2>1, <3>1
  <2>. QED BY <2>2, <2>3
<1>3. Nat \subseteq N
  <2>. HIDE DEF N
  <2>. QED BY <1>1, <1>2, NatSetInduction
<1>4. Has(s)
  BY <1>3
<1>. QED BY <1>4 DEF Max

LEMMA MaxOfRange ==
    ASSUME NEW k \in Nat
    PROVE  Max(1..(k + 1)) = k + 1 /\ (1..(k + 1)) \ {k + 1} = 1..k
<1>1. /\ Max(1..(k + 1)) \in 1..(k + 1)
      /\ \A y \in 1..(k + 1) : Max(1..(k + 1)) >= y
  <2> DEFINE n == k + 1
  <2>1. n \in Nat /\ 1..n \in SUBSET (1..n) /\ 1..n # {}
    OBVIOUS
  <2>. HIDE DEF n
  <2>2. Max(1..n) \in 1..n /\ \A y \in 1..n : Max(1..n) >= y
    BY <2>1, MaxExists
  <2>. QED BY <2>2 DEF n
<1>. QED BY <1>1

\* What a fold comes to for each set of indices, step by step from the greatest.
FoldsBy(it, base, seq, step) ==
    it = [s \in SUBSET DOMAIN seq |->
             IF s = {} THEN base ELSE step[<<it[s \ {Max(s)}], seq[Max(s)]>>]]

\* f goes through the indices up to n and takes a step at those that are in s.
RunsBy(f, n, s, base, seq, step, A) ==
    /\ f \in [0..n -> A]
    /\ f[0] = base
    /\ \A i \in 1..n : f[i] = IF i \in s THEN step[<<f[i - 1], seq[i]>>] ELSE f[i - 1]

LEMMA RunExists ==
    ASSUME NEW A, NEW B, NEW base \in A, NEW seq \in Seq(B), NEW step \in [A \X B -> A],
           NEW s \in SUBSET DOMAIN seq
    PROVE  \E f : RunsBy(f, Len(seq), s, base, seq, step, A)
<1> DEFINE Run(f, n) == RunsBy(f, n, s, base, seq, step, A)
           N == {n \in Nat : n <= Len(seq) => \E f : Run(f, n)}
<1>1. 0 \in N
  <2>1. Run([i \in 0..0 |-> base], 0)
    BY DEF RunsBy
  <2>. QED BY <2>1
<1>2. ASSUME NEW n \in Nat, n \in N
      PROVE  n + 1 \in N
  <2>1. SUFFICES ASSUME n + 1 <= Len(seq)
                 PROVE  \E f : Run(f, n + 1)
    OBVIOUS
  <2>2. Len(seq) \in Nat /\ n + 1 \in 1..Len(seq) /\ seq[n + 1] \in B
    BY <2>1, LenProperties, ElementOfSeq
  <2>3. PICK f : Run(f, n)
    BY <1>2, <2>2
  <2> DEFINE v == IF n + 1 \in s THEN step[<<f[n], seq[n + 1]>>] ELSE f[n]
             g == [i \in 0..(n + 1) |-> IF i = n + 1 THEN v ELSE f[i]]
  <2>4. f[n] \in A
    BY <2>3 DEF RunsBy
  <2>5. v \in A
    BY <2>2, <2>4
  <2>. HIDE DEF v
  <2>6. g \in [0..(n + 1) -> A]
    BY <2>3, <2>5 DEF RunsBy
  <2>7. ASSUME NEW i \in 1..(n + 1)
        PROVE  g[i] = IF i \in s THEN step[<<g[i - 1], seq[i]>>] ELSE g[i - 1]
    <3>1. g[i - 1] = f[i - 1]
      OBVIOUS
    <3>2. CASE i = n + 1
      <4>1. g[n + 1] = v /\ i - 1 = n
        BY <3>2
      <4>. HIDE DEF g
      <4>. QED BY <3>1, <3>2, <4>1 DEF v
    <3>3. CASE i # n + 1
      <4>1. i \in 1..n /\ g[i] = f[i]
        BY <3>3
      <4>. QED BY <2>3, <3>1, <4>1 DEF RunsBy
    <3>. QED BY <3>2, <3>3
  <2>8. g[0] = base
    BY <2>3 DEF RunsBy
  <2>9. Run(g, n + 1)
    BY <2>6, <2>7, <2>8 DEF RunsBy
  <2>. QED BY <2>9
<1>3. Nat \subseteq N
  <2>. HIDE DEF N
  <2>. QED BY <1>1, <1>2, NatSetInduction
<1>. QED BY <1>3, LenProperties

Agree(f, g, n, s, t) ==
    \A k \in 0..n : (\A i \in 1..k : i \in s <=> i \in t) => f[k] = g[k]

Settles(f, n, s) ==
    \A k \in 0..n : (\A i \in (k + 1)..n : i \notin s) => f[n] = f[k]

\* Runs for sets that agree up to k agree up to k.
LEMMA RunsAgree ==
    ASSUME NEW A, NEW base, NEW seq, NEW step, NEW n \in Nat, NEW s, NEW t, NEW f, NEW g,
           RunsBy(f, n, s, base, seq, step, A), RunsBy(g, n, t, base, seq, step, A)
    PROVE  Agree(f, g, n, s, t)
<1>. SUFFICES ASSUME NEW k \in 0..n, \A i \in 1..k : i \in s <=> i \in t
              PROVE  f[k] = g[k]
  BY DEF Agree
<1> DEFINE N == {m \in Nat : m <= k => f[m] = g[m]}
<1>1. 0 \in N
  BY DEF RunsBy
<1>2. ASSUME NEW m \in Nat, m \in N
      PROVE  m + 1 \in N
  <2>1. SUFFICES ASSUME m + 1 <= k
                 PROVE  f[m + 1] = g[m + 1]
    OBVIOUS
  <2>2. m + 1 \in 1..n /\ m + 1 \in 1..k /\ (m + 1) - 1 = m /\ f[m] = g[m]
    BY <1>2, <2>1
  <2>3. /\ f[m + 1] = IF m + 1 \in s THEN step[<<f[m], seq[m + 1]>>] ELSE f[m]
        /\ g[m + 1] = IF m + 1 \in t THEN step[<<g[m], seq[m + 1]>>] ELSE g[m]
    BY <2>2 DEF RunsBy
  <2>. QED BY <2>2, <2>3
<1>3. Nat \subseteq N
  <2>. HIDE DEF N
  <2>. QED BY <1>1, <1>2, NatSetInduction
<1>. QED BY <1>3

\* Where no index is in the set any more, a run stays as it is.
LEMMA RunStays ==
    ASSUME NEW A, NEW base, NEW seq, NEW step, NEW n \in Nat, NEW s, NEW f,
           RunsBy(f, n, s, base, seq, step, A)
    PROVE  Settles(f, n, s)
<1>. SUFFICES ASSUME NEW k \in 0..n, \A i \in (k + 1)..n : i \notin s
              PROVE  f[n] = f[k]
  BY DEF Settles
<1> DEFINE N == {m \in Nat : k + m <= n => f[k + m] = f[k]}
<1>1. 0 \in N
  OBVIOUS
<1>2. ASSUME NEW m \in Nat, m \in N
      PROVE  m + 1 \in N
  <2>1. SUFFICES ASSUME k + (m + 1) <= n
                 PROVE  f[k + (m + 1)] = f[k]
    OBVIOUS
  <2>2. /\ k + (m + 1) \in 1..n /\ k + (m + 1) \in (k + 1)..n
        /\ (k + (m + 1)) - 1 = k + m /\ f[k + m] = f[k]
    BY <1>2, <2>1
  <2>. QED BY <2>2 DEF RunsBy
<1>3. Nat \subseteq N
  <2>. HIDE DEF N
  <2>. QED BY <1>1, <1>2, NatSetInduction
<1>4. n - k \in N /\ k + (n - k) = n
  BY <1>3
<1>. QED BY <1>4

\* Such a function exists, for every step within A.
LEMMA FoldExists ==
    ASSUME NEW A, NEW B, NEW base \in A, NEW seq \in Seq(B), NEW step \in [A \X B -> A]
    PROVE  \E it \in [SUBSET DOMAIN seq -> A] : FoldsBy(it, base, seq, step)
<1> DEFINE n == Len(seq)
           D == DOMAIN seq
           Run(f, s) == RunsBy(f, n, s, base, seq, step, A)
           F == [s \in SUBSET D |-> CHOOSE f : Run(f, s)]
           it == [s \in SUBSET D |-> F[s][n]]
<1>1. n \in Nat /\ D = 1..n
  BY LenProperties
<1>. HIDE DEF n
<1>2. ASSUME NEW s \in SUBSET D
      PROVE  Run(F[s], s)
  <2>1. \E f : Run(f, s)
    BY RunExists DEF n
  <2>. HIDE DEF Run
  <2>. QED BY <2>1
<1>. HIDE DEF F
<1>a. ASSUME NEW s \in SUBSET D
      PROVE  Settles(F[s], n, s)
  <2>1. RunsBy(F[s], n, s, base, seq, step, A)
    BY <1>2
  <2>2. n \in Nat
    BY <1>1
  <2>. QED BY <2>1, <2>2, RunStays
<1>b. ASSUME NEW s \in SUBSET D, NEW t \in SUBSET D
      PROVE  Agree(F[s], F[t], n, s, t)
  <2>1. RunsBy(F[s], n, s, base, seq, step, A) /\ RunsBy(F[t], n, t, base, seq, step, A)
    BY <1>2
  <2>2. n \in Nat
    BY <1>1
  <2>. QED BY <2>1, <2>2, RunsAgree
<1>3. it \in [SUBSET D -> A]
  <2>1. \A s \in SUBSET D : F[s][n] \in A
    BY <1>1, <1>2 DEF RunsBy
  <2>. QED BY <2>1
<1>4. ASSUME NEW s \in SUBSET D
      PROVE  it[s] = IF s = {} THEN base ELSE step[<<it[s \ {Max(s)}], seq[Max(s)]>>]
  <2>1. it[s] = F[s][n] /\ Run(F[s], s)
    BY <1>2
  <2>2. CASE s = {}
    <3>1. 0 \in 0..n /\ \A i \in (0 + 1)..n : i \notin s
      BY <1>1, <2>2
    <3>2. F[s][n] = F[s][0]
      BY <1>a, <3>1 DEF Settles
    <3>3. F[s][0] = base
      BY <2>1 DEF RunsBy
    <3>. QED BY <2>1, <2>2, <3>2, <3>3
  <2>3. CASE s # {}
    <3> DEFINE x == Max(s)
               t == s \ {x}
    <3>1. x \in s /\ \A y \in s : x >= y
      BY <1>1, <2>3, MaxExists
    <3>. HIDE DEF x
    <3>2. x \in 1..n /\ x - 1 \in 0..n /\ x \in 0..n
      BY <1>1, <3>1
    <3>3. \A i \in (x + 1)..n : i \notin s
      BY <1>1, <3>1, <3>2
    <3>4. F[s][n] = F[s][x]
      BY <1>a, <3>2, <3>3 DEF Settles
    <3>5. F[s][x] = step[<<F[s][x - 1], seq[x]>>]
      BY <2>1, <3>1, <3>2 DEF RunsBy
    <3>6. t \in SUBSET D /\ it[t] = F[t][n] /\ Run(F[t], t)
      BY <1>2
    <3>7. \A i \in ((x - 1) + 1)..n : i \notin t
      BY <1>1, <3>1, <3>2
    <3>8. F[t][n] = F[t][x - 1]
      BY <1>a, <3>2, <3>6, <3>7 DEF Settles
    <3>9. \A i \in 1..(x - 1) : i \in t <=> i \in s
      BY <3>2
    <3>10. F[t][x - 1] = F[s][x - 1]
      BY <1>b, <3>2, <3>6, <3>9 DEF Agree
    <3>. QED BY <2>1, <2>3, <3>4, <3>5, <3>6, <3>8, <3>10 DEF x
  <2>. QED BY <2>2, <2>3
<1>5. FoldsBy(it, base, seq, step)
  BY <1>4 DEF FoldsBy
<1>. QED BY <1>3, <1>5

\* A fold, from one element to the next.
StepsBy(f, base, seq, step, A) ==
    /\ f \in [0..Len(seq) -> A]
    /\ f[0] = base
    /\ \A k \in 0..(Len(seq) - 1) : f[k + 1] = step[<<f[k], seq[k + 1]>>]

\* FoldsBy, of what need not be a function with values in A.
FoldsWithin(it, base, seq, step, A) ==
    /\ it[{}] = base
    /\ \A s \in SUBSET DOMAIN seq :
         s # {} /\ it[s \ {Max(s)}] \in A => it[s] = step[<<it[s \ {Max(s)}], seq[Max(s)]>>]

ComesTo(it, base, seq, step, A) ==
    \E f : StepsBy(f, base, seq, step, A) /\ f[Len(seq)] = it[DOMAIN seq]

LEMMA FoldSteps ==
    ASSUME NEW A, NEW B, NEW base \in A, NEW seq \in Seq(B), NEW step \in [A \X B -> A],
           NEW it, FoldsWithin(it, base, seq, step, A)
    PROVE  ComesTo(it, base, seq, step, A)
<1> DEFINE n == Len(seq)
           D == DOMAIN seq
           f == [k \in 0..n |-> it[1..k]]
<1>1. n \in Nat /\ D = 1..n /\ \A k \in 1..n : seq[k] \in B
  BY LenProperties, ElementOfSeq
<1>. HIDE DEF n, D
<1>2. f[0] = base /\ f[n] = it[D]
  <2>1. 1..0 = {} /\ 0 \in 0..n /\ n \in 0..n
    BY <1>1
  <2>. QED BY <1>1, <2>1 DEF FoldsWithin
<1>3. ASSUME NEW k \in 0..(n - 1), f[k] \in A
      PROVE  f[k + 1] = step[<<f[k], seq[k + 1]>>] /\ f[k + 1] \in A
  <2>1. /\ k \in Nat /\ k \in 0..n /\ k + 1 \in 0..n /\ k + 1 \in 1..n
        /\ 1..(k + 1) \in SUBSET D /\ 1 \in 1..(k + 1)
    BY <1>1
  <2>2. Max(1..(k + 1)) = k + 1 /\ (1..(k + 1)) \ {k + 1} = 1..k
    BY <2>1, MaxOfRange
  <2>3. f[k] = it[1..k] /\ f[k + 1] = it[1..(k + 1)]
    BY <2>1
  <2>. HIDE DEF f
  <2>4. f[k + 1] = step[<<f[k], seq[k + 1]>>]
    BY <1>3, <2>1, <2>2, <2>3 DEF FoldsWithin, D
  <2>. QED BY <1>1, <1>3, <2>1, <2>4
<1>4. \A k \in 0..n : f[k] \in A
  <2>. HIDE DEF f
  <2> DEFINE N == {k \in Nat : k <= n => f[k] \in A}
  <2>1. 0 \in N
    BY <1>2
  <2>2. ASSUME NEW k \in Nat, k \in N
        PROVE  k + 1 \in N
    <3>1. SUFFICES ASSUME k + 1 <= n
                   PROVE  f[k + 1] \in A
      OBVIOUS
    <3>2. k \in 0..(n - 1) /\ f[k] \in A
      BY <1>1, <2>2, <3>1
    <3>. QED BY <1>3, <3>2
  <2>3. Nat \subseteq N
    <3>. HIDE DEF N
    <3>. QED BY <2>1, <2>2, NatSetInduction
  <2>. QED BY <1>1, <2>3
<1>5. f \in [0..n -> A]
  BY <1>4
<1>. HIDE DEF f
<1>6. \A k \in 0..(n - 1) : f[k + 1] = step[<<f[k], seq[k + 1]>>]
  BY <1>1, <1>3, <1>4
<1>7. StepsBy(f, base, seq, step, A) /\ f[n] = it[D]
  BY <1>2, <1>5, <1>6 DEF StepsBy, n
<1>. QED BY <1>7 DEF ComesTo, n, D

-----------------------------------------------------------------------------
(* IsPrefix: a sequence, and what stands behind its beginning.             *)

LEMMA PrefixConcat ==
    ASSUME NEW S, NEW s \in Seq(S), NEW t \in Seq(S)
    PROVE  IsPrefix(s, s \o t)
<1>1. Len(s) <= Len(s \o t)
  BY ConcatProperties, LenProperties
<1>2. SubSeq(s \o t, 1, Len(s)) = s
  BY CutAt
<1>3. SubSeq(s, 1, Len(s)) = s
  BY SubSeqFull
<1>. QED BY <1>1, <1>2, <1>3 DEF IsPrefix

LEMMA PrefixRest ==
    ASSUME NEW S, NEW s \in Seq(S), NEW t \in Seq(S), IsPrefix(s, t)
    PROVE  t = s \o Behind(t, Len(s)) /\ Behind(t, Len(s)) \in Seq(S)
<1>1. Len(s) \in 0..Len(t)
  BY LenProperties DEF IsPrefix
<1>2. SubSeq(t, 1, Len(s)) = s
  <2>1. SubSeq(s, 1, Len(s)) = s
    BY SubSeqFull
  <2>. QED BY <2>1 DEF IsPrefix
<1>3. /\ t = SubSeq(t, 1, Len(s)) \o Behind(t, Len(s))
      /\ Behind(t, Len(s)) \in Seq(S)
  BY <1>1, CutBehind
<1>. QED BY <1>2, <1>3

LEMMA PrefixWhole ==
    ASSUME NEW S, NEW s \in Seq(S), NEW t \in Seq(S), IsPrefix(s, t), Len(s) = Len(t)
    PROVE  s = t
<1>1. SubSeq(s, 1, Len(s)) = s /\ SubSeq(t, 1, Len(t)) = t
  BY SubSeqFull
<1>. QED BY <1>1 DEF IsPrefix

LEMMA PrefixTransitive ==
    ASSUME NEW S, NEW s \in Seq(S), NEW t \in Seq(S), NEW u \in Seq(S),
           IsPrefix(s, t), IsPrefix(t, u)
    PROVE  IsPrefix(s, u)
<1> DEFINE p == Behind(t, Len(s))
           q == Behind(u, Len(t))
<1>1. t = s \o p /\ p \in Seq(S)
  BY PrefixRest
<1>2. u = t \o q /\ q \in Seq(S)
  BY PrefixRest
<1>. HIDE DEF p, q
<1>3. u = s \o (p \o q) /\ p \o q \in Seq(S)
  BY <1>1, <1>2, ConcatAssociative, ConcatProperties
<1>. QED BY <1>3, PrefixConcat

\* The same beginning can be left away.
LEMMA PrefixOfConcat ==
    ASSUME NEW S, NEW p \in Seq(S), NEW s \in Seq(S), NEW t \in Seq(S)
    PROVE  IsPrefix(p \o s, p \o t) <=> IsPrefix(s, t)
<1>1. p \o s \in Seq(S) /\ p \o t \in Seq(S)
  BY ConcatProperties
<1>2. ASSUME IsPrefix(s, t)
      PROVE  IsPrefix(p \o s, p \o t)
  <2> DEFINE q == Behind(t, Len(s))
  <2>1. t = s \o q /\ q \in Seq(S)
    BY <1>2, PrefixRest
  <2>. HIDE DEF q
  <2>2. p \o t = (p \o s) \o q
    BY <2>1, ConcatAssociative, SMTT(60)
  <2>3. IsPrefix(p \o s, (p \o s) \o q)
    BY <1>1, <2>1, PrefixConcat
  <2>. QED BY <2>2, <2>3
<1>3. ASSUME IsPrefix(p \o s, p \o t)
      PROVE  IsPrefix(s, t)
  <2> DEFINE q == Behind(p \o t, Len(p \o s))
  <2>1. p \o t = (p \o s) \o q /\ q \in Seq(S)
    BY <1>1, <1>3, PrefixRest
  <2>. HIDE DEF q
  <2>2. p \o t = p \o (s \o q) /\ s \o q \in Seq(S)
    BY <2>1, ConcatAssociative, ConcatProperties, SMTT(60)
  <2>3. t = s \o q
    BY <2>2, ConcatSimplifications
  <2>. QED BY <2>1, <2>3, PrefixConcat
<1>. QED BY <1>2, <1>3

\* Of two beginnings of a sequence, the shorter is one of the longer.
LEMMA PrefixesOfOne ==
    ASSUME NEW S, NEW s \in Seq(S), NEW t \in Seq(S), NEW u \in Seq(S),
           IsPrefix(s, u), IsPrefix(t, u), Len(s) <= Len(t)
    PROVE  IsPrefix(s, t)
<1> DEFINE p == Behind(u, Len(t))
           n == Len(s)
           q == Behind(t, n)
<1>1. u = t \o p /\ p \in Seq(S)
  BY PrefixRest
<1>2. n \in 0..Len(t)
  BY LenProperties
<1>3. t = SubSeq(t, 1, n) \o q /\ SubSeq(t, 1, n) \in Seq(S) /\ q \in Seq(S)
      /\ Len(SubSeq(t, 1, n)) = n
  BY <1>2, CutBehind
<1>. HIDE DEF p, q, n
<1>4. u = SubSeq(t, 1, n) \o (q \o p) /\ q \o p \in Seq(S)
  <2> DEFINE r == SubSeq(t, 1, n)
  <2>. HIDE DEF r
  <2>1. t = r \o q /\ r \in Seq(S)
    BY <1>3 DEF r
  <2>a. p \in Seq(S) /\ q \in Seq(S)
    BY <1>1, <1>3
  <2>2. (r \o q) \o p = r \o (q \o p) /\ q \o p \in Seq(S)
    BY <2>1, <2>a, ConcatAssociative, ConcatProperties, SMTT(60)
  <2>. QED BY <1>1, <2>1, <2>2 DEF r
<1>5. SubSeq(SubSeq(t, 1, n) \o (q \o p), 1, n) = SubSeq(t, 1, n)
  BY <1>3, <1>4, CutAt
<1>6. SubSeq(u, 1, n) = SubSeq(t, 1, n)
  BY <1>4, <1>5
<1>. QED BY <1>6 DEF IsPrefix, n

LEMMA CutIsPrefix ==
    ASSUME NEW S, NEW s \in Seq(S), NEW n \in 0..Len(s)
    PROVE  /\ SubSeq(s, 1, n) \in Seq(S) /\ Len(SubSeq(s, 1, n)) = n
           /\ IsPrefix(SubSeq(s, 1, n), s)
<1> DEFINE p == SubSeq(s, 1, n)
           q == Behind(s, n)
<1>1. s = p \o q /\ p \in Seq(S) /\ Len(p) = n /\ q \in Seq(S)
  BY CutBehind
<1>. HIDE DEF p, q
<1>2. IsPrefix(p, p \o q)
  BY <1>1, PrefixConcat
<1>. QED BY <1>1, <1>2 DEF p

=============================================================================
