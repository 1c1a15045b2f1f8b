---------------------------- MODULE SafeClipProofs ----------------------------
(***************************************************************************)
(* Proofs about SafeClip, for every command line and every name: types,    *)
(* who sees which names, the clipboards of one prefix, and what ends a     *)
(* session.  What the queues of handlers make of a string is shown first,  *)
(* one group after the other.                                              *)
(***************************************************************************)
EXTENDS SafeClip, SequenceLemmas

S == Seq(Chars)

LEMMA Rounding ==
    ASSUME NEW n \in Nat
    PROVE  /\ round4(n) \in Nat /\ n <= round4(n) /\ round4(n) <= n + 3
           /\ \A k \in Nat : k % 4 = 0 /\ n <= k => round4(n) <= k
BY DEF round4

LEMMA Strings ==
    ASSUME NEW s \in S, NEW t \in S
    PROVE  s \o t \in S /\ Len(s \o t) = Len(s) + Len(t)
BY ConcatProperties DEF S

LEMMA Regroup ==
    ASSUME NEW s \in S, NEW t \in S, NEW u \in S
    PROVE  (s \o t) \o u = s \o (t \o u)
BY ConcatAssociative DEF S

\* A string is in a message if and only if it has so many characters.
LEMMA Sizes ==
    ASSUME NEW s \in S
    PROVE  /\ Len(s) \in Nat /\ Size(s) \in Nat
           /\ Len(s) + 13 <= Size(s) /\ Size(s) <= Len(s) + 16
           /\ Size(s) <= MaxBytes <=> Len(s) + 13 <= MaxBytes
<1>1. Len(s) \in Nat
  BY LenProperties DEF S
<1>2. MaxBytes \in Nat /\ MaxBytes % 4 = 0
  BY SafeClipAssumption
<1> DEFINE r == round4(Len(s) + 1)
<1>3. /\ r \in Nat /\ Len(s) + 1 <= r /\ r <= Len(s) + 4
      /\ \A k \in Nat : k % 4 = 0 /\ Len(s) + 1 <= k => r <= k
  <2>1. Len(s) + 1 \in Nat /\ (Len(s) + 1) + 3 = Len(s) + 4
    BY <1>1
  <2>. QED BY <2>1, Rounding
<1>. HIDE DEF r
<1>4. Len(s) + 13 <= MaxBytes => r <= MaxBytes - 12
  <2>1. SUFFICES ASSUME Len(s) + 13 <= MaxBytes
                 PROVE  r <= MaxBytes - 12
    OBVIOUS
  <2>2. MaxBytes - 12 \in Nat /\ (MaxBytes - 12) % 4 = 0 /\ Len(s) + 1 <= MaxBytes - 12
    BY <1>1, <1>2, <2>1
  <2>. QED BY <1>3, <2>2
<1>5. Size(s) = 12 + r
  BY DEF Size, r
<1>. QED BY <1>1, <1>2, <1>3, <1>4, <1>5

LEMMA Lines ==
    ASSUME NEW c \in Clients
    PROVE  /\ Line[c] \in Seq(S) /\ Len(Line[c]) \in Nat /\ DOMAIN Line[c] = 1..Len(Line[c])
           /\ \A k \in 1..Len(Line[c]) : Line[c][k] \in S
<1>1. Line[c] \in Seq(S)
  BY SafeClipAssumption DEF S
<1>. QED BY <1>1, LenProperties, ElementOfSeq

-----------------------------------------------------------------------------
(* The folds, element by element.                                          *)

Marks(c, m) ==
    /\ m \in [0..Len(Line[c]) -> S]
    /\ m[0] = <<>>
    /\ \A k \in 0..(Len(Line[c]) - 1) : m[k + 1] = Line[c][k + 1] \o m[k]
    /\ Mark(c) = m[Len(Line[c])]

LEMMA MarkSteps ==
    ASSUME NEW c \in Clients
    PROVE  \E m : Marks(c, m)
<1> DEFINE L == Line[c]
           n == Len(L)
           D == DOMAIN L
           P(it) == it = [s \in SUBSET D |->
                            IF s = {} THEN <<>> ELSE L[Max(s)] \o it[s \ {Max(s)}]]
           step == [p \in S \X S |-> p[2] \o p[1]]
           C == CHOOSE it : P(it)
<1>1. L \in Seq(S) /\ n \in Nat /\ D = 1..n /\ \A k \in 1..n : L[k] \in S
  BY Lines
<1>2. <<>> \in S /\ \A s, t \in S : s \o t \in S
  BY EmptySeq, ConcatProperties DEF S
<1>3. step \in [S \X S -> S] /\ \A s, t \in S : step[<<s, t>>] = t \o s
  BY <1>2
<1>4. Mark(c) = C[D]
  BY DEF Mark, FoldLeft, MapThenFoldSet
<1>. HIDE DEF L, n, D, step
<1>a. ASSUME NEW s \in SUBSET D, s # {}
      PROVE  L[Max(s)] \in S
  BY <1>1, <1>a, MaxExists
<1>5. \E it : P(it)
  <2>1. PICK it \in [SUBSET D -> S] : FoldsBy(it, <<>>, L, step)
    BY <1>1, <1>2, <1>3, FoldExists DEF D
  <2>2. ASSUME NEW s \in SUBSET D
        PROVE  it[s] = IF s = {} THEN <<>> ELSE L[Max(s)] \o it[s \ {Max(s)}]
    <3>1. CASE s = {}
      BY <2>1, <3>1 DEF FoldsBy, D
    <3>2. CASE s # {}
      <4>1. L[Max(s)] \in S /\ it[s \ {Max(s)}] \in S
        BY <1>a, <2>1, <3>2
      <4>2. it[s] = step[<<it[s \ {Max(s)}], L[Max(s)]>>]
        BY <2>1, <3>2 DEF FoldsBy, D
      <4>. QED BY <1>3, <3>2, <4>1, <4>2
    <3>. QED BY <3>1, <3>2
  <2>. QED BY <2>1, <2>2
<1>6. P(C)
  <2>. HIDE DEF P
  <2>. QED BY <1>5
<1>. HIDE DEF C
<1>7. FoldsWithin(C, <<>>, L, step, S)
  <2>1. C[{}] = <<>>
    BY <1>6
  <2>2. ASSUME NEW s \in SUBSET D, s # {}, C[s \ {Max(s)}] \in S
        PROVE  C[s] = step[<<C[s \ {Max(s)}], L[Max(s)]>>]
    BY <1>3, <1>6, <1>a, <2>2
  <2>. QED BY <2>1, <2>2 DEF FoldsWithin, D
<1>8. PICK m : StepsBy(m, <<>>, L, step, S) /\ m[n] = C[D]
  <2>1. <<>> \in S /\ L \in Seq(S) /\ step \in [S \X S -> S]
    BY <1>1, <1>2, <1>3
  <2>2. ComesTo(C, <<>>, L, step, S)
    BY <1>7, <2>1, FoldSteps
  <2>. QED BY <2>2 DEF ComesTo, n, D
<1>9. ASSUME NEW k \in 0..(n - 1)
      PROVE  m[k + 1] = L[k + 1] \o m[k]
  <2>1. k \in 0..n /\ k + 1 \in 1..n
    BY <1>1
  <2>2. m[k] \in S /\ L[k + 1] \in S
    BY <1>1, <1>8, <2>1 DEF StepsBy, n
  <2>3. m[k + 1] = step[<<m[k], L[k + 1]>>]
    BY <1>8 DEF StepsBy, n
  <2>. QED BY <1>3, <2>2, <2>3
<1>10. Marks(c, m)
  BY <1>4, <1>8, <1>9 DEF Marks, StepsBy, L, n
<1>. QED BY <1>10

LEMMA OneSeq ==
    ASSUME NEW A, NEW x \in A
    PROVE  <<x>> \in Seq(A) /\ Len(<<x>>) = 1 /\ <<x>>[1] = x
OBVIOUS

\* All groups: each queue has them in an order of its own.
LEMMA RequestQueueOrder ==
    ASSUME NEW c \in Clients
    PROVE  /\ RequestQueue(c) \in Seq(1..Len(Line[c])) /\ Len(RequestQueue(c)) = Len(Line[c])
           /\ \A k \in 1..Len(Line[c]) : RequestQueue(c)[k] = k
<1> DEFINE G == Groups(c)
           n == Len(Line[c])
           D == DOMAIN G
           A == Seq(1..n)
           P(it) == it = [s \in SUBSET D |->
                            IF s = {} THEN <<>> ELSE PushBack(it[s \ {Max(s)}], G[Max(s)])]
           step == [p \in A \X (1..n) |-> Append(p[1], p[2])]
           C == CHOOSE it : P(it)
<1>1. n \in Nat /\ D = 1..n /\ \A k \in 1..n : G[k] = k
  BY Lines DEF Groups
<1>2. G \in A /\ Len(G) = n
  <2>1. G = [k \in 1..n |-> k]
    BY Lines DEF Groups
  <2>2. G \in [1..n -> 1..n]
    BY <2>1
  <2>. QED BY <1>1, <2>2
<1>3. step \in [A \X (1..n) -> A] /\ \A s \in A, g \in 1..n : step[<<s, g>>] = PushBack(s, g)
  BY AppendProperties DEF PushBack
<1>4. RequestQueue(c) = C[D]
  BY DEF RequestQueue, FoldLeft, MapThenFoldSet
<1>. HIDE DEF G, n, D, step, A
<1>a. ASSUME NEW s \in SUBSET D, s # {}
      PROVE  G[Max(s)] \in 1..n
  BY <1>1, <1>a, MaxExists
<1>b. <<>> \in A /\ G \in Seq(1..n) /\ Len(G) = n
  BY <1>2, EmptySeq DEF A
<1>5. \E it : P(it)
  <2>1. PICK it \in [SUBSET D -> A] : FoldsBy(it, <<>>, G, step)
    BY <1>b, <1>3, FoldExists DEF D
  <2>2. ASSUME NEW s \in SUBSET D
        PROVE  it[s] = IF s = {} THEN <<>> ELSE PushBack(it[s \ {Max(s)}], G[Max(s)])
    <3>1. CASE s = {}
      BY <2>1, <3>1 DEF FoldsBy, D
    <3>2. CASE s # {}
      <4>1. G[Max(s)] \in 1..n /\ it[s \ {Max(s)}] \in A
        BY <1>a, <2>1, <3>2
      <4>2. it[s] = step[<<it[s \ {Max(s)}], G[Max(s)]>>]
        BY <2>1, <3>2 DEF FoldsBy, D
      <4>. QED BY <1>3, <3>2, <4>1, <4>2
    <3>. QED BY <3>1, <3>2
  <2>. QED BY <2>1, <2>2
<1>6. P(C)
  <2>. HIDE DEF P
  <2>. QED BY <1>5
<1>. HIDE DEF C
<1>7. FoldsWithin(C, <<>>, G, step, A)
  <2>1. C[{}] = <<>>
    BY <1>6
  <2>2. ASSUME NEW s \in SUBSET D, s # {}, C[s \ {Max(s)}] \in A
        PROVE  C[s] = step[<<C[s \ {Max(s)}], G[Max(s)]>>]
    BY <1>3, <1>6, <1>a, <2>2
  <2>. QED BY <2>1, <2>2 DEF FoldsWithin, D
<1>8. PICK f : StepsBy(f, <<>>, G, step, A) /\ f[n] = C[D]
  <2>1. <<>> \in A /\ G \in Seq(1..n) /\ step \in [A \X (1..n) -> A]
    BY <1>3, <1>b
  <2>2. ComesTo(C, <<>>, G, step, A)
    BY <1>7, <2>1, FoldSteps
  <2>. QED BY <1>b, <2>2 DEF ComesTo, D
<1> DEFINE N == {k \in Nat : k <= n => Len(f[k]) = k /\ \A i \in 1..k : f[k][i] = i}
<1>9. 0 \in N
  BY <1>8, EmptySeq DEF StepsBy
<1>10. ASSUME NEW k \in Nat, k \in N
       PROVE  k + 1 \in N
  <2>1. SUFFICES ASSUME k + 1 <= n
                 PROVE  Len(f[k + 1]) = k + 1 /\ \A i \in 1..(k + 1) : f[k + 1][i] = i
    OBVIOUS
  <2>2. k \in 0..n /\ k \in 0..(n - 1) /\ k + 1 \in 1..n
    BY <1>1, <2>1
  <2>3. f[k] \in A /\ G[k + 1] = k + 1 /\ f[k + 1] = step[<<f[k], G[k + 1]>>]
    BY <1>1, <1>8, <1>b, <2>2 DEF StepsBy
  <2>4. f[k + 1] = Append(f[k], k + 1)
    BY <1>3, <2>2, <2>3 DEF PushBack
  <2>5. Len(f[k]) = k /\ \A i \in 1..k : f[k][i] = i
    BY <1>10, <2>2
  <2>. QED BY <2>2, <2>3, <2>4, <2>5, AppendProperties DEF A
<1>11. Nat \subseteq N
  <2>. HIDE DEF N
  <2>. QED BY <1>9, <1>10, NatSetInduction
<1>12. n \in 0..n /\ f[n] \in A
  BY <1>1, <1>8, <1>b DEF StepsBy
<1>. QED BY <1>1, <1>4, <1>8, <1>11, <1>12 DEF A, n

LEMMA EventQueueOrder ==
    ASSUME NEW c \in Clients
    PROVE  /\ EventQueue(c) \in Seq(1..Len(Line[c])) /\ Len(EventQueue(c)) = Len(Line[c])
           /\ \A k \in 1..Len(Line[c]) : EventQueue(c)[k] = Len(Line[c]) + 1 - k
<1> DEFINE G == Groups(c)
           n == Len(Line[c])
           D == DOMAIN G
           A == Seq(1..n)
           P(it) == it = [s \in SUBSET D |->
                            IF s = {} THEN <<>> ELSE PushFront(it[s \ {Max(s)}], G[Max(s)])]
           step == [p \in A \X (1..n) |-> <<p[2]>> \o p[1]]
           C == CHOOSE it : P(it)
<1>1. n \in Nat /\ D = 1..n /\ \A k \in 1..n : G[k] = k
  BY Lines DEF Groups
<1>2. G \in A /\ Len(G) = n
  <2>1. G = [k \in 1..n |-> k]
    BY Lines DEF Groups
  <2>2. G \in [1..n -> 1..n]
    BY <2>1
  <2>. QED BY <1>1, <2>2
<1>3. step \in [A \X (1..n) -> A] /\ \A s \in A, g \in 1..n : step[<<s, g>>] = PushFront(s, g)
  <2>1. \A s \in A, g \in 1..n : <<g>> \in A /\ <<g>> \o s \in A
    BY OneSeq, ConcatProperties
  <2>. QED BY <2>1 DEF PushFront
<1>4. EventQueue(c) = C[D]
  BY DEF EventQueue, FoldLeft, MapThenFoldSet
<1>. HIDE DEF G, n, D, step, A
<1>a. ASSUME NEW s \in SUBSET D, s # {}
      PROVE  G[Max(s)] \in 1..n
  BY <1>1, <1>a, MaxExists
<1>b. <<>> \in A /\ G \in Seq(1..n) /\ Len(G) = n
  BY <1>2, EmptySeq DEF A
<1>5. \E it : P(it)
  <2>1. PICK it \in [SUBSET D -> A] : FoldsBy(it, <<>>, G, step)
    BY <1>b, <1>3, FoldExists DEF D
  <2>2. ASSUME NEW s \in SUBSET D
        PROVE  it[s] = IF s = {} THEN <<>> ELSE PushFront(it[s \ {Max(s)}], G[Max(s)])
    <3>1. CASE s = {}
      BY <2>1, <3>1 DEF FoldsBy, D
    <3>2. CASE s # {}
      <4>1. G[Max(s)] \in 1..n /\ it[s \ {Max(s)}] \in A
        BY <1>a, <2>1, <3>2
      <4>2. it[s] = step[<<it[s \ {Max(s)}], G[Max(s)]>>]
        BY <2>1, <3>2 DEF FoldsBy, D
      <4>. QED BY <1>3, <3>2, <4>1, <4>2
    <3>. QED BY <3>1, <3>2
  <2>. QED BY <2>1, <2>2
<1>6. P(C)
  <2>. HIDE DEF P
  <2>. QED BY <1>5
<1>. HIDE DEF C
<1>7. FoldsWithin(C, <<>>, G, step, A)
  <2>1. C[{}] = <<>>
    BY <1>6
  <2>2. ASSUME NEW s \in SUBSET D, s # {}, C[s \ {Max(s)}] \in A
        PROVE  C[s] = step[<<C[s \ {Max(s)}], G[Max(s)]>>]
    BY <1>3, <1>6, <1>a, <2>2
  <2>. QED BY <2>1, <2>2 DEF FoldsWithin, D
<1>8. PICK f : StepsBy(f, <<>>, G, step, A) /\ f[n] = C[D]
  <2>1. <<>> \in A /\ G \in Seq(1..n) /\ step \in [A \X (1..n) -> A]
    BY <1>3, <1>b
  <2>2. ComesTo(C, <<>>, G, step, A)
    BY <1>7, <2>1, FoldSteps
  <2>. QED BY <1>b, <2>2 DEF ComesTo, D
<1> DEFINE N == {k \in Nat : k <= n => Len(f[k]) = k /\ \A i \in 1..k : f[k][i] = k + 1 - i}
<1>9. 0 \in N
  BY <1>8, EmptySeq DEF StepsBy
<1>10. ASSUME NEW k \in Nat, k \in N
       PROVE  k + 1 \in N
  <2>1. SUFFICES ASSUME k + 1 <= n
                 PROVE  Len(f[k + 1]) = k + 1 /\ \A i \in 1..(k + 1) : f[k + 1][i] = (k + 1) + 1 - i
    OBVIOUS
  <2>2. k \in 0..n /\ k \in 0..(n - 1) /\ k + 1 \in 1..n
    BY <1>1, <2>1
  <2>3. f[k] \in A /\ G[k + 1] = k + 1 /\ f[k + 1] = step[<<f[k], G[k + 1]>>]
    BY <1>1, <1>8, <1>b, <2>2 DEF StepsBy
  <2>4. f[k + 1] = <<k + 1>> \o f[k]
    BY <1>3, <2>2, <2>3 DEF PushFront
  <2>5. Len(f[k]) = k /\ \A i \in 1..k : f[k][i] = k + 1 - i
    BY <1>10, <2>2
  <2> DEFINE h == <<k + 1>>
  <2>6. h \in A /\ Len(h) = 1 /\ h[1] = k + 1
    BY <2>2, OneSeq DEF A
  <2>. HIDE DEF h
  <2>7. /\ Len(h \o f[k]) = 1 + k
        /\ \A i \in 1..(1 + k) : (h \o f[k])[i] = IF i <= 1 THEN h[i] ELSE f[k][i - 1]
    <3> DEFINE u == f[k]
    <3>1. u \in A /\ Len(u) = k
      BY <2>3, <2>5
    <3>. HIDE DEF u
    <3>2. /\ Len(h \o u) = Len(h) + Len(u)
          /\ \A i \in 1..(Len(h) + Len(u)) : (h \o u)[i] =
               IF i <= Len(h) THEN h[i] ELSE u[i - Len(h)]
      BY <2>6, <3>1, ConcatProperties DEF A
    <3>3. /\ Len(h \o u) = 1 + k
          /\ \A i \in 1..(1 + k) : (h \o u)[i] = IF i <= 1 THEN h[i] ELSE u[i - 1]
      BY <2>6, <3>1, <3>2
    <3>. QED BY <3>3 DEF u
  <2>8. f[k + 1] = h \o f[k]
    BY <2>4 DEF h
  <2>9. ASSUME NEW i \in 1..(k + 1)
        PROVE  f[k + 1][i] = (k + 1) + 1 - i
    <3>1. CASE i = 1
      BY <2>6, <2>7, <2>8, <3>1
    <3>2. CASE i # 1
      <4>1. i \in 1..(1 + k) /\ ~(i <= 1) /\ i - 1 \in 1..k
        BY <3>2
      <4>2. f[k + 1][i] = f[k][i - 1]
        BY <2>7, <2>8, <4>1
      <4>3. f[k][i - 1] = k + 1 - (i - 1)
        BY <2>5, <4>1
      <4>. QED BY <4>2, <4>3
    <3>. QED BY <3>1, <3>2
  <2>. QED BY <2>7, <2>8, <2>9
<1>11. Nat \subseteq N
  <2>. HIDE DEF N
  <2>. QED BY <1>9, <1>10, NatSetInduction
<1>12. n \in 0..n /\ f[n] \in A
  BY <1>1, <1>8, <1>b DEF StepsBy
<1>13. n \in N
  BY <1>1, <1>11
<1>14. EventQueue(c) = f[n] /\ Len(f[n]) = n /\ \A i \in 1..n : f[n][i] = n + 1 - i
  BY <1>1, <1>4, <1>8, <1>13
<1>. QED BY <1>12, <1>14 DEF A, n

\* What add_prefix makes of a string: at most the prefix and all of it, and at
\* least the prefix.
Cut(s, prefix, over, new) ==
    /\ over \in Int
    /\ over <= 0 => new = prefix \o s
    /\ over > Len(s) => new = Panic
    /\ over > 0 /\ over <= Len(s) =>
         /\ new = prefix \o SubSeq(s, 1, Len(s) - over)
         /\ Len(s) - over \in 0..Len(s)
         /\ new \in S /\ Len(new) = Len(prefix) + Len(s) - over

LEMMA AddPrefixCuts ==
    ASSUME NEW s \in S, NEW size \in Nat, NEW prefix \in S
    PROVE  Cut(s, prefix, Len(prefix) + size - MaxBytes, AddPrefix(s, size, prefix))
<1>1. Len(s) \in Nat /\ Len(prefix) \in Nat /\ MaxBytes \in Nat
  BY LenProperties, SafeClipAssumption DEF S
<1> DEFINE over == size + Len(prefix) - MaxBytes
           new == AddPrefix(s, size, prefix)
<1>2. over \in Int /\ Over(size, prefix) = over /\ over = Len(prefix) + size - MaxBytes
  BY <1>1 DEF Over
<1>3. ASSUME over > 0, over <= Len(s)
      PROVE  /\ new = prefix \o SubSeq(s, 1, Len(s) - over)
             /\ Len(s) - over \in 0..Len(s)
             /\ new \in S /\ Len(new) = Len(prefix) + Len(s) - over
  <2>1. new = prefix \o SubSeq(s, 1, Len(s) - over)
    <3>1. ~(Over(size, prefix) <= 0) /\ ~(Over(size, prefix) > Len(s))
      BY <1>1, <1>2, <1>3
    <3>. HIDE DEF over
    <3>. QED BY <1>2, <3>1 DEF AddPrefix
  <2> DEFINE k == Len(s) - over
  <2>2. k \in 0..Len(s)
    BY <1>1, <1>2, <1>3
  <2>. HIDE DEF k
  <2>3. SubSeq(s, 1, k) \in S /\ Len(SubSeq(s, 1, k)) = k
    BY <2>2, CutIsPrefix DEF S
  <2>4. prefix \o SubSeq(s, 1, k) \in S /\ Len(prefix \o SubSeq(s, 1, k)) = Len(prefix) + k
    BY <2>3, ConcatProperties DEF S
  <2>. QED BY <1>1, <1>2, <2>1, <2>2, <2>4 DEF k
<1>4. over <= 0 => new = prefix \o s
  BY <1>2 DEF AddPrefix
<1>5. over > Len(s) => new = Panic
  BY <1>1, <1>2 DEF AddPrefix
<1>6. Cut(s, prefix, over, new)
  BY <1>2, <1>3, <1>4, <1>5 DEF Cut
<1>. QED BY <1>2, <1>6

LEMMA AddPrefixType ==
    ASSUME NEW s \in S, NEW size \in Nat, NEW prefix \in S
    PROVE  AddPrefix(s, size, prefix) \in S \union {Panic}
<1> DEFINE over == Len(prefix) + size - MaxBytes
           new == AddPrefix(s, size, prefix)
<1>1. Cut(s, prefix, over, new)
  BY AddPrefixCuts
<1>2. prefix \o s \in S /\ Len(s) \in Nat
  BY ConcatProperties, LenProperties DEF S
<1>. HIDE DEF over, new
<1>3. over <= 0 \/ over > Len(s) \/ (over > 0 /\ over <= Len(s))
  BY <1>1, <1>2 DEF Cut
<1>4. new \in S \union {Panic}
  BY <1>1, <1>2, <1>3 DEF Cut
<1>. QED BY <1>4 DEF new

Requests(c, s, r) ==
    /\ r \in [0..Len(Line[c]) -> S \union {Panic}]
    /\ r[0] = s
    /\ \A k \in 0..(Len(Line[c]) - 1) :
         r[k + 1] = IF r[k] = Panic THEN Panic ELSE AddPrefix(r[k], Size(s), Line[c][k + 1])
    /\ LET out == r[Len(Line[c])]
       IN  Request(c, s) = IF Line[c] # <<>> /\ out # Panic /\ TooLong(out) THEN Panic ELSE out

LEMMA RequestSteps ==
    ASSUME NEW c \in Clients, NEW s \in S
    PROVE  \E r : Requests(c, s, r)
<1> DEFINE Q == RequestQueue(c)
           n == Len(Line[c])
           D == DOMAIN Q
           A == S \union {Panic}
           After(t, g) == IF t = Panic THEN Panic ELSE AddPrefix(t, Size(s), State(c, g))
           P(it) == it = [x \in SUBSET D |->
                            IF x = {} THEN s ELSE After(it[x \ {Max(x)}], Q[Max(x)])]
           step == [p \in A \X (1..n) |-> After(p[1], p[2])]
           C == CHOOSE it : P(it)
<1>1. n \in Nat /\ Q \in Seq(1..n) /\ Len(Q) = n /\ D = 1..n /\ \A k \in 1..n : Q[k] = k
  BY Lines, RequestQueueOrder, LenProperties
<1>2. s \in A /\ Size(s) \in Nat /\ s # Null
  BY Sizes, SafeClipAssumption DEF S
<1>3. ASSUME NEW t \in A, NEW g \in 1..n
      PROVE  After(t, g) \in A
  <2>1. CASE t = Panic
    BY <2>1
  <2>2. CASE t # Panic
    <3>1. t \in S /\ State(c, g) \in S /\ Len(t) \in Nat
      BY <1>3, <2>2, Lines, Sizes DEF State
    <3>2. AddPrefix(t, Size(s), State(c, g)) \in A
      BY <1>2, <3>1, AddPrefixType
    <3>. QED BY <2>2, <3>2
  <2>. QED BY <2>1, <2>2
<1>4. step \in [A \X (1..n) -> A] /\ \A t \in A, g \in 1..n : step[<<t, g>>] = After(t, g)
  BY <1>3
<1>5. Line[c] # <<>> =>
        Request(c, s) = IF C[D] # Panic /\ TooLong(C[D]) THEN Panic ELSE C[D]
  BY <1>2 DEF Request, Demarshals, FoldLeft, MapThenFoldSet
<1>. HIDE DEF Q, n, D, step, A, After
<1>a. ASSUME NEW x \in SUBSET D, x # {}
      PROVE  Q[Max(x)] \in 1..n
  BY <1>1, <1>a, MaxExists
<1>6. \E it : P(it)
  <2>1. PICK it \in [SUBSET D -> A] : FoldsBy(it, s, Q, step)
    BY <1>1, <1>2, <1>4, FoldExists DEF D
  <2>2. ASSUME NEW x \in SUBSET D
        PROVE  it[x] = IF x = {} THEN s ELSE After(it[x \ {Max(x)}], Q[Max(x)])
    <3>1. CASE x = {}
      BY <2>1, <3>1 DEF FoldsBy, D
    <3>2. CASE x # {}
      <4>1. Q[Max(x)] \in 1..n /\ it[x \ {Max(x)}] \in A
        BY <1>a, <2>1, <3>2
      <4>2. it[x] = step[<<it[x \ {Max(x)}], Q[Max(x)]>>]
        BY <2>1, <3>2 DEF FoldsBy, D
      <4>. QED BY <1>4, <3>2, <4>1, <4>2
    <3>. QED BY <3>1, <3>2
  <2>. QED BY <2>1, <2>2
<1>7. P(C)
  <2>. HIDE DEF P
  <2>. QED BY <1>6
<1>. HIDE DEF C
<1>8. FoldsWithin(C, s, Q, step, A)
  <2>1. C[{}] = s
    BY <1>7
  <2>2. ASSUME NEW x \in SUBSET D, x # {}, C[x \ {Max(x)}] \in A
        PROVE  C[x] = step[<<C[x \ {Max(x)}], Q[Max(x)]>>]
    BY <1>4, <1>7, <1>a, <2>2
  <2>. QED BY <2>1, <2>2 DEF FoldsWithin, D
<1>9. PICK r : StepsBy(r, s, Q, step, A) /\ r[n] = C[D]
  <2>1. s \in A /\ Q \in Seq(1..n) /\ step \in [A \X (1..n) -> A]
    BY <1>1, <1>2, <1>4
  <2>2. ComesTo(C, s, Q, step, A)
    BY <1>8, <2>1, FoldSteps
  <2>. QED BY <1>1, <2>2 DEF ComesTo, D
<1>10. r \in [0..n -> A] /\ r[0] = s
  BY <1>1, <1>9 DEF StepsBy
<1>11. ASSUME NEW k \in 0..(n - 1)
       PROVE  r[k + 1] = IF r[k] = Panic THEN Panic
                         ELSE AddPrefix(r[k], Size(s), Line[c][k + 1])
  <2>1. k \in 0..n /\ k + 1 \in 1..n /\ Q[k + 1] = k + 1
    BY <1>1
  <2>2. r[k + 1] = step[<<r[k], Q[k + 1]>>]
    BY <1>1, <1>9 DEF StepsBy
  <2>3. r[k + 1] = After(r[k], k + 1)
    BY <1>4, <1>10, <2>1, <2>2
  <2>. QED BY <2>3 DEF After, State
<1>12. Line[c] = <<>> => Request(c, s) = r[n]
  <2>1. Line[c] = <<>> => n = 0
    BY EmptySeq DEF n
  <2>. QED BY <1>10, <2>1 DEF Request
<1>13. Requests(c, s, r)
  BY <1>5, <1>9, <1>10, <1>11, <1>12 DEF Requests, A, n
<1>. QED BY <1>13

\* What remove_prefix makes of a string: nothing is lost but the prefix.
LEMMA RemovePrefixType ==
    ASSUME NEW s \in S, NEW prefix \in S
    PROVE  /\ RemovePrefix(s, prefix) \in S \union {Dropped}
           /\ ~IsPrefix(prefix, s) => RemovePrefix(s, prefix) = Dropped
           /\ IsPrefix(prefix, s) => /\ RemovePrefix(s, prefix) \in S
                                     /\ s = prefix \o RemovePrefix(s, prefix)
<1>1. CASE IsPrefix(prefix, s)
  <2>1. RemovePrefix(s, prefix) = Behind(s, Len(prefix))
    BY <1>1 DEF RemovePrefix, Behind
  <2>2. s = prefix \o Behind(s, Len(prefix)) /\ Behind(s, Len(prefix)) \in S
    BY <1>1, PrefixRest DEF S
  <2>. QED BY <1>1, <2>1, <2>2
<1>2. CASE ~IsPrefix(prefix, s)
  BY <1>2 DEF RemovePrefix
<1>. QED BY <1>1, <1>2

Events(c, s, e) ==
    /\ e \in [0..Len(Line[c]) -> S \union {Dropped}]
    /\ e[0] = s
    /\ \A k \in 0..(Len(Line[c]) - 1) :
         e[k + 1] = IF e[k] = Dropped THEN Dropped ELSE RemovePrefix(e[k], Line[c][Len(Line[c]) - k])
    /\ Event(c, s) = e[Len(Line[c])]

LEMMA EventSteps ==
    ASSUME NEW c \in Clients, NEW s \in S
    PROVE  \E e : Events(c, s, e)
<1> DEFINE Q == EventQueue(c)
           n == Len(Line[c])
           D == DOMAIN Q
           A == S \union {Dropped}
           After(t, g) == IF t = Dropped THEN Dropped ELSE RemovePrefix(t, State(c, g))
           P(it) == it = [x \in SUBSET D |->
                            IF x = {} THEN s ELSE After(it[x \ {Max(x)}], Q[Max(x)])]
           step == [p \in A \X (1..n) |-> After(p[1], p[2])]
           C == CHOOSE it : P(it)
<1>1. n \in Nat /\ Q \in Seq(1..n) /\ Len(Q) = n /\ D = 1..n /\ \A k \in 1..n : Q[k] = n + 1 - k
  BY Lines, EventQueueOrder, LenProperties
<1>2. s \in A /\ s # Null
  BY Sizes, SafeClipAssumption DEF S
<1>3. ASSUME NEW t \in A, NEW g \in 1..n
      PROVE  After(t, g) \in A
  <2>1. CASE t = Dropped
    BY <2>1
  <2>2. CASE t # Dropped
    <3>1. t \in S /\ State(c, g) \in S /\ Len(t) \in Nat
      BY <1>3, <2>2, Lines, Sizes DEF State
    <3>2. RemovePrefix(t, State(c, g)) \in A
      BY <1>2, <3>1, RemovePrefixType
    <3>. QED BY <2>2, <3>2
  <2>. QED BY <2>1, <2>2
<1>4. step \in [A \X (1..n) -> A] /\ \A t \in A, g \in 1..n : step[<<t, g>>] = After(t, g)
  BY <1>3
<1>5. Line[c] # <<>> => Event(c, s) = C[D]
  BY <1>2 DEF Event, Demarshals, FoldLeft, MapThenFoldSet
<1>. HIDE DEF Q, n, D, step, A, After
<1>a. ASSUME NEW x \in SUBSET D, x # {}
      PROVE  Q[Max(x)] \in 1..n
  <2>1. Max(x) \in 1..n
    BY <1>1, <1>a, MaxExists
  <2>. QED BY <1>1, <2>1, ElementOfSeq
<1>6. \E it : P(it)
  <2>1. PICK it \in [SUBSET D -> A] : FoldsBy(it, s, Q, step)
    BY <1>1, <1>2, <1>4, FoldExists DEF D
  <2>2. ASSUME NEW x \in SUBSET D
        PROVE  it[x] = IF x = {} THEN s ELSE After(it[x \ {Max(x)}], Q[Max(x)])
    <3>1. CASE x = {}
      BY <2>1, <3>1 DEF FoldsBy, D
    <3>2. CASE x # {}
      <4>1. Q[Max(x)] \in 1..n /\ it[x \ {Max(x)}] \in A
        BY <1>a, <2>1, <3>2
      <4>2. it[x] = step[<<it[x \ {Max(x)}], Q[Max(x)]>>]
        BY <2>1, <3>2 DEF FoldsBy, D
      <4>. QED BY <1>4, <3>2, <4>1, <4>2
    <3>. QED BY <3>1, <3>2
  <2>. QED BY <2>1, <2>2
<1>7. P(C)
  <2>. HIDE DEF P
  <2>. QED BY <1>6
<1>. HIDE DEF C
<1>8. FoldsWithin(C, s, Q, step, A)
  <2>1. C[{}] = s
    BY <1>7
  <2>2. ASSUME NEW x \in SUBSET D, x # {}, C[x \ {Max(x)}] \in A
        PROVE  C[x] = step[<<C[x \ {Max(x)}], Q[Max(x)]>>]
    BY <1>4, <1>7, <1>a, <2>2
  <2>. QED BY <2>1, <2>2 DEF FoldsWithin, D
<1>9. PICK e : StepsBy(e, s, Q, step, A) /\ e[n] = C[D]
  <2>1. s \in A /\ Q \in Seq(1..n) /\ step \in [A \X (1..n) -> A]
    BY <1>1, <1>2, <1>4
  <2>2. ComesTo(C, s, Q, step, A)
    BY <1>8, <2>1, FoldSteps
  <2>. QED BY <1>1, <2>2 DEF ComesTo, D
<1>10. e \in [0..n -> A] /\ e[0] = s
  BY <1>1, <1>9 DEF StepsBy
<1>11. ASSUME NEW k \in 0..(n - 1)
       PROVE  e[k + 1] = IF e[k] = Dropped THEN Dropped
                         ELSE RemovePrefix(e[k], Line[c][n - k])
  <2>1. k \in 0..n /\ k + 1 \in 1..n /\ n - k \in 1..n /\ Q[k + 1] = n - k
    BY <1>1
  <2>2. e[k + 1] = step[<<e[k], Q[k + 1]>>]
    BY <1>1, <1>9 DEF StepsBy
  <2>3. e[k + 1] = After(e[k], n - k)
    BY <1>4, <1>10, <2>1, <2>2
  <2>. QED BY <2>3 DEF After, State
<1>12. Line[c] = <<>> => Event(c, s) = e[n]
  <2>1. Line[c] = <<>> => n = 0
    BY EmptySeq DEF n
  <2>. QED BY <1>10, <2>1 DEF Event
<1>13. Events(c, s, e)
  BY <1>5, <1>9, <1>10, <1>11, <1>12 DEF Events, A, n
<1>. QED BY <1>13

-----------------------------------------------------------------------------
(* What a waydapt makes of a string.                                       *)

\* An event has all of the prefixes in front, and loses them, or it is dropped.
EventIs(c, s, out) ==
    /\ out \in S \union {Dropped} /\ out # Panic
    /\ out = Dropped => ~IsPrefix(Mark(c), s)
    /\ out # Dropped => out \in S /\ s = Mark(c) \o out

\* A string s with the mark p in front is still to lose the mark q.
ToLose(x, s, p, q) ==
    IF x = Dropped THEN \A t \in S : s # p \o t ELSE \A t \in S : s = p \o t <=> x = q \o t

LEMMA EventStrips ==
    ASSUME NEW c \in Clients, NEW s \in S
    PROVE  EventIs(c, s, Event(c, s))
<1> DEFINE L == Line[c]
           n == Len(L)
<1>1. n \in Nat /\ \A k \in 1..n : L[k] \in S
  BY Lines
<1>2. PICK m : Marks(c, m)
  BY MarkSteps
<1>3. PICK e : Events(c, s, e)
  BY EventSteps
<1>4. /\ m \in [0..n -> S] /\ m[0] = <<>> /\ Mark(c) = m[n]
      /\ \A k \in 0..(n - 1) : m[k + 1] = L[k + 1] \o m[k]
  BY <1>2 DEF Marks
<1>5. /\ e \in [0..n -> S \union {Dropped}] /\ e[0] = s /\ Event(c, s) = e[n]
      /\ \A k \in 0..(n - 1) :
           e[k + 1] = IF e[k] = Dropped THEN Dropped ELSE RemovePrefix(e[k], L[n - k])
  BY <1>3 DEF Events
<1>6. Dropped \notin S /\ Panic \notin S /\ Dropped # Panic
  BY SafeClipAssumption DEF S
<1>. HIDE DEF L, n
<1> DEFINE N == {k \in Nat : k <= n => ToLose(e[k], s, m[n], m[n - k])}
<1>7. 0 \in N
  BY <1>1, <1>5, <1>6 DEF ToLose
<1>8. ASSUME NEW k \in Nat, k \in N
      PROVE  k + 1 \in N
  <2>1. SUFFICES ASSUME k + 1 <= n
                 PROVE  ToLose(e[k + 1], s, m[n], m[n - (k + 1)])
    OBVIOUS
  <2>2. k \in 0..n /\ k \in 0..(n - 1) /\ n - k \in 1..n /\ n - (k + 1) \in 0..(n - 1)
        /\ n - k \in 0..n /\ n \in 0..n /\ (n - (k + 1)) + 1 = n - k /\ n - (k + 1) \in 0..n
    BY <1>1, <2>1
  <2> DEFINE x == e[k]
             p == L[n - k]
             q == m[n - (k + 1)]
             w == m[n]
  <2>3. x \in S \union {Dropped} /\ p \in S /\ q \in S /\ w \in S /\ m[n - k] = p \o q
        /\ e[k + 1] = IF x = Dropped THEN Dropped ELSE RemovePrefix(x, p)
    BY <1>1, <1>4, <1>5, <2>2
  <2>4. ToLose(x, s, w, p \o q)
    <3>1. ToLose(e[k], s, m[n], m[n - k])
      BY <1>1, <1>8, <2>1
    <3>2. m[n - k] = p \o q
      BY <2>3
    <3>. HIDE DEF p, q
    <3>. QED BY <3>1, <3>2
  <2>. HIDE DEF x, p, q, w
  <2>5. CASE x = Dropped
    <3>1. ToLose(Dropped, s, w, q)
      BY <2>4, <2>5 DEF ToLose
    <3>. QED BY <2>3, <2>5, <3>1 DEF q, w
  <2>6. CASE x # Dropped /\ IsPrefix(p, x)
    <3> DEFINE y == RemovePrefix(x, p)
    <3>1. x \in S /\ y \in S /\ x = p \o y
      BY <2>3, <2>6, RemovePrefixType
    <3>. HIDE DEF y
    <3>2. ASSUME NEW t \in S
          PROVE  s = w \o t <=> y = q \o t
      <4>1. s = w \o t <=> x = (p \o q) \o t
        BY <2>4, <2>6 DEF ToLose
      <4>2. (p \o q) \o t = p \o (q \o t) /\ q \o t \in S
        <5>1. p \in S /\ q \in S
          BY <2>3
        <5>2. q \o t \in S
          BY <5>1, Strings
        <5>3. (p \o q) \o t = p \o (q \o t)
          BY <5>1, Regroup
        <5>. QED BY <5>2, <5>3
      <4>3. p \o y = p \o (q \o t) => y = q \o t
        BY <2>3, <3>1, <4>2, ConcatSimplifications DEF S
      <4>. QED BY <3>1, <4>1, <4>2, <4>3
    <3>3. y # Dropped /\ e[k + 1] = y
      BY <1>6, <2>3, <2>6, <3>1 DEF y
    <3>4. ToLose(y, s, w, q)
      BY <3>2, <3>3 DEF ToLose
    <3>. QED BY <3>3, <3>4 DEF q, w
  <2>7. CASE x # Dropped /\ ~IsPrefix(p, x)
    <3>1. x \in S /\ e[k + 1] = Dropped
      BY <2>3, <2>7, RemovePrefixType
    <3>2. ASSUME NEW t \in S, s = w \o t
          PROVE  FALSE
      <4>1. x = (p \o q) \o t
        BY <2>4, <2>7, <3>2 DEF ToLose
      <4>2. (p \o q) \o t = p \o (q \o t) /\ q \o t \in S
        <5>1. p \in S /\ q \in S
          BY <2>3
        <5>2. q \o t \in S
          BY <5>1, Strings
        <5>3. (p \o q) \o t = p \o (q \o t)
          BY <5>1, Regroup
        <5>. QED BY <5>2, <5>3
      <4>3. IsPrefix(p, p \o (q \o t))
        BY <2>3, <4>2, PrefixConcat DEF S
      <4>. QED BY <2>7, <4>1, <4>2, <4>3
    <3>3. ToLose(Dropped, s, w, q)
      BY <3>2 DEF ToLose
    <3>. QED BY <3>1, <3>3 DEF q, w
  <2>. QED BY <2>5, <2>6, <2>7
<1>9. Nat \subseteq N
  <2>. HIDE DEF N
  <2>. QED BY <1>7, <1>8, NatSetInduction
<1>10. ToLose(Event(c, s), s, Mark(c), <<>>)
  <2>1. n \in N /\ n - n = 0
    BY <1>1, <1>9
  <2>. QED BY <1>4, <1>5, <2>1
<1>11. Event(c, s) \in S \union {Dropped} /\ Mark(c) \in S
  BY <1>1, <1>4, <1>5
<1> DEFINE out == Event(c, s)
<1>. HIDE DEF out
<1>12. ASSUME out # Dropped
       PROVE  out \in S /\ s = Mark(c) \o out
  <2>1. out \in S
    BY <1>11, <1>12 DEF out
  <2>2. s = Mark(c) \o out <=> out = <<>> \o out
    BY <1>10, <1>12, <2>1 DEF ToLose, out
  <2>3. <<>> \o out = out
    BY <2>1, ConcatEmptySeq DEF S
  <2>. QED BY <2>1, <2>2, <2>3
<1>13. ASSUME out = Dropped, IsPrefix(Mark(c), s)
       PROVE  FALSE
  <2>1. s = Mark(c) \o Behind(s, Len(Mark(c))) /\ Behind(s, Len(Mark(c))) \in S
    BY <1>11, <1>13, PrefixRest DEF S
  <2>. QED BY <1>10, <1>13, <2>1 DEF ToLose, out
<1>14. EventIs(c, s, out)
  BY <1>6, <1>11, <1>12, <1>13 DEF EventIs, out
<1>. QED BY <1>14 DEF out

MarkType(c) == Mark(c) \in S /\ Len(Mark(c)) \in Nat

LEMMA MarkInS ==
    ASSUME NEW c \in Clients
    PROVE  MarkType(c)
<1>1. PICK m : Marks(c, m)
  BY MarkSteps
<1>2. Len(Line[c]) \in Nat
  BY Lines
<1>3. Mark(c) \in S
  BY <1>1, <1>2 DEF Marks
<1>. QED BY <1>3, LenProperties DEF MarkType, S

\* The mark has every part of it in it.
Grows(c, m) ==
    \A k \in 0..Len(Line[c]) : Len(m[k]) \in Nat /\ Len(m[k]) <= Len(Mark(c))

LEMMA MarkGrows ==
    ASSUME NEW c \in Clients, NEW m, Marks(c, m)
    PROVE  Grows(c, m)
<1> DEFINE n == Len(Line[c])
<1>1. n \in Nat /\ \A k \in 1..n : Line[c][k] \in S /\ Len(Line[c][k]) \in Nat
  BY Lines, LenProperties DEF S
<1>2. /\ m \in [0..n -> S] /\ Mark(c) = m[n]
      /\ \A k \in 0..(n - 1) : m[k + 1] = Line[c][k + 1] \o m[k]
  BY DEF Marks
<1>3. \A k \in 0..n : m[k] \in S /\ Len(m[k]) \in Nat
  BY <1>2, LenProperties DEF S
<1>. HIDE DEF n
<1> DEFINE N == {j \in Nat : j <= n => Len(m[n - j]) <= Len(m[n])}
<1>4. 0 \in N
  BY <1>1, <1>3
<1>5. ASSUME NEW j \in Nat, j \in N
      PROVE  j + 1 \in N
  <2>1. SUFFICES ASSUME j + 1 <= n
                 PROVE  Len(m[n - (j + 1)]) <= Len(m[n])
    OBVIOUS
  <2> DEFINE k == n - (j + 1)
  <2>2. k \in 0..(n - 1) /\ k + 1 = n - j /\ k + 1 \in 1..n /\ k \in 0..n /\ n \in 0..n
    BY <1>1, <2>1
  <2>. HIDE DEF k
  <2>3. Len(m[k + 1]) <= Len(m[n])
    BY <1>1, <1>5, <2>1, <2>2
  <2>4. Len(m[k + 1]) = Len(Line[c][k + 1]) + Len(m[k])
    BY <1>1, <1>2, <1>3, <2>2, Strings
  <2>5. Len(Line[c][k + 1]) \in Nat /\ Len(m[k]) \in Nat /\ Len(m[n]) \in Nat
    BY <1>1, <1>3, <2>2
  <2>6. Len(m[k]) <= Len(m[n])
    <3>1. \A x, y, z, w \in Nat : x = y + z /\ x <= w => z <= w
      OBVIOUS
    <3>2. Len(m[k + 1]) \in Nat
      BY <1>1, <1>3, <2>2
    <3>. QED BY <2>3, <2>4, <2>5, <3>1, <3>2
  <2>. QED BY <2>6 DEF k
<1>6. Nat \subseteq N
  <2>. HIDE DEF N
  <2>. QED BY <1>4, <1>5, NatSetInduction
<1>7. ASSUME NEW k \in 0..n
      PROVE  Len(m[k]) \in Nat /\ Len(m[k]) <= Len(Mark(c))
  <2>1. n - k \in Nat /\ n - k <= n /\ n - (n - k) = k
    BY <1>1
  <2>2. Len(m[n - (n - k)]) <= Len(m[n])
    BY <1>6, <2>1
  <2>. QED BY <1>2, <1>3, <2>1, <2>2
<1>. QED BY <1>7 DEF Grows, n

\* What is left for prefixes in a message with the string s.
Room(s) == MaxBytes - Size(s)

\* Groups put the prefixes so far in front, but cut behind.
Kept(x, s, part) ==
    /\ x # Panic => x \in S /\ IsPrefix(x, part \o s)
    /\ Len(part) <= Room(s) => x = part \o s

LEMMA RequestKeeps ==
    ASSUME NEW c \in Clients, NEW s \in S, NEW m, Marks(c, m), NEW r, Requests(c, s, r)
    PROVE  Kept(r[Len(Line[c])], s, Mark(c))
<1> DEFINE n == Len(Line[c])
<1>1. n \in Nat /\ \A k \in 1..n : Line[c][k] \in S /\ Len(Line[c][k]) \in Nat
  BY Lines, LenProperties DEF S
<1>2. /\ m \in [0..n -> S] /\ m[0] = <<>> /\ Mark(c) = m[n]
      /\ \A k \in 0..(n - 1) : m[k + 1] = Line[c][k + 1] \o m[k]
  BY DEF Marks
<1>3. /\ r \in [0..n -> S \union {Panic}] /\ r[0] = s
      /\ \A k \in 0..(n - 1) :
           r[k + 1] = IF r[k] = Panic THEN Panic ELSE AddPrefix(r[k], Size(s), Line[c][k + 1])
  BY DEF Requests
<1>4. Panic \notin S /\ MaxBytes \in Nat /\ Size(s) \in Nat
  BY SafeClipAssumption, Sizes DEF S
<1>. HIDE DEF n
<1> DEFINE N == {k \in Nat : k <= n => Kept(r[k], s, m[k])}
<1>5. 0 \in N
  <2>1. <<>> \o s = s /\ <<>> \in S
    BY ConcatEmptySeq, EmptySeq DEF S
  <2>2. s \o <<>> = s
    BY ConcatEmptySeq DEF S
  <2>3. IsPrefix(s, s \o <<>>)
    BY <2>1, PrefixConcat DEF S
  <2>. QED BY <1>2, <1>3, <2>1, <2>2, <2>3 DEF Kept
<1>6. ASSUME NEW k \in Nat, k \in N
      PROVE  k + 1 \in N
  <2>1. SUFFICES ASSUME k + 1 <= n
                 PROVE  Kept(r[k + 1], s, m[k + 1])
    OBVIOUS
  <2>2. k \in 0..(n - 1) /\ k + 1 \in 1..n /\ k \in 0..n /\ k <= n
    BY <1>1, <2>1
  <2> DEFINE x == r[k]
             part == m[k]
             p == Line[c][k + 1]
             new == AddPrefix(x, Size(s), p)
             over == Len(p) + Size(s) - MaxBytes
  <2>3. /\ x \in S \union {Panic} /\ part \in S /\ p \in S /\ m[k + 1] = p \o part
        /\ r[k + 1] = IF x = Panic THEN Panic ELSE new
    BY <1>1, <1>2, <1>3, <2>2
  <2>4. Kept(x, s, part)
    BY <1>6, <2>2
  <2>5. Len(part) \in Nat /\ Len(p) \in Nat
    BY <2>3, LenProperties DEF S
  <2>. HIDE DEF x, part, p
  <2>6. Len(p \o part) = Len(p) + Len(part)
    BY <2>3, Strings
  <2>7. (p \o part) \o s = p \o (part \o s)
    BY <2>3, Regroup
  <2>8. part \o s \in S
    BY <2>3, Strings
  <2>9. CASE x = Panic
    <3>1. ~(Len(part) <= Room(s)) \/ part \o s = Panic
      BY <2>4, <2>9 DEF Kept
    <3>2. ~(Len(p \o part) <= Room(s))
      <4>1. ~(Len(part) <= Room(s))
        BY <1>4, <2>8, <3>1
      <4>2. Room(s) \in Int
        BY <1>4 DEF Room
      <4>. QED BY <2>5, <2>6, <4>1, <4>2
    <3>3. Kept(Panic, s, p \o part)
      BY <3>2 DEF Kept
    <3>. QED BY <2>3, <2>9, <3>3
  <2>10. CASE x # Panic
    <3>1. x \in S /\ IsPrefix(x, part \o s) /\ r[k + 1] = new
      BY <2>3, <2>4, <2>10 DEF Kept
    <3>2. Len(x) \in Nat
      BY <3>1, LenProperties DEF S
    <3>3. IsPrefix(p \o x, p \o (part \o s))
      BY <2>3, <2>8, <3>1, PrefixOfConcat DEF S
    <3>a. Cut(x, p, over, new)
      BY <1>4, <2>3, <3>1, AddPrefixCuts
    <3>. HIDE DEF new, over
    <3>4. /\ over \in Int
          /\ over <= 0 => new = p \o x
          /\ over > Len(x) => new = Panic
          /\ over > 0 /\ over <= Len(x) =>
               new = p \o SubSeq(x, 1, Len(x) - over) /\ Len(x) - over \in 0..Len(x) /\ new \in S
      BY <3>a DEF Cut
    <3>5. CASE over <= 0
      <4>1. new = p \o x /\ new \in S
        BY <2>3, <3>1, <3>4, <3>5, Strings
      <4>2. IsPrefix(new, (p \o part) \o s)
        BY <2>7, <3>3, <4>1
      <4>3. Len(p \o part) <= Room(s) => Len(part) <= Room(s)
        BY <1>4, <2>5, <2>6 DEF Room
      <4>4. Len(p \o part) <= Room(s) => new = (p \o part) \o s
        BY <2>4, <2>7, <4>1, <4>3 DEF Kept
      <4>5. Kept(new, s, p \o part)
        BY <4>1, <4>2, <4>4 DEF Kept
      <4>. QED BY <2>3, <3>1, <4>5
    <3>6. over > 0 => ~(Len(p \o part) <= Room(s))
      BY <1>4, <2>5, <2>6 DEF Room, over
    <3>7. CASE over > Len(x)
      <4>1. new = Panic /\ over > 0
        BY <3>2, <3>4, <3>7
      <4>2. Kept(new, s, p \o part)
        BY <3>6, <4>1 DEF Kept
      <4>. QED BY <2>3, <3>1, <4>2
    <3>8. CASE over > 0 /\ over <= Len(x)
      <4> DEFINE i == Len(x) - over
      <4>1. new = p \o SubSeq(x, 1, i) /\ i \in 0..Len(x) /\ new \in S
        BY <3>4, <3>8
      <4>. HIDE DEF i
      <4>2. SubSeq(x, 1, i) \in S /\ IsPrefix(SubSeq(x, 1, i), x)
        BY <3>1, <4>1, CutIsPrefix DEF S
      <4>3. IsPrefix(new, p \o x)
        <5>1. p \in Seq(Chars) /\ x \in Seq(Chars)
          BY <2>3, <3>1 DEF S
        <5> DEFINE u == SubSeq(x, 1, i)
        <5>2. u \in Seq(Chars) /\ IsPrefix(u, x)
          BY <4>2 DEF S
        <5>. HIDE DEF u
        <5>3. IsPrefix(p \o u, p \o x)
          BY <5>1, <5>2, PrefixOfConcat
        <5>. QED BY <4>1, <5>3 DEF u
      <4>4. p \o x \in S /\ p \o (part \o s) \in S
        BY <2>3, <2>8, <3>1, Strings
      <4>5. IsPrefix(new, p \o (part \o s))
        BY <3>3, <4>1, <4>3, <4>4, PrefixTransitive DEF S
      <4>6. Kept(new, s, p \o part)
        BY <2>7, <3>6, <3>8, <4>1, <4>5 DEF Kept
      <4>. QED BY <2>3, <3>1, <4>6
    <3>. QED BY <3>2, <3>4, <3>5, <3>7, <3>8
  <2>. QED BY <2>9, <2>10
<1>7. Nat \subseteq N
  <2>. HIDE DEF N
  <2>. QED BY <1>5, <1>6, NatSetInduction
<1>8. Kept(r[n], s, m[n])
  BY <1>1, <1>7
<1>. QED BY <1>2, <1>8 DEF n

\* No group panics where the prefixes fit; it fills the message, or has cut nothing.
Filled(x, s, part) ==
    /\ x \in S
    /\ Len(x) >= Len(s) + Room(s) \/ Len(x) >= Len(part) + Len(s)

LEMMA RequestFills ==
    ASSUME NEW c \in Clients, NEW s \in S, Size(s) <= MaxBytes, Fits(c),
           NEW m, Marks(c, m), NEW r, Requests(c, s, r)
    PROVE  Filled(r[Len(Line[c])], s, Mark(c))
<1> DEFINE n == Len(Line[c])
<1>1. n \in Nat /\ \A k \in 1..n : Line[c][k] \in S /\ Len(Line[c][k]) \in Nat
  BY Lines, LenProperties DEF S
<1>2. /\ m \in [0..n -> S] /\ m[0] = <<>> /\ Mark(c) = m[n]
      /\ \A k \in 0..(n - 1) : m[k + 1] = Line[c][k + 1] \o m[k]
  BY DEF Marks
<1>3. /\ r \in [0..n -> S \union {Panic}] /\ r[0] = s
      /\ \A k \in 0..(n - 1) :
           r[k + 1] = IF r[k] = Panic THEN Panic ELSE AddPrefix(r[k], Size(s), Line[c][k + 1])
  BY DEF Requests
<1>4. /\ Panic \notin S /\ MaxBytes \in Nat /\ Size(s) \in Nat /\ Len(s) \in Nat
      /\ Room(s) \in Nat /\ Len(Mark(c)) \in Nat /\ Len(Mark(c)) <= Len(s) + Room(s)
  <2>1. Panic \notin S /\ MaxBytes \in Nat
    BY SafeClipAssumption DEF S
  <2>2. Size(s) \in Nat /\ Len(s) \in Nat /\ Size(s) <= Len(s) + 16
    BY Sizes
  <2>3. Len(Mark(c)) \in Nat
    BY MarkInS DEF MarkType
  <2>. QED BY <2>1, <2>2, <2>3 DEF Room, Fits
<1>5. \A k \in 0..n : Len(m[k]) \in Nat /\ Len(m[k]) <= Len(Mark(c))
  BY MarkGrows DEF Grows
<1>. HIDE DEF n
<1> DEFINE N == {k \in Nat : k <= n => Filled(r[k], s, m[k])}
<1>6. 0 \in N
  <2>1. Len(m[0]) = 0
    BY <1>2, EmptySeq
  <2>. QED BY <1>3, <1>4, <2>1 DEF Filled
<1>7. ASSUME NEW k \in Nat, k \in N
      PROVE  k + 1 \in N
  <2>1. SUFFICES ASSUME k + 1 <= n
                 PROVE  Filled(r[k + 1], s, m[k + 1])
    OBVIOUS
  <2>2. k \in 0..(n - 1) /\ k + 1 \in 1..n /\ k \in 0..n /\ k + 1 \in 0..n /\ k <= n
    BY <1>1, <2>1
  <2> DEFINE x == r[k]
             part == m[k]
             p == Line[c][k + 1]
             new == AddPrefix(x, Size(s), p)
             over == Len(p) + Size(s) - MaxBytes
             whole == Len(Mark(c))
  <2>3. /\ part \in S /\ p \in S /\ m[k + 1] = p \o part
        /\ r[k + 1] = IF x = Panic THEN Panic ELSE new
    BY <1>1, <1>2, <1>3, <2>2
  <2>4. Filled(x, s, part)
    BY <1>7, <2>2
  <2>5. /\ Len(part) \in Nat /\ Len(p) \in Nat /\ Len(p \o part) = Len(p) + Len(part)
        /\ Len(p \o part) <= whole /\ whole \in Nat
    <3>1. Len(part) \in Nat /\ Len(p) \in Nat
      BY <2>3, LenProperties DEF S
    <3>2. Len(p \o part) = Len(p) + Len(part)
      BY <2>3, Strings
    <3>3. Len(m[k + 1]) <= Len(Mark(c))
      BY <1>5, <2>2
    <3>. QED BY <1>4, <2>3, <3>1, <3>2, <3>3
  <2>. HIDE DEF x, part, p
  <2>6. x \in S /\ x # Panic /\ r[k + 1] = new /\ Len(x) \in Nat
    BY <1>4, <2>3, <2>4, LenProperties DEF Filled, S
  <2>a. Cut(x, p, over, new)
    BY <1>4, <2>3, <2>6, AddPrefixCuts
  <2>8. over = Len(p) - Room(s)
    BY <1>4, <2>5 DEF Room
  <2>9. p \o x \in S /\ Len(p \o x) = Len(p) + Len(x)
    BY <2>3, <2>6, Strings
  <2>10. Len(x) >= Len(s) + Room(s) \/ Len(x) >= Len(part) + Len(s)
    BY <2>4 DEF Filled
  <2>. HIDE DEF new, over, whole
  <2>7. /\ over \in Int
        /\ over <= 0 => new = p \o x
        /\ over > Len(x) => new = Panic
        /\ over > 0 /\ over <= Len(x) =>
             new \in S /\ Len(new) = Len(p) + Len(x) - over
    BY <2>a DEF Cut
  <2>11. whole <= Len(s) + Room(s)
    BY <1>4 DEF whole
  <2>12. CASE over <= 0
    <3>1. new \in S /\ Len(new) = Len(p) + Len(x)
      BY <2>7, <2>9, <2>12
    <3>2. Len(new) >= Len(s) + Room(s) \/ Len(new) >= Len(p \o part) + Len(s)
      BY <1>4, <2>5, <2>6, <2>10, <3>1
    <3>3. Filled(new, s, p \o part)
      BY <3>1, <3>2 DEF Filled
    <3>. QED BY <2>3, <2>6, <3>3
  <2>13. CASE over > 0
    <3>1. over <= Len(s)
      BY <1>4, <2>5, <2>8, <2>11
    <3>2. over <= Len(x)
      BY <1>4, <2>5, <2>6, <2>7, <2>10, <3>1
    <3>3. new \in S /\ Len(new) = Len(p) + Len(x) - over
      BY <2>7, <2>13, <3>2
    <3>4. Len(new) >= Len(s) + Room(s)
      <4>1. \A a, b, room \in Nat : a + b - (a - room) = b + room
        OBVIOUS
      <4>2. Len(new) = Len(x) + Room(s)
        <5>1. Len(p) \in Nat /\ Len(x) \in Nat /\ Room(s) \in Nat
          BY <1>4, <2>5, <2>6
        <5>2. Len(new) = Len(p) + Len(x) - (Len(p) - Room(s))
          BY <2>8, <3>3
        <5>. QED BY <4>1, <5>1, <5>2
      <4>3. Len(x) >= Len(s)
        BY <1>4, <2>5, <2>6, <2>10
      <4>. QED BY <1>4, <2>6, <4>2, <4>3
    <3>5. Filled(new, s, p \o part)
      BY <3>3, <3>4 DEF Filled
    <3>. QED BY <2>3, <2>6, <3>5
  <2>. QED BY <2>7, <2>12, <2>13
<1>8. Nat \subseteq N
  <2>. HIDE DEF N
  <2>. QED BY <1>6, <1>7, NatSetInduction
<1>9. Filled(r[n], s, m[n])
  BY <1>1, <1>8
<1>. QED BY <1>2, <1>9 DEF n

\* One prefix makes a string shorter, never too long.
LEMMA OnePrefixFits ==
    ASSUME NEW s \in S, NEW p \in S, Size(s) <= MaxBytes,
           AddPrefix(s, Size(s), p) # Panic
    PROVE  Size(AddPrefix(s, Size(s), p)) <= MaxBytes
<1> DEFINE new == AddPrefix(s, Size(s), p)
           over == Len(p) + Size(s) - MaxBytes
<1>1. /\ Size(s) \in Nat /\ Len(s) \in Nat /\ Len(s) + 13 <= Size(s) /\ MaxBytes \in Nat
      /\ Len(p) \in Nat
  BY Sizes, SafeClipAssumption
<1>a. Cut(s, p, over, new)
  BY <1>1, AddPrefixCuts
<1>3. p \o s \in S /\ Len(p \o s) = Len(p) + Len(s)
  BY Strings
<1>4. over = Len(p) + Size(s) - MaxBytes
  OBVIOUS
<1>. HIDE DEF new, over
<1>2. /\ over \in Int
      /\ over <= 0 => new = p \o s
      /\ over > Len(s) => new = Panic
      /\ over > 0 /\ over <= Len(s) =>
           new \in S /\ Len(new) = Len(p) + Len(s) - over
  BY <1>a DEF Cut
<1>5. new \in S /\ Len(new) + 13 <= MaxBytes
  <2>1. CASE over <= 0
    <3>1. new \in S /\ Len(new) = Len(p) + Len(s)
      BY <1>2, <1>3, <2>1
    <3>2. Len(p) + Size(s) <= MaxBytes
      BY <1>1, <1>4, <2>1
    <3>3. (Len(p) + Len(s)) + 13 <= MaxBytes
      BY <1>1, <3>2
    <3>. QED BY <3>1, <3>3
  <2>2. CASE over > 0
    <3>1. over <= Len(s)
      BY <1>1, <1>2 DEF new
    <3>. QED BY <1>1, <1>2, <1>4, <2>2, <3>1
  <2>. QED BY <1>2, <2>1, <2>2
<1>6. Size(new) <= MaxBytes
  BY <1>5, Sizes
<1>. QED BY <1>6 DEF new

\* A request has all of the prefixes in front, if they fit at all, and nothing in front
\* or between them; it is cut behind.
RequestIs(c, s, out) ==
    /\ out \in S \union {Panic}
    /\ out # Panic =>
         /\ Size(out) <= MaxBytes /\ IsPrefix(out, Mark(c) \o s)
         /\ Fits(c) => IsPrefix(Mark(c), out)
    /\ Short(c, s) => out = Mark(c) \o s
    /\ Fits(c) /\ out = Panic =>
         Len(Line[c]) > 1 /\ 12 + round4(Len(Mark(c)) + Len(s) + 1) > MaxBytes

LEMMA RequestMarks ==
    ASSUME NEW c \in Clients, NEW s \in S, Size(s) <= MaxBytes
    PROVE  RequestIs(c, s, Request(c, s))
<1> DEFINE n == Len(Line[c])
           out == Request(c, s)
           mark == Mark(c)
<1>1. n \in Nat /\ \A k \in 1..n : Line[c][k] \in S
  BY Lines
<1>2. PICK m : Marks(c, m)
  BY MarkSteps
<1>3. PICK r : Requests(c, s, r)
  BY RequestSteps
<1> DEFINE last == r[n]
<1>4. /\ last \in S \union {Panic}
      /\ out = IF Line[c] # <<>> /\ last # Panic /\ TooLong(last) THEN Panic ELSE last
  BY <1>1, <1>3 DEF Requests
<1>5. Kept(last, s, mark)
  BY <1>2, <1>3, RequestKeeps
<1>6. Fits(c) => Filled(last, s, mark)
  BY <1>2, <1>3, RequestFills
<1>7. mark \in S /\ Len(mark) \in Nat
  BY MarkInS DEF MarkType
<1>8. mark \o s \in S /\ Len(mark \o s) = Len(mark) + Len(s)
  BY <1>7, Strings
<1>9. /\ Len(s) \in Nat /\ Size(s) \in Nat /\ Size(s) <= Len(s) + 16 /\ MaxBytes \in Nat
      /\ Panic \notin S
  BY Sizes, SafeClipAssumption DEF S
<1>10. Line[c] = <<>> => last = s /\ n = 0
  <2>1. Line[c] = <<>> => n = 0
    BY EmptySeq
  <2>2. r[0] = s
    BY <1>3 DEF Requests
  <2>. QED BY <2>1, <2>2
<1>11. Fits(c) <=> Len(mark) + 16 <= MaxBytes
  BY DEF Fits
<1>12. Short(c, s) <=> Len(mark) + Len(s) + 16 <= MaxBytes
  BY DEF Short
<1>a. n = 1 => last = AddPrefix(s, Size(s), Line[c][1])
  <2>1. SUFFICES ASSUME n = 1
                 PROVE  last = AddPrefix(s, Size(s), Line[c][1])
    OBVIOUS
  <2>2. 0 \in 0..(n - 1) /\ 0 + 1 = 1
    BY <2>1
  <2>3. r[0] = s /\ r[0 + 1] = IF r[0] = Panic THEN Panic ELSE AddPrefix(r[0], Size(s), Line[c][0 + 1])
    BY <1>3, <2>2 DEF Requests
  <2>. QED BY <1>9, <2>1, <2>2, <2>3
<1>. HIDE DEF n, out, mark, last
<1>13. out \in S \union {Panic}
  BY <1>4
<1>14. ASSUME out # Panic
       PROVE  out \in S /\ out = last /\ Size(out) <= MaxBytes /\ IsPrefix(out, mark \o s)
  <2>1. out = last /\ last \in S
    BY <1>4, <1>14
  <2>2. IsPrefix(last, mark \o s)
    BY <1>5, <1>14, <2>1 DEF Kept
  <2>3. Size(last) \in Nat
    BY <2>1, Sizes
  <2>4. Size(last) <= MaxBytes
    <3>1. CASE Line[c] = <<>>
      BY <1>10, <3>1
    <3>2. CASE Line[c] # <<>>
      <4>1. ~TooLong(last)
        BY <1>4, <1>14, <2>1, <3>2
      <4>. QED BY <1>9, <2>3, <4>1 DEF TooLong
    <3>. QED BY <3>1, <3>2
  <2>. QED BY <2>1, <2>2, <2>4
<1>15. ASSUME Fits(c)
       PROVE  last \in S /\ Len(last) >= Len(mark)
  <2>1. last \in S /\ (Len(last) >= Len(s) + Room(s) \/ Len(last) >= Len(mark) + Len(s))
    BY <1>6, <1>15 DEF Filled
  <2>2. Len(last) \in Nat
    BY <2>1, Sizes
  <2>3. Room(s) \in Int /\ Len(s) + Room(s) >= Len(mark)
    BY <1>7, <1>9, <1>11, <1>15 DEF Room
  <2>. QED BY <1>7, <1>9, <2>1, <2>2, <2>3
<1>16. ASSUME out # Panic, Fits(c)
       PROVE  IsPrefix(mark, out)
  <2>1. IsPrefix(mark, mark \o s)
    BY <1>7, PrefixConcat DEF S
  <2>2. out \in S /\ IsPrefix(out, mark \o s) /\ Len(out) >= Len(mark) /\ Len(out) \in Nat
    BY <1>14, <1>15, <1>16, Sizes
  <2>3. Len(mark) <= Len(out)
    BY <1>7, <2>2
  <2>. QED BY <1>7, <1>8, <2>1, <2>2, <2>3, PrefixesOfOne DEF S
<1>17. ASSUME Short(c, s)
       PROVE  out = mark \o s
  <2>1. Len(mark) <= Room(s)
    BY <1>7, <1>9, <1>12, <1>17 DEF Room
  <2>2. last = mark \o s
    BY <1>5, <2>1 DEF Kept
  <2>3. Size(last) \in Nat /\ Size(last) <= Len(last) + 16
    BY <1>8, <2>2, Sizes
  <2>4. Size(last) <= MaxBytes
    BY <1>7, <1>8, <1>9, <1>12, <1>17, <2>2, <2>3
  <2>5. ~TooLong(last)
    BY <1>9, <2>3, <2>4 DEF TooLong
  <2>. QED BY <1>4, <2>2, <2>5
<1>18. ASSUME Fits(c), out = Panic
       PROVE  n > 1 /\ 12 + round4(Len(mark) + Len(s) + 1) > MaxBytes
  <2>1. last \in S /\ Line[c] # <<>> /\ TooLong(last)
    BY <1>4, <1>9, <1>15, <1>18
  <2>2. Size(last) \in Nat /\ Size(last) > MaxBytes /\ Len(last) \in Nat
    BY <1>9, <2>1, Sizes DEF TooLong
  <2>3. n # 0
    BY <2>1, Lines, EmptySeq DEF n
  <2>4. n # 1
    <3>1. SUFFICES ASSUME n = 1
                   PROVE  FALSE
      OBVIOUS
    <3>2. Line[c][1] \in S /\ last = AddPrefix(s, Size(s), Line[c][1]) /\ last # Panic
      BY <1>1, <1>9, <1>a, <2>1, <3>1
    <3>3. Size(last) <= MaxBytes
      BY <3>2, OnePrefixFits
    <3>. QED BY <1>9, <2>2, <3>3
  <2>5. IsPrefix(last, mark \o s)
    BY <1>5, <1>9, <2>1 DEF Kept
  <2>6. Len(last) <= Len(mark) + Len(s)
    BY <1>8, <2>5 DEF IsPrefix
  <2>7. ~(Len(last) + 13 <= MaxBytes)
    <3>1. Size(last) <= MaxBytes <=> Len(last) + 13 <= MaxBytes
      BY <2>1, Sizes
    <3>. QED BY <1>9, <2>2, <3>1
  <2>8. ~(Len(mark \o s) + 13 <= MaxBytes)
    BY <1>7, <1>8, <1>9, <2>2, <2>6, <2>7
  <2>9. ~(Size(mark \o s) <= MaxBytes) /\ Size(mark \o s) \in Nat
    BY <1>8, <2>8, Sizes
  <2>10. Size(mark \o s) = 12 + round4(Len(mark) + Len(s) + 1)
    BY <1>8 DEF Size
  <2>. QED BY <1>1, <1>9, <2>3, <2>4, <2>9, <2>10
<1>19. RequestIs(c, s, out)
  BY <1>13, <1>14, <1>16, <1>17, <1>18 DEF RequestIs, mark, n
<1>. QED BY <1>19 DEF out

LEMMA NullPasses ==
    ASSUME NEW c \in Clients
    PROVE  Request(c, Null) \in {Null, Panic} /\ Event(c, Null) \in {Null, Panic}
BY DEF Request, Event, Demarshals

\* Without a group nothing is looked at.
LEMMA Untouched ==
    ASSUME NEW c \in Clients, NEW s \in S \union {Null}, Request(c, s) = Panic \/ Event(c, s) = Panic
    PROVE  Line[c] # <<>>
<1>1. s # Panic
  BY SafeClipAssumption DEF S
<1>2. Line[c] = <<>> => Request(c, s) = s /\ Event(c, s) = s
  BY DEF Request, Event
<1>. QED BY <1>1, <1>2

-----------------------------------------------------------------------------
(* The inductive invariant.  Of every string that is under way it says     *)
(* whose name it is, and that it comes with the mark of its client.        *)

Sized(s) == s \in S /\ Size(s) <= MaxBytes

Marked(o, s) == Fits(o) => IsPrefix(Mark(o), s)

\* What the name of a client ends.
Overlong(c, s) ==
    /\ Line[c] # <<>>
    /\ Fits(c) /\ s # Null =>
          Len(Line[c]) > 1 /\ 12 + round4(Len(Mark(c)) + Len(s) + 1) > MaxBytes

StatesOK ==
    /\ running \in [Clients -> BOOLEAN]
    /\ endedBy \in [Clients -> SUBSET (S \union {Null})]
    /\ named \in [Clients -> SUBSET Names]
    /\ source \in [Clients -> SUBSET S]
    /\ titles \in [Clients -> SUBSET S]
    /\ advertised \in [Clients -> SUBSET (Clients \X S)]
    /\ seen \in [Clients -> SUBSET (Clients \X S)]
    /\ asked \in [Clients -> SUBSET (S \union {Null})]
    /\ got \in [Clients -> SUBSET (S \union {Null})]

EndsOK ==
    \A c \in Clients : (running[c] <=> endedBy[c] = {}) /\ \A s \in endedBy[c] : Overlong(c, s)

SourceOK == \A o \in Clients : \A s \in source[o] : Sized(s) /\ Marked(o, s) /\ Carries(o, s)

TitlesOK == \A c \in Clients : \A s \in titles[c] : Sized(s) /\ Marked(c, s)

AdvertisedOK ==
    \A c \in Clients : \A p \in advertised[c] :
       Sized(p[2]) /\ Marked(p[1], p[2]) /\ Carries(p[1], p[2])

\* What came of the string s of o.
Shown(c, o, s) == Event(c, s) # Dropped => <<o, Event(c, s)>> \in seen[c]

From(c, q) == \E p \in advertised[c] :
                 Event(c, p[2]) # Dropped /\ q[1] = p[1] /\ q[2] = Event(c, p[2])

SeenOK ==
    \A c \in Clients : /\ \A p \in advertised[c] : Shown(c, p[1], p[2])
                       /\ \A q \in seen[c] : From(c, q)

AskedOK == \A o \in Clients : \A s \in asked[o] : s # Null => Sized(s) /\ Carries(o, s)

\* A name that o offered, or its beginning.
Offered(o, s) == \E n \in named[o] : Beginning(o, s, n)

GotOK == \A o \in Clients : \A s \in got[o] : s # Null => Offered(o, s)

IInv ==
    /\ StatesOK
    /\ EndsOK
    /\ SourceOK
    /\ TitlesOK
    /\ AdvertisedOK
    /\ SeenOK
    /\ AskedOK
    /\ GotOK

LEMMA InitIInv ==
    ASSUME Init
    PROVE  IInv
BY DEF Init, IInv, StatesOK, EndsOK, SourceOK, TitlesOK, AdvertisedOK, SeenOK, AskedOK, GotOK

\* Names are never withdrawn.
Grown == named' \in [Clients -> SUBSET Names] /\ \A o \in Clients : named[o] \subseteq named'[o]

LEMMA CarriesGrow ==
    ASSUME Grown, NEW o \in Clients, NEW s, Carries(o, s)
    PROVE  Carries(o, s)'
BY DEF Grown, Carries

LEMMA OfferedGrow ==
    ASSUME Grown, NEW o \in Clients, NEW s, Offered(o, s)
    PROVE  Offered(o, s)'
BY DEF Grown, Offered

\* What a step leaves alone stays as it is said to be.
LEMMA SourceKept ==
    ASSUME IInv, Grown, NEW o \in Clients, source'[o] \subseteq source[o]
    PROVE  \A s \in source'[o] : Sized(s) /\ Marked(o, s) /\ Carries(o, s)'
BY CarriesGrow DEF IInv, SourceOK

LEMMA AskedKept ==
    ASSUME IInv, Grown, NEW o \in Clients, asked'[o] \subseteq asked[o]
    PROVE  \A s \in asked'[o] : s # Null => Sized(s) /\ Carries(o, s)'
BY CarriesGrow DEF IInv, AskedOK

LEMMA AdvertisedKept ==
    ASSUME IInv, Grown, UNCHANGED advertised
    PROVE  AdvertisedOK'
<1>1. SUFFICES ASSUME NEW c \in Clients, NEW p \in advertised[c]
               PROVE  Sized(p[2]) /\ Marked(p[1], p[2]) /\ Carries(p[1], p[2])'
  BY DEF AdvertisedOK
<1>2. p[1] \in Clients
  BY DEF IInv, StatesOK
<1>. QED BY <1>2, CarriesGrow DEF IInv, AdvertisedOK

LEMMA SeenKept ==
    ASSUME IInv, UNCHANGED <<advertised, seen>>
    PROVE  SeenOK'
BY DEF IInv, SeenOK, Shown, From

LEMMA GotKept ==
    ASSUME IInv, Grown, UNCHANGED got
    PROVE  GotOK'
<1>1. SUFFICES ASSUME NEW o \in Clients, NEW s \in got[o], s # Null
               PROVE  Offered(o, s)'
  BY DEF GotOK
<1>. QED BY <1>1, OfferedGrow DEF IInv, GotOK

LEMMA SessionEndsKeeps ==
    ASSUME IInv, Grown, NEW c \in Clients, NEW s \in S \union {Null}, Overlong(c, s),
           SessionEnds(c, s), UNCHANGED <<advertised, seen, got>>
    PROVE  IInv'
<1>1. /\ running' = [running EXCEPT ![c] = FALSE] /\ endedBy' = [endedBy EXCEPT ![c] = {s}]
      /\ source' = [source EXCEPT ![c] = {}] /\ titles' = [titles EXCEPT ![c] = {}]
      /\ asked' = [asked EXCEPT ![c] = {}]
  BY DEF SessionEnds
<1>2. StatesOK
  BY DEF IInv
<1>3. StatesOK'
  BY <1>1, <1>2 DEF StatesOK, Grown
<1>4. EndsOK'
  <2>1. SUFFICES ASSUME NEW d \in Clients
                 PROVE  (running'[d] <=> endedBy'[d] = {}) /\ \A x \in endedBy'[d] : Overlong(d, x)
    BY DEF EndsOK, Overlong
  <2>2. CASE d = c
    BY <1>1, <1>2, <2>2 DEF StatesOK
  <2>3. CASE d # c
    BY <1>1, <1>2, <2>3 DEF StatesOK, IInv, EndsOK
  <2>. QED BY <2>2, <2>3
<1>5. \A o \in Clients : /\ source'[o] \subseteq source[o] /\ titles'[o] \subseteq titles[o]
                         /\ asked'[o] \subseteq asked[o]
  BY <1>1, <1>2 DEF StatesOK
<1>6. SourceOK'
  BY <1>5, SourceKept DEF SourceOK, Sized, Marked
<1>7. TitlesOK'
  BY <1>5 DEF IInv, TitlesOK, Sized, Marked
<1>8. AskedOK'
  BY <1>5, AskedKept DEF AskedOK, Sized
<1>9. AdvertisedOK' /\ SeenOK' /\ GotOK'
  BY AdvertisedKept, SeenKept, GotKept
<1>. QED BY <1>3, <1>4, <1>6, <1>7, <1>8, <1>9 DEF IInv

\* A request that ends a session is overlong, and what passes is as it should be.
Passes(c, s) ==
    /\ Request(c, s) = Panic => Overlong(c, s)
    /\ Request(c, s) # Panic =>
         Sized(Request(c, s)) /\ Marked(c, Request(c, s)) /\ IsPrefix(Request(c, s), Mark(c) \o s)
    /\ Short(c, s) => Request(c, s) = Mark(c) \o s

LEMMA RequestPasses ==
    ASSUME NEW c \in Clients, NEW s, Sized(s)
    PROVE  Passes(c, s)
<1>1. RequestIs(c, s, Request(c, s))
  BY RequestMarks DEF Sized
<1>2. Request(c, s) = Panic => Line[c] # <<>>
  BY Untouched DEF Sized
<1>. QED BY <1>1, <1>2 DEF RequestIs, Passes, Overlong, Sized, Marked

LEMMA NamesSized ==
    ASSUME NEW n \in Names
    PROVE  Sized(n)
BY SafeClipAssumption DEF Sized, S

LEMMA OfferKeeps ==
    ASSUME IInv, NEW c \in Clients, NEW n \in Names, Offer(c, n)
    PROVE  IInv'
<1>1. /\ named' = With(named, c, n)
      /\ UNCHANGED <<advertised, seen, got>>
  BY DEF Offer
<1>2. StatesOK
  BY DEF IInv
<1>3. Grown /\ n \in named'[c]
  BY <1>1, <1>2 DEF Grown, With, StatesOK
<1>4. Sized(n) /\ Passes(c, n)
  BY NamesSized, RequestPasses
<1>5. CASE Request(c, n) = Panic
  <2>1. SessionEnds(c, n) /\ n \in S \union {Null} /\ Overlong(c, n)
    BY <1>4, <1>5 DEF Offer, Passes, Sized
  <2>. QED BY <1>1, <1>3, <2>1, SessionEndsKeeps
<1>6. CASE Request(c, n) # Panic
  <2> DEFINE new == Request(c, n)
  <2>1. /\ source' = With(source, c, new)
        /\ UNCHANGED <<running, endedBy, titles, asked>>
    BY <1>6 DEF Offer, sessions
  <2>2. Sized(new) /\ Marked(c, new) /\ Carries(c, new)'
    BY <1>3, <1>4, <1>6 DEF Passes, Carries
  <2>. HIDE DEF new
  <2>3. StatesOK'
    BY <1>1, <1>2, <1>3, <2>1, <2>2 DEF StatesOK, Grown, With, Sized
  <2>4. EndsOK' /\ TitlesOK'
    BY <2>1 DEF IInv, EndsOK, TitlesOK, Overlong, Sized, Marked
  <2>5. SourceOK'
    <3>1. SUFFICES ASSUME NEW o \in Clients, NEW s \in source'[o]
                   PROVE  Sized(s) /\ Marked(o, s) /\ Carries(o, s)'
      BY DEF SourceOK, Sized, Marked
    <3>2. s \in source[o] \/ (o = c /\ s = new)
      BY <1>2, <2>1 DEF StatesOK, With
    <3>3. CASE s \in source[o]
      BY <1>3, <3>3, CarriesGrow DEF IInv, SourceOK
    <3>. QED BY <2>2, <3>2, <3>3
  <2>6. AskedOK'
    BY <1>3, <2>1, AskedKept DEF AskedOK, Sized
  <2>7. AdvertisedOK' /\ SeenOK' /\ GotOK'
    BY <1>1, <1>3, AdvertisedKept, SeenKept, GotKept
  <2>. QED BY <2>3, <2>4, <2>5, <2>6, <2>7 DEF IInv
<1>. QED BY <1>5, <1>6

\* Where names stay.
LEMMA SameNames ==
    ASSUME StatesOK, UNCHANGED named
    PROVE  Grown
BY DEF StatesOK, Grown

LEMMA SetTitleKeeps ==
    ASSUME IInv, NEW c \in Clients, NEW n \in Names, SetTitle(c, n)
    PROVE  IInv'
<1>1. UNCHANGED <<named, advertised, seen, got>>
  BY DEF SetTitle
<1>2. StatesOK
  BY DEF IInv
<1>3. Grown
  BY <1>1, <1>2, SameNames
<1>4. Sized(n) /\ Passes(c, n)
  BY NamesSized, RequestPasses
<1>5. CASE Request(c, n) = Panic
  <2>1. SessionEnds(c, n) /\ n \in S \union {Null} /\ Overlong(c, n)
    BY <1>4, <1>5 DEF SetTitle, Passes, Sized
  <2>. QED BY <1>1, <1>3, <2>1, SessionEndsKeeps
<1>6. CASE Request(c, n) # Panic
  <2> DEFINE new == Request(c, n)
  <2>1. /\ titles' = With(titles, c, new)
        /\ UNCHANGED <<running, endedBy, source, asked>>
    BY <1>6 DEF SetTitle, sessions
  <2>2. Sized(new) /\ Marked(c, new)
    BY <1>4, <1>6 DEF Passes
  <2>. HIDE DEF new
  <2>3. StatesOK'
    BY <1>1, <1>2, <2>1, <2>2 DEF StatesOK, With, Sized
  <2>4. EndsOK'
    BY <2>1 DEF IInv, EndsOK, Overlong
  <2>5. TitlesOK'
    <3>1. SUFFICES ASSUME NEW d \in Clients, NEW s \in titles'[d]
                   PROVE  Sized(s) /\ Marked(d, s)
      BY DEF TitlesOK, Sized, Marked
    <3>2. s \in titles[d] \/ (d = c /\ s = new)
      BY <1>2, <2>1 DEF StatesOK, With
    <3>. QED BY <2>2, <3>2 DEF IInv, TitlesOK
  <2>6. SourceOK' /\ AskedOK'
    BY <1>3, <2>1, SourceKept, AskedKept DEF SourceOK, AskedOK, Sized, Marked
  <2>7. AdvertisedOK' /\ SeenOK' /\ GotOK'
    BY <1>1, <1>3, AdvertisedKept, SeenKept, GotKept
  <2>. QED BY <2>3, <2>4, <2>5, <2>6, <2>7 DEF IInv
<1>. QED BY <1>5, <1>6

LEMMA AdvertiseKeeps ==
    ASSUME IInv, NEW o \in Clients, NEW c \in Clients, NEW s \in source[o], Advertise(o, c, s)
    PROVE  IInv'
<1>1. /\ UNCHANGED <<running, endedBy, named, source, titles, asked, got>>
      /\ advertised' = With(advertised, c, <<o, s>>)
      /\ seen' = IF Event(c, s) = Dropped THEN seen ELSE With(seen, c, <<o, Event(c, s)>>)
  BY DEF Advertise, sessions
<1>2. StatesOK
  BY DEF IInv
<1>3. Grown
  BY <1>1, <1>2, SameNames
<1>4. Sized(s) /\ Marked(o, s) /\ Carries(o, s) /\ s \in S
  BY DEF IInv, SourceOK, Sized
<1>5. Event(c, s) # Dropped => Event(c, s) \in S
  <2>1. EventIs(c, s, Event(c, s))
    BY <1>4, EventStrips
  <2>. QED BY <2>1 DEF EventIs
<1>6. StatesOK'
  <2>1. advertised' \in [Clients -> SUBSET (Clients \X S)]
    BY <1>1, <1>2, <1>4 DEF StatesOK, With
  <2>2. seen' \in [Clients -> SUBSET (Clients \X S)]
    BY <1>1, <1>2, <1>5 DEF StatesOK, With
  <2>. QED BY <1>1, <1>2, <2>1, <2>2 DEF StatesOK
<1>7. EndsOK' /\ TitlesOK'
  BY <1>1 DEF IInv, EndsOK, TitlesOK, Overlong, Sized, Marked
<1>8. SourceOK' /\ AskedOK' /\ GotOK'
  BY <1>1, <1>3, SourceKept, AskedKept, GotKept DEF SourceOK, AskedOK, Sized, Marked
<1>9. \A d \in Clients : /\ advertised[d] \subseteq advertised'[d]
                         /\ seen[d] \subseteq seen'[d]
                         /\ \A p \in advertised'[d] : p \in advertised[d] \/ (d = c /\ p = <<o, s>>)
                         /\ \A q \in seen'[d] : \/ q \in seen[d]
                                                \/ /\ d = c /\ q = <<o, Event(c, s)>>
                                                   /\ Event(c, s) # Dropped
  BY <1>1, <1>2 DEF StatesOK, With
<1>10. <<o, s>> \in advertised'[c] /\ (Event(c, s) # Dropped => <<o, Event(c, s)>> \in seen'[c])
  BY <1>1, <1>2 DEF StatesOK, With
<1>11. AdvertisedOK'
  <2>1. SUFFICES ASSUME NEW d \in Clients, NEW p \in advertised'[d]
                 PROVE  Sized(p[2]) /\ Marked(p[1], p[2]) /\ Carries(p[1], p[2])'
    BY DEF AdvertisedOK, Sized, Marked
  <2>2. CASE p \in advertised[d]
    <3>1. p[1] \in Clients
      BY <1>2, <2>2 DEF StatesOK
    <3>. QED BY <1>3, <2>2, <3>1, CarriesGrow DEF IInv, AdvertisedOK
  <2>3. CASE p = <<o, s>>
    <3>1. p[1] = o /\ p[2] = s
      BY <2>3
    <3>2. Carries(o, s)'
      BY <1>3, <1>4, CarriesGrow
    <3>. QED BY <1>4, <3>1, <3>2
  <2>. QED BY <1>9, <2>2, <2>3
<1>12. SeenOK'
  <2>1. ASSUME NEW d \in Clients, NEW p \in advertised'[d]
        PROVE  Shown(d, p[1], p[2])'
    <3>1. CASE p \in advertised[d]
      BY <1>9, <3>1 DEF IInv, SeenOK, Shown
    <3>2. CASE d = c /\ p = <<o, s>>
      BY <1>10, <3>2 DEF Shown
    <3>. QED BY <1>9, <3>1, <3>2
  <2>2. ASSUME NEW d \in Clients, NEW q \in seen'[d]
        PROVE  From(d, q)'
    <3>1. CASE q \in seen[d]
      <4>1. From(d, q)
        BY <3>1 DEF IInv, SeenOK
      <4>. QED BY <1>9, <4>1 DEF From
    <3>2. CASE d = c /\ q = <<o, Event(c, s)>> /\ Event(c, s) # Dropped
      <4> DEFINE p == <<o, s>>
      <4>1. p \in advertised'[d] /\ p[1] = o /\ p[2] = s /\ q[1] = o /\ q[2] = Event(c, s)
        BY <1>10, <3>2
      <4>. HIDE DEF p
      <4>. QED BY <3>2, <4>1 DEF From
    <3>. QED BY <1>9, <3>1, <3>2
  <2>. QED BY <2>1, <2>2 DEF SeenOK
<1>. QED BY <1>6, <1>7, <1>8, <1>11, <1>12 DEF IInv

\* What is left of a string of o without the mark of o, by whichever waydapt.
LEMMA WithoutMark ==
    ASSUME StatesOK, NEW o \in Clients, NEW c \in Clients, Mark(c) = Mark(o),
           NEW s \in S, Carries(o, Mark(c) \o s)
    PROVE  Offered(o, s) /\ \E n \in named[o] : Beginning(c, s, n)
<1>1. PICK n \in named[o] : /\ IsPrefix(Mark(o) \o s, Mark(o) \o n)
                            /\ Short(o, n) => Mark(o) \o s = Mark(o) \o n
  BY DEF Carries
<1>2. n \in S
  BY SafeClipAssumption DEF StatesOK, S
<1>3. Mark(o) \in S
  BY MarkInS DEF MarkType
<1>4. IsPrefix(s, n)
  BY <1>1, <1>2, <1>3, PrefixOfConcat DEF S
<1>5. Short(o, n) => s = n
  BY <1>1, <1>2, <1>3, ConcatSimplifications DEF S
<1>6. Short(o, n) <=> Short(c, n)
  BY DEF Short
<1>. QED BY <1>4, <1>5, <1>6 DEF Offered, Beginning

LEMMA AskStep ==
    ASSUME IInv, NEW c \in Clients, NEW o \in Clients, NEW s \in S \union {Null}, Ask(c, o, s),
           Request(c, s) = Panic => Overlong(c, s),
           Request(c, s) \notin {Panic, Null} => Sized(Request(c, s)) /\ Carries(o, Request(c, s))
    PROVE  IInv'
<1>1. UNCHANGED <<named, advertised, seen, got>>
  BY DEF Ask
<1>2. StatesOK
  BY DEF IInv
<1>3. Grown
  BY <1>1, <1>2, SameNames
<1>4. CASE Request(c, s) = Panic
  <2>1. SessionEnds(c, s)
    BY <1>4 DEF Ask
  <2>. QED BY <1>1, <1>3, <1>4, <2>1, SessionEndsKeeps
<1>5. CASE Request(c, s) # Panic
  <2> DEFINE new == Request(c, s)
  <2>1. /\ asked' = With(asked, o, new)
        /\ UNCHANGED <<running, endedBy, source, titles>>
    BY <1>5 DEF Ask, sessions
  <2>2. new # Null => Sized(new) /\ Carries(o, new)
    BY <1>5
  <2>. HIDE DEF new
  <2>3. StatesOK'
    BY <1>1, <1>2, <2>1, <2>2 DEF StatesOK, With, Sized
  <2>4. EndsOK' /\ TitlesOK'
    BY <2>1 DEF IInv, EndsOK, TitlesOK, Overlong, Sized, Marked
  <2>5. SourceOK'
    BY <1>3, <2>1, SourceKept DEF SourceOK, Sized, Marked
  <2>6. AskedOK'
    <3>1. SUFFICES ASSUME NEW d \in Clients, NEW x \in asked'[d], x # Null
                   PROVE  Sized(x) /\ Carries(d, x)'
      BY DEF AskedOK, Sized
    <3>2. x \in asked[d] \/ (d = o /\ x = new)
      BY <1>2, <2>1 DEF StatesOK, With
    <3>3. Sized(x) /\ Carries(d, x)
      BY <2>2, <3>1, <3>2 DEF IInv, AskedOK
    <3>. QED BY <1>3, <3>3, CarriesGrow
  <2>7. AdvertisedOK' /\ SeenOK' /\ GotOK'
    BY <1>1, <1>3, AdvertisedKept, SeenKept, GotKept
  <2>. QED BY <2>3, <2>4, <2>5, <2>6, <2>7 DEF IInv
<1>. QED BY <1>4, <1>5

LEMMA AskNullKeeps ==
    ASSUME IInv, NEW c \in Clients, NEW q \in seen[c], Ask(c, q[1], Null)
    PROVE  IInv'
<1>1. q[1] \in Clients
  BY DEF IInv, StatesOK
<1>2. (Request(c, Null) = Panic => Overlong(c, Null)) /\ Request(c, Null) \in {Panic, Null}
  BY NullPasses, Untouched DEF Overlong
<1>. QED BY <1>1, <1>2, AskStep

LEMMA AskKeeps ==
    ASSUME IInv, NEW c \in Clients, NEW q \in seen[c], Ask(c, q[1], q[2])
    PROVE  IInv'
<1>1. PICK p \in advertised[c] : /\ Event(c, p[2]) # Dropped
                                 /\ q[1] = p[1] /\ q[2] = Event(c, p[2])
  BY DEF IInv, SeenOK, From
<1> DEFINE o == q[1]
           s == q[2]
           whole == p[2]
           new == Request(c, s)
<1>2. o \in Clients
  BY DEF IInv, StatesOK
<1>3. Sized(whole) /\ Carries(o, whole)
  BY <1>1 DEF IInv, AdvertisedOK
<1>4. s \in S /\ whole = Mark(c) \o s /\ whole \in S
  <2>1. EventIs(c, whole, Event(c, whole))
    BY <1>3, EventStrips DEF Sized
  <2>. QED BY <1>1, <1>3, <2>1 DEF EventIs, Sized
<1>5. PICK n \in named[o] : IsPrefix(whole, Mark(o) \o n) /\ (Short(o, n) => whole = Mark(o) \o n)
  BY <1>3 DEF Carries
<1>. HIDE DEF o, s, whole, new
<1>6. /\ Mark(c) \in S /\ Len(Mark(c)) \in Nat /\ Mark(o) \in S /\ Len(Mark(o)) \in Nat
      /\ n \in S /\ Len(n) \in Nat /\ Len(s) \in Nat /\ Len(whole) \in Nat
      /\ MaxBytes \in Nat
  <2>1. MarkType(c) /\ MarkType(o)
    BY <1>2, MarkInS
  <2>2. n \in S /\ MaxBytes \in Nat
    BY <1>2, SafeClipAssumption DEF IInv, StatesOK, S
  <2>. QED BY <1>4, <2>1, <2>2, Sizes DEF MarkType
<1>7. Len(whole) = Len(Mark(c)) + Len(s)
  BY <1>4, <1>6, Strings
<1>8. Sized(s)
  <2>1. Len(whole) + 13 <= MaxBytes
    BY <1>3, <1>4, Sizes DEF Sized
  <2>2. Len(s) + 13 <= MaxBytes
    BY <1>6, <1>7, <2>1
  <2>. QED BY <1>4, <2>2, Sizes DEF Sized
<1>9. Passes(c, s)
  BY <1>8, RequestPasses
<1>10. ASSUME new # Panic
       PROVE  Sized(new) /\ Carries(o, new)
  <2>1. Sized(new) /\ IsPrefix(new, whole)
    BY <1>4, <1>9, <1>10 DEF Passes, new
  <2>2. Mark(o) \o n \in S /\ Len(Mark(o) \o n) = Len(Mark(o)) + Len(n)
    BY <1>6, Strings
  <2>3. IsPrefix(new, Mark(o) \o n)
    BY <1>4, <1>5, <2>1, <2>2, PrefixTransitive DEF Sized, S
  <2>4. ASSUME Short(o, n)
        PROVE  new = Mark(o) \o n
    <3>1. whole = Mark(o) \o n
      BY <1>5, <2>4
    <3>2. Len(Mark(c)) + Len(s) = Len(Mark(o)) + Len(n)
      BY <1>7, <2>2, <3>1
    <3>3. Short(c, s)
      BY <1>6, <2>4, <3>2 DEF Short
    <3>. QED BY <1>4, <1>9, <3>1, <3>3 DEF Passes, new
  <2>. QED BY <2>1, <2>3, <2>4 DEF Carries
<1>11. /\ Ask(c, o, s) /\ s \in S \union {Null} /\ (Request(c, s) = Panic => Overlong(c, s))
       /\ Request(c, s) \notin {Panic, Null} => Sized(Request(c, s)) /\ Carries(o, Request(c, s))
  BY <1>4, <1>9, <1>10 DEF Passes, new, o, s
<1>. QED BY <1>2, <1>11, AskStep

LEMMA AskedKeeps ==
    ASSUME IInv, NEW o \in Clients, NEW s \in asked[o], Asked(o, s)
    PROVE  IInv'
<1>1. UNCHANGED <<named, advertised, seen>>
  BY DEF Asked
<1>2. StatesOK
  BY DEF IInv
<1>3. Grown
  BY <1>1, <1>2, SameNames
<1>4. s \in S \union {Null} /\ (s # Null => Sized(s) /\ Carries(o, s))
  BY <1>2 DEF StatesOK, IInv, AskedOK
<1> DEFINE new == Event(o, s)
<1>5. /\ new = Panic => s = Null
      /\ new \notin {Panic, Dropped, Null} => new \in S /\ Offered(o, new)
  <2>1. CASE s = Null
    <3>1. new \in {Null, Panic}
      BY <2>1, NullPasses
    <3>. QED BY <2>1, <3>1
  <2>2. CASE s # Null
    <3>1. s \in S /\ Carries(o, s)
      BY <1>4, <2>2
    <3>2. EventIs(o, s, new)
      BY <3>1, EventStrips
    <3>3. ASSUME new # Dropped
          PROVE  new \in S /\ Offered(o, new)
      <4>1. new \in S /\ s = Mark(o) \o new
        BY <3>2, <3>3 DEF EventIs
      <4>. HIDE DEF new
      <4>. QED BY <1>2, <3>1, <4>1, WithoutMark
    <3>. QED BY <3>2, <3>3 DEF EventIs
  <2>. QED BY <2>1, <2>2
<1>6. CASE new = Panic
  <2>1. SessionEnds(o, s) /\ UNCHANGED got /\ s = Null
    BY <1>5, <1>6 DEF Asked
  <2>2. Overlong(o, s)
    BY <1>4, <1>6, <2>1, Untouched DEF Overlong
  <2>. QED BY <1>1, <1>3, <1>4, <2>1, <2>2, SessionEndsKeeps
<1>7. CASE new # Panic
  <2>1. /\ asked' = [asked EXCEPT ![o] = @ \ {s}]
        /\ got' = IF new = Dropped THEN got ELSE With(got, o, new)
        /\ UNCHANGED <<running, endedBy, source, titles>>
    BY <1>7 DEF Asked, sessions
  <2>2. new \notin {Dropped, Null} => new \in S /\ Offered(o, new)
    BY <1>5, <1>7
  <2>. HIDE DEF new
  <2>3. StatesOK'
    <3>1. got' \in [Clients -> SUBSET (S \union {Null})]
      BY <1>2, <2>1, <2>2 DEF StatesOK, With
    <3>. QED BY <1>1, <1>2, <2>1, <3>1 DEF StatesOK
  <2>4. EndsOK' /\ TitlesOK'
    BY <2>1 DEF IInv, EndsOK, TitlesOK, Overlong, Sized, Marked
  <2>5. SourceOK'
    BY <1>3, <2>1, SourceKept DEF SourceOK, Sized, Marked
  <2>6. AskedOK'
    <3>1. \A d \in Clients : asked'[d] \subseteq asked[d]
      BY <1>2, <2>1 DEF StatesOK
    <3>. QED BY <1>3, <3>1, AskedKept DEF AskedOK, Sized
  <2>7. GotOK'
    <3>1. SUFFICES ASSUME NEW d \in Clients, NEW x \in got'[d], x # Null
                   PROVE  Offered(d, x)'
      BY DEF GotOK
    <3>2. x \in got[d] \/ (d = o /\ x = new /\ new # Dropped)
      BY <1>2, <2>1 DEF StatesOK, With
    <3>3. Offered(d, x)
      BY <2>2, <3>1, <3>2 DEF IInv, GotOK
    <3>. QED BY <1>3, <3>3, OfferedGrow
  <2>8. AdvertisedOK' /\ SeenOK'
    BY <1>1, <1>3, AdvertisedKept, SeenKept
  <2>. QED BY <2>3, <2>4, <2>5, <2>6, <2>7, <2>8 DEF IInv
<1>. QED BY <1>6, <1>7

LEMMA NextIInv ==
    ASSUME IInv, [Next]_vars
    PROVE  IInv'
<1>1. CASE UNCHANGED vars
  <2>1. UNCHANGED <<running, endedBy, named, source, titles, advertised, seen, asked, got>>
    BY <1>1 DEF vars
  <2>2. StatesOK' /\ Grown
    BY <2>1, SameNames DEF IInv, StatesOK
  <2>3. EndsOK' /\ TitlesOK'
    BY <2>1 DEF IInv, EndsOK, TitlesOK, Overlong, Sized, Marked
  <2>4. SourceOK' /\ AskedOK'
    BY <2>1, <2>2, SourceKept, AskedKept DEF SourceOK, AskedOK, Sized, Marked
  <2>5. AdvertisedOK' /\ SeenOK' /\ GotOK'
    BY <2>1, <2>2, AdvertisedKept, SeenKept, GotKept
  <2>. QED BY <2>2, <2>3, <2>4, <2>5 DEF IInv
<1>2. CASE \E c \in Clients, n \in Names : Offer(c, n)
  BY <1>2, OfferKeeps
<1>3. CASE \E c \in Clients, n \in Names : SetTitle(c, n)
  BY <1>3, SetTitleKeeps
<1>4. CASE \E o, c \in Clients : \E s \in source[o] : Advertise(o, c, s)
  BY <1>4, AdvertiseKeeps
<1>5. CASE \E c \in Clients : \E p \in seen[c] : Ask(c, p[1], p[2]) \/ Ask(c, p[1], Null)
  BY <1>5, AskKeeps, AskNullKeeps
<1>6. CASE \E o \in Clients : \E s \in asked[o] : Asked(o, s)
  BY <1>6, AskedKeeps
<1>. QED BY <1>1, <1>2, <1>3, <1>4, <1>5, <1>6 DEF Next

\* For every command line and every name: what is under way carries the marks it
\* should (the handlers of src/src/addons.rs, in the queues of src/src/mediator.rs).
THEOREM Invariant == Spec => []IInv
<1>1. Init => IInv
  BY InitIInv
<1>2. IInv /\ [Next]_vars => IInv'
  BY NextIInv
<1>. QED BY <1>1, <1>2, PTL DEF Spec

-----------------------------------------------------------------------------
(* What the invariant implies.                                             *)

LEMMA Types ==
    ASSUME IInv
    PROVE  TypeOK
<1>1. running \in [Clients -> BOOLEAN]
  BY DEF IInv, StatesOK
<1>2. ASSUME NEW c \in Clients
      PROVE  /\ named[c] \subseteq Names
             /\ running[c] <=> endedBy[c] = {}
             /\ \A s \in (source[c] \union titles[c]) : Size(s) <= MaxBytes
             /\ \A s \in asked[c] : s # Null => Size(s) <= MaxBytes
             /\ seen[c] \subseteq {<<p[1], Event(c, p[2])>> : p \in advertised[c]}
  <2>1. named[c] \subseteq Names /\ (running[c] <=> endedBy[c] = {})
    BY DEF IInv, StatesOK, EndsOK
  <2>2. \A s \in (source[c] \union titles[c]) : Size(s) <= MaxBytes
    BY DEF IInv, SourceOK, TitlesOK, Sized
  <2>3. \A s \in asked[c] : s # Null => Size(s) <= MaxBytes
    BY DEF IInv, AskedOK, Sized
  <2>4. ASSUME NEW q \in seen[c]
        PROVE  \E p \in advertised[c] : q = <<p[1], Event(c, p[2])>>
    <3>1. q = <<q[1], q[2]>>
      <4>1. q \in Clients \X S
        BY DEF IInv, StatesOK
      <4>. QED BY <4>1
    <3>. QED BY <3>1 DEF IInv, SeenOK, From
  <2>. QED BY <2>1, <2>2, <2>3, <2>4
<1>. QED BY <1>1, <1>2 DEF TypeOK

\* What a client saw, in front of its mark, is what the server sent.
SeenAs(c, q) ==
    /\ q[1] \in Clients /\ q[2] \in S
    /\ Mark(c) \o q[2] \in S
    /\ Marked(q[1], Mark(c) \o q[2]) /\ Carries(q[1], Mark(c) \o q[2])

LEMMA SeenStrings ==
    ASSUME IInv, NEW c \in Clients, NEW q \in seen[c]
    PROVE  SeenAs(c, q)
<1>1. PICK p \in advertised[c] : /\ Event(c, p[2]) # Dropped
                                 /\ q[1] = p[1] /\ q[2] = Event(c, p[2])
  BY DEF IInv, SeenOK, From
<1>2. q[1] \in Clients
  BY DEF IInv, StatesOK
<1>3. p[2] \in S /\ Marked(q[1], p[2]) /\ Carries(q[1], p[2])
  BY <1>1 DEF IInv, AdvertisedOK, Sized
<1>4. EventIs(c, p[2], Event(c, p[2]))
  BY <1>3, EventStrips
<1>5. q[2] \in S /\ p[2] = Mark(c) \o q[2]
  BY <1>1, <1>4 DEF EventIs
<1>. QED BY <1>2, <1>3, <1>5 DEF SeenAs

LEMMA Marking ==
    ASSUME IInv
    PROVE  AllMarked
<1>1. ASSUME NEW c \in Clients, Fits(c), NEW s \in (source[c] \union titles[c])
      PROVE  IsPrefix(Mark(c), s)
  BY <1>1 DEF IInv, SourceOK, TitlesOK, Marked
<1>. QED BY <1>1 DEF AllMarked

\* What the server shows a client and begins with its mark comes to it without the mark.
LEMMA ShownByMark ==
    ASSUME IInv, NEW c \in Clients, NEW p \in advertised[c], IsPrefix(Mark(c), p[2])
    PROVE  \E q \in seen[c] : q[1] = p[1] /\ Mark(c) \o q[2] = p[2]
<1>1. p[2] \in S
  BY DEF IInv, AdvertisedOK, Sized
<1> DEFINE e == Event(c, p[2])
<1>2. EventIs(c, p[2], e)
  BY <1>1, EventStrips
<1>3. e # Dropped /\ p[2] = Mark(c) \o e
  BY <1>2 DEF EventIs
<1>4. <<p[1], e>> \in seen[c]
  BY <1>3 DEF IInv, SeenOK, Shown
<1>. HIDE DEF e
<1> DEFINE q == <<p[1], e>>
<1>5. q \in seen[c] /\ q[1] = p[1] /\ Mark(c) \o q[2] = p[2]
  BY <1>3, <1>4
<1>. QED BY <1>5

LEMMA Seeing ==
    ASSUME IInv
    PROVE  SeenByMark
<1>1. ASSUME NEW c \in Clients, NEW q \in seen[c]
      PROVE  /\ Carries(q[1], Mark(c) \o q[2])
             /\ Fits(q[1]) => IsPrefix(Mark(q[1]), Mark(c) \o q[2])
  BY SeenStrings DEF SeenAs, Marked
<1>. QED BY <1>1, ShownByMark DEF SeenByMark

LEMMA Sharing ==
    ASSUME IInv
    PROVE  SharedClipboard
<1>1. ASSUME NEW c \in Clients, NEW p \in advertised[c], Fits(c), Mark(c) = Mark(p[1])
      PROVE  \E q \in seen[c] : q[1] = p[1] /\ Mark(c) \o q[2] = p[2]
  <2>1. Marked(p[1], p[2])
    BY DEF IInv, AdvertisedOK
  <2>2. IsPrefix(Mark(c), p[2])
    BY <1>1, <2>1 DEF Marked, Fits
  <2>. QED BY <2>2, ShownByMark
<1>2. ASSUME NEW c \in Clients, NEW q \in seen[c], Mark(c) = Mark(q[1])
      PROVE  \E n \in named[q[1]] : Beginning(c, q[2], n)
  <2>1. q[1] \in Clients /\ q[2] \in S /\ Carries(q[1], Mark(c) \o q[2])
    BY SeenStrings DEF SeenAs
  <2>2. StatesOK
    BY DEF IInv
  <2>. QED BY <1>2, <2>1, <2>2, WithoutMark
<1>3. ASSUME NEW o \in Clients, NEW s \in got[o], s # Null
      PROVE  \E n \in named[o] : Beginning(o, s, n)
  BY <1>3 DEF IInv, GotOK, Offered
<1>. QED BY <1>1, <1>2, <1>3 DEF SharedClipboard

\* What a waydapt with safeclip sends the server is never longer than a message, and
\* a session goes on for as long as nothing ended it.
THEOREM TypeCorrect == Spec => []TypeOK
<1>1. IInv => TypeOK
  BY Types
<1>. QED BY <1>1, Invariant, PTL

\* Names and titles reach the server with every prefix of the command line.  Of any other
\* client's names a client sees exactly those that, behind the prefixes of the other,
\* begin with its own: all of the clients of its own prefix, as they were offered, and
\* none of a client whose prefixes and its own begin differently.  A client is asked for
\* no name it did not offer (add_prefix and remove_prefix of src/src/addons.rs, in the
\* order of the queues).
THEOREM ClipboardsKept == Spec => []Clipboards
<1>1. IInv => Clipboards
  BY Marking, Seeing, Sharing DEF Clipboards
<1>. QED BY <1>1, Invariant, PTL

\* No name ends a session behind one prefix, whatever its length: add_prefix makes room.
THEOREM EndsExplained == Spec => []OnlyOverlongEnds
<1>1. IInv => OnlyOverlongEnds
  BY DEF IInv, EndsOK, Overlong, OnlyOverlongEnds
<1>. QED BY <1>1, Invariant, PTL

=============================================================================
