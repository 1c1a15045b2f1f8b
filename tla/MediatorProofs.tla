---------------------------- MODULE MediatorProofs ----------------------------
(***************************************************************************)
(* Proofs about Mediator.  A message that is demarshalled and marshalled   *)
(* again has the words it came with, argument by argument, for any         *)
(* declaration and any values; from that, what mediate sends is what its   *)
(* handlers left, the ids are the same by every way, and the mediator      *)
(* panics for the two reasons alone.                                       *)
(***************************************************************************)
EXTENDS Mediator, SequenceLemmas, FiniteSetTheorems

Word == Seq(Nat)

\* What arguments there are, and what a message of the declaration d has.
ArgSet == [type : {"NewId", "Fd", "Object"} \union DOMAIN Values \union DOMAIN NewValues,
           value : Seq(Nat) \union {Null}]

IsNull(a) == a.type = "String" /\ a.value = Null

Legal(a) == HasType(a.value, a.type) \/ IsNull(a)

-----------------------------------------------------------------------------
(* Words and bytes.                                                        *)

\* How many words hold so many bytes.
WordsFor(n) == round4(n) \div 4

\* The words that n bytes fill, as the code rounds them.
LEMMA Rounding ==
    ASSUME NEW n \in Nat
    PROVE  /\ WordsFor(n) \in Nat /\ 4 * WordsFor(n) = round4(n)
           /\ n <= 4 * WordsFor(n) /\ 4 * WordsFor(n) < n + 4
           /\ (round4(n) + 4) \div 4 = WordsFor(n) + 1
BY DEF WordsFor, round4

\* Words of four flatten to all their bytes, in their order.
LEMMA FlattenFours ==
    ASSUME NEW S, NEW ss \in Seq(Seq(S)), \A k \in 1..Len(ss) : Len(ss[k]) = 4
    PROVE  /\ FlattenSeq(ss) \in Seq(S) /\ Len(FlattenSeq(ss)) = 4 * Len(ss)
           /\ \A k \in 1..Len(ss), b \in 1..4 : FlattenSeq(ss)[4 * (k - 1) + b] = ss[k][b]
<1> DEFINE Fours(tt) == \A k \in 1..Len(tt) : Len(tt[k]) = 4
           Good(tt) == /\ Len(FlattenSeq(tt)) = 4 * Len(tt)
                       /\ \A k \in 1..Len(tt), b \in 1..4 :
                             FlattenSeq(tt)[4 * (k - 1) + b] = tt[k][b]
           T == {tt \in Seq(Seq(S)) : Fours(tt) => Good(tt)}
<1>1. <<>> \in T
  BY FlattenEmpty, EmptySeq
<1>2. ASSUME NEW tt \in Seq(Seq(S)), NEW x \in Seq(S), tt \in T
      PROVE  Append(tt, x) \in T
  <2>1. /\ Append(tt, x) \in Seq(Seq(S)) /\ Len(Append(tt, x)) = Len(tt) + 1 /\ Len(tt) \in Nat
        /\ \A k \in 1..Len(tt) : Append(tt, x)[k] = tt[k]
        /\ Append(tt, x)[Len(tt) + 1] = x
    BY AppendProperties, LenProperties
  <2>2. SUFFICES ASSUME Fours(Append(tt, x))
                 PROVE  Good(Append(tt, x))
    BY <2>1
  <2>3. Fours(tt) /\ Len(x) = 4
    BY <2>1, <2>2
  <2>4. Good(tt)
    BY <1>2, <2>3
  <2> DEFINE f == FlattenSeq(tt)
  <2>5. f \in Seq(S) /\ FlattenSeq(Append(tt, x)) = f \o x
    BY FlattenType, FlattenAppend
  <2>6. Len(f) = 4 * Len(tt) /\ \A k \in 1..Len(tt), b \in 1..4 : f[4 * (k - 1) + b] = tt[k][b]
    BY <2>4
  <2>. HIDE DEF f
  <2>7. /\ Len(f \o x) = 4 * (Len(tt) + 1)
        /\ \A i \in 1..(4 * (Len(tt) + 1)) :
              (f \o x)[i] = IF i <= 4 * Len(tt) THEN f[i] ELSE x[i - 4 * Len(tt)]
    <3>1. /\ Len(f \o x) = Len(f) + Len(x)
          /\ \A i \in 1..(Len(f) + Len(x)) : (f \o x)[i] = IF i <= Len(f) THEN f[i] ELSE x[i - Len(f)]
      BY <2>5, ConcatProperties
    <3>2. Len(f) = 4 * Len(tt) /\ Len(f) + Len(x) = 4 * (Len(tt) + 1)
      BY <2>1, <2>3, <2>6
    <3>. QED BY <3>1, <3>2
  <2>8. ASSUME NEW k \in 1..(Len(tt) + 1), NEW b \in 1..4
        PROVE  (f \o x)[4 * (k - 1) + b] = Append(tt, x)[k][b]
    <3>1. CASE k = Len(tt) + 1
      <4>1. 4 * (k - 1) + b = 4 * Len(tt) + b /\ 4 * Len(tt) + b \in 1..(4 * (Len(tt) + 1))
            /\ (4 * Len(tt) + b) - 4 * Len(tt) = b
        BY <2>1, <3>1
      <4>2. (f \o x)[4 * Len(tt) + b] = x[b]
        BY <2>1, <2>7, <4>1
      <4>. QED BY <2>1, <3>1, <4>1, <4>2
    <3>2. CASE k # Len(tt) + 1
      <4>1. k \in 1..Len(tt) /\ 4 * (k - 1) + b <= 4 * Len(tt)
            /\ 4 * (k - 1) + b \in 1..(4 * (Len(tt) + 1))
        BY <2>1, <3>2
      <4>. QED BY <2>1, <2>6, <2>7, <4>1
    <3>. QED BY <3>1, <3>2
  <2>. QED BY <2>1, <2>5, <2>7, <2>8
<1>3. Seq(Seq(S)) \subseteq T
  <2>. HIDE DEF T
  <2>. QED BY <1>1, <1>2, SeqSetInduction
<1>4. Good(ss)
  BY <1>3
<1>. QED BY <1>4, FlattenType

LEMMA FunctionSeq ==
    ASSUME NEW S, NEW n \in Nat, NEW f \in [1..n -> S]
    PROVE  f \in Seq(S) /\ Len(f) = n
OBVIOUS

\* The middle of three sequences put together.
LEMMA Middle ==
    ASSUME NEW S, NEW s \in Seq(S), NEW t \in Seq(S), NEW u \in Seq(S)
    PROVE  /\ s \o t \o u \in Seq(S) /\ Len(s \o t \o u) = Len(s) + Len(t) + Len(u)
           /\ SubSeq(s \o t \o u, Len(s) + 1, Len(s) + Len(t)) = t
           /\ \A k \in 1..Len(t) : (s \o t \o u)[Len(s) + k] = t[k]
<1> DEFINE a == Len(s)
           b == Len(t)
           w == s \o t \o u
           m == SubSeq(w, a + 1, a + b)
<1>1. a \in Nat /\ b \in Nat /\ Len(u) \in Nat
  BY LenProperties
<1>2. /\ s \o t \in Seq(S) /\ Len(s \o t) = a + b
      /\ \A i \in 1..(a + b) : (s \o t)[i] = IF i <= a THEN s[i] ELSE t[i - a]
  BY ConcatProperties
<1>3. /\ w \in Seq(S) /\ Len(w) = a + b + Len(u)
      /\ \A i \in 1..(a + b + Len(u)) : w[i] = IF i <= a + b THEN (s \o t)[i] ELSE u[i - (a + b)]
  BY <1>2, ConcatProperties
<1>. HIDE DEF w
<1>4. ASSUME NEW k \in 1..b
      PROVE  w[a + k] = t[k]
  <2>. HIDE DEF a, b
  <2>1. /\ a + k \in 1..(a + b + Len(u)) /\ a + k <= a + b /\ a + k \in 1..(a + b)
        /\ ~(a + k <= a) /\ (a + k) - a = k
    BY <1>1
  <2>. QED BY <1>2, <1>3, <2>1
<1>5. /\ m \in Seq(S) /\ Len(m) = b
      /\ \A i \in 1..b : m[i] = w[a + i]
  <2>. HIDE DEF a, b, m
  <2>1. a + 1 \in Int /\ a + b \in Int /\ \A i \in (a + 1)..(a + b) : w[i] \in S
    <3>1. \A i \in (a + 1)..(a + b) : i \in 1..Len(w)
      BY <1>1, <1>3
    <3>. QED BY <1>1, <1>3, <3>1, ElementOfSeq
  <2>2. /\ SubSeq(w, a + 1, a + b) \in Seq(S)
        /\ Len(SubSeq(w, a + 1, a + b)) = IF a + 1 <= a + b THEN (a + b) - (a + 1) + 1 ELSE 0
        /\ \A i \in 1..((a + b) - (a + 1) + 1) : SubSeq(w, a + 1, a + b)[i] = w[(a + 1) + i - 1]
    BY <2>1, SubSeqProperties
  <2>3. (a + b) - (a + 1) + 1 = b /\ \A i \in 1..b : (a + 1) + i - 1 = a + i
    BY <1>1
  <2>4. Len(m) = b /\ m \in Seq(S)
    BY <1>1, <2>2, <2>3 DEF m
  <2>5. ASSUME NEW i \in 1..b
        PROVE  m[i] = w[a + i]
    BY <2>2, <2>3 DEF m
  <2>. QED BY <2>4, <2>5
<1>6. m = t
  <2>. HIDE DEF m
  <2>. QED BY <1>4, <1>5, SeqEqual
<1>. QED BY <1>3, <1>4, <1>6 DEF w

\* Padding goes behind the bytes.
LEMMA PaddedBytes ==
    ASSUME NEW bytes \in Seq(Nat), NEW pad \in Nat
    PROVE  /\ Padded(bytes, pad) \in Seq(Word)
           /\ Len(Padded(bytes, pad)) = WordsFor(Len(bytes))
           /\ SubSeq(FlattenSeq(Padded(bytes, pad)), 1, Len(bytes)) = bytes
<1> DEFINE w == Padded(bytes, pad)
           n == WordsFor(Len(bytes))
           l == Len(bytes)
           f == FlattenSeq(w)
<1>1. l \in Nat /\ \A i \in 1..l : bytes[i] \in Nat
  BY LenProperties, ElementOfSeq
<1>2. n \in Nat /\ l <= 4 * n /\ 4 * n < l + 4
  BY <1>1, Rounding
<1>3. w = [k \in 1..n |-> [b \in 1..4 |-> IF 4 * (k - 1) + b <= l THEN bytes[4 * (k - 1) + b] ELSE pad]]
  BY DEF Padded, WordsFor
<1>. HIDE DEF w, n, l
<1>4. ASSUME NEW k \in 1..n
      PROVE  w[k] \in Seq(Nat) /\ Len(w[k]) = 4
  <2>1. ASSUME NEW b \in 1..4, 4 * (k - 1) + b <= l
        PROVE  bytes[4 * (k - 1) + b] \in Nat
    BY <1>1, <1>2, <2>1
  <2>2. w[k] \in [1..4 -> Nat]
    BY <1>3, <2>1
  <2>. QED BY <2>2, FunctionSeq
<1>5. w \in Seq(Word) /\ Len(w) = n
  <2>1. w \in [1..n -> Word]
    BY <1>3, <1>4 DEF Word
  <2>. QED BY <1>2, <2>1, FunctionSeq
<1>6. /\ f \in Seq(Nat) /\ Len(f) = 4 * n
      /\ \A k \in 1..n, b \in 1..4 : f[4 * (k - 1) + b] = w[k][b]
  <2>1. w \in Seq(Word) /\ \A k \in 1..Len(w) : Len(w[k]) = 4
    BY <1>4, <1>5
  <2>2. /\ FlattenSeq(w) \in Seq(Nat) /\ Len(FlattenSeq(w)) = 4 * Len(w)
        /\ \A k \in 1..Len(w), b \in 1..4 : FlattenSeq(w)[4 * (k - 1) + b] = w[k][b]
    BY <2>1, FlattenFours DEF Word
  <2>. QED BY <1>5, <2>2
<1>. HIDE DEF f
<1>7. ASSUME NEW i \in 1..l
      PROVE  f[i] = bytes[i]
  <2> DEFINE k == (i - 1) \div 4 + 1
             b == ((i - 1) % 4) + 1
  <2>1. k \in 1..n /\ b \in 1..4 /\ 4 * (k - 1) + b = i
    BY <1>1, <1>2
  <2>. HIDE DEF k, b
  <2>2. f[i] = w[k][b]
    BY <1>6, <2>1
  <2>3. w[k][b] = IF 4 * (k - 1) + b <= l THEN bytes[4 * (k - 1) + b] ELSE pad
    BY <1>3, <2>1
  <2>4. i <= l
    BY <1>1
  <2>5. w[k][b] = bytes[4 * (k - 1) + b]
    BY <2>1, <2>3, <2>4
  <2>. QED BY <2>1, <2>2, <2>5
<1>8. /\ SubSeq(f, 1, l) \in Seq(Nat) /\ Len(SubSeq(f, 1, l)) = l
      /\ \A i \in 1..l : SubSeq(f, 1, l)[i] = f[i]
  <2>1. l \in 0..Len(f)
    BY <1>1, <1>2, <1>6
  <2>2. \A i \in 1..l : f[i] \in Nat
    BY <1>1, <1>7
  <2>3. \A i \in 1..(l - 1 + 1) : SubSeq(f, 1, l)[i] = f[1 + i - 1]
    BY <1>1, <2>2, SubSeqProperties
  <2>4. l - 1 + 1 = l /\ \A i \in 1..l : 1 + i - 1 = i
    BY <1>1
  <2>. QED BY <1>6, <2>1, <2>3, <2>4, CutConcat
<1>9. SubSeq(f, 1, l) = bytes
  BY <1>7, <1>8, SeqEqual DEF l
<1>. QED BY <1>5, <1>9 DEF w, n, l, f

\* An element and what follows it, in the middle of a sequence.
HeadAndRest(s, h, t, u) ==
    /\ (s \o (h \o t) \o u)[Len(s) + 1] = h[1]
    /\ SubSeq(s \o (h \o t) \o u, Len(s) + 2, Len(s) + 1 + Len(t)) = t

LEMMA MiddleHead ==
    ASSUME NEW S, NEW s \in Seq(S), NEW t \in Seq(S), NEW u \in Seq(S),
           NEW h \in Seq(S), Len(h) = 1
    PROVE  HeadAndRest(s, h, t, u)
<1>1. Len(s) \in Nat /\ Len(t) \in Nat
  BY LenProperties
<1>2. h \o t \in Seq(S) /\ Len(h \o t) = 1 + Len(t) /\ (h \o t)[1] = h[1]
  <2>1. /\ h \o t \in Seq(S) /\ Len(h \o t) = Len(h) + Len(t)
        /\ \A k \in 1..(Len(h) + Len(t)) : (h \o t)[k] = IF k <= Len(h) THEN h[k] ELSE t[k - Len(h)]
    BY <1>1, ConcatProperties
  <2>2. 1 \in 1..(Len(h) + Len(t)) /\ 1 <= Len(h)
    BY <1>1
  <2>. QED BY <1>1, <2>1, <2>2
<1>3. (s \o (h \o t) \o u)[Len(s) + 1] = h[1]
  <2>1. 1 \in 1..Len(h \o t)
    BY <1>1, <1>2
  <2>2. (s \o (h \o t) \o u)[Len(s) + 1] = (h \o t)[1]
    BY <1>2, <2>1, Middle
  <2>. QED BY <1>1, <1>2, <2>1, <2>2
<1>4. s \o h \in Seq(S) /\ Len(s \o h) = Len(s) + 1
  <2>1. s \o h \in Seq(S) /\ Len(s \o h) = Len(s) + Len(h)
    BY <1>1, ConcatProperties
  <2>. QED BY <1>1, <2>1
<1>5. s \o (h \o t) = (s \o h) \o t
  BY ConcatAssociative, SMTT(30)
<1>6. SubSeq((s \o h) \o t \o u, Len(s \o h) + 1, Len(s \o h) + Len(t)) = t
  <2> DEFINE r == s \o h
  <2>1. r \in Seq(S)
    BY <1>4
  <2>. HIDE DEF r
  <2>2. SubSeq(r \o t \o u, Len(r) + 1, Len(r) + Len(t)) = t
    BY <2>1, Middle
  <2>. QED BY <2>2 DEF r
<1>7. (Len(s) + 1) + 1 = Len(s) + 2
  BY <1>1
<1>. QED BY <1>3, <1>4, <1>5, <1>6, <1>7 DEF HeadAndRest

\* Words that hold bytes behind their number, and words that begin at the word i.
Holds(w, bytes, pad) == w = << <<Len(bytes)>> >> \o Padded(bytes, pad)

Stands(w, data, i) ==
    \E pre \in Seq(Word), post \in Seq(Word) : data = pre \o w \o post /\ i = Len(pre) + 1

\* Bytes come out of the words they went into.
LEMMA BytesRead ==
    ASSUME NEW bytes \in Seq(Nat), NEW pad \in Nat, NEW w, Holds(w, bytes, pad),
           NEW data, NEW i, Stands(w, data, i)
    PROVE  Bytes(data, i) = bytes /\ data[i] = <<Len(bytes)>>
<1>0. PICK pre \in Seq(Word), post \in Seq(Word) : data = pre \o w \o post /\ i = Len(pre) + 1
  BY DEF Stands
<1> DEFINE l == Len(bytes)
           n == WordsFor(l)
           P == Padded(bytes, pad)
<1>1. l \in Nat /\ <<l>> \in Seq(Nat) /\ Len(pre) \in Nat
  BY LenProperties
<1>2. n \in Nat /\ (round4(l) + 4) \div 4 = n + 1
  BY <1>1, Rounding
<1>3. P \in Seq(Word) /\ Len(P) = n /\ SubSeq(FlattenSeq(P), 1, l) = bytes
  BY PaddedBytes
<1>4. data = pre \o (<< <<l>> >> \o P) \o post
  BY <1>0 DEF Holds
<1>. HIDE DEF l, n, P
<1>5. data[Len(pre) + 1] = <<l>> /\ SubSeq(data, Len(pre) + 2, Len(pre) + 1 + n) = P
  <2> DEFINE h == << <<l>> >>
             whole == pre \o (h \o P) \o post
  <2>1. h \in Seq(Word) /\ Len(h) = 1 /\ h[1] = <<l>>
    BY <1>1 DEF Word
  <2>2. data = whole
    BY <1>4
  <2>3. whole[Len(pre) + 1] = h[1] /\ SubSeq(whole, Len(pre) + 2, Len(pre) + 1 + Len(P)) = P
    <3>1. P \in Seq(Word) /\ h \in Seq(Word) /\ Len(h) = 1
      BY <1>3, <2>1
    <3>. HIDE DEF h
    <3>2. HeadAndRest(pre, h, P, post)
      BY <3>1, MiddleHead
    <3>. QED BY <3>2 DEF HeadAndRest
  <2>. HIDE DEF whole, h
  <2>. QED BY <1>3, <2>1, <2>2, <2>3
<1>6. Bytes(data, i) = SubSeq(FlattenSeq(SubSeq(data, i + 1, i + (n + 1) - 1)), 1, l)
  <2>1. Number(data[i]) = l
    BY <1>0, <1>5 DEF Number
  <2>. QED BY <1>2, <2>1 DEF Bytes
<1>7. i + 1 = Len(pre) + 2 /\ i + (n + 1) - 1 = Len(pre) + 1 + n
  BY <1>0, <1>1, <1>2
<1>. QED BY <1>0, <1>3, <1>5, <1>6, <1>7 DEF l

-----------------------------------------------------------------------------
(* One argument.                                                           *)

\* A string with its terminator is a CStr, and its Front the string.
LEMMA StringBytes ==
    ASSUME NEW v \in Seq(Nat \ {0})
    PROVE  /\ v \in Seq(Nat) /\ v \o <<0>> \in Seq(Nat) /\ Len(v \o <<0>>) = Len(v) + 1
           /\ IsCStr(v \o <<0>>) /\ Front(v \o <<0>>) = v
<1> DEFINE s == v \o <<0>>
<1>1. v \in Seq(Nat) /\ Len(v) \in Nat /\ \A k \in 1..Len(v) : v[k] # 0
  <2>1. Len(v) \in Nat /\ \A k \in 1..Len(v) : v[k] \in Nat \ {0}
    BY LenProperties, ElementOfSeq
  <2>2. v \in [1..Len(v) -> Nat]
    BY <2>1, LenProperties
  <2>. QED BY <2>1, <2>2, FunctionSeq
<1>2. <<0>> \in Seq(Nat) /\ Len(<<0>>) = 1 /\ <<0>>[1] = 0
  OBVIOUS
<1>3. /\ s \in Seq(Nat) /\ Len(s) = Len(v) + 1 /\ DOMAIN s = 1..(Len(v) + 1)
      /\ \A k \in 1..(Len(v) + 1) : s[k] = IF k <= Len(v) THEN v[k] ELSE <<0>>[k - Len(v)]
  BY <1>1, <1>2, ConcatProperties, LenProperties
<1>4. Front(s) = v
  <2>1. SubSeq(s, 1, Len(v)) = v
    BY <1>1, <1>2, CutAt
  <2>2. Len(s) - 1 = Len(v)
    BY <1>1, <1>3
  <2>. QED BY <2>1, <2>2 DEF Front
<1>. HIDE DEF s
<1>5. s # <<>>
  BY <1>1, <1>3
<1>6. ASSUME NEW k \in 1..(Len(v) + 1)
      PROVE  s[k] = 0 <=> k = Len(v) + 1
  <2>1. CASE k = Len(v) + 1
    <3>1. ~(k <= Len(v)) /\ k - Len(v) = 1
      BY <1>1, <2>1
    <3>. QED BY <1>2, <1>3, <2>1, <3>1
  <2>2. CASE k # Len(v) + 1
    <3>1. k <= Len(v) /\ k \in 1..Len(v)
      BY <1>1, <2>2
    <3>. QED BY <1>1, <1>3, <2>2, <3>1
  <2>. QED BY <2>1, <2>2
<1>7. IsCStr(s)
  BY <1>3, <1>5, <1>6 DEF IsCStr
<1>. QED BY <1>1, <1>3, <1>4, <1>7 DEF s

\* A string, a null string, an array, nothing, or one word.
Shape(a, w, pad) ==
    \/ /\ a.type = "String" /\ a.value \in Seq(Nat \ {0}) /\ a.value # Null
       /\ w = << <<Len(a.value) + 1>> >> \o Padded(a.value \o <<0>>, pad)
    \/ IsNull(a) /\ w = << <<0>> >>
    \/ /\ a.type = "Array" /\ a.value \in Seq(Nat)
       /\ w = << <<Len(a.value)>> >> \o Padded(a.value, pad)
    \/ a.type = "Fd" /\ w = <<>>
    \/ /\ a.type \notin {"String", "Array", "Fd"} /\ a.value \in Seq(Nat) /\ Len(a.value) = 1
       /\ w = <<a.value>>

\* Every argument has one of these on the wire.
LEMMA Shapes ==
    ASSUME NEW a \in ArgSet, Legal(a), NEW pad \in Nat
    PROVE  Shape(a, WireArg(a, pad), pad) /\ WireArg(a, pad) \in Seq(Word)
<1>0. Null \notin Seq(Nat) /\ Null \notin Seq(Nat \ {0})
  <2>1. Null \notin Seq(Nat)
    BY MediatorAssumption DEF ValuesAssumption
  <2>. QED BY <2>1, StringBytes
<1>1. CASE a.type = "String" /\ ~IsNull(a)
  <2>1. a.value \in Seq(Nat \ {0}) /\ a.value # Null
    BY <1>1, <1>0 DEF Legal, HasType, IsNull
  <2>2. /\ a.value \o <<0>> \in Seq(Nat) /\ Padded(a.value \o <<0>>, pad) \in Seq(Word)
        /\ Len(a.value) + 1 \in Nat
    BY <2>1, StringBytes, PaddedBytes, LenProperties
  <2>3. << <<Len(a.value) + 1>> >> \in Seq(Word)
    BY <2>2 DEF Word
  <2>4. WireArg(a, pad) = << <<Len(a.value) + 1>> >> \o Padded(a.value \o <<0>>, pad)
    BY <1>1, <2>1 DEF WireArg
  <2>5. WireArg(a, pad) \in Seq(Word)
    BY <2>2, <2>3, <2>4, ConcatProperties
  <2>. QED BY <1>1, <2>1, <2>4, <2>5 DEF Shape
<1>2. CASE IsNull(a)
  <2>1. WireArg(a, pad) = << <<0>> >>
    BY <1>2 DEF WireArg, IsNull
  <2>2. << <<0>> >> \in Seq(Word)
    BY DEF Word
  <2>. QED BY <1>2, <2>1, <2>2 DEF Shape
<1>3. CASE a.type = "Array"
  <2>1. a.value \in Seq(Nat)
    BY <1>3 DEF Legal, HasType, IsNull
  <2>2. Padded(a.value, pad) \in Seq(Word) /\ Len(a.value) \in Nat
    BY <2>1, PaddedBytes, LenProperties
  <2>3. << <<Len(a.value)>> >> \in Seq(Word)
    BY <2>2 DEF Word
  <2>4. WireArg(a, pad) = << <<Len(a.value)>> >> \o Padded(a.value, pad)
    BY <1>3 DEF WireArg
  <2>5. WireArg(a, pad) \in Seq(Word)
    BY <2>2, <2>3, <2>4, ConcatProperties
  <2>. QED BY <1>3, <2>1, <2>4, <2>5 DEF Shape
<1>4. CASE a.type = "Fd"
  <2>1. WireArg(a, pad) = <<>>
    BY <1>4 DEF WireArg
  <2>2. <<>> \in Seq(Word)
    OBVIOUS
  <2>. QED BY <1>4, <2>1, <2>2 DEF Shape
<1>5. CASE a.type \notin {"String", "Array", "Fd"}
  <2>1. a.value \in Seq(Nat) /\ Len(a.value) = 1
    BY <1>5 DEF Legal, HasType, IsNull
  <2>2. WireArg(a, pad) = <<a.value>>
    BY <1>5 DEF WireArg
  <2>3. <<a.value>> \in Seq(Word)
    BY <2>1 DEF Word
  <2>. QED BY <1>5, <2>1, <2>2, <2>3 DEF Shape
<1>. QED BY <1>1, <1>2, <1>3, <1>4, <1>5 DEF IsNull

\* What demarshalling makes of the argument a where it begins at the word i.
Reads(a, data, i) ==
    /\ ArgWords(a.type, data, i) = Len(WireArg(a, Pad))
    /\ IsNull(a) => ~IsCStr(Bytes(data, i))
    /\ a.type = "String" /\ ~IsNull(a) => IsCStr(Bytes(data, i)) /\ Front(Bytes(data, i)) = a.value
    /\ a.type = "Array" => Bytes(data, i) = a.value
    /\ a.type \notin {"String", "Array", "Fd"} => data[i] = a.value

\* An argument that stands at the word i is read there as it was.
LEMMA ArgRead ==
    ASSUME NEW a \in ArgSet, Legal(a), NEW data, NEW i, Stands(WireArg(a, Pad), data, i)
    PROVE  Reads(a, data, i)
<1> DEFINE w == WireArg(a, Pad)
<1>1. Pad \in Nat
  BY DEF Pad
<1>2. Shape(a, w, Pad) /\ w \in Seq(Word)
  BY <1>1, Shapes
<1>3. 1 \in 1..Len(w) => data[i] = w[1]
  <2>1. PICK pre \in Seq(Word), post \in Seq(Word) : data = pre \o w \o post /\ i = Len(pre) + 1
    BY DEF Stands
  <2>. HIDE DEF w
  <2>. QED BY <1>2, <2>1, Middle, LenProperties
<1>4. ASSUME NEW bytes \in Seq(Nat), Holds(w, bytes, Pad)
      PROVE  /\ Bytes(data, i) = bytes /\ data[i] = <<Len(bytes)>>
             /\ Len(w) = WordsFor(Len(bytes)) + 1
  <2>1. Bytes(data, i) = bytes /\ data[i] = <<Len(bytes)>>
    BY <1>1, <1>4, BytesRead
  <2>2. << <<Len(bytes)>> >> \in Seq(Word) /\ Len(<< <<Len(bytes)>> >>) = 1
    BY LenProperties DEF Word
  <2>3. Padded(bytes, Pad) \in Seq(Word) /\ Len(Padded(bytes, Pad)) = WordsFor(Len(bytes))
    BY <1>1, PaddedBytes
  <2>4. WordsFor(Len(bytes)) \in Nat
    BY LenProperties, Rounding
  <2>5. Len(w) = Len(<< <<Len(bytes)>> >>) + Len(Padded(bytes, Pad))
    <3> DEFINE h == << <<Len(bytes)>> >>
    <3>. HIDE DEF h
    <3>1. Len(h \o Padded(bytes, Pad)) = Len(h) + Len(Padded(bytes, Pad))
      BY <2>2, <2>3, ConcatProperties DEF h
    <3>. QED BY <1>4, <3>1 DEF h, Holds
  <2>. QED BY <2>1, <2>2, <2>3, <2>4, <2>5
<1>. HIDE DEF w
<1>5. CASE a.type = "String" /\ ~IsNull(a)
  <2> DEFINE s == a.value \o <<0>>
  <2>1. a.value \in Seq(Nat \ {0}) /\ w = << <<Len(a.value) + 1>> >> \o Padded(s, Pad)
    BY <1>2, <1>5 DEF Shape
  <2>2. s \in Seq(Nat) /\ Len(s) = Len(a.value) + 1 /\ IsCStr(s) /\ Front(s) = a.value
    BY <2>1, StringBytes
  <2>. HIDE DEF s
  <2>3. Bytes(data, i) = s /\ data[i] = <<Len(s)>> /\ Len(w) = WordsFor(Len(s)) + 1
    <3>1. Holds(w, s, Pad)
      BY <2>1, <2>2 DEF Holds
    <3>. QED BY <1>4, <2>2, <3>1
  <2>4. ArgWords(a.type, data, i) = Len(w)
    BY <1>5, <2>3 DEF ArgWords, Number, WordsFor
  <2>. QED BY <1>5, <2>2, <2>3, <2>4 DEF Reads, w
<1>6. CASE IsNull(a)
  <2>1. a.type = "String" /\ w = << <<0>> >>
    BY <1>2, <1>6 DEF Shape, IsNull
  <2>2. data[i] = <<0>> /\ Len(w) = 1
    <3>1. Len(w) = 1 /\ w[1] = <<0>> /\ 1 \in 1..Len(w)
      BY <2>1
    <3>. QED BY <1>3, <3>1
  <2>3. Number(data[i]) = 0
    BY <2>2 DEF Number
  <2>4. round4(0) = 0 /\ (round4(0) + 4) \div 4 = 1 /\ round4(0) \div 4 + 1 = 1
    BY DEF round4
  <2>5. ArgWords(a.type, data, i) = Len(w)
    BY <2>1, <2>2, <2>3, <2>4 DEF ArgWords
  <2>6. Bytes(data, i) = <<>>
    <3> DEFINE f == FlattenSeq(SubSeq(data, i + 1, i + (round4(Number(data[i])) + 4) \div 4 - 1))
    <3>1. Bytes(data, i) = SubSeq(f, 1, Number(data[i]))
      BY DEF Bytes
    <3>. HIDE DEF f
    <3>. QED BY <2>3, <3>1, SubSeqEmpty
  <2>7. ~IsCStr(Bytes(data, i))
    BY <2>6 DEF IsCStr
  <2>. QED BY <1>6, <2>1, <2>5, <2>7 DEF Reads, w
<1>7. CASE a.type = "Array"
  <2>1. a.value \in Seq(Nat) /\ w = << <<Len(a.value)>> >> \o Padded(a.value, Pad)
    BY <1>2, <1>7 DEF Shape, IsNull
  <2>2. Bytes(data, i) = a.value /\ data[i] = <<Len(a.value)>> /\ Len(w) = WordsFor(Len(a.value)) + 1
    <3>1. Holds(w, a.value, Pad)
      BY <2>1 DEF Holds
    <3>. QED BY <1>4, <2>1, <3>1
  <2>3. ArgWords(a.type, data, i) = Len(w)
    BY <1>7, <2>2 DEF ArgWords, Number, WordsFor
  <2>. QED BY <1>7, <2>2, <2>3 DEF Reads, w, IsNull
<1>8. CASE a.type = "Fd"
  <2>1. w = <<>>
    BY <1>2, <1>8 DEF Shape, IsNull
  <2>2. ArgWords(a.type, data, i) = 0 /\ Len(w) = 0
    BY <1>8, <2>1 DEF ArgWords
  <2>. QED BY <1>8, <2>2 DEF Reads, w, IsNull
<1>9. CASE a.type \notin {"String", "Array", "Fd"}
  <2>1. w = <<a.value>>
    BY <1>2, <1>9 DEF Shape, IsNull
  <2>2. data[i] = a.value /\ Len(w) = 1
    <3>1. Len(w) = 1 /\ w[1] = a.value /\ 1 \in 1..Len(w)
      BY <2>1
    <3>. QED BY <1>3, <3>1
  <2>3. ArgWords(a.type, data, i) = 1
    BY <1>9 DEF ArgWords
  <2>. QED BY <1>9, <2>2, <2>3 DEF Reads, w, IsNull
<1>. QED BY <1>5, <1>6, <1>7, <1>8, <1>9 DEF IsNull

-----------------------------------------------------------------------------
(* A message, argument by argument.                                        *)

\* The words of the arguments.
Parts(args, pad) == [k \in DOMAIN args |-> WireArg(args[k], pad)]

AllLegal(args) == args \in Seq(ArgSet) /\ \A k \in 1..Len(args) : Legal(args[k])

\* Where the argument behind the first k begins.
At(args, k) == 3 + Len(FlattenSeq(SubSeq(Parts(args, Pad), 1, k)))

\* The words of a message, argument by argument.
LEMMA PartsType ==
    ASSUME NEW args, AllLegal(args), NEW pad \in Nat
    PROVE  /\ Parts(args, pad) \in Seq(Seq(Word)) /\ Len(Parts(args, pad)) = Len(args)
           /\ Len(args) \in Nat /\ DOMAIN args = 1..Len(args)
           /\ \A k \in 1..Len(args) : /\ args[k] \in ArgSet
                                      /\ Parts(args, pad)[k] = WireArg(args[k], pad)
                                      /\ WireArg(args[k], pad) \in Seq(Word)
<1>1. args \in Seq(ArgSet) /\ \A k \in 1..Len(args) : Legal(args[k])
  BY DEF AllLegal
<1>2. Len(args) \in Nat /\ DOMAIN args = 1..Len(args) /\ \A k \in 1..Len(args) : args[k] \in ArgSet
  BY <1>1, LenProperties, ElementOfSeq
<1>3. \A k \in 1..Len(args) : WireArg(args[k], pad) \in Seq(Word)
  BY <1>1, <1>2, Shapes
<1>4. Parts(args, pad) \in [1..Len(args) -> Seq(Word)]
  BY <1>2, <1>3 DEF Parts
<1>5. Parts(args, pad) \in Seq(Seq(Word)) /\ Len(Parts(args, pad)) = Len(args)
  BY <1>2, <1>4, FunctionSeq
<1>. QED BY <1>2, <1>3, <1>5 DEF Parts

\* A sequence, around its element k.
LEMMA Around ==
    ASSUME NEW S, NEW s \in Seq(S), NEW k \in 1..Len(s)
    PROVE  /\ SubSeq(s, 1, k - 1) \in Seq(S) /\ SubSeq(s, k + 1, Len(s)) \in Seq(S) /\ s[k] \in S
           /\ SubSeq(s, 1, k) = Append(SubSeq(s, 1, k - 1), s[k])
           /\ s = SubSeq(s, 1, k - 1) \o <<s[k]>> \o SubSeq(s, k + 1, Len(s))
<1>1. Len(s) \in Nat /\ k - 1 \in 0..Len(s) /\ k \in 0..Len(s) /\ s[k] \in S
      /\ \A i \in 1..Len(s) : s[i] \in S
  BY LenProperties, ElementOfSeq
<1> DEFINE p == SubSeq(s, 1, k - 1)
           q == SubSeq(s, 1, k)
           r == SubSeq(s, k + 1, Len(s))
<1>2. p \in Seq(S) /\ Len(p) = k - 1
  BY <1>1, CutConcat
<1>3. s = q \o r /\ q \in Seq(S) /\ Len(q) = k /\ r \in Seq(S)
  BY <1>1, CutConcat
<1>4. \A i \in 1..(k - 1) : p[i] = s[i]
  <2>1. \A i \in 1..(k - 1 - 1 + 1) : p[i] = s[1 + i - 1]
    BY <1>1, SubSeqProperties
  <2>. QED BY <1>1, <2>1
<1>5. \A i \in 1..k : q[i] = s[i]
  <2>1. \A i \in 1..(k - 1 + 1) : q[i] = s[1 + i - 1]
    BY <1>1, SubSeqProperties
  <2>. QED BY <1>1, <2>1
<1>. HIDE DEF p, q, r
<1>6. q = Append(p, s[k])
  <2>1. /\ Append(p, s[k]) \in Seq(S) /\ Len(Append(p, s[k])) = k
        /\ \A i \in 1..(k - 1) : Append(p, s[k])[i] = p[i]
        /\ Append(p, s[k])[k] = s[k]
    BY <1>1, <1>2, AppendProperties
  <2>2. ASSUME NEW i \in 1..k
        PROVE  q[i] = Append(p, s[k])[i]
    <3>1. CASE i = k
      BY <1>5, <2>1, <3>1
    <3>2. CASE i # k
      <4>1. i \in 1..(k - 1)
        BY <1>1, <3>2
      <4>. QED BY <1>4, <1>5, <2>1, <4>1
    <3>. QED BY <3>1, <3>2
  <2>. QED BY <1>3, <2>1, <2>2, SeqEqual
<1>7. Append(p, s[k]) = p \o <<s[k]>>
  BY <1>1, <1>2, AppendIsConcat
<1>. QED BY <1>1, <1>2, <1>3, <1>6, <1>7 DEF p, q, r

Regrouped(s, t, u, v, S) ==
    /\ s \o t \in Seq(S) /\ Len(s \o t) = Len(s) + Len(t)
    /\ s \o ((t \o u) \o v) = ((s \o t) \o u) \o v

LEMMA Regroup ==
    ASSUME NEW S, NEW s \in Seq(S), NEW t \in Seq(S), NEW u \in Seq(S), NEW v \in Seq(S)
    PROVE  Regrouped(s, t, u, v, S)
<1>1. s \o t \in Seq(S) /\ t \o u \in Seq(S) /\ Len(s \o t) = Len(s) + Len(t)
  BY ConcatProperties
<1> DEFINE w == t \o u
<1>2. (s \o w) \o v = s \o (w \o v)
  <2>1. w \in Seq(S)
    BY <1>1
  <2>. HIDE DEF w
  <2>. QED BY <2>1, ConcatAssociative, SMTT(60)
<1>3. (s \o t) \o u = s \o (t \o u)
  BY ConcatAssociative, SMTT(60)
<1>. QED BY <1>1, <1>2, <1>3 DEF Regrouped

\* Where an argument stands in the words of its message.
LEMMA ArgStands ==
    ASSUME NEW args, AllLegal(args), NEW n \in Nat, NEW d, d.opcode \in Nat,
           NEW k \in 1..Len(args)
    PROVE  /\ Stands(WireArg(args[k], Pad), Wire(n, d, args, Pad), At(args, k - 1))
           /\ At(args, k) = At(args, k - 1) + Len(WireArg(args[k], Pad))
           /\ Len(WireArg(args[k], Pad)) \in Nat
<1> DEFINE P == Parts(args, Pad)
           x == WireArg(args[k], Pad)
           p == SubSeq(P, 1, k - 1)
           r == SubSeq(P, k + 1, Len(P))
           h == << <<n>>, <<d.opcode, 4 * (2 + Len(FlattenSeq(P)))>> >>
<1>1. P \in Seq(Seq(Word)) /\ k \in 1..Len(P) /\ P[k] = x
  BY PartsType DEF Pad
<1>2. Wire(n, d, args, Pad) = h \o FlattenSeq(P)
  BY DEF Wire, Parts
<1>3. FlattenSeq(P) \in Seq(Word) /\ Len(FlattenSeq(P)) \in Nat
  BY <1>1, FlattenType, LenProperties
<1>4. h \in Seq(Word) /\ Len(h) = 2
  <2> DEFINE l == Len(FlattenSeq(P))
  <2>1. l \in Nat /\ 4 * (2 + l) \in Nat
    BY <1>3
  <2>2. <<n>> \in Word /\ <<d.opcode, 4 * (2 + l)>> \in Word
    BY <2>1 DEF Word
  <2>. QED BY <2>2
<1>. HIDE DEF P, h
<1>5. /\ p \in Seq(Seq(Word)) /\ r \in Seq(Seq(Word)) /\ x \in Seq(Word)
      /\ SubSeq(P, 1, k) = Append(p, x) /\ P = p \o <<x>> \o r
  <2>1. /\ SubSeq(P, 1, k - 1) \in Seq(Seq(Word)) /\ SubSeq(P, k + 1, Len(P)) \in Seq(Seq(Word))
        /\ P[k] \in Seq(Word) /\ SubSeq(P, 1, k) = Append(SubSeq(P, 1, k - 1), P[k])
        /\ P = SubSeq(P, 1, k - 1) \o <<P[k]>> \o SubSeq(P, k + 1, Len(P))
    <3>1. P \in Seq(Seq(Word)) /\ k \in 1..Len(P)
      BY <1>1
    <3>. QED BY ONLY <3>1, Around
  <2>. HIDE DEF x
  <2>. QED BY <1>1, <2>1
<1>. HIDE DEF p, r, x
<1> DEFINE fp == FlattenSeq(p)
           fr == FlattenSeq(r)
<1>6. fp \in Seq(Word) /\ fr \in Seq(Word) /\ FlattenSeq(Append(p, x)) = fp \o x
  BY <1>5, FlattenType, FlattenAppend
<1>7. FlattenSeq(P) = fp \o x \o fr
  <2>1. <<x>> \in Seq(Seq(Word)) /\ p \o <<x>> = Append(p, x) /\ Append(p, x) \in Seq(Seq(Word))
    BY <1>5, AppendIsConcat, AppendProperties
  <2>2. FlattenSeq(Append(p, x) \o r) = FlattenSeq(Append(p, x)) \o FlattenSeq(r)
    BY <1>5, <2>1, FlattenConcat
  <2>. QED BY <1>5, <1>6, <2>1, <2>2
<1>. HIDE DEF fp, fr
<1>8. Len(x) \in Nat /\ Len(fp) \in Nat /\ Len(fp \o x) = Len(fp) + Len(x)
  BY <1>5, <1>6, LenProperties, ConcatProperties
<1>9. At(args, k) = At(args, k - 1) + Len(x) /\ At(args, k - 1) = 3 + Len(fp)
  <2>1. At(args, k) = 3 + Len(fp \o x) /\ At(args, k - 1) = 3 + Len(fp)
    BY <1>5, <1>6 DEF At, P, p, fp
  <2>. QED BY <1>8, <2>1
<1>10. Stands(x, Wire(n, d, args, Pad), At(args, k - 1))
  <2>. Regrouped(h, fp, x, fr, Word)
    BY <1>4, <1>5, <1>6, Regroup
  <2>1. h \o fp \in Seq(Word) /\ Len(h \o fp) = 2 + Len(fp)
    BY <1>4 DEF Regrouped
  <2>2. h \o (fp \o x \o fr) = (h \o fp) \o x \o fr
    BY DEF Regrouped
  <2>3. Wire(n, d, args, Pad) = (h \o fp) \o x \o fr
    BY <1>2, <1>7, <2>2
  <2>4. At(args, k - 1) = Len(h \o fp) + 1
    BY <1>8, <1>9, <2>1
  <2>. QED BY <1>6, <2>1, <2>3, <2>4 DEF Stands
<1>. QED BY <1>8, <1>9, <1>10 DEF x

\* The first argument is behind the header.
LEMMA AtStart ==
    ASSUME NEW args, AllLegal(args)
    PROVE  At(args, 0) = 3 /\ \A k \in 0..Len(args) : At(args, k) \in Nat
<1>1. Parts(args, Pad) \in Seq(Seq(Word)) /\ Len(Parts(args, Pad)) = Len(args) /\ Len(args) \in Nat
  BY PartsType DEF Pad
<1>2. At(args, 0) = 3
  <2>1. SubSeq(Parts(args, Pad), 1, 0) = <<>>
    BY SubSeqEmpty
  <2>2. At(args, 0) = 3 + Len(<<>>)
    BY <2>1, FlattenEmpty DEF At
  <2>. QED BY <2>2
<1>3. ASSUME NEW k \in 0..Len(args)
      PROVE  At(args, k) \in Nat
  <2>1. SubSeq(Parts(args, Pad), 1, k) \in Seq(Seq(Word))
    BY <1>1, CutConcat
  <2>2. Len(FlattenSeq(SubSeq(Parts(args, Pad), 1, k))) \in Nat
    BY <2>1, FlattenType, LenProperties
  <2>. QED BY <2>2 DEF At
<1>. QED BY <1>2, <1>3

\* Every argument reads as it was written.
LEMMA ArgAt ==
    ASSUME NEW args, AllLegal(args), NEW n \in Nat, NEW d, d.opcode \in Nat,
           NEW k \in 1..Len(args)
    PROVE  /\ Reads(args[k], Wire(n, d, args, Pad), At(args, k - 1))
           /\ At(args, k) = At(args, k - 1) + ArgWords(args[k].type, Wire(n, d, args, Pad), At(args, k - 1))
<1> DEFINE data == Wire(n, d, args, Pad)
<1>1. args[k] \in ArgSet /\ Legal(args[k])
  BY PartsType DEF AllLegal, Pad
<1>2. Stands(WireArg(args[k], Pad), data, At(args, k - 1))
      /\ At(args, k) = At(args, k - 1) + Len(WireArg(args[k], Pad))
  BY ArgStands
<1>. HIDE DEF data
<1>3. Reads(args[k], data, At(args, k - 1))
  BY <1>1, <1>2, ArgRead
<1>4. ArgWords(args[k].type, data, At(args, k - 1)) = Len(WireArg(args[k], Pad))
  BY <1>3 DEF Reads
<1>. QED BY <1>2, <1>3, <1>4 DEF data

-----------------------------------------------------------------------------
(* The folds, from one element to the next.  What they come to need not be *)
(* of any one type, so the three go together here, by their names.         *)

Apply(kind, d, data, acc, x) ==
    IF kind = "pass" THEN PassArg(data, acc, x)
    ELSE IF kind = "demarshal" THEN Demarshal1(d, data, acc, x)
    ELSE Track(data, acc, x)

\* A fold, as the community modules define it: for each set of indices up to n.
FoldsSets(it, kind, d, data, base, seq, n) ==
    it = [s \in SUBSET (1..n) |->
             IF s = {} THEN base ELSE Apply(kind, d, data, it[s \ {Max(s)}], seq[Max(s)])]

Goes(f, kind, d, data, base, seq, n) ==
    /\ f[0] = base
    /\ \A k \in 0..(n - 1) : f[k + 1] = Apply(kind, d, data, f[k], seq[k + 1])

\* The fold has a value for every set of indices: by an induction whose set is that of the
\* lengths for which it has.
LEMMA FoldDefined ==
    ASSUME NEW kind, NEW d, NEW data, NEW base, NEW seq, NEW n \in Nat
    PROVE  \E it : FoldsSets(it, kind, d, data, base, seq, n)
<1> DEFINE Folds(it, m) == FoldsSets(it, kind, d, data, base, seq, m)
           N == {m \in Nat : \E it : Folds(it, m)}
<1>1. 0 \in N
  <2> DEFINE it == [s \in SUBSET (1..0) |-> base]
  <2>1. \A s \in SUBSET (1..0) : s = {}
    OBVIOUS
  <2>2. it = [s \in SUBSET (1..0) |->
                IF s = {} THEN base ELSE Apply(kind, d, data, it[s \ {Max(s)}], seq[Max(s)])]
    <3>. HIDE DEF it
    <3>1. it = [s \in SUBSET (1..0) |-> base]
      BY DEF it
    <3>. QED BY <2>1, <3>1
  <2>3. Folds(it, 0)
    BY <2>2 DEF FoldsSets
  <2>. HIDE DEF Folds
  <2>. QED BY <2>3
<1>2. ASSUME NEW m \in Nat, m \in N
      PROVE  m + 1 \in N
  <2>1. PICK it : Folds(it, m)
    BY <1>2
  <2> DEFINE F(s) == IF m + 1 \in s THEN Apply(kind, d, data, it[s \ {m + 1}], seq[m + 1]) ELSE it[s]
             g == [s \in SUBSET (1..(m + 1)) |-> F(s)]
             G(s) == IF s = {} THEN base ELSE Apply(kind, d, data, g[s \ {Max(s)}], seq[Max(s)])
  <2>2. \A s \in SUBSET (1..m) :
           it[s] = IF s = {} THEN base ELSE Apply(kind, d, data, it[s \ {Max(s)}], seq[Max(s)])
    BY <2>1 DEF FoldsSets
  <2>3. ASSUME NEW s \in SUBSET (1..m)
        PROVE  g[s] = it[s]
    <3>1. s \in SUBSET (1..(m + 1)) /\ m + 1 \notin s
      OBVIOUS
    <3>. QED BY <3>1
  <2>4. ASSUME NEW s \in SUBSET (1..(m + 1))
        PROVE  g[s] = G(s)
    <3>1. CASE m + 1 \in s
      <4>1. s # {} /\ m + 1 \in Nat
        BY <3>1
      <4>2. Max(s) \in s /\ \A y \in s : Max(s) >= y
        BY <4>1, MaxExists
      <4>3. Max(s) = m + 1
        <5>1. Max(s) \in 1..(m + 1) /\ Max(s) >= m + 1
          BY <3>1, <4>2
        <5>. QED BY <5>1
      <4>4. s \ {m + 1} \in SUBSET (1..m)
        OBVIOUS
      <4>5. g[s \ {m + 1}] = it[s \ {m + 1}]
        BY <2>3, <4>4
      <4>6. g[s] = Apply(kind, d, data, it[s \ {m + 1}], seq[m + 1])
        BY <3>1
      <4>. HIDE DEF g
      <4>. QED BY <4>1, <4>3, <4>5, <4>6
    <3>2. CASE m + 1 \notin s
      <4>1. s \in SUBSET (1..m)
        BY <3>2
      <4>2. g[s] = it[s]
        BY <2>3, <4>1
      <4>3. CASE s = {}
        BY <2>2, <4>1, <4>2, <4>3
      <4>4. CASE s # {}
        <5>1. s \ {Max(s)} \in SUBSET (1..m)
          BY <4>1
        <5>2. g[s \ {Max(s)}] = it[s \ {Max(s)}]
          BY <2>3, <5>1
        <5>. HIDE DEF g
        <5>. QED BY <2>2, <4>1, <4>2, <4>4, <5>2
      <4>. QED BY <4>3, <4>4
    <3>. QED BY <3>1, <3>2
  <2>5. g = [s \in SUBSET (1..(m + 1)) |-> G(s)]
    <3>1. g = [s \in SUBSET (1..(m + 1)) |-> g[s]]
      OBVIOUS
    <3>. HIDE DEF g, G
    <3>. QED BY <2>4, <3>1
  <2>6. Folds(g, m + 1)
    <3>. HIDE DEF g
    <3>. QED BY <2>5 DEF FoldsSets
  <2>. HIDE DEF Folds
  <2>. QED BY <2>6
<1>3. Nat \subseteq N
  <2>. HIDE DEF N
  <2>. QED BY <1>1, <1>2, NatSetInduction
<1>. QED BY <1>3

\* Its values for the first k elements are the values one after the other.
LEMMA FoldGoes ==
    ASSUME NEW kind, NEW d, NEW data, NEW base, NEW seq, NEW n \in Nat, NEW it,
           FoldsSets(it, kind, d, data, base, seq, n)
    PROVE  \E f : Goes(f, kind, d, data, base, seq, n) /\ f[n] = it[1..n]
<1> DEFINE f == [k \in 0..n |-> it[1..k]]
<1>1. f[0] = base /\ f[n] = it[1..n]
  <2>1. 1..0 = {} /\ 0 \in 0..n /\ n \in 0..n
    OBVIOUS
  <2>2. it[{}] = base
    BY DEF FoldsSets
  <2>. QED BY <2>1, <2>2
<1>2. ASSUME NEW k \in 0..(n - 1)
      PROVE  f[k + 1] = Apply(kind, d, data, f[k], seq[k + 1])
  <2>1. /\ k \in Nat /\ k \in 0..n /\ k + 1 \in 0..n
        /\ 1..(k + 1) \in SUBSET (1..n) /\ 1..(k + 1) # {}
    OBVIOUS
  <2>2. Max(1..(k + 1)) = k + 1 /\ (1..(k + 1)) \ {k + 1} = 1..k
    BY <2>1, MaxOfRange
  <2>3. f[k] = it[1..k] /\ f[k + 1] = it[1..(k + 1)]
    BY <2>1
  <2>. HIDE DEF f
  <2>4. it[1..(k + 1)] = Apply(kind, d, data, it[(1..(k + 1)) \ {Max(1..(k + 1))}], seq[Max(1..(k + 1))])
    BY <2>1 DEF FoldsSets
  <2>. QED BY <2>2, <2>3, <2>4
<1>. HIDE DEF f
<1>. QED BY <1>1, <1>2 DEF Goes

PassBase == [i |-> 3, found |-> FALSE]

\* What FindNewId, DemarshalArgs and IdsSent compute, one element at a time.
LEMMA PassSteps ==
    ASSUME NEW d, NEW data, NEW n \in Nat, DOMAIN d.args = 1..n
    PROVE  \E f : /\ Goes(f, "pass", d, data, PassBase, d.args, n)
                  /\ FindNewId(d, data) = Number(data[f[n].i])
<1> DEFINE P(it) == it = [s \in SUBSET (1..n) |->
                            IF s = {} THEN PassBase
                            ELSE PassArg(data, it[s \ {Max(s)}], d.args[Max(s)])]
           C == CHOOSE it : P(it)
<1>1. FindNewId(d, data) = Number(data[C[1..n].i])
  BY DEF FindNewId, FoldLeft, MapThenFoldSet, PassBase
<1>2. \E it : FoldsSets(it, "pass", d, data, PassBase, d.args, n)
  BY FoldDefined
<1>3. \E it : P(it)
  BY <1>2 DEF FoldsSets, Apply
<1>4. P(C)
  <2>. HIDE DEF P
  <2>. QED BY <1>3
<1>5. FoldsSets(C, "pass", d, data, PassBase, d.args, n)
  <2>. HIDE DEF C
  <2>. QED BY <1>4 DEF FoldsSets, Apply
<1>. HIDE DEF C
<1>. QED BY <1>1, <1>5, FoldGoes

DemarshalBase == [i |-> 3, args |-> <<>>, fds |-> 0, adds |-> {}, panic |-> FALSE]

LEMMA DemarshalSteps ==
    ASSUME NEW d, NEW data, NEW n \in Nat, DOMAIN WireTypes(d) = 1..n
    PROVE  \E f : /\ Goes(f, "demarshal", d, data, DemarshalBase, WireTypes(d), n)
                  /\ DemarshalArgs(d, data) = f[n]
<1> DEFINE types == WireTypes(d)
           P(it) == it = [s \in SUBSET (1..n) |->
                            IF s = {} THEN DemarshalBase
                            ELSE Demarshal1(d, data, it[s \ {Max(s)}], types[Max(s)])]
           C == CHOOSE it : P(it)
<1>1. DemarshalArgs(d, data) = C[1..n]
  BY DEF DemarshalArgs, FoldLeft, MapThenFoldSet, DemarshalBase
<1>2. \E it : FoldsSets(it, "demarshal", d, data, DemarshalBase, types, n)
  BY FoldDefined
<1>. HIDE DEF types
<1>3. \E it : P(it)
  BY <1>2 DEF FoldsSets, Apply
<1>4. P(C)
  <2>. HIDE DEF P
  <2>. QED BY <1>3
<1>5. FoldsSets(C, "demarshal", d, data, DemarshalBase, types, n)
  <2>. HIDE DEF C
  <2>. QED BY <1>4 DEF FoldsSets, Apply
<1>. HIDE DEF C
<1>. QED BY <1>1, <1>5, FoldGoes DEF types

TrackBase == {<<1, Display>>}

LEMMA TrackSteps ==
    ASSUME NEW msgs, NEW sent, NEW n \in Nat, DOMAIN sent = 1..n
    PROVE  \E f : /\ Goes(f, "track", Null, msgs, TrackBase, sent, n)
                  /\ IdsSent(msgs, sent) = f[n]
<1> DEFINE P(it) == it = [s \in SUBSET (1..n) |->
                            IF s = {} THEN TrackBase
                            ELSE Track(msgs, it[s \ {Max(s)}], sent[Max(s)])]
           C == CHOOSE it : P(it)
<1>1. IdsSent(msgs, sent) = C[1..n]
  BY DEF IdsSent, FoldLeft, MapThenFoldSet, TrackBase
<1>2. \E it : FoldsSets(it, "track", Null, msgs, TrackBase, sent, n)
  BY FoldDefined
<1>3. \E it : P(it)
  BY <1>2 DEF FoldsSets, Apply
<1>4. P(C)
  <2>. HIDE DEF P
  <2>. QED BY <1>3
<1>5. FoldsSets(C, "track", Null, msgs, TrackBase, sent, n)
  <2>. HIDE DEF C
  <2>. QED BY <1>4 DEF FoldsSets, Apply
<1>. HIDE DEF C
<1>. QED BY <1>1, <1>5, FoldGoes

\* The ids after as many messages, each of which does the same to them.
LEMMA TracksAgree ==
    ASSUME NEW msgs, NEW sent, NEW msgs2, NEW sent2, NEW n \in Nat, NEW m \in Nat, NEW k \in Nat,
           k <= n, k <= m, NEW f, NEW g,
           Goes(f, "track", Null, msgs, TrackBase, sent, n),
           Goes(g, "track", Null, msgs2, TrackBase, sent2, m),
           \A j \in 1..k : \A ids : Track(msgs, ids, sent[j]) = Track(msgs2, ids, sent2[j])
    PROVE  f[k] = g[k]
<1> DEFINE N == {j \in Nat : j <= k => f[j] = g[j]}
<1>1. 0 \in N
  BY DEF Goes
<1>2. ASSUME NEW j \in Nat, j \in N
      PROVE  j + 1 \in N
  <2>1. SUFFICES ASSUME j + 1 <= k
                 PROVE  f[j + 1] = g[j + 1]
    OBVIOUS
  <2>2. j \in 0..(n - 1) /\ j \in 0..(m - 1) /\ j + 1 \in 1..k /\ f[j] = g[j]
    BY <1>2, <2>1
  <2>3. f[j + 1] = Track(msgs, f[j], sent[j + 1]) /\ g[j + 1] = Track(msgs2, g[j], sent2[j + 1])
    BY <2>2 DEF Goes, Apply
  <2>. QED BY <2>2, <2>3
<1>3. Nat \subseteq N
  <2>. HIDE DEF N
  <2>. QED BY <1>1, <1>2, NatSetInduction
<1>. QED BY <1>3

\* The history of ids begins with the display, grows with each message that is sent, and
\* does not change when messages come.
LEMMA IdsSentEmpty ==
    ASSUME NEW msgs
    PROVE  IdsSent(msgs, <<>>) = TrackBase
<1>1. DOMAIN <<>> = 1..0 /\ 0 \in Nat
  OBVIOUS
<1>2. PICK f : Goes(f, "track", Null, msgs, TrackBase, <<>>, 0) /\ IdsSent(msgs, <<>>) = f[0]
  BY <1>1, TrackSteps
<1>. QED BY <1>2 DEF Goes

LEMMA IdsSentAppend ==
    ASSUME NEW msgs, NEW S, NEW sent \in Seq(S), NEW r \in S
    PROVE  IdsSent(msgs, Append(sent, r)) = Track(msgs, IdsSent(msgs, sent), r)
<1> DEFINE n == Len(sent)
           sent2 == Append(sent, r)
<1>1. n \in Nat /\ DOMAIN sent = 1..n /\ n + 1 \in Nat
  BY LenProperties
<1>2. /\ DOMAIN sent2 = 1..(n + 1) /\ sent2[n + 1] = r
      /\ \A j \in 1..n : sent2[j] = sent[j]
  BY AppendProperties, LenProperties
<1>. HIDE DEF n, sent2
<1>3. PICK f : Goes(f, "track", Null, msgs, TrackBase, sent, n) /\ IdsSent(msgs, sent) = f[n]
  BY <1>1, TrackSteps
<1>4. PICK g : Goes(g, "track", Null, msgs, TrackBase, sent2, n + 1) /\ IdsSent(msgs, sent2) = g[n + 1]
  BY <1>1, <1>2, TrackSteps
<1>5. f[n] = g[n]
  <2>1. \A j \in 1..n : \A ids : Track(msgs, ids, sent[j]) = Track(msgs, ids, sent2[j])
    BY <1>2
  <2>2. n <= n /\ n <= n + 1
    BY <1>1
  <2>. QED BY <1>1, <1>3, <1>4, <2>1, <2>2, TracksAgree
<1>6. g[n + 1] = Track(msgs, g[n], r)
  <2>1. n \in 0..((n + 1) - 1)
    BY <1>1
  <2>. QED BY <1>2, <1>4, <2>1 DEF Goes, Apply
<1>. QED BY <1>3, <1>4, <1>5, <1>6 DEF sent2

LEMMA IdsSentLater ==
    ASSUME NEW M, NEW msgs \in Seq(M), NEW m \in M, NEW S, NEW sent \in Seq(S),
           \A k \in 1..Len(sent) : sent[k].for \in 1..Len(msgs)
    PROVE  IdsSent(Append(msgs, m), sent) = IdsSent(msgs, sent)
<1> DEFINE n == Len(sent)
           msgs2 == Append(msgs, m)
<1>1. n \in Nat /\ DOMAIN sent = 1..n
  BY LenProperties
<1>2. \A j \in 1..Len(msgs) : msgs2[j] = msgs[j]
  BY AppendProperties
<1>3. \A j \in 1..n : msgs2[sent[j].for] = msgs[sent[j].for]
  BY <1>2
<1>. HIDE DEF n, msgs2
<1>4. PICK f : Goes(f, "track", Null, msgs, TrackBase, sent, n) /\ IdsSent(msgs, sent) = f[n]
  BY <1>1, TrackSteps
<1>5. PICK g : Goes(g, "track", Null, msgs2, TrackBase, sent, n) /\ IdsSent(msgs2, sent) = g[n]
  BY <1>1, TrackSteps
<1>6. f[n] = g[n]
  <2>1. ASSUME NEW j \in 1..n, NEW ids
        PROVE  Track(msgs, ids, sent[j]) = Track(msgs2, ids, sent[j])
    <3>1. msgs2[sent[j].for] = msgs[sent[j].for]
      BY <1>3
    <3> DEFINE x == msgs[sent[j].for]
               y == msgs2[sent[j].for]
    <3>2. x = y
      BY <3>1
    <3>. HIDE DEF x, y
    <3>. QED BY <3>2, Zenon DEF Track, x, y
  <2>2. n <= n
    BY <1>1
  <2>. QED BY <1>1, <1>4, <1>5, <2>1, <2>2, TracksAgree
<1>. QED BY <1>4, <1>5, <1>6 DEF msgs2

-----------------------------------------------------------------------------
(* Marshalling writes what a sender would have written.                    *)

\* How many of l bytes fill whole words, and how many words.
IsCut(l, cut, q) == cut = l - (l % 4) /\ q = cut \div 4

\* Where add_array cuts the bytes.
LEMMA Cutting ==
    ASSUME NEW l \in Nat, NEW cut, NEW q, IsCut(l, cut, q)
    PROVE  /\ cut \in Nat /\ q \in Nat /\ cut = 4 * q /\ cut <= l /\ l < cut + 4
           /\ WordsFor(l) = IF cut = l THEN q ELSE q + 1
<1> DEFINE x == l \div 4
           r == l % 4
           y == (l + 3) \div 4
<1>1. x \in Nat /\ r \in 0..3 /\ l = 4 * x + r
  OBVIOUS
<1>2. y = IF r = 0 THEN x ELSE x + 1
  BY <1>1
<1>3. WordsFor(l) = y
  BY <1>2, <1>1 DEF WordsFor, round4
<1>. HIDE DEF x, y, r
<1>4. cut = 4 * x
  BY <1>1 DEF r, IsCut
<1>5. q = x
  BY <1>1, <1>4 DEF IsCut
<1>. QED BY <1>1, <1>2, <1>3, <1>4, <1>5

\* add_array: whole words and what remains are the bytes, padded with zeros.
LEMMA WholeAndRest ==
    ASSUME NEW bytes \in Seq(Nat)
    PROVE  AddArray(bytes) = << <<Len(bytes)>> >> \o Padded(bytes, 0)
<1> DEFINE l == Len(bytes)
           cut == l - (l % 4)
           q == cut \div 4
           n == WordsFor(l)
           last == SubSeq(bytes, cut + 1, l)
           final == [b \in 1..4 |-> IF b <= Len(last) THEN last[b] ELSE 0]
           A == [k \in 1..q |-> SubSeq(bytes, 4 * k - 3, 4 * k)]
           B == IF last = <<>> THEN <<>> ELSE <<final>>
           P == Padded(bytes, 0)
           h == << <<l>> >>
<1>1. l \in Nat /\ \A i \in 1..l : bytes[i] \in Nat
  BY LenProperties, ElementOfSeq
<1>2. /\ cut \in Nat /\ q \in Nat /\ cut = 4 * q /\ cut <= l /\ l < cut + 4
      /\ n = IF cut = l THEN q ELSE q + 1
  <2>1. IsCut(l, cut, q) /\ n = WordsFor(l)
    BY DEF IsCut
  <2>. HIDE DEF cut, q, n, l
  <2>. QED BY <1>1, <2>1, Cutting
<1>3. AddArray(bytes) = (h \o A) \o B
  BY DEF AddArray
<1>4. /\ P \in Seq(Word) /\ Len(P) = n
      /\ P = [k \in 1..n |-> [b \in 1..4 |-> IF 4 * (k - 1) + b <= l THEN bytes[4 * (k - 1) + b] ELSE 0]]
  BY PaddedBytes DEF Padded, WordsFor
<1>. HIDE DEF P, n, q
<1>5. ASSUME NEW k \in 1..q
      PROVE  SubSeq(bytes, 4 * k - 3, 4 * k) = P[k] /\ P[k] \in Word
  <2>1. k \in 1..n /\ \A b \in 1..4 : 4 * (k - 1) + b <= l /\ 4 * (k - 1) + b \in 1..l
    <3>. HIDE DEF cut, l
    <3>. QED BY <1>1, <1>2
  <2>2. P[k] = [b \in 1..4 |-> bytes[4 * (k - 1) + b]]
    BY <1>4, <2>1
  <2>3. SubSeq(bytes, 4 * k - 3, 4 * k) = [b \in 1..4 |-> bytes[4 * (k - 1) + b]]
    <3>1. SubSeq(bytes, 4 * k - 3, 4 * k) =
             [b \in 1..(1 + 4 * k - (4 * k - 3)) |-> bytes[b + (4 * k - 3) - 1]]
      BY DEF SubSeq
    <3>2. 1 + 4 * k - (4 * k - 3) = 4 /\ \A b \in 1..4 : b + (4 * k - 3) - 1 = 4 * (k - 1) + b
      BY <1>2
    <3>. QED BY <3>1, <3>2
  <2>4. P[k] \in Word
    BY <1>4, <2>1, ElementOfSeq
  <2>. QED BY <2>2, <2>3, <2>4
<1>6. A \in Seq(Word) /\ Len(A) = q /\ \A k \in 1..q : A[k] = P[k]
  <2>1. A \in [1..q -> Word] /\ \A k \in 1..q : A[k] = P[k]
    BY <1>5
  <2>. HIDE DEF A
  <2>. QED BY <1>2, <2>1, FunctionSeq
<1>7. Len(last) = l - cut /\ \A b \in 1..(l - cut) : last[b] = bytes[cut + b]
  <2>. HIDE DEF cut, l
  <2>1. cut + 1 \in Int /\ l \in Int /\ \A b \in (cut + 1)..l : bytes[b] \in Nat
    BY <1>1, <1>2
  <2>2. /\ Len(last) = IF cut + 1 <= l THEN l - (cut + 1) + 1 ELSE 0
        /\ \A b \in 1..(l - (cut + 1) + 1) : last[b] = bytes[cut + 1 + b - 1]
    BY <2>1, SubSeqProperties
  <2>3. /\ l - (cut + 1) + 1 = l - cut /\ (cut + 1 <= l \/ cut = l)
        /\ \A b \in 1..(l - cut) : cut + 1 + b - 1 = cut + b
    BY <1>1, <1>2
  <2>. HIDE DEF last
  <2>. QED BY <1>1, <1>2, <2>2, <2>3
<1>. HIDE DEF A, last
<1>8. CASE cut = l
  <2>1. Len(last) = 0 /\ n = q
    BY <1>1, <1>2, <1>7, <1>8
  <2>2. last = <<>>
    <3>1. last \in Seq(Nat)
      BY <1>1, <1>2, SubSeqProperties DEF last
    <3>. QED BY <2>1, <3>1, EmptySeq
  <2>3. A = P
    BY <1>4, <1>6, <2>1, SeqEqual
  <2>4. B = <<>>
    BY <2>2
  <2>5. h \in Seq(Word)
    BY <1>1 DEF Word
  <2>. HIDE DEF h
  <2>6. h \o P \in Seq(Word) /\ (h \o P) \o <<>> = h \o P
    BY <1>4, <2>5, ConcatProperties, ConcatEmptySeq
  <2>. QED BY <1>3, <2>3, <2>4, <2>6 DEF h, P
<1>9. CASE cut # l
  <2>1. Len(last) # 0 /\ n = q + 1 /\ last # <<>>
    BY <1>1, <1>2, <1>7, <1>9
  <2>2. B = <<final>>
    BY <2>1
  <2>3. final = P[n]
    <3>1. n \in 1..n /\ 4 * (n - 1) = cut
      BY <1>2, <2>1
    <3>2. P[n] = [b \in 1..4 |-> IF 4 * (n - 1) + b <= l THEN bytes[4 * (n - 1) + b] ELSE 0]
      BY <1>4, <3>1
    <3>3. ASSUME NEW b \in 1..4
          PROVE  final[b] = IF 4 * (n - 1) + b <= l THEN bytes[4 * (n - 1) + b] ELSE 0
      <4>1. b <= Len(last) <=> 4 * (n - 1) + b <= l
        <5>. HIDE DEF cut, l
        <5>. QED BY <1>1, <1>2, <1>7, <3>1
      <4>2. b <= Len(last) => b \in 1..(l - cut)
        <5>. HIDE DEF cut, l
        <5>. QED BY <1>1, <1>2, <1>7
      <4>3. b <= Len(last) => last[b] = bytes[4 * (n - 1) + b]
        BY <1>7, <3>1, <4>2
      <4>. HIDE DEF cut
      <4>. QED BY <4>1, <4>3
    <3>4. final = [b \in 1..4 |-> final[b]]
      OBVIOUS
    <3>. HIDE DEF final
    <3>. QED BY <3>2, <3>3, <3>4
  <2>4. A \o B = P
    <3>0. n \in 1..n
      BY <1>2, <2>1
    <3>1. P[n] \in Word /\ n \in 1..n
      BY <1>4, <3>0, ElementOfSeq
    <3>2. A \o B = Append(A, P[n])
      BY <1>6, <2>2, <2>3, <3>1, AppendIsConcat
    <3>3. /\ Append(A, P[n]) \in Seq(Word) /\ Len(Append(A, P[n])) = n
          /\ \A i \in 1..q : Append(A, P[n])[i] = A[i]
          /\ Append(A, P[n])[n] = P[n]
      BY <1>6, <2>1, <3>1, AppendProperties
    <3>4. ASSUME NEW i \in 1..n
          PROVE  Append(A, P[n])[i] = P[i]
      <4>1. CASE i = n
        BY <3>3, <4>1
      <4>2. CASE i # n
        <5>1. i \in 1..q
          BY <1>2, <2>1, <4>2
        <5>. QED BY <1>6, <3>3, <5>1
      <4>. QED BY <4>1, <4>2
    <3>5. Append(A, P[n]) = P
      BY <1>4, <3>3, <3>4, SeqEqual
    <3>. QED BY <3>2, <3>5
  <2>5. h \in Seq(Word) /\ B \in Seq(Word)
    <3>0. n \in 1..n
      BY <1>2, <2>1
    <3>1. P[n] \in Word
      BY <1>4, <3>0, ElementOfSeq
    <3>2. h \in Seq(Word)
      BY <1>1 DEF Word
    <3>. HIDE DEF B, h, final
    <3>. QED BY <2>2, <2>3, <3>1, <3>2
  <2>. HIDE DEF h, B
  <2>6. (h \o A) \o B = h \o (A \o B)
    BY <1>6, <2>5, ConcatAssociative, SMTT(60)
  <2>. QED BY <1>3, <2>4, <2>6 DEF h, P
<1>. QED BY <1>8, <1>9

\* How an argument that was demarshalled, and that handlers may have changed, stands to
\* the one that they leave: only the id of a handshake has another type, and descriptors
\* are numbered.
Kept(x, y, type) ==
    /\ x \in ArgSet /\ y \in ArgSet /\ Legal(y) /\ ~IsNull(y)
    /\ type \notin {"NewId", "Fd"} => x = y
    /\ type = "NewId" => x.type \in {"NewId", "Object"} /\ y.type = "NewId" /\ x.value = y.value
    /\ type = "Fd" => x.type = "Fd" /\ y.type = "Fd"

\* Such an argument is marshalled to the words of the one that was meant.
LEMMA KeptWords ==
    ASSUME NEW x, NEW y, NEW type, Kept(x, y, type)
    PROVE  MarshalArg(x) = WireArg(y, 0)
<1>1. y \in ArgSet /\ Legal(y) /\ ~IsNull(y)
  BY DEF Kept
<1>2. CASE type \notin {"NewId", "Fd"}
  <2>1. x = y
    BY <1>2 DEF Kept
  <2>2. Shape(y, WireArg(y, 0), 0)
    BY <1>1, Shapes
  <2>3. CASE y.type = "String"
    <3>1. /\ y.value \in Seq(Nat \ {0})
          /\ WireArg(y, 0) = << <<Len(y.value) + 1>> >> \o Padded(y.value \o <<0>>, 0)
      BY <1>1, <2>2, <2>3 DEF Shape, IsNull
    <3> DEFINE s == y.value \o <<0>>
    <3>2. s \in Seq(Nat) /\ Len(s) = Len(y.value) + 1
      BY <3>1, StringBytes
    <3>3. MarshalArg(x) = AddArray(s)
      BY <2>1, <2>3 DEF MarshalArg
    <3>. HIDE DEF s
    <3>4. AddArray(s) = << <<Len(s)>> >> \o Padded(s, 0)
      BY <3>2, WholeAndRest
    <3>. QED BY <3>1, <3>2, <3>3, <3>4 DEF s
  <2>4. CASE y.type = "Array"
    <3>1. y.value \in Seq(Nat) /\ WireArg(y, 0) = << <<Len(y.value)>> >> \o Padded(y.value, 0)
      BY <2>2, <2>4 DEF Shape, IsNull
    <3>2. MarshalArg(x) = AddArray(y.value)
      BY <2>1, <2>4 DEF MarshalArg
    <3>. QED BY <3>1, <3>2, WholeAndRest
  <2>5. CASE y.type = "Fd"
    <3>1. MarshalArg(y) = <<>> /\ WireArg(y, 0) = <<>>
      BY <2>5 DEF MarshalArg, WireArg
    <3>. QED BY <2>1, <3>1
  <2>6. CASE y.type \notin {"String", "Array", "Fd"}
    <3>1. MarshalArg(y) = <<y.value>> /\ WireArg(y, 0) = <<y.value>>
      BY <2>6 DEF MarshalArg, WireArg
    <3>. QED BY <2>1, <3>1
  <2>. QED BY <2>3, <2>4, <2>5, <2>6
<1>3. CASE type = "NewId"
  <2>1. x.type \in {"NewId", "Object"} /\ y.type = "NewId" /\ x.value = y.value
    BY <1>3 DEF Kept
  <2>2. MarshalArg(x) = <<x.value>>
    BY <2>1 DEF MarshalArg
  <2>3. WireArg(y, 0) = <<y.value>>
    BY <2>1 DEF WireArg
  <2>. QED BY <2>1, <2>2, <2>3
<1>4. CASE type = "Fd"
  <2>1. x.type = "Fd" /\ y.type = "Fd"
    BY <1>4 DEF Kept
  <2>. QED BY <2>1 DEF MarshalArg, WireArg
<1>. QED BY <1>2, <1>3, <1>4

AllKept(xs, ys, types) ==
    /\ xs \in Seq(ArgSet) /\ ys \in Seq(ArgSet) /\ types \in Seq({"NewId", "Fd"} \union DOMAIN Values)
    /\ Len(xs) = Len(types) /\ Len(ys) = Len(types)
    /\ \A k \in 1..Len(types) : Kept(xs[k], ys[k], types[k])

\* Words of a message.
LEMMA WireType ==
    ASSUME NEW args, AllLegal(args), NEW n \in Nat, NEW d, d.opcode \in Nat, NEW pad \in Nat
    PROVE  /\ Wire(n, d, args, pad) \in Seq(Word) /\ Len(Wire(n, d, args, pad)) >= 2
           /\ Wire(n, d, args, pad)[1] = <<n>> /\ Wire(n, d, args, pad)[2][1] = d.opcode
           /\ Len(Wire(n, d, args, pad)) = 2 + Len(FlattenSeq(Parts(args, pad)))
<1> DEFINE b == FlattenSeq(Parts(args, pad))
           h == << <<n>>, <<d.opcode, 4 * (2 + Len(b))>> >>
<1>1. b \in Seq(Word) /\ Len(b) \in Nat
  BY PartsType, FlattenType, LenProperties
<1>2. Wire(n, d, args, pad) = h \o b
  BY DEF Wire, Parts
<1>. HIDE DEF b
<1>3. /\ h \in Seq(Word) /\ Len(h) = 2 /\ h[1] = <<n>> /\ h[2][1] = d.opcode
  <2>1. 4 * (2 + Len(b)) \in Nat
    BY <1>1
  <2>2. <<n>> \in Word /\ <<d.opcode, 4 * (2 + Len(b))>> \in Word
    BY <2>1 DEF Word
  <2>. QED BY <2>2
<1>. HIDE DEF h
<1>4. /\ h \o b \in Seq(Word) /\ Len(h \o b) = Len(h) + Len(b)
      /\ \A i \in 1..(Len(h) + Len(b)) : (h \o b)[i] = IF i <= Len(h) THEN h[i] ELSE b[i - Len(h)]
  BY <1>1, <1>3, ConcatProperties
<1>5. 1 \in 1..(Len(h) + Len(b)) /\ 2 \in 1..(Len(h) + Len(b)) /\ 1 <= Len(h) /\ 2 <= Len(h)
  BY <1>1, <1>3
<1>6. (h \o b)[1] = h[1] /\ (h \o b)[2] = h[2]
  BY <1>4, <1>5
<1>7. Len(h \o b) = 2 + Len(b) /\ Len(h \o b) >= 2
  BY <1>1, <1>3, <1>4
<1>. QED BY <1>2, <1>3, <1>4, <1>6, <1>7 DEF b

\* What is marshalled is what a sender would have written, had it meant the arguments
\* that the handlers left.
Remade(m, args, orig, n, d) ==
    /\ AllKept(m.args, args, WireTypes(d)) /\ AllLegal(orig)
    /\ n \in Nat /\ d.opcode \in Nat /\ m.source = Wire(n, d, orig, Pad)

\* A message made anew has the words of its arguments, with waydapt's padding.
LEMMA Marshalled ==
    ASSUME NEW m, NEW args, NEW orig, NEW n, NEW d, Remade(m, args, orig, n, d)
    PROVE  MarshalModified(m) = Wire(n, d, args, 0)
<1> DEFINE types == WireTypes(d)
<1>. /\ AllKept(m.args, args, types) /\ AllLegal(orig)
     /\ n \in Nat /\ d.opcode \in Nat /\ m.source = Wire(n, d, orig, Pad)
  BY DEF Remade
<1>1. DOMAIN m.args = 1..Len(types) /\ DOMAIN args = 1..Len(types)
  BY LenProperties DEF AllKept
<1>2. \A k \in 1..Len(types) : MarshalArg(m.args[k]) = WireArg(args[k], 0)
  BY KeptWords DEF AllKept
<1>3. [k \in DOMAIN m.args |-> MarshalArg(m.args[k])] = [k \in DOMAIN args |-> WireArg(args[k], 0)]
  BY <1>1, <1>2
<1>4. m.source[1] = <<n>> /\ m.source[2][1] = d.opcode
  BY WireType DEF Pad
<1>. QED BY <1>3, <1>4 DEF MarshalModified, Wire

-----------------------------------------------------------------------------
(* Demarshalling a message.                                                *)

Types == {"NewId", "Fd"} \union DOMAIN Values

\* What a declaration is, in terms of the arguments on the wire.
LEMMA Declared ==
    ASSUME NEW d \in Decls
    PROVE  /\ d.special \in {"none", "global", "bind", "sync", "delete_id"}
           /\ d.from \in {"client", "server"} /\ d.opcode \in Nat
           /\ WireTypes(d) \in Seq(Types)
           /\ \A j, k \in DOMAIN WireTypes(d) :
                 WireTypes(d)[j] = "NewId" /\ WireTypes(d)[k] = "NewId" => j = k
           /\ d.newId # NoInterface <=>
                 d.special # "bind" /\ \E k \in DOMAIN WireTypes(d) : WireTypes(d)[k] = "NewId"
           /\ d.special = "bind" => WireTypes(d) = <<"Uint", "String", "Uint", "NewId">>
           /\ d.special # "bind" => WireTypes(d) = d.args
           /\ d.special = "global" => WireTypes(d) = <<"Uint", "String", "Uint">>
           /\ d.special = "delete_id" => WireTypes(d) = <<"Uint">>
           /\ NumFds(d) = Cardinality({k \in DOMAIN WireTypes(d) : WireTypes(d)[k] = "Fd"})
<1>1. /\ d.special \in {"none", "global", "bind", "sync", "delete_id"}
      /\ d.from \in {"client", "server"} /\ d.opcode \in Nat
      /\ d.args \in Seq(Types)
      /\ \A j, k \in DOMAIN d.args : d.args[j] = "NewId" /\ d.args[k] = "NewId" => j = k
      /\ d.newId # NoInterface <=>
            d.special # "bind" /\ \E k \in DOMAIN d.args : d.args[k] = "NewId"
      /\ d.special = "global" => d.args = <<"Uint", "String", "Uint">>
      /\ d.special = "bind" => d.args = <<"Uint", "NewId">>
      /\ d.special = "delete_id" => d.args = <<"Uint">>
  BY MediatorAssumption DEF DeclsAssumption, Types
<1>2. CASE d.special # "bind"
  <2>1. WireTypes(d) = d.args
    BY <1>2 DEF WireTypes
  <2>. QED BY <1>1, <1>2, <2>1 DEF NumFds
<1>3. CASE d.special = "bind"
  <2> DEFINE w == <<"Uint", "String", "Uint", "NewId">>
  <2>1. WireTypes(d) = w
    BY <1>3 DEF WireTypes
  <2>2. "Uint" \in Types /\ "String" \in Types /\ "NewId" \in Types
    BY MediatorAssumption DEF ValuesAssumption, Types
  <2>3. w \in Seq(Types) /\ DOMAIN w = 1..4 /\ w[4] = "NewId"
        /\ \A k \in 1..4 : (w[k] = "NewId" <=> k = 4) /\ w[k] # "Fd"
    BY <2>2
  <2>4. NumFds(d) = Cardinality({k \in DOMAIN w : w[k] = "Fd"})
    <3>1. d.args = <<"Uint", "NewId">>
      BY <1>1, <1>3
    <3>2. {k \in DOMAIN d.args : d.args[k] = "Fd"} = {}
      BY <3>1
    <3>3. {k \in DOMAIN w : w[k] = "Fd"} = {}
      BY <2>3
    <3>. QED BY <3>2, <3>3 DEF NumFds
  <2>. HIDE DEF w
  <2>5. \A j, k \in DOMAIN w : w[j] = "NewId" /\ w[k] = "NewId" => j = k
    BY <2>3
  <2>. QED BY <1>1, <1>3, <2>1, <2>3, <2>4, <2>5 DEF w
<1>. QED BY <1>2, <1>3

\* Arguments of a message of the declaration d.
Matches(args, d) ==
    /\ AllLegal(args) /\ Len(args) = Len(WireTypes(d))
    /\ \A k \in 1..Len(args) : args[k].type = WireTypes(d)[k]

Interface(d, args) == IF d.special = "bind" THEN args[2].value ELSE d.newId

FdsAmong(types, k) == {j \in 1..k : types[j] = "Fd"}

AddedBy(d, args, k) ==
    {<<Number(args[j].value), Interface(d, args)>> :
        j \in {l \in 1..k : args[l].type = "NewId" /\ AddsId(d, Number(args[l].value))}}

\* What the first k arguments come to, when no string among them is null.
Sound(acc, k, d, args) ==
    /\ acc = [i |-> At(args, k), args |-> acc.args, fds |-> Cardinality(FdsAmong(WireTypes(d), k)),
              adds |-> AddedBy(d, args, k), panic |-> FALSE]
    /\ acc.args \in Seq(ArgSet) /\ Len(acc.args) = k
    /\ \A j \in 1..k : Kept(acc.args[j], args[j], WireTypes(d)[j])

Broken(acc) ==
    acc = [i |-> acc.i, args |-> acc.args, fds |-> acc.fds, adds |-> acc.adds, panic |-> TRUE]

\* The descriptors among the first arguments are counted one at a time.
LEMMA FdsCounted ==
    ASSUME NEW types, NEW k \in Nat
    PROVE  /\ IsFiniteSet(FdsAmong(types, k)) /\ Cardinality(FdsAmong(types, k)) \in Nat
           /\ Cardinality(FdsAmong(types, 0)) = 0
           /\ Cardinality(FdsAmong(types, k + 1)) =
                 IF types[k + 1] = "Fd" THEN Cardinality(FdsAmong(types, k)) + 1
                 ELSE Cardinality(FdsAmong(types, k))
<1>1. IsFiniteSet(FdsAmong(types, k))
  <2>1. IsFiniteSet(1..k) /\ FdsAmong(types, k) \subseteq 1..k
    BY FS_Interval DEF FdsAmong
  <2>. QED BY <2>1, FS_Subset
<1>2. Cardinality(FdsAmong(types, k)) \in Nat
  BY <1>1, FS_CardinalityType
<1>3. FdsAmong(types, 0) = {}
  BY DEF FdsAmong
<1>4. CASE types[k + 1] = "Fd"
  <2>1. FdsAmong(types, k + 1) = FdsAmong(types, k) \union {k + 1} /\ k + 1 \notin FdsAmong(types, k)
    BY <1>4 DEF FdsAmong
  <2>2. Cardinality(FdsAmong(types, k) \union {k + 1}) = Cardinality(FdsAmong(types, k)) + 1
    BY <1>1, <2>1, FS_AddElement
  <2>. QED BY <1>1, <1>2, <1>3, <1>4, <2>1, <2>2, FS_EmptySet
<1>5. CASE types[k + 1] # "Fd"
  <2>1. FdsAmong(types, k + 1) = FdsAmong(types, k)
    BY <1>5 DEF FdsAmong
  <2>. QED BY <1>1, <1>2, <1>3, <1>5, <2>1, FS_EmptySet
<1>. QED BY <1>4, <1>5

\* A message adds one id at most.
LEMMA AddedOne ==
    ASSUME NEW d \in Decls, NEW args, Matches(args, d), NEW k \in Nat, k + 1 <= Len(args)
    PROVE  AddedBy(d, args, k + 1) =
              IF args[k + 1].type = "NewId" /\ AddsId(d, Number(args[k + 1].value))
              THEN {<<Number(args[k + 1].value), Interface(d, args)>>}
              ELSE AddedBy(d, args, k)
<1> DEFINE New(j) == args[j].type = "NewId" /\ AddsId(d, Number(args[j].value))
           E(j) == <<Number(args[j].value), Interface(d, args)>>
<1>1. AddedBy(d, args, k) = {E(j) : j \in {l \in 1..k : New(l)}}
      /\ AddedBy(d, args, k + 1) = {E(j) : j \in {l \in 1..(k + 1) : New(l)}}
  BY DEF AddedBy
<1>2. ASSUME New(k + 1)
      PROVE  {l \in 1..(k + 1) : New(l)} = {k + 1}
  <2>1. DOMAIN WireTypes(d) = 1..Len(args) /\ Len(args) \in Nat
    BY Declared, LenProperties DEF Matches, AllLegal
  <2>2. \A l \in 1..(k + 1) : l \in 1..Len(args) /\ args[l].type = WireTypes(d)[l]
    BY <2>1 DEF Matches
  <2>3. ASSUME NEW l \in 1..(k + 1), args[l].type = "NewId"
        PROVE  l = k + 1
    <3>1. l \in DOMAIN WireTypes(d) /\ k + 1 \in DOMAIN WireTypes(d)
          /\ WireTypes(d)[l] = "NewId" /\ WireTypes(d)[k + 1] = "NewId"
      BY <1>2, <2>1, <2>2, <2>3
    <3>. QED BY <3>1, Declared
  <2>. QED BY <1>2, <2>3
<1>3. ASSUME ~New(k + 1)
      PROVE  {l \in 1..(k + 1) : New(l)} = {l \in 1..k : New(l)}
  <2>1. \A l \in 1..(k + 1) : l \in 1..k \/ l = k + 1
    OBVIOUS
  <2>. HIDE DEF New
  <2>. QED BY <1>3, <2>1
<1>. HIDE DEF New, E
<1>4. CASE New(k + 1)
  <2>1. AddedBy(d, args, k + 1) = {E(k + 1)}
    BY <1>1, <1>2, <1>4
  <2>. QED BY <1>4, <2>1 DEF New, E
<1>5. CASE ~New(k + 1)
  <2>1. AddedBy(d, args, k + 1) = AddedBy(d, args, k)
    BY <1>1, <1>3, <1>5
  <2>. QED BY <1>5, <2>1 DEF New
<1>. QED BY <1>4, <1>5

IsAcc(acc, i, g, f, e, p) == acc = [i |-> i, args |-> g, fds |-> f, adds |-> e, panic |-> p]

Panics(acc, p) == [acc EXCEPT !.panic = p]

Moves(acc, i, g, f, e) == [acc EXCEPT !.i = i, !.args = g, !.fds = f, !.adds = e]

LEMMA AccPanics ==
    ASSUME NEW i, NEW g, NEW f, NEW e, NEW p, NEW p2, NEW acc, IsAcc(acc, i, g, f, e, p)
    PROVE  IsAcc(Panics(acc, p2), i, g, f, e, p2)
BY DEF IsAcc, Panics

LEMMA AccMoves ==
    ASSUME NEW i, NEW g, NEW f, NEW e, NEW p, NEW i2, NEW g2, NEW f2, NEW e2,
           NEW acc, IsAcc(acc, i, g, f, e, p)
    PROVE  IsAcc(Moves(acc, i2, g2, f2, e2), i2, g2, f2, e2, p)
<1> DEFINE a1 == [i |-> i2, args |-> g, fds |-> f, adds |-> e, panic |-> p]
           a2 == [i |-> i2, args |-> g2, fds |-> f, adds |-> e, panic |-> p]
           a3 == [i |-> i2, args |-> g2, fds |-> f2, adds |-> e, panic |-> p]
           a4 == [i |-> i2, args |-> g2, fds |-> f2, adds |-> e2, panic |-> p]
<1>1. [acc EXCEPT !.i = i2] = a1
  BY DEF IsAcc
<1>2. [a1 EXCEPT !.args = g2] = a2
  OBVIOUS
<1>3. [a2 EXCEPT !.fds = f2] = a3
  OBVIOUS
<1>4. [a3 EXCEPT !.adds = e2] = a4
  OBVIOUS
<1>5. Moves(acc, i2, g2, f2, e2) =
         [[[[acc EXCEPT !.i = i2] EXCEPT !.args = g2] EXCEPT !.fds = f2] EXCEPT !.adds = e2]
  BY DEF Moves
<1>. HIDE DEF a1, a2, a3
<1>. QED BY <1>1, <1>2, <1>3, <1>4, <1>5 DEF IsAcc

\* One argument more.
LEMMA DemarshalOne ==
    ASSUME NEW d \in Decls, NEW args, Matches(args, d), NEW n \in Nat,
           NEW k \in Nat, k + 1 <= Len(args), NEW acc, Sound(acc, k, d, args)
    PROVE  LET r == Demarshal1(d, Wire(n, d, args, Pad), acc, WireTypes(d)[k + 1])
           IN  IF IsNull(args[k + 1]) THEN Broken(r) ELSE Sound(r, k + 1, d, args)
<1> DEFINE data == Wire(n, d, args, Pad)
           a == args[k + 1]
           type == WireTypes(d)[k + 1]
           r == Demarshal1(d, data, acc, type)
           s == Bytes(data, acc.i)
           value == CASE type = "String" -> Front(s)
                      [] type = "Array" -> s
                      [] type = "Fd" -> <<acc.fds + 1>>
                      [] OTHER -> data[acc.i]
           tag == IF type = "NewId" /\ ~AddsId(d, Number(value)) THEN "Object" ELSE type
           interface == IF d.special = "bind" THEN acc.args[2].value ELSE d.newId
           fds == Cardinality(FdsAmong(WireTypes(d), k))
<1>1. /\ k + 1 \in 1..Len(args) /\ Len(args) \in Nat /\ a \in ArgSet /\ Legal(a) /\ a.type = type
      /\ (k + 1) - 1 = k /\ AllLegal(args)
  <2>1. Len(args) \in Nat /\ AllLegal(args)
    BY LenProperties DEF Matches, AllLegal
  <2>2. k + 1 \in 1..Len(args) /\ (k + 1) - 1 = k
    BY <2>1
  <2>3. a \in ArgSet /\ Legal(a) /\ a.type = type
    BY <2>2, ElementOfSeq DEF Matches, AllLegal
  <2>. QED BY <2>1, <2>2, <2>3
<1>2. /\ acc = [i |-> At(args, k), args |-> acc.args, fds |-> fds, adds |-> AddedBy(d, args, k),
                panic |-> FALSE]
      /\ acc.args \in Seq(ArgSet) /\ Len(acc.args) = k
      /\ \A j \in 1..k : Kept(acc.args[j], args[j], WireTypes(d)[j])
  BY DEF Sound
<1>3. acc.i = At(args, k) /\ acc.fds = fds /\ acc.adds = AddedBy(d, args, k) /\ ~acc.panic
  BY <1>2
<1>4. Reads(a, data, acc.i) /\ At(args, k + 1) = acc.i + ArgWords(type, data, acc.i)
  <2>1. d.opcode \in Nat
    BY Declared
  <2>2. /\ Reads(a, data, At(args, (k + 1) - 1))
        /\ At(args, k + 1) = At(args, (k + 1) - 1) + ArgWords(a.type, data, At(args, (k + 1) - 1))
    BY <1>1, <2>1, ArgAt
  <2>. HIDE DEF data, a, type
  <2>. QED BY <1>1, <1>3, <2>2
<1>5. r = IF acc.panic \/ (type = "String" /\ ~IsCStr(s))
          THEN [acc EXCEPT !.panic = TRUE]
          ELSE [acc EXCEPT !.i = @ + ArgWords(type, data, acc.i),
                           !.args = Append(@, Arg(tag, value)),
                           !.fds = IF type = "Fd" THEN @ + 1 ELSE @,
                           !.adds = IF type = "NewId" /\ AddsId(d, Number(value))
                                    THEN {<<Number(value), interface>>} ELSE @]
  BY DEF Demarshal1
<1>a. fds \in Nat
  BY FdsCounted
<1>b. a = [type |-> a.type, value |-> a.value] /\ a.type = type
  BY <1>1 DEF ArgSet
<1>. HIDE DEF data, a, type, r, fds
<1>6. CASE IsNull(a)
  <2>1. type = "String" /\ ~IsCStr(s)
    BY <1>1, <1>4, <1>6 DEF Reads, IsNull
  <2>2. r = [acc EXCEPT !.panic = TRUE]
    BY <1>5, <2>1
  <2>3. r = [i |-> At(args, k), args |-> acc.args, fds |-> fds, adds |-> AddedBy(d, args, k),
             panic |-> TRUE]
    <3> DEFINE e2 == AddedBy(d, args, k)
               g2 == acc.args
               i2 == At(args, k)
               no == FALSE
               yes == TRUE
    <3>1. IsAcc(acc, i2, g2, fds, e2, no)
      BY <1>2 DEF IsAcc
    <3>2. r = Panics(acc, yes)
      BY <2>2 DEF Panics
    <3>. HIDE DEF e2, g2, i2, no, yes
    <3>3. IsAcc(Panics(acc, yes), i2, g2, fds, e2, yes)
      BY <3>1, AccPanics
    <3>. QED BY <3>2, <3>3 DEF e2, g2, i2, yes, IsAcc
  <2>4. Broken(r)
    BY <2>3 DEF Broken
  <2>. QED BY <1>6, <2>4 DEF r, a, data, type
<1>7. CASE ~IsNull(a)
  <2>1. ~(type = "String" /\ ~IsCStr(s))
    BY <1>1, <1>4, <1>7 DEF Reads
  <2>2. type # "Fd" => value = a.value
    <3>1. CASE type = "String"
      BY <1>1, <1>4, <1>7, <3>1 DEF Reads
    <3>2. CASE type = "Array"
      BY <1>1, <1>4, <3>2 DEF Reads
    <3>3. CASE type \notin {"String", "Array", "Fd"}
      BY <1>1, <1>4, <3>3 DEF Reads
    <3>. QED BY <3>1, <3>2, <3>3
  <2>3. type = "Fd" => value = <<fds + 1>>
    BY <1>3
  <2>4. Arg(tag, value) \in ArgSet /\ Kept(Arg(tag, value), a, type)
    <3>. HIDE DEF value
    <3>1. CASE type = "Fd"
      <4>1. Arg(tag, value) = [type |-> "Fd", value |-> <<fds + 1>>]
        BY <2>3, <3>1 DEF Arg
      <4>2. <<fds + 1>> \in Seq(Nat)
        BY <1>a
      <4>. HIDE DEF tag
      <4>3. Arg(tag, value) \in ArgSet
        BY <4>1, <4>2 DEF ArgSet
      <4>. QED BY <1>1, <1>7, <3>1, <4>1, <4>3 DEF Kept
    <3>2. CASE type = "NewId"
      <4>1. tag \in {"NewId", "Object"} /\ value = a.value
        BY <2>2, <3>2
      <4>. HIDE DEF tag
      <4>2. a.value \in Seq(Nat)
        BY <1>1, <1>7, <3>2 DEF Legal, HasType
      <4>3. Arg(tag, value) \in ArgSet /\ Arg(tag, value).type = tag /\ Arg(tag, value).value = a.value
        BY <4>1, <4>2 DEF ArgSet, Arg
      <4>. QED BY <1>1, <1>7, <3>2, <4>1, <4>3 DEF Kept
    <3>3. CASE type \notin {"Fd", "NewId"}
      <4>1. Arg(tag, value) = a
        BY <1>b, <2>2, <3>3 DEF Arg
      <4>. HIDE DEF tag
      <4>. QED BY <1>1, <1>7, <3>3, <4>1 DEF Kept
    <3>. QED BY <3>1, <3>2, <3>3
  <2>5. Cardinality(FdsAmong(WireTypes(d), k + 1)) = IF type = "Fd" THEN fds + 1 ELSE fds
    BY FdsCounted DEF type, fds
  <2>6. AddedBy(d, args, k + 1) = IF type = "NewId" /\ AddsId(d, Number(value))
                                  THEN {<<Number(value), interface>>} ELSE AddedBy(d, args, k)
    <3>1. AddedBy(d, args, k + 1) = IF a.type = "NewId" /\ AddsId(d, Number(a.value))
                                    THEN {<<Number(a.value), Interface(d, args)>>}
                                    ELSE AddedBy(d, args, k)
      BY AddedOne DEF a
    <3>2. CASE type = "NewId"
      <4>1. value = a.value
        BY <2>2, <3>2
      <4>2. interface = Interface(d, args)
        <5>1. CASE d.special = "bind"
          <6> DEFINE w == <<"Uint", "String", "Uint", "NewId">>
          <6>1. WireTypes(d) = w /\ Len(args) = Len(w)
            BY <5>1, Declared DEF Matches
          <6>2. Len(w) = 4 /\ w[2] = "String" /\ \A j \in 1..4 : w[j] = "NewId" => j = 4
            OBVIOUS
          <6>. HIDE DEF w
          <6>3. k = 3
            BY <1>1, <3>2, <6>1, <6>2 DEF type
          <6>4. Kept(acc.args[2], args[2], "String")
            BY <1>2, <6>1, <6>2, <6>3
          <6>5. acc.args[2] = args[2]
            BY <6>4 DEF Kept
          <6>. QED BY <5>1, <6>5 DEF Interface
        <5>2. CASE d.special # "bind"
          BY <5>2 DEF Interface
        <5>. QED BY <5>1, <5>2
      <4>. HIDE DEF value, interface
      <4>. QED BY <1>b, <3>1, <3>2, <4>1, <4>2
    <3>3. CASE type # "NewId"
      BY <1>b, <3>1, <3>3
    <3>. QED BY <3>2, <3>3
  <2> DEFINE x == Arg(tag, value)
             adds == IF type = "NewId" /\ AddsId(d, Number(value))
                     THEN {<<Number(value), interface>>} ELSE AddedBy(d, args, k)
  <2>7. r = [i |-> At(args, k + 1), args |-> Append(acc.args, x),
             fds |-> Cardinality(FdsAmong(WireTypes(d), k + 1)),
             adds |-> AddedBy(d, args, k + 1), panic |-> FALSE]
    <3>1. r = [acc EXCEPT !.i = @ + ArgWords(type, data, acc.i),
                          !.args = Append(@, x),
                          !.fds = IF type = "Fd" THEN @ + 1 ELSE @,
                          !.adds = IF type = "NewId" /\ AddsId(d, Number(value))
                                   THEN {<<Number(value), interface>>} ELSE @]
      BY <1>3, <1>5, <2>1
    <3>. HIDE DEF x, value, interface, s
    <3>2. r = [i |-> acc.i + ArgWords(type, data, acc.i), args |-> Append(acc.args, x),
               fds |-> IF type = "Fd" THEN fds + 1 ELSE fds, adds |-> adds, panic |-> FALSE]
      <4> DEFINE i2 == acc.i + ArgWords(type, data, acc.i)
                 g2 == Append(acc.args, x)
                 f2 == IF type = "Fd" THEN fds + 1 ELSE fds
                 e2 == IF type = "NewId" /\ AddsId(d, Number(value))
                       THEN {<<Number(value), interface>>} ELSE acc.adds
      <4>1. r = Moves(acc, i2, g2, f2, e2)
        BY <1>3, <3>1 DEF Moves
      <4>2. e2 = adds
        BY <1>3
      <4>. HIDE DEF i2, g2, f2, e2, adds
      <4>3. r = [i |-> i2, args |-> g2, fds |-> f2, adds |-> e2, panic |-> FALSE]
        <5> DEFINE e1 == AddedBy(d, args, k)
                   g1 == acc.args
                   i1 == At(args, k)
                   no == FALSE
        <5>1. IsAcc(acc, i1, g1, fds, e1, no)
          BY <1>2 DEF IsAcc
        <5>. HIDE DEF e1, g1, i1, no
        <5>2. IsAcc(Moves(acc, i2, g2, f2, e2), i2, g2, f2, e2, no)
          BY <5>1, AccMoves
        <5>. QED BY <4>1, <5>2 DEF no, IsAcc
      <4>. QED BY <4>2, <4>3 DEF i2, g2, f2
    <3>. QED BY <1>4, <2>5, <2>6, <3>2
  <2>. HIDE DEF x, adds
  <2>8. /\ Append(acc.args, x) \in Seq(ArgSet) /\ Len(Append(acc.args, x)) = k + 1
        /\ \A j \in 1..k : Append(acc.args, x)[j] = acc.args[j]
        /\ Append(acc.args, x)[k + 1] = x
    BY <1>2, <2>4, AppendProperties DEF x
  <2>9. ASSUME NEW j \in 1..(k + 1)
        PROVE  Kept(Append(acc.args, x)[j], args[j], WireTypes(d)[j])
    <3>1. CASE j = k + 1
      BY <2>4, <2>8, <3>1 DEF x, a, type
    <3>2. CASE j # k + 1
      <4>1. j \in 1..k
        BY <3>2
      <4>. QED BY <1>2, <2>8, <4>1
    <3>. QED BY <3>1, <3>2
  <2>10. Sound(r, k + 1, d, args)
    BY <2>7, <2>8, <2>9 DEF Sound
  <2>. QED BY <1>7, <2>10 DEF r, a, data, type
<1>. QED BY <1>6, <1>7

\* What has panicked stays so.
LEMMA BrokenStays ==
    ASSUME NEW acc, Broken(acc), NEW d, NEW data, NEW type
    PROVE  Broken(Demarshal1(d, data, acc, type))
<1> DEFINE i == acc.i
           g == acc.args
           f == acc.fds
           e == acc.adds
           yes == TRUE
<1>1. IsAcc(acc, i, g, f, e, yes) /\ acc.panic
  BY DEF Broken, IsAcc
<1>2. Demarshal1(d, data, acc, type) = Panics(acc, yes)
  BY <1>1 DEF Demarshal1, Panics
<1>. HIDE DEF i, g, f, e
<1>3. IsAcc(Panics(acc, yes), i, g, f, e, yes)
  <2>. HIDE DEF yes
  <2>. QED BY <1>1, AccPanics
<1> DEFINE r == Demarshal1(d, data, acc, type)
<1>4. IsAcc(r, i, g, f, e, yes)
  BY <1>2, <1>3
<1>. HIDE DEF r, yes
<1>5. r.i = i /\ r.args = g /\ r.fds = f /\ r.adds = e
  BY <1>4 DEF IsAcc
<1>6. IsAcc(r, r.i, r.args, r.fds, r.adds, yes)
  BY <1>4, <1>5
<1>7. Broken(r)
  BY <1>6 DEF IsAcc, Broken, yes
<1>. QED BY <1>7 DEF r

HasNull(args, k) == \E j \in 1..k : IsNull(args[j])

\* All arguments of a message are read as they were sent, unless one is a null string.
LEMMA DemarshalAll ==
    ASSUME NEW d \in Decls, NEW args, Matches(args, d), NEW n \in Nat
    PROVE  LET acc == DemarshalArgs(d, Wire(n, d, args, Pad))
           IN  IF HasNull(args, Len(args)) THEN Broken(acc) ELSE Sound(acc, Len(args), d, args)
<1> DEFINE data == Wire(n, d, args, Pad)
           types == WireTypes(d)
           l == Len(args)
<1>1. l \in Nat /\ DOMAIN types = 1..l /\ AllLegal(args)
  BY Declared, LenProperties DEF Matches, AllLegal
<1>2. PICK f : /\ Goes(f, "demarshal", d, data, DemarshalBase, types, l)
               /\ DemarshalArgs(d, data) = f[l]
  <2>. HIDE DEF data, l
  <2>. QED BY <1>1, DemarshalSteps
<1> DEFINE Ok(k) == IF HasNull(args, k) THEN Broken(f[k]) ELSE Sound(f[k], k, d, args)
           N == {k \in Nat : k <= l => Ok(k)}
<1>. HIDE DEF data, types, l
<1>3. 0 \in N
  <2>1. f[0] = DemarshalBase
    BY <1>2 DEF Goes
  <2>2. ~HasNull(args, 0)
    BY DEF HasNull
  <2>3. At(args, 0) = 3
    BY <1>1, AtStart
  <2>4. Cardinality(FdsAmong(WireTypes(d), 0)) = 0
    BY FdsCounted
  <2>5. AddedBy(d, args, 0) = {}
    BY DEF AddedBy
  <2>6. /\ DemarshalBase = [i |-> 3, args |-> <<>>, fds |-> 0, adds |-> {}, panic |-> FALSE]
        /\ DemarshalBase.args = <<>>
    BY DEF DemarshalBase
  <2>7. <<>> \in Seq(ArgSet) /\ Len(<<>>) = 0
    OBVIOUS
  <2>8. Sound(DemarshalBase, 0, d, args)
    <3>1. DemarshalBase = [i |-> At(args, 0), args |-> DemarshalBase.args,
                           fds |-> Cardinality(FdsAmong(WireTypes(d), 0)),
                           adds |-> AddedBy(d, args, 0), panic |-> FALSE]
      BY <2>3, <2>4, <2>5, <2>6
    <3>2. DemarshalBase.args \in Seq(ArgSet) /\ Len(DemarshalBase.args) = 0
      BY <2>6, <2>7
    <3>3. 1..0 = {}
      OBVIOUS
    <3>. QED BY <3>1, <3>2, <3>3 DEF Sound
  <2>9. Sound(f[0], 0, d, args)
    BY <2>1, <2>8
  <2>. QED BY <2>2, <2>9
<1>4. ASSUME NEW k \in Nat, k \in N
      PROVE  k + 1 \in N
  <2>1. SUFFICES ASSUME k + 1 <= l
                 PROVE  Ok(k + 1)
    OBVIOUS
  <2>2. k \in 0..(l - 1) /\ k + 1 <= Len(args) /\ Ok(k)
    BY <1>1, <1>4, <2>1 DEF l
  <2>3. f[k + 1] = Demarshal1(d, data, f[k], types[k + 1])
    BY <1>2, <2>2 DEF Goes, Apply
  <2>4. HasNull(args, k + 1) <=> HasNull(args, k) \/ IsNull(args[k + 1])
    <3>1. \A j \in 1..(k + 1) : j \in 1..k \/ j = k + 1
      OBVIOUS
    <3>2. k + 1 \in 1..(k + 1) /\ \A j \in 1..k : j \in 1..(k + 1)
      OBVIOUS
    <3>. QED BY <3>1, <3>2 DEF HasNull
  <2>5. CASE HasNull(args, k)
    <3>1. Broken(f[k])
      BY <2>2, <2>5
    <3>2. Broken(f[k + 1])
      BY <2>3, <3>1, BrokenStays
    <3>. QED BY <2>4, <2>5, <3>2
  <2>6. CASE ~HasNull(args, k)
    <3>1. Sound(f[k], k, d, args)
      BY <2>2, <2>6
    <3>2. IF IsNull(args[k + 1]) THEN Broken(f[k + 1]) ELSE Sound(f[k + 1], k + 1, d, args)
      BY <2>2, <2>3, <3>1, DemarshalOne DEF data, types
    <3>. QED BY <2>4, <2>6, <3>2
  <2>. QED BY <2>5, <2>6
<1>5. Nat \subseteq N
  <2>. HIDE DEF N
  <2>. QED BY <1>3, <1>4, NatSetInduction
<1>6. Ok(l)
  BY <1>1, <1>5
<1>. QED BY <1>2, <1>6 DEF data, l

\* Demarshalling panics for a null string and for a bind that is not allowed; what it
\* makes of any other message are its arguments, its descriptors and its new id.
Demarshalled(r, d, args) ==
    /\ r.panic <=> \/ HasNull(args, Len(args))
                   \/ d.special = "bind" /\ ~MayBind(args[2].value, Number(args[3].value))
    /\ ~r.panic => /\ AllKept(r.args, args, WireTypes(d))
                   /\ r.fds = NumFds(d) /\ r.adds = AddedBy(d, args, Len(args))

\* And bind has its limit checked.
LEMMA DemarshalMessage ==
    ASSUME NEW d \in Decls, NEW args, Matches(args, d), NEW n \in Nat
    PROVE  Demarshalled(Demarshal(d, Wire(n, d, args, Pad)), d, args)
<1> DEFINE data == Wire(n, d, args, Pad)
           acc == DemarshalArgs(d, data)
           r == Demarshal(d, data)
<1>1. IF HasNull(args, Len(args)) THEN Broken(acc) ELSE Sound(acc, Len(args), d, args)
  BY DemarshalAll
<1>2. r = IF (d.special = "bind" /\ ~acc.panic) /\ ~MayBind(acc.args[2].value, Number(acc.args[3].value))
          THEN Panics(acc, TRUE) ELSE acc
  BY DEF Demarshal, Panics
<1>. HIDE DEF data, acc, r
<1>3. CASE HasNull(args, Len(args))
  <2>1. acc.panic
    BY <1>1, <1>3 DEF Broken
  <2>2. r = acc
    BY <1>2, <2>1
  <2>. QED BY <1>3, <2>1, <2>2 DEF Demarshalled, r, data
<1>4. CASE ~HasNull(args, Len(args))
  <2>1. Sound(acc, Len(args), d, args)
    BY <1>1, <1>4
  <2>2. /\ acc = [i |-> At(args, Len(args)), args |-> acc.args,
                  fds |-> Cardinality(FdsAmong(WireTypes(d), Len(args))),
                  adds |-> AddedBy(d, args, Len(args)), panic |-> FALSE]
        /\ acc.args \in Seq(ArgSet) /\ Len(acc.args) = Len(args)
        /\ \A j \in 1..Len(args) : Kept(acc.args[j], args[j], WireTypes(d)[j])
    BY <2>1 DEF Sound
  <2>3. /\ acc.fds = Cardinality(FdsAmong(WireTypes(d), Len(args)))
        /\ acc.adds = AddedBy(d, args, Len(args)) /\ ~acc.panic
    BY <2>2
  <2>4. /\ WireTypes(d) \in Seq(Types) /\ DOMAIN WireTypes(d) = 1..Len(args)
        /\ Len(WireTypes(d)) = Len(args) /\ args \in Seq(ArgSet)
    <3>1. WireTypes(d) \in Seq(Types)
      BY Declared
    <3>2. Len(args) = Len(WireTypes(d)) /\ args \in Seq(ArgSet)
      BY DEF Matches, AllLegal
    <3>3. DOMAIN WireTypes(d) = 1..Len(WireTypes(d))
      BY <3>1, LenProperties
    <3>. QED BY <3>1, <3>2, <3>3
  <2>5. AllKept(acc.args, args, WireTypes(d))
    <3>1. WireTypes(d) \in Seq({"NewId", "Fd"} \union DOMAIN Values)
      BY <2>4 DEF Types
    <3>2. \A j \in 1..Len(WireTypes(d)) : Kept(acc.args[j], args[j], WireTypes(d)[j])
      BY <2>2, <2>4
    <3>. QED BY <2>2, <2>4, <3>1, <3>2 DEF AllKept
  <2>6. acc.fds = NumFds(d)
    BY <2>3, <2>4, Declared DEF FdsAmong
  <2>7. d.special = "bind" => acc.args[2] = args[2] /\ acc.args[3] = args[3]
    <3>1. SUFFICES ASSUME d.special = "bind"
                   PROVE  acc.args[2] = args[2] /\ acc.args[3] = args[3]
      OBVIOUS
    <3> DEFINE w == <<"Uint", "String", "Uint", "NewId">>
    <3>2. WireTypes(d) = w
      BY <3>1, Declared
    <3>3. Len(w) = 4 /\ w[2] = "String" /\ w[3] = "Uint"
      OBVIOUS
    <3>. HIDE DEF w
    <3>4. Len(args) = 4 /\ \A j \in 1..4 : Kept(acc.args[j], args[j], w[j])
      BY <2>2, <2>4, <3>2, <3>3
    <3>5. Kept(acc.args[2], args[2], w[2]) /\ Kept(acc.args[3], args[3], w[3])
      BY <3>4
    <3>. QED BY <3>3, <3>5 DEF Kept
  <2>8. CASE d.special = "bind" /\ ~MayBind(args[2].value, Number(args[3].value))
    <3>1. r = Panics(acc, TRUE)
      BY <1>2, <2>3, <2>7, <2>8
    <3>2. r.panic
      BY <2>2, <3>1 DEF Panics
    <3>. QED BY <2>8, <3>2 DEF Demarshalled, r, data
  <2>9. CASE ~(d.special = "bind" /\ ~MayBind(args[2].value, Number(args[3].value)))
    <3>1. r = acc
      BY <1>2, <2>3, <2>7, <2>9
    <3>. QED BY <1>4, <2>3, <2>5, <2>6, <2>9, <3>1 DEF Demarshalled, r, data
  <2>. QED BY <2>8, <2>9
<1>. QED BY <1>3, <1>4

IsPass(x, i, b) == x = [i |-> i, found |-> b]

Finds(x, b) == [x EXCEPT !.found = b]

Skips(x, i) == [x EXCEPT !.i = i]

LEMMA PassChanges ==
    ASSUME NEW x, NEW i, NEW b, NEW i2, NEW b2, IsPass(x, i, b)
    PROVE  IsPass(Finds(x, b2), i, b2) /\ IsPass(Skips(x, i2), i2, b)
BY DEF IsPass, Finds, Skips

LEMMA PassFields ==
    ASSUME NEW x, NEW i, NEW b, IsPass(x, i, b)
    PROVE  x.i = i /\ x.found = b
BY DEF IsPass

\* The fast track finds the new id without demarshalling: it skips what comes before it.
LEMMA NewIdFound ==
    ASSUME NEW d \in Decls, d.special # "bind", NEW args, Matches(args, d), NEW n \in Nat,
           NEW p \in 1..Len(args), args[p].type = "NewId"
    PROVE  FindNewId(d, Wire(n, d, args, Pad)) = Number(args[p].value)
<1> DEFINE data == Wire(n, d, args, Pad)
           l == Len(args)
<1>1. /\ l \in Nat /\ d.args \in Seq(Types) /\ DOMAIN d.args = 1..l /\ AllLegal(args)
      /\ \A k \in 1..l : args[k].type = d.args[k]
      /\ d.opcode \in Nat
  <2>1. WireTypes(d) = d.args /\ WireTypes(d) \in Seq(Types) /\ d.opcode \in Nat
    BY Declared
  <2>2. Len(args) \in Nat
    BY LenProperties DEF Matches, AllLegal
  <2>. QED BY <2>1, <2>2, LenProperties DEF Matches
<1>2. PICK f : /\ Goes(f, "pass", d, data, PassBase, d.args, l)
               /\ FindNewId(d, data) = Number(data[f[l].i])
  <2>. HIDE DEF data, l
  <2>. QED BY <1>1, PassSteps
<1>3. /\ Reads(args[p], data, At(args, p - 1)) /\ data[At(args, p - 1)] = args[p].value
      /\ \A k \in 1..l : At(args, k) = At(args, k - 1) + ArgWords(args[k].type, data, At(args, k - 1))
  <2>1. \A k \in 1..Len(args) :
           /\ Reads(args[k], data, At(args, k - 1))
           /\ At(args, k) = At(args, k - 1) + ArgWords(args[k].type, data, At(args, k - 1))
    BY <1>1, ArgAt
  <2>2. Reads(args[p], data, At(args, p - 1))
    BY <2>1
  <2>. HIDE DEF data
  <2>3. data[At(args, p - 1)] = args[p].value
    BY <2>2 DEF Reads
  <2>. QED BY <2>1, <2>2, <2>3
<1>4. p \in Nat /\ p \in 1..l /\ d.args[p] = "NewId"
      /\ \A k \in 1..l : d.args[k] = "NewId" => k = p
  <2>1. d.args[p] = "NewId"
    BY <1>1
  <2>2. \A k \in 1..l : d.args[k] = "NewId" => k = p
    BY <1>1, <2>1, Declared
  <2>. QED BY <2>1, <2>2
<1> DEFINE no == FALSE
           yes == TRUE
           Ok(k) == /\ k < p => IsPass(f[k], At(args, k), no)
                    /\ k >= p => IsPass(f[k], At(args, p - 1), yes)
           N == {k \in Nat : k <= l => Ok(k)}
<1>. HIDE DEF data, l, no, yes
<1>5. 0 \in N
  <2>1. f[0] = PassBase /\ 0 < p
    BY <1>2, <1>4 DEF Goes
  <2>2. At(args, 0) = 3
    BY <1>1, AtStart
  <2>3. IsPass(f[0], At(args, 0), no)
    BY <2>1, <2>2 DEF PassBase, IsPass, no
  <2>. QED BY <2>1, <2>3
<1>6. ASSUME NEW k \in Nat, k \in N
      PROVE  k + 1 \in N
  <2>1. SUFFICES ASSUME k + 1 <= l
                 PROVE  Ok(k + 1)
    OBVIOUS
  <2>2. k \in 0..(l - 1) /\ k + 1 \in 1..l /\ Ok(k) /\ (k + 1) - 1 = k
    BY <1>1, <1>6, <2>1
  <2>3. f[k + 1] = PassArg(data, f[k], d.args[k + 1])
    BY <1>2, <2>2 DEF Goes, Apply
  <2>4. CASE k >= p
    <3>1. IsPass(f[k], At(args, p - 1), yes) /\ ~(k + 1 < p)
      BY <1>4, <2>2, <2>4
    <3>2. f[k].found
      BY <3>1, PassFields DEF yes
    <3>3. f[k + 1] = f[k]
      BY <2>3, <3>2 DEF PassArg
    <3>. QED BY <3>1, <3>3
  <2>5. CASE k < p
    <3>1. IsPass(f[k], At(args, k), no)
      BY <2>2, <2>5
    <3>2. ~f[k].found /\ f[k].i = At(args, k)
      BY <3>1, PassFields DEF no
    <3>3. CASE k + 1 = p
      <4>1. d.args[k + 1] = "NewId" /\ p - 1 = k /\ ~(k + 1 < p)
        BY <1>4, <3>3
      <4>2. f[k + 1] = Finds(f[k], yes)
        BY <2>3, <3>2, <4>1 DEF PassArg, Finds, yes
      <4>3. IsPass(f[k + 1], At(args, k), yes)
        BY <3>1, <4>2, PassChanges
      <4>. QED BY <4>1, <4>3
    <3>4. CASE k + 1 # p
      <4>1. d.args[k + 1] # "NewId" /\ k + 1 < p
        BY <1>4, <2>2, <2>5, <3>4
      <4>2. f[k + 1] = Skips(f[k], f[k].i + ArgWords(d.args[k + 1], data, f[k].i))
        BY <2>3, <3>2, <4>1 DEF PassArg, Skips
      <4>3. At(args, k + 1) = At(args, k) + ArgWords(d.args[k + 1], data, At(args, k))
        BY <1>1, <1>3, <2>2
      <4>4. f[k + 1] = Skips(f[k], At(args, k + 1))
        BY <3>2, <4>2, <4>3
      <4>5. IsPass(f[k + 1], At(args, k + 1), no)
        BY <3>1, <4>4, PassChanges
      <4>. QED BY <4>1, <4>5
    <3>. QED BY <3>3, <3>4
  <2>. QED BY <1>4, <2>4, <2>5
<1>7. Nat \subseteq N
  <2>. HIDE DEF N
  <2>. QED BY <1>5, <1>6, NatSetInduction
<1>8. f[l].i = At(args, p - 1)
  <2>1. l \in N /\ ~(l < p)
    BY <1>1, <1>4, <1>7
  <2>2. IsPass(f[l], At(args, p - 1), yes)
    BY <1>1, <2>1
  <2>. QED BY <2>2, PassFields
<1>. QED BY <1>2, <1>3, <1>8 DEF data

-----------------------------------------------------------------------------
(* The inductive invariant.                                                *)

Sides == {"client", "server"}
Handlers == {"addon", "builtin"}
FdSeq == Seq(Nat \X Nat)

Received == [decl : Decls, args : Seq(ArgSet), fds : FdSeq]

SentSet == [words : Seq(Word), fds : FdSeq, for : Nat, meant : Seq(ArgSet), unseen : Seq(Handlers)]

InHand == pc \in {"handle", "marshal", "relay"}

\* Messages as they come: the n-th is of its declaration, and no longer than a message
\* may be; its ids are the client's, but for that of a handshake.
WellSent(m, n) ==
    /\ Matches(m.args, m.decl)
    /\ \A k \in 1..Len(m.args) :
          m.args[k].type = "NewId" =>
             \/ Number(m.args[k].value) < ServerStart
             \/ m.decl.special = "sync" /\ Number(m.args[k].value) = HandshakeId
    /\ Len(Wire(n, m.decl, m.args, Pad)) <= MaxWords
    /\ Len(m.fds) = NumFds(m.decl)

IdsOf(msgs) == UNION {Created(msgs[n].args) : n \in DOMAIN msgs}

CameOK ==
    /\ came \in Seq(Received) /\ Len(came) <= MsgBound
    /\ \A n \in 1..Len(came) : WellSent(came[n], n)
    /\ IsFiniteSet(IdsOf(came)) /\ Cardinality(IdsOf(came)) <= Len(came)

\* Where the mediator is.
PlaceOK ==
    /\ debugLevel \in Nat /\ addons \in Nat
    /\ pc \in {"idle", "handle", "marshal", "relay", "panicked"}
    /\ next \in 1..(Len(came) + 1) /\ dropped \subseteq 1..(next - 1)
    /\ pc # "idle" => next <= Len(came)
    /\ pc = "idle" => dmsg = NoMessage /\ todo = <<>> /\ meant = <<>>

\* The handlers that are left: the one of global and bind is the first, that of delete_id
\* the last.
TodoOK ==
    /\ todo \in Seq(Handlers)
    /\ \A k \in 1..Len(todo) : todo[k] = "addon" => addons > 0
    /\ pc = "handle" => todo # <<>>
    /\ pc = "relay" => todo = <<>> /\ Decl.special \in {"none", "sync"}
    /\ InHand =>
          /\ Decl.special \in {"none", "sync"} => \A k \in 1..Len(todo) : todo[k] = "addon"
          /\ Decl.special \in {"global", "bind"} /\ pc = "handle" => todo[1] = "builtin"
          /\ Decl.special = "delete_id" =>
                \A k \in 1..Len(todo) : todo[k] = "builtin" <=> k = Len(todo)

Within(args) ==
    /\ args[2].value \in DOMAIN Limits /\ Number(args[3].value) \in Nat
    /\ Number(args[3].value) <= Limits[args[2].value]

\* The message at hand, and what has become of it.
MessageOK ==
    InHand =>
       /\ dmsg \in [decl : Decls, source : Seq(Word), args : Seq(ArgSet), fds : FdSeq,
                    modified : BOOLEAN, typeChanged : BOOLEAN]
       /\ dmsg.decl = Decl /\ dmsg.source = Source /\ dmsg.fds = came[next].fds
       /\ AllKept(dmsg.args, meant, WireTypes(Decl))
       /\ ~dmsg.modified \/ pc = "relay" \/ Decl.special = "bind" => meant = came[next].args
       /\ Decl.special = "global" =>
             IF pc = "handle" THEN meant = came[next].args ELSE Within(meant)
       /\ addons = 0 =>
             /\ ~dmsg.typeChanged /\ Len(Wire(next, Decl, meant, 0)) <= MaxWords
             /\ Decl.special # "global" => meant = came[next].args

\* The descriptors of the messages from the n-th on, one side's.
FdsFrom(msgs, side, n) ==
    FlattenSeq([k \in 1..(Len(msgs) + 1 - n) |->
                  IF msgs[n + k - 1].decl.from = side THEN msgs[n + k - 1].fds ELSE <<>>])

FdsOK ==
    /\ inFds \in [Sides -> FdSeq]
    /\ pc # "panicked" =>
          \A side \in Sides :
             inFds[side] = FdsFrom(came, side, IF pc = "idle" THEN next ELSE next + 1)

OutOK ==
    /\ out \in Seq(SentSet)
    /\ SentAsMeant
    /\ \A k \in 1..Len(out) : came[out[k].for].decl.special = "global" => Within(out[k].meant)

AtHandSent == [for |-> next, meant |-> meant, unseen |-> todo]

IdsOK ==
    /\ \A e \in idMap : e[1] \in Nat
    /\ pc = "idle" => idMap = IdsSent(came, out)
    /\ InHand => idMap = Track(came, IdsSent(came, out), AtHandSent)

IInv == /\ CameOK /\ PlaceOK /\ TodoOK /\ MessageOK /\ FdsOK /\ OutOK /\ IdsOK
        /\ PanicsCalledFor

-----------------------------------------------------------------------------
(* What the steps need: lengths, descriptors and ids.                      *)

\* Sequences of the same lengths are as long together.
LEMMA SameLengths ==
    ASSUME NEW S, NEW ss \in Seq(Seq(S)), NEW tt \in Seq(Seq(S)), Len(ss) = Len(tt),
           \A k \in 1..Len(ss) : Len(ss[k]) = Len(tt[k])
    PROVE  Len(FlattenSeq(ss)) = Len(FlattenSeq(tt))
<1> DEFINE L(s, k) == Len(FlattenSeq(SubSeq(s, 1, k)))
           N == {k \in Nat : k <= Len(ss) => L(ss, k) = L(tt, k)}
<1>1. Len(ss) \in Nat
  BY LenProperties
<1>2. ASSUME NEW s \in Seq(Seq(S)), NEW k \in Nat, k + 1 <= Len(s)
      PROVE  L(s, k + 1) = L(s, k) + Len(s[k + 1])
  <2>1. k + 1 \in 1..Len(s) /\ (k + 1) - 1 = k
    BY <1>2, LenProperties
  <2> DEFINE p == SubSeq(s, 1, k)
             x == s[k + 1]
  <2>2. p \in Seq(Seq(S)) /\ x \in Seq(S) /\ SubSeq(s, 1, k + 1) = Append(p, x)
    BY <2>1, Around
  <2>. HIDE DEF p, x
  <2>3. FlattenSeq(Append(p, x)) = FlattenSeq(p) \o x /\ FlattenSeq(p) \in Seq(S)
    BY <2>2, FlattenAppend, FlattenType
  <2>4. Len(FlattenSeq(p) \o x) = Len(FlattenSeq(p)) + Len(x)
    BY <2>2, <2>3, ConcatProperties
  <2>. QED BY <2>2, <2>3, <2>4 DEF p, x
<1>3. 0 \in N
  <2>1. SubSeq(ss, 1, 0) = <<>> /\ SubSeq(tt, 1, 0) = <<>>
    BY SubSeqEmpty
  <2>. QED BY <2>1
<1>4. ASSUME NEW k \in Nat, k \in N
      PROVE  k + 1 \in N
  <2>1. SUFFICES ASSUME k + 1 <= Len(ss)
                 PROVE  L(ss, k + 1) = L(tt, k + 1)
    OBVIOUS
  <2>2. k + 1 \in 1..Len(ss) /\ L(ss, k) = L(tt, k) /\ k + 1 <= Len(tt)
    BY <1>1, <1>4, <2>1
  <2>3. L(ss, k + 1) = L(ss, k) + Len(ss[k + 1]) /\ L(tt, k + 1) = L(tt, k) + Len(tt[k + 1])
    BY <1>2, <2>1, <2>2
  <2>. HIDE DEF L
  <2>. QED BY <2>2, <2>3
<1>5. Nat \subseteq N
  <2>. HIDE DEF N
  <2>. QED BY <1>3, <1>4, NatSetInduction
<1>6. L(ss, Len(ss)) = L(tt, Len(ss))
  BY <1>1, <1>5
<1>7. SubSeq(ss, 1, Len(ss)) = ss /\ SubSeq(tt, 1, Len(ss)) = tt
  BY SubSeqFull
<1>. QED BY <1>6, <1>7

\* The padding does not change how many words there are.
LEMMA PadLength ==
    ASSUME NEW a \in ArgSet, Legal(a), NEW p \in Nat, NEW q \in Nat
    PROVE  Len(WireArg(a, p)) = Len(WireArg(a, q))
<1>1. ASSUME NEW bytes \in Seq(Nat), NEW h \in Seq(Word)
      PROVE  Len(h \o Padded(bytes, p)) = Len(h \o Padded(bytes, q))
  <2>1. /\ Padded(bytes, p) \in Seq(Word) /\ Len(Padded(bytes, p)) = WordsFor(Len(bytes))
        /\ Padded(bytes, q) \in Seq(Word) /\ Len(Padded(bytes, q)) = WordsFor(Len(bytes))
    BY PaddedBytes
  <2> DEFINE x == Padded(bytes, p)
             y == Padded(bytes, q)
  <2>. HIDE DEF x, y
  <2>2. Len(h \o x) = Len(h) + Len(x) /\ Len(h \o y) = Len(h) + Len(y)
    BY <2>1, ConcatProperties DEF x, y
  <2>. QED BY <2>1, <2>2 DEF x, y
<1>2. Shape(a, WireArg(a, p), p) /\ Shape(a, WireArg(a, q), q)
  BY Shapes
<1>3. CASE a.type = "String" /\ ~IsNull(a)
  <2>1. /\ a.value \in Seq(Nat \ {0})
        /\ WireArg(a, p) = << <<Len(a.value) + 1>> >> \o Padded(a.value \o <<0>>, p)
        /\ WireArg(a, q) = << <<Len(a.value) + 1>> >> \o Padded(a.value \o <<0>>, q)
    BY <1>2, <1>3 DEF Shape
  <2>2. a.value \o <<0>> \in Seq(Nat) /\ Len(a.value) + 1 \in Nat
    BY <2>1, StringBytes, LenProperties
  <2>3. << <<Len(a.value) + 1>> >> \in Seq(Word)
    BY <2>2 DEF Word
  <2>. QED BY <1>1, <2>1, <2>2, <2>3
<1>4. CASE a.type = "Array"
  <2>1. /\ a.value \in Seq(Nat)
        /\ WireArg(a, p) = << <<Len(a.value)>> >> \o Padded(a.value, p)
        /\ WireArg(a, q) = << <<Len(a.value)>> >> \o Padded(a.value, q)
    BY <1>2, <1>4 DEF Shape, IsNull
  <2>2. << <<Len(a.value)>> >> \in Seq(Word)
    BY <2>1, LenProperties DEF Word
  <2>. QED BY <1>1, <2>1, <2>2
<1>5. CASE a.type \notin {"String", "Array"} \/ IsNull(a)
  BY <1>5 DEF WireArg, IsNull
<1>. QED BY <1>3, <1>4, <1>5 DEF IsNull

\* Messages with arguments of the same lengths are as long.
AsLong(args, p, args2, q) ==
    /\ AllLegal(args) /\ AllLegal(args2) /\ Len(args) = Len(args2) /\ p \in Nat /\ q \in Nat
    /\ \A k \in 1..Len(args) : Len(WireArg(args[k], p)) = Len(WireArg(args2[k], q))

\* A message keeps its length with other padding, and with other values of the same sizes.
LEMMA WireLength ==
    ASSUME NEW args, NEW p, NEW args2, NEW q, AsLong(args, p, args2, q),
           NEW n \in Nat, NEW d, d.opcode \in Nat
    PROVE  Len(Wire(n, d, args, p)) = Len(Wire(n, d, args2, q))
<1>. /\ AllLegal(args) /\ AllLegal(args2) /\ Len(args) = Len(args2) /\ p \in Nat /\ q \in Nat
     /\ \A k \in 1..Len(args) : Len(WireArg(args[k], p)) = Len(WireArg(args2[k], q))
  BY DEF AsLong
<1>1. Len(Wire(n, d, args, p)) = 2 + Len(FlattenSeq(Parts(args, p)))
  BY WireType
<1>2. Len(Wire(n, d, args2, q)) = 2 + Len(FlattenSeq(Parts(args2, q)))
  BY WireType
<1>3. Len(FlattenSeq(Parts(args, p))) = Len(FlattenSeq(Parts(args2, q)))
  <2> DEFINE s == Parts(args, p)
             t == Parts(args2, q)
  <2>1. s \in Seq(Seq(Word)) /\ Len(s) = Len(args)
        /\ \A k \in 1..Len(args) : s[k] = WireArg(args[k], p)
    BY PartsType
  <2>2. t \in Seq(Seq(Word)) /\ Len(t) = Len(args2)
        /\ \A k \in 1..Len(args2) : t[k] = WireArg(args2[k], q)
    BY PartsType
  <2>. HIDE DEF s, t
  <2>3. \A k \in 1..Len(s) : Len(s[k]) = Len(t[k])
    BY <2>1, <2>2
  <2>4. Len(FlattenSeq(s)) = Len(FlattenSeq(t))
    BY <2>1, <2>2, <2>3, SameLengths
  <2>. QED BY <2>4 DEF s, t
<1>. QED BY <1>1, <1>2, <1>3

\* What the n-th message has for a side.
FdsFor(msgs, side, n) == IF msgs[n].decl.from = side THEN msgs[n].fds ELSE <<>>

FdParts(msgs, side, n) == [k \in 1..(Len(msgs) + 1 - n) |-> FdsFor(msgs, side, n + k - 1)]

LEMMA FdPartsType ==
    ASSUME NEW msgs \in Seq(Received), NEW side, NEW n \in 1..(Len(msgs) + 1)
    PROVE  /\ FdParts(msgs, side, n) \in Seq(FdSeq) /\ Len(FdParts(msgs, side, n)) = Len(msgs) + 1 - n
           /\ FdsFrom(msgs, side, n) = FlattenSeq(FdParts(msgs, side, n))
           /\ FdsFrom(msgs, side, n) \in FdSeq
<1>1. Len(msgs) \in Nat /\ Len(msgs) + 1 - n \in Nat
  BY LenProperties
<1>2. ASSUME NEW k \in 1..(Len(msgs) + 1 - n)
      PROVE  FdsFor(msgs, side, n + k - 1) \in FdSeq
  <2>1. n + k - 1 \in 1..Len(msgs)
    BY <1>1
  <2>2. msgs[n + k - 1] \in Received
    BY <2>1, ElementOfSeq
  <2>3. msgs[n + k - 1].fds \in FdSeq /\ <<>> \in FdSeq
    BY <2>2 DEF Received, FdSeq
  <2>. QED BY <2>3 DEF FdsFor
<1>3. FdParts(msgs, side, n) \in [1..(Len(msgs) + 1 - n) -> FdSeq]
  BY <1>2 DEF FdParts
<1>4. FdParts(msgs, side, n) \in Seq(FdSeq) /\ Len(FdParts(msgs, side, n)) = Len(msgs) + 1 - n
  BY <1>1, <1>3, FunctionSeq
<1>5. FdsFrom(msgs, side, n) = FlattenSeq(FdParts(msgs, side, n))
  BY DEF FdsFrom, FdParts, FdsFor
<1>6. FdsFrom(msgs, side, n) \in FdSeq
  BY <1>4, <1>5, FlattenType DEF FdSeq
<1>. QED BY <1>4, <1>5, <1>6

\* A message that comes brings its descriptors,
LEMMA FdsCome ==
    ASSUME NEW msgs \in Seq(Received), NEW m \in Received, NEW side, NEW n \in 1..(Len(msgs) + 1)
    PROVE  FdsFrom(Append(msgs, m), side, n) =
              FdsFrom(msgs, side, n) \o (IF m.decl.from = side THEN m.fds ELSE <<>>)
<1> DEFINE msgs2 == Append(msgs, m)
           l == Len(msgs)
           new == IF m.decl.from = side THEN m.fds ELSE <<>>
           s == FdParts(msgs, side, n)
           t == FdParts(msgs2, side, n)
<1>1. /\ msgs2 \in Seq(Received) /\ Len(msgs2) = l + 1 /\ l \in Nat /\ msgs2[l + 1] = m
      /\ \A k \in 1..l : msgs2[k] = msgs[k]
  BY AppendProperties, LenProperties
<1>. HIDE DEF msgs2, l
<1>2. n \in 1..(l + 1) /\ n \in 1..(Len(msgs2) + 1)
  BY <1>1 DEF l
<1>3. new \in FdSeq
  <2>1. m.fds \in FdSeq /\ <<>> \in FdSeq
    BY DEF Received, FdSeq
  <2>. QED BY <2>1
<1>4. s \in Seq(FdSeq) /\ Len(s) = l + 1 - n /\ FdsFrom(msgs, side, n) = FlattenSeq(s)
  BY FdPartsType DEF l
<1>5. t \in Seq(FdSeq) /\ Len(t) = l + 2 - n /\ FdsFrom(msgs2, side, n) = FlattenSeq(t)
  <2>1. /\ t \in Seq(FdSeq) /\ Len(t) = Len(msgs2) + 1 - n /\ FdsFrom(msgs2, side, n) = FlattenSeq(t)
    BY <1>1, <1>2, FdPartsType
  <2>2. Len(msgs2) + 1 - n = l + 2 - n
    BY <1>1, <1>2
  <2>. QED BY <2>1, <2>2
<1>6. \A k \in 1..(l + 1 - n) : s[k] = FdsFor(msgs, side, n + k - 1)
  BY DEF FdParts, l
<1>7. \A k \in 1..(l + 2 - n) : t[k] = FdsFor(msgs2, side, n + k - 1)
  <2>1. Len(msgs2) + 1 - n = l + 2 - n
    BY <1>1, <1>2
  <2>. QED BY <2>1 DEF FdParts
<1>. HIDE DEF s, t, new
<1>8. t = Append(s, new)
  <2>1. /\ Append(s, new) \in Seq(FdSeq) /\ Len(Append(s, new)) = l + 1 - n + 1
        /\ \A k \in 1..(l + 1 - n) : Append(s, new)[k] = s[k]
        /\ Append(s, new)[l + 1 - n + 1] = new
    BY <1>3, <1>4, AppendProperties
  <2>2. l + 1 - n + 1 = l + 2 - n
    BY <1>1, <1>2
  <2>3. ASSUME NEW k \in 1..(l + 2 - n)
        PROVE  t[k] = Append(s, new)[k]
    <3>1. CASE k = l + 2 - n
      <4>1. n + k - 1 = l + 1
        BY <1>1, <1>2, <3>1
      <4>2. FdsFor(msgs2, side, l + 1) = new
        BY <1>1 DEF FdsFor, new
      <4>. QED BY <1>7, <2>1, <2>2, <3>1, <4>1, <4>2
    <3>2. CASE k # l + 2 - n
      <4>1. k \in 1..(l + 1 - n) /\ n + k - 1 \in 1..l
        BY <1>1, <1>2, <3>2
      <4>2. FdsFor(msgs2, side, n + k - 1) = FdsFor(msgs, side, n + k - 1)
        BY <1>1, <4>1 DEF FdsFor
      <4>. QED BY <1>6, <1>7, <2>1, <4>1, <4>2
    <3>. QED BY <3>1, <3>2
  <2>. QED BY <1>5, <2>1, <2>2, <2>3, SeqEqual
<1>9. FlattenSeq(Append(s, new)) = FlattenSeq(s) \o new
  <2>1. s \in Seq(Seq(Nat \X Nat)) /\ new \in Seq(Nat \X Nat)
    BY <1>3, <1>4 DEF FdSeq
  <2>. QED BY <2>1, FlattenAppend
<1>. QED BY <1>4, <1>5, <1>8, <1>9 DEF msgs2, new

\* and one that is mediated has the first of its side.
LEMMA FdsGo ==
    ASSUME NEW msgs \in Seq(Received), NEW side, NEW n \in 1..Len(msgs)
    PROVE  FdsFrom(msgs, side, n) = FdsFor(msgs, side, n) \o FdsFrom(msgs, side, n + 1)
<1> DEFINE l == Len(msgs)
           s == FdParts(msgs, side, n)
           t == FdParts(msgs, side, n + 1)
<1>1. l \in Nat /\ n \in 1..(l + 1) /\ n + 1 \in 1..(l + 1)
  BY LenProperties
<1>2. s \in Seq(FdSeq) /\ Len(s) = l + 1 - n /\ FdsFrom(msgs, side, n) = FlattenSeq(s)
  BY <1>1, FdPartsType
<1>3. t \in Seq(FdSeq) /\ Len(t) = l - n /\ FdsFrom(msgs, side, n + 1) = FlattenSeq(t)
  <2>1. t \in Seq(FdSeq) /\ Len(t) = l + 1 - (n + 1) /\ FdsFrom(msgs, side, n + 1) = FlattenSeq(t)
    BY <1>1, FdPartsType
  <2>2. l + 1 - (n + 1) = l - n
    BY <1>1
  <2>. QED BY <2>1, <2>2
<1>4. \A k \in 1..(l + 1 - n) : s[k] = FdsFor(msgs, side, n + k - 1)
  BY DEF FdParts
<1>5. \A k \in 1..(l - n) : t[k] = FdsFor(msgs, side, (n + 1) + k - 1)
  <2>1. l + 1 - (n + 1) = l - n
    BY <1>1
  <2>. QED BY <2>1 DEF FdParts
<1>. HIDE DEF l, s, t
<1>6. s # <<>>
  BY <1>1, <1>2
<1>7. s[1] = FdsFor(msgs, side, n)
  <2>1. 1 \in 1..(l + 1 - n) /\ n + 1 - 1 = n
    BY <1>1, LenProperties DEF l
  <2>. QED BY <1>4, <2>1
<1>8. Tail(s) = t
  <2>1. /\ Tail(s) \in Seq(FdSeq) /\ Len(Tail(s)) = Len(s) - 1
        /\ \A i \in 1..Len(Tail(s)) : Tail(s)[i] = s[i + 1]
    BY <1>2, <1>6, HeadTailProperties
  <2>2. Len(Tail(s)) = l - n
    BY <1>1, <1>2, <2>1
  <2>3. ASSUME NEW i \in 1..(l - n)
        PROVE  Tail(s)[i] = t[i]
    <3>1. i + 1 \in 1..(l + 1 - n) /\ n + (i + 1) - 1 = (n + 1) + i - 1
      BY <1>1
    <3>. QED BY <1>4, <1>5, <2>1, <2>2, <3>1
  <2>. QED BY <1>3, <2>1, <2>2, <2>3, SeqEqual
<1>9. FlattenSeq(s) = s[1] \o FlattenSeq(Tail(s))
  BY <1>2, <1>6, FlattenHeadTail DEF FdSeq
<1>. QED BY <1>2, <1>3, <1>7, <1>8, <1>9

\* The ids that a message creates are those that demarshalling adds.
LEMMA AddedCreated ==
    ASSUME NEW d \in Decls, NEW m, m.decl = d, NEW n, WellSent(m, n)
    PROVE  AddedBy(d, m.args, Len(m.args)) =
              {<<id, Interface(d, m.args)>> : id \in Created(m.args) \ {HandshakeId}}
<1> DEFINE args == m.args
           l == Len(args)
           News == {j \in 1..l : args[j].type = "NewId"}
           I == Interface(d, args)
<1>1. DOMAIN args = 1..l
  BY LenProperties DEF WellSent, Matches, AllLegal
<1>2. Created(args) = {Number(args[k].value) : k \in News}
  BY <1>1 DEF Created
<1>3. ServerStart \in Nat /\ HandshakeId \in Nat /\ HandshakeId >= ServerStart
  BY MediatorAssumption
<1>4. ASSUME NEW j \in News
      PROVE  /\ AddsId(d, Number(args[j].value)) <=> Number(args[j].value) # HandshakeId
             /\ Number(args[j].value) \in Nat
  <2>1. \/ Number(args[j].value) < ServerStart
        \/ d.special = "sync" /\ Number(args[j].value) = HandshakeId
    BY DEF WellSent
  <2>2. Number(args[j].value) \in Nat
    <3>1. Legal(args[j]) /\ args[j].type = "NewId"
      BY DEF WellSent, Matches, AllLegal
    <3>2. args[j].value \in Seq(Nat) /\ Len(args[j].value) = 1
      BY <3>1 DEF Legal, HasType, IsNull
    <3>3. 1 \in 1..Len(args[j].value)
      BY <3>2
    <3>. QED BY <3>2, <3>3, ElementOfSeq DEF Number
  <2>. HIDE DEF args
  <2>. QED BY <1>3, <2>1, <2>2 DEF AddsId
<1>5. AddedBy(d, args, l) = {<<Number(args[j].value), I>> : j \in {k \in News : AddsId(d, Number(args[k].value))}}
  BY DEF AddedBy
<1>. HIDE DEF args, l, News, I
<1>6. AddedBy(d, args, l) = {<<Number(args[j].value), I>> : j \in {k \in News : Number(args[k].value) # HandshakeId}}
  <2>1. {k \in News : AddsId(d, Number(args[k].value))} = {k \in News : Number(args[k].value) # HandshakeId}
    BY <1>4
  <2>. QED BY <1>5, <2>1
<1>7. {<<Number(args[j].value), I>> : j \in {k \in News : Number(args[k].value) # HandshakeId}} =
         {<<id, I>> : id \in {Number(args[k].value) : k \in News} \ {HandshakeId}}
  OBVIOUS
<1>. QED BY <1>2, <1>6, <1>7 DEF args, l, I

\* What a message does to the ids at first: its own are added.
Opening(msgs, r, d, n) ==
    /\ d \in Decls /\ msgs[r.for].decl = d /\ WellSent(msgs[r.for], n)
    /\ d.special = "delete_id" => r.unseen # <<>>
    /\ d.special = "bind" => r.meant = msgs[r.for].args

\* What the history says of such a message is what demarshalling adds.
LEMMA TrackFirst ==
    ASSUME NEW msgs, NEW r, NEW d, NEW n, Opening(msgs, r, d, n), NEW ids
    PROVE  Track(msgs, ids, r) = ids \union AddedBy(d, msgs[r.for].args, Len(msgs[r.for].args))
<1>. /\ d \in Decls /\ msgs[r.for].decl = d /\ WellSent(msgs[r.for], n)
     /\ d.special = "delete_id" => r.unseen # <<>>
     /\ d.special = "bind" => r.meant = msgs[r.for].args
  BY DEF Opening
<1> DEFINE m == msgs[r.for]
           interface == IF d.special = "bind" THEN r.meant[2].value ELSE d.newId
<1>1. Track(msgs, ids, r) = ids \union {<<id, interface>> : id \in Created(m.args) \ {HandshakeId}}
  BY DEF Track
<1>2. interface = Interface(d, m.args)
  BY DEF Interface
<1>. HIDE DEF interface
<1>3. AddedBy(d, m.args, Len(m.args)) =
         {<<id, Interface(d, m.args)>> : id \in Created(m.args) \ {HandshakeId}}
  <2>1. m.decl = d /\ WellSent(m, n)
    OBVIOUS
  <2>. HIDE DEF m
  <2>. QED BY <2>1, AddedCreated
<1>. QED BY <1>1, <1>2, <1>3

\* Later it is the same, whatever handlers see and change, until delete_id has been seen.
LEMMA TrackSame ==
    ASSUME NEW msgs, NEW r, NEW r2, r2.for = r.for, NEW ids,
           msgs[r.for].decl.special = "bind" => r2.meant = r.meant,
           msgs[r.for].decl.special = "delete_id" => r.unseen # <<>> /\ r2.unseen # <<>>
    PROVE  Track(msgs, ids, r2) = Track(msgs, ids, r)
<1> DEFINE x == msgs[r.for]
           y == msgs[r2.for]
           i == IF x.decl.special = "bind" THEN r.meant[2].value ELSE x.decl.newId
           j == IF y.decl.special = "bind" THEN r2.meant[2].value ELSE y.decl.newId
<1>1. x = y /\ i = j
  OBVIOUS
<1>2. Track(msgs, ids, r) = ids \union {<<id, i>> : id \in Created(x.args) \ {HandshakeId}}
  BY DEF Track
<1>3. Track(msgs, ids, r2) = ids \union {<<id, j>> : id \in Created(y.args) \ {HandshakeId}}
  BY DEF Track
<1>. HIDE DEF x, y, i, j
<1>. QED BY <1>1, <1>2, <1>3

-----------------------------------------------------------------------------
(* What the invariant says of the message at hand.                         *)

\* The next message, before and while it is in hand.
LEMMA AtHandFacts ==
    ASSUME CameOK, PlaceOK, next <= Len(came)
    PROVE  /\ next \in 1..Len(came) /\ next \in Nat /\ came[next] \in Received
           /\ Decl \in Decls /\ Decl = came[next].decl
           /\ WellSent(came[next], next) /\ Matches(came[next].args, Decl) /\ AllLegal(came[next].args)
           /\ Source = Wire(next, Decl, came[next].args, Pad)
           /\ Source \in Seq(Word) /\ Len(Source) >= 2 /\ Len(Source) <= MaxWords
           /\ came[next].fds \in FdSeq /\ Len(came[next].fds) = NumFds(Decl)
<1>1. came \in Seq(Received) /\ \A n \in 1..Len(came) : WellSent(came[n], n)
  BY DEF CameOK
<1>2. next \in 1..Len(came) /\ next \in Nat
  BY <1>1, LenProperties DEF PlaceOK
<1>3. came[next] \in Received
  BY <1>1, <1>2, ElementOfSeq
<1>4. WellSent(came[next], next)
  BY <1>1, <1>2
<1>5. Decl = came[next].decl /\ Decl \in Decls /\ came[next].fds \in FdSeq
  BY <1>3 DEF Decl, Received
<1>6. /\ Matches(came[next].args, Decl) /\ Len(came[next].fds) = NumFds(Decl)
      /\ Len(Wire(next, Decl, came[next].args, Pad)) <= MaxWords
  BY <1>4, <1>5 DEF WellSent
<1>7. AllLegal(came[next].args)
  BY <1>6 DEF Matches
<1>8. Source = Wire(next, Decl, came[next].args, Pad)
  BY DEF Source
<1>9. Source \in Seq(Word) /\ Len(Source) >= 2
  <2>1. Decl.opcode \in Nat /\ Pad \in Nat
    BY <1>5, Declared DEF Pad
  <2>. QED BY <1>2, <1>7, <1>8, <2>1, WireType
<1>. QED BY <1>2, <1>3, <1>4, <1>5, <1>6, <1>7, <1>8, <1>9

\* The message in hand.
LEMMA HandFacts ==
    ASSUME CameOK, PlaceOK, MessageOK, InHand
    PROVE  /\ next \in 1..Len(came) /\ next \in Nat /\ Decl \in Decls
           /\ dmsg.decl = Decl /\ dmsg.source = Source /\ dmsg.fds = came[next].fds
           /\ AllKept(dmsg.args, meant, WireTypes(Decl))
           /\ AllLegal(meant) /\ ~HasNull(meant, Len(meant))
           /\ DOMAIN meant = 1..Len(WireTypes(Decl)) /\ DOMAIN dmsg.args = 1..Len(WireTypes(Decl))
           /\ Len(meant) = Len(WireTypes(Decl)) /\ Len(dmsg.args) = Len(WireTypes(Decl))
<1>1. next <= Len(came)
  BY DEF PlaceOK, InHand
<1>2. /\ dmsg.decl = Decl /\ dmsg.source = Source /\ dmsg.fds = came[next].fds
      /\ AllKept(dmsg.args, meant, WireTypes(Decl))
  BY DEF MessageOK
<1>3. /\ dmsg.args \in Seq(ArgSet) /\ meant \in Seq(ArgSet)
      /\ Len(dmsg.args) = Len(WireTypes(Decl)) /\ Len(meant) = Len(WireTypes(Decl))
      /\ \A k \in 1..Len(WireTypes(Decl)) : Kept(dmsg.args[k], meant[k], WireTypes(Decl)[k])
  BY <1>2 DEF AllKept
<1>4. AllLegal(meant) /\ ~HasNull(meant, Len(meant))
  BY <1>3 DEF AllLegal, HasNull, Kept
<1>5. DOMAIN meant = 1..Len(WireTypes(Decl)) /\ DOMAIN dmsg.args = 1..Len(WireTypes(Decl))
  BY <1>3, LenProperties
<1>. QED BY <1>1, <1>2, <1>3, <1>4, <1>5, AtHandFacts

-----------------------------------------------------------------------------
(* The steps, as the invariant tells them apart.                           *)

\* A handler is done with the message at hand, and it goes on to the next one or is
\* marshalled.
Answered ==
    /\ pc = "handle" /\ pc' \in {"handle", "marshal"} /\ todo' = Tail(todo)
    /\ pc' = "handle" => todo' # <<>>
    /\ Decl.special \in {"global", "bind"} => pc' = "marshal"
    /\ UNCHANGED <<debugLevel, addons, came, next, inFds, out, dropped>>

\* It left the message as it was,
Seen ==
    /\ Answered /\ Decl.special # "global"
    /\ Decl.special = "delete_id" => todo # <<>> /\ todo' # <<>>
    /\ UNCHANGED <<dmsg, meant, idMap>>

\* an addon's gave the argument k another value,
Given(k, type, v, how) ==
    /\ Answered /\ Decl.special \notin {"global", "bind"} /\ addons > 0
    /\ Decl.special = "delete_id" => todo # <<>> /\ todo' # <<>>
    /\ k \in 1..Len(WireTypes(Decl)) /\ WireTypes(Decl)[k] \notin {"NewId", "Fd"}
    /\ type \in DOMAIN NewValues /\ v \in NewValues[type]
    /\ dmsg' = Changed(k, Arg(type, v), how)
    /\ meant' = [meant EXCEPT ![k] = Arg(type, v)]
    /\ UNCHANGED idMap

\* the one of global kept the version within the limit,
Limited(shown) ==
    /\ Answered /\ Decl.special = "global" /\ pc' = "marshal"
    /\ meant[2].value \in DOMAIN Limits /\ shown \in Nat /\ shown <= Limits[meant[2].value]
    /\ meant' = [meant EXCEPT ![3] = Arg("Uint", <<shown>>)]
    /\ \/ shown = Number(dmsg.args[3].value) /\ UNCHANGED dmsg
       \/ dmsg' = Changed(3, Arg("Uint", <<shown>>), "set_arg")
    /\ UNCHANGED idMap

\* and the one of delete_id, the last, took the id from the map.
Removed ==
    /\ Answered /\ Decl.special = "delete_id" /\ todo' = <<>>
    /\ idMap' = {e \in idMap : e[1] # Number(meant[1].value)}
    /\ UNCHANGED <<dmsg, meant>>

\* The mediator is done with a message.
Over ==
    /\ pc' = "idle" /\ next' = next + 1
    /\ dmsg' = NoMessage /\ todo' = <<>> /\ meant' = <<>>
    /\ UNCHANGED <<debugLevel, addons, came>>

Lost ==
    /\ pc = "handle" /\ Over /\ dropped' = dropped \union {next}
    /\ Decl.special \in {"none", "global"} /\ Decl.newId = NoInterface
    /\ UNCHANGED <<inFds, idMap, out>>

GoesOn(words) ==
    /\ InHand /\ Over
    /\ \E pad \in {Pad, 0} : words = Wire(next, Decl, meant, pad)
    /\ out' = Append(out, [words |-> words, fds |-> dmsg.fds, for |-> next, meant |-> meant,
                           unseen |-> todo])
    /\ pc # "handle"
    /\ UNCHANGED <<inFds, idMap, dropped>>

Stopped == InHand /\ Panic /\ addons > 0

\* A handler of an addon is at hand.
LEMMA AddonAtHand ==
    ASSUME PlaceOK, TodoOK, Handling("addon")
    PROVE  /\ InHand /\ addons > 0 /\ todo # <<>> /\ Decl.special \notin {"global", "bind"}
           /\ Decl.special = "delete_id" => Tail(todo) # <<>>
<1>1. pc = "handle" /\ todo[1] = "addon" /\ todo # <<>> /\ todo \in Seq(Handlers)
  BY DEF Handling, TodoOK
<1>2. 1 \in 1..Len(todo) /\ Len(todo) \in Nat
  BY <1>1
<1>3. addons > 0
  BY <1>1, <1>2 DEF TodoOK
<1>4. InHand
  BY <1>1 DEF InHand
<1>5. Decl.special \notin {"global", "bind"}
  BY <1>1, <1>4 DEF TodoOK
<1>6. Decl.special = "delete_id" => Tail(todo) # <<>>
  <2>1. SUFFICES ASSUME Decl.special = "delete_id"
                 PROVE  Tail(todo) # <<>>
    OBVIOUS
  <2>2. 1 # Len(todo)
    BY <1>1, <1>2, <1>4, <2>1 DEF TodoOK
  <2>3. Len(Tail(todo)) = Len(todo) - 1
    BY <1>1, HeadTailProperties
  <2>4. Len(Tail(todo)) # 0 /\ Len(<<>>) = 0
    BY <1>2, <2>2, <2>3
  <2>. QED BY <2>4
<1>. QED BY <1>1, <1>3, <1>4, <1>5, <1>6

\* A built-in handler is at hand.
LEMMA BuiltinAtHand ==
    ASSUME PlaceOK, TodoOK, Handling("builtin")
    PROVE  /\ InHand /\ todo # <<>>
           /\ Decl.special = "delete_id" => Tail(todo) = <<>>
<1>1. pc = "handle" /\ todo[1] = "builtin" /\ todo # <<>> /\ todo \in Seq(Handlers)
  BY DEF Handling, TodoOK
<1>2. 1 \in 1..Len(todo) /\ Len(todo) \in Nat
  BY <1>1
<1>3. InHand
  BY <1>1 DEF InHand
<1>4. Decl.special = "delete_id" => Tail(todo) = <<>>
  <2>1. SUFFICES ASSUME Decl.special = "delete_id"
                 PROVE  Tail(todo) = <<>>
    OBVIOUS
  <2>2. 1 = Len(todo)
    BY <1>1, <1>2, <1>3, <2>1 DEF TodoOK
  <2>3. Len(Tail(todo)) = Len(todo) - 1 /\ Tail(todo) \in Seq(Handlers)
    BY <1>1, HeadTailProperties
  <2>. QED BY <1>2, <2>2, <2>3
<1>. QED BY <1>1, <1>3, <1>4

\* What the handlers do, one action after the other.
LEMMA AnswerGoes ==
    ASSUME pc = "handle", NEW result, result # "Drop", Answer(result)
    PROVE  /\ pc' \in {"handle", "marshal"} /\ todo' = Tail(todo)
           /\ pc' = "handle" => todo' # <<>>
           /\ result = "Send" => pc' = "marshal"
           /\ UNCHANGED <<debugLevel, addons, came, next, inFds, out, dropped>>
BY DEF Answer, config

LEMMA AnswerDrops ==
    ASSUME pc = "handle", Answer("Drop")
    PROVE  /\ Over /\ dropped' = dropped \union {next} /\ UNCHANGED <<inFds, out>>
BY DEF Answer, Done, Over, config

LEMMA LookSteps ==
    ASSUME CameOK, PlaceOK, TodoOK, MessageOK, LookAddon
    PROVE  Seen \/ Lost \/ Stopped
<1>1. /\ InHand /\ addons > 0 /\ todo # <<>> /\ Decl.special \notin {"global", "bind"}
      /\ Decl.special = "delete_id" => Tail(todo) # <<>>
      /\ pc = "handle"
  BY AddonAtHand DEF LookAddon, Handling
<1>2. dmsg.decl = Decl /\ Decl \in Decls
  BY <1>1, HandFacts
<1>3. PICK result \in {"Next", "Send", "Drop"} :
         IF result = "Drop" /\ Required(dmsg.decl) THEN Panic
         ELSE /\ Answer(result)
              /\ result # "Drop" => UNCHANGED <<dmsg, meant>>
              /\ UNCHANGED idMap
  BY DEF LookAddon
<1>4. CASE result = "Drop" /\ Required(dmsg.decl)
  BY <1>1, <1>3, <1>4 DEF Stopped
<1>5. CASE result = "Drop" /\ ~Required(dmsg.decl)
  <2>1. Answer("Drop") /\ UNCHANGED idMap
    BY <1>3, <1>5
  <2>2. Decl.special \in {"none", "global"} /\ Decl.newId = NoInterface
    BY <1>2, <1>5, Declared DEF Required
  <2>. QED BY <1>1, <2>1, <2>2, AnswerDrops DEF Lost
<1>6. CASE result # "Drop"
  <2>1. Answer(result) /\ UNCHANGED <<dmsg, meant, idMap>>
    BY <1>3, <1>6
  <2>2. Answered
    BY <1>1, <1>6, <2>1, AnswerGoes DEF Answered
  <2>. QED BY <1>1, <2>1, <2>2 DEF Seen, Answered
<1>. QED BY <1>4, <1>5, <1>6

LEMMA ChangeSteps ==
    ASSUME CameOK, PlaceOK, TodoOK, MessageOK, ChangeAddon
    PROVE  Stopped \/ \E k, type, v, how : Given(k, type, v, how)
<1>1. /\ InHand /\ addons > 0 /\ todo # <<>> /\ Decl.special \notin {"global", "bind"}
      /\ Decl.special = "delete_id" => Tail(todo) # <<>>
      /\ pc = "handle"
  BY AddonAtHand DEF ChangeAddon, Handling
<1>2. dmsg.decl = Decl /\ DOMAIN dmsg.args = 1..Len(WireTypes(Decl))
  BY <1>1, HandFacts
<1>3. PICK k \in DOMAIN dmsg.args, type \in DOMAIN NewValues, how \in {"set_arg", "get_arg_mut"} :
         /\ WireTypes(dmsg.decl)[k] \notin {"NewId", "Fd"}
         /\ \E v \in NewValues[type], result \in {"Next", "Send"} :
               IF how = "set_arg" /\ dmsg.args[k].type # type THEN Panic
               ELSE /\ Answer(result)
                    /\ dmsg' = Changed(k, Arg(type, v), how)
                    /\ meant' = [meant EXCEPT ![k] = Arg(type, v)]
                    /\ UNCHANGED idMap
  BY DEF ChangeAddon
<1>4. PICK v \in NewValues[type], result \in {"Next", "Send"} :
         IF how = "set_arg" /\ dmsg.args[k].type # type THEN Panic
         ELSE /\ Answer(result)
              /\ dmsg' = Changed(k, Arg(type, v), how)
              /\ meant' = [meant EXCEPT ![k] = Arg(type, v)]
              /\ UNCHANGED idMap
  BY <1>3
<1>5. CASE how = "set_arg" /\ dmsg.args[k].type # type
  BY <1>1, <1>4, <1>5 DEF Stopped
<1>6. CASE ~(how = "set_arg" /\ dmsg.args[k].type # type)
  <2>1. /\ Answer(result) /\ result # "Drop"
        /\ dmsg' = Changed(k, Arg(type, v), how)
        /\ meant' = [meant EXCEPT ![k] = Arg(type, v)]
        /\ UNCHANGED idMap
    BY <1>4, <1>6
  <2>2. Answered
    BY <1>1, <2>1, AnswerGoes DEF Answered
  <2>3. k \in 1..Len(WireTypes(Decl)) /\ WireTypes(Decl)[k] \notin {"NewId", "Fd"}
    BY <1>2, <1>3
  <2>4. Given(k, type, v, how)
    BY <1>1, <1>3, <1>4, <2>1, <2>2, <2>3 DEF Given, Answered
  <2>. QED BY <2>4
<1>. QED BY <1>5, <1>6

LEMMA OneNumber ==
    ASSUME NEW a, Legal(a), a.type \notin {"String", "Array"}
    PROVE  Number(a.value) \in Nat /\ a.value = <<Number(a.value)>>
<1>1. a.value \in Seq(Nat) /\ Len(a.value) = 1
  BY DEF Legal, HasType, IsNull
<1>2. 1 \in 1..Len(a.value)
  BY <1>1
<1>. QED BY <1>1, <1>2, ElementOfSeq DEF Number

\* The arguments of a global and of a delete_id, as handlers have them.
LEMMA GlobalArgs ==
    ASSUME CameOK, PlaceOK, MessageOK, pc = "handle", Decl.special = "global"
    PROVE  /\ Len(WireTypes(Decl)) = 3 /\ WireTypes(Decl)[3] = "Uint"
           /\ meant = came[next].args
           /\ dmsg.args[2] = meant[2] /\ dmsg.args[3] = meant[3]
           /\ Number(meant[3].value) \in Nat /\ meant[3].type = "Uint"
<1>1. InHand
  BY DEF InHand
<1>2. /\ Decl \in Decls /\ AllKept(dmsg.args, meant, WireTypes(Decl)) /\ next <= Len(came)
  BY <1>1, HandFacts DEF PlaceOK
<1>3. \A k \in 1..Len(WireTypes(Decl)) : Kept(dmsg.args[k], meant[k], WireTypes(Decl)[k])
  BY <1>2 DEF AllKept
<1> DEFINE w == <<"Uint", "String", "Uint">>
<1>4. WireTypes(Decl) = w
  BY <1>2, Declared
<1>5. Len(w) = 3 /\ w[2] = "String" /\ w[3] = "Uint"
  OBVIOUS
<1>. HIDE DEF w
<1>6. Kept(dmsg.args[2], meant[2], "String") /\ Kept(dmsg.args[3], meant[3], "Uint")
  BY <1>3, <1>4, <1>5
<1>7. dmsg.args[2] = meant[2] /\ dmsg.args[3] = meant[3] /\ Legal(meant[3])
  BY <1>6 DEF Kept
<1>8. meant = came[next].args
  BY <1>1 DEF MessageOK
<1>9. meant[3].type = "Uint"
  <2>1. Matches(meant, Decl)
    BY <1>2, <1>8, AtHandFacts
  <2>. QED BY <1>4, <1>5, <2>1 DEF Matches
<1>10. Number(meant[3].value) \in Nat
  BY <1>7, <1>9, OneNumber
<1>. QED BY <1>4, <1>5, <1>7, <1>8, <1>9, <1>10

LEMMA DeleteArgs ==
    ASSUME CameOK, PlaceOK, MessageOK, InHand, Decl.special = "delete_id"
    PROVE  /\ Len(WireTypes(Decl)) = 1 /\ WireTypes(Decl)[1] = "Uint"
           /\ dmsg.args[1] = meant[1]
           /\ addons = 0 => meant[1].type = "Uint"
<1>1. /\ Decl \in Decls /\ AllKept(dmsg.args, meant, WireTypes(Decl)) /\ next <= Len(came)
  BY HandFacts DEF PlaceOK, InHand
<1>2. \A k \in 1..Len(WireTypes(Decl)) : Kept(dmsg.args[k], meant[k], WireTypes(Decl)[k])
  BY <1>1 DEF AllKept
<1> DEFINE w == <<"Uint">>
<1>3. WireTypes(Decl) = w
  BY <1>1, Declared
<1>4. Len(w) = 1 /\ w[1] = "Uint"
  OBVIOUS
<1>. HIDE DEF w
<1>5. dmsg.args[1] = meant[1]
  BY <1>2, <1>3, <1>4 DEF Kept
<1>6. addons = 0 => meant[1].type = "Uint"
  <2>1. SUFFICES ASSUME addons = 0
                 PROVE  meant[1].type = "Uint"
    OBVIOUS
  <2>2. meant = came[next].args
    BY <2>1 DEF MessageOK
  <2>3. Matches(meant, Decl)
    BY <1>1, <2>2, AtHandFacts
  <2>. QED BY <1>3, <1>4, <2>3 DEF Matches
<1>. QED BY <1>3, <1>4, <1>5, <1>6

LEMMA GlobalSteps ==
    ASSUME CameOK, PlaceOK, TodoOK, MessageOK, BuiltinGlobal
    PROVE  Lost \/ \E shown : Limited(shown)
<1>1. pc = "handle" /\ InHand /\ todo # <<>>
  BY BuiltinAtHand DEF BuiltinGlobal, Handling
<1>2. dmsg.decl = Decl /\ Decl \in Decls
  BY <1>1, HandFacts
<1>3. Decl.special = "global"
  BY <1>2 DEF BuiltinGlobal
<1>4. /\ Len(WireTypes(Decl)) = 3 /\ WireTypes(Decl)[3] = "Uint"
      /\ dmsg.args[2] = meant[2] /\ dmsg.args[3] = meant[3] /\ Number(meant[3].value) \in Nat
  BY <1>1, <1>3, GlobalArgs
<1> DEFINE name == dmsg.args[2].value
           version == Number(dmsg.args[3].value)
           shown == ShownVersion(name, version)
<1>5. IF name \notin DOMAIN Limits \/ (name \in DOMAIN Limits /\ Limits[name] = 0)
      THEN Answer("Drop")
      ELSE /\ Answer("Send")
           /\ dmsg' = IF shown # version
                      THEN Changed(3, Arg("Uint", <<shown>>), "set_arg") ELSE dmsg
           /\ meant' = [meant EXCEPT ![3] = Arg("Uint", <<shown>>)]
  BY DEF BuiltinGlobal
<1>6. UNCHANGED idMap
  BY DEF BuiltinGlobal
<1>7. CASE name \notin DOMAIN Limits \/ (name \in DOMAIN Limits /\ Limits[name] = 0)
  <2>1. Decl.newId = NoInterface
    <3>1. \A k \in DOMAIN WireTypes(Decl) : WireTypes(Decl)[k] # "NewId"
      <4>1. WireTypes(Decl) = <<"Uint", "String", "Uint">>
        BY <1>2, <1>3, Declared
      <4>. QED BY <4>1
    <3>. QED BY <1>2, <3>1, Declared
  <2>2. Answer("Drop")
    BY <1>5, <1>7
  <2>. QED BY <1>1, <1>3, <1>6, <2>1, <2>2, AnswerDrops DEF Lost
<1>8. CASE name \in DOMAIN Limits /\ Limits[name] # 0
  <2>1. /\ Answer("Send")
        /\ dmsg' = IF shown # version
                   THEN Changed(3, Arg("Uint", <<shown>>), "set_arg") ELSE dmsg
        /\ meant' = [meant EXCEPT ![3] = Arg("Uint", <<shown>>)]
    BY <1>5, <1>8
  <2>2. name = meant[2].value /\ version \in Nat
    BY <1>4
  <2>3. shown \in Nat /\ shown <= Limits[name]
    <3>1. Limits[name] \in Nat
      BY <1>8, MediatorAssumption
    <3>. HIDE DEF name, version
    <3>. QED BY <2>2, <3>1 DEF ShownVersion
  <2>4. Answered /\ pc' = "marshal"
    BY <1>1, <2>1, AnswerGoes DEF Answered
  <2>5. \/ shown = Number(dmsg.args[3].value) /\ UNCHANGED dmsg
        \/ dmsg' = Changed(3, Arg("Uint", <<shown>>), "set_arg")
    BY <2>1
  <2>. HIDE DEF shown, name
  <2>. QED BY <1>3, <1>6, <1>8, <2>1, <2>2, <2>3, <2>4, <2>5 DEF Limited
<1>. QED BY <1>7, <1>8

LEMMA BindSteps ==
    ASSUME CameOK, PlaceOK, TodoOK, MessageOK, BuiltinBind
    PROVE  Seen
<1>1. pc = "handle" /\ InHand /\ todo # <<>>
  BY BuiltinAtHand DEF BuiltinBind, Handling
<1>2. Decl.special = "bind"
  BY <1>1, HandFacts DEF BuiltinBind
<1>3. Answer("Send") /\ UNCHANGED <<dmsg, meant, idMap>>
  BY DEF BuiltinBind
<1>. QED BY <1>1, <1>2, <1>3, AnswerGoes DEF Seen, Answered

LEMMA DeleteSteps ==
    ASSUME CameOK, PlaceOK, TodoOK, MessageOK, BuiltinDelete
    PROVE  Removed \/ Stopped
<1>1. pc = "handle" /\ InHand /\ todo # <<>>
  BY BuiltinAtHand DEF BuiltinDelete, Handling
<1>2. Decl.special = "delete_id"
  BY <1>1, HandFacts DEF BuiltinDelete
<1>3. Tail(todo) = <<>>
  BY <1>2, BuiltinAtHand DEF BuiltinDelete
<1>4. dmsg.args[1] = meant[1] /\ (addons = 0 => meant[1].type = "Uint")
  BY <1>1, <1>2, DeleteArgs
<1>5. CASE dmsg.args[1].type # "Uint"
  <2>1. Panic /\ addons # 0 /\ addons \in Nat
    BY <1>4, <1>5 DEF BuiltinDelete, PlaceOK
  <2>. QED BY <1>1, <2>1 DEF Stopped
<1>6. CASE dmsg.args[1].type = "Uint"
  <2>1. /\ idMap' = {e \in idMap : e[1] # Number(meant[1].value)}
        /\ Answer("Next") /\ UNCHANGED <<dmsg, meant>>
    BY <1>4, <1>6 DEF BuiltinDelete
  <2>2. Answered /\ todo' = <<>>
    BY <1>1, <1>2, <1>3, <2>1, AnswerGoes DEF Answered
  <2>. QED BY <1>2, <2>1, <2>2 DEF Removed
<1>. QED BY <1>5, <1>6

LEMMA RelaySteps ==
    ASSUME CameOK, PlaceOK, TodoOK, MessageOK, Relay
    PROVE  \E words : GoesOn(words)
<1>1. pc = "relay" /\ InHand
  BY DEF Relay, InHand
<1>2. dmsg.source = Source /\ meant = came[next].args
  BY <1>1, HandFacts DEF MessageOK
<1>3. \E pad \in {Pad, 0} : dmsg.source = Wire(next, Decl, meant, pad)
  BY <1>2 DEF Source
<1>4. Over /\ UNCHANGED <<inFds, idMap, dropped>>
  BY DEF Relay, Done, Over, config
<1>5. out' = Append(out, [words |-> dmsg.source, fds |-> dmsg.fds, for |-> next, meant |-> meant,
                          unseen |-> todo])
  BY DEF Relay, Sends
<1>6. GoesOn(dmsg.source)
  BY <1>1, <1>3, <1>4, <1>5 DEF GoesOn
<1>. QED BY <1>6

LEMMA MarshalSteps ==
    ASSUME CameOK, PlaceOK, TodoOK, MessageOK, Marshal
    PROVE  Stopped \/ \E words : GoesOn(words)
<1> DEFINE words == IF dmsg.modified THEN MarshalModified(dmsg) ELSE dmsg.source
<1>1. pc = "marshal" /\ InHand
  BY DEF Marshal, InHand
<1>2. /\ next \in 1..Len(came) /\ next \in Nat /\ Decl \in Decls /\ dmsg.source = Source
      /\ AllKept(dmsg.args, meant, WireTypes(Decl)) /\ next <= Len(came)
  BY <1>1, HandFacts DEF PlaceOK
<1>3. /\ Source = Wire(next, Decl, came[next].args, Pad) /\ AllLegal(came[next].args)
      /\ Len(Source) <= MaxWords /\ Decl.opcode \in Nat
  BY <1>2, AtHandFacts, Declared
<1>4. ASSUME dmsg.modified
      PROVE  /\ words = Wire(next, Decl, meant, 0)
             /\ addons = 0 => ~dmsg.typeChanged /\ Len(words) <= MaxWords
  <2>1. words = Wire(next, Decl, meant, 0)
    <3>1. dmsg.source = Wire(next, Decl, came[next].args, Pad)
      BY <1>2, <1>3
    <3>2. Remade(dmsg, meant, came[next].args, next, Decl)
      BY <1>2, <1>3, <3>1 DEF Remade
    <3>3. MarshalModified(dmsg) = Wire(next, Decl, meant, 0)
      BY <3>2, Marshalled
    <3>. QED BY <1>4, <3>3
  <2>2. addons = 0 => ~dmsg.typeChanged /\ Len(words) <= MaxWords
    <3>1. addons = 0 => ~dmsg.typeChanged /\ Len(Wire(next, Decl, meant, 0)) <= MaxWords
      BY <1>1 DEF MessageOK
    <3>. QED BY <2>1, <3>1
  <2>. QED BY <2>1, <2>2
<1>5. ASSUME ~dmsg.modified
      PROVE  /\ words = Wire(next, Decl, meant, Pad)
             /\ addons = 0 => ~dmsg.typeChanged /\ Len(words) <= MaxWords
  <2>1. words = Source /\ meant = came[next].args
    BY <1>1, <1>2, <1>5 DEF MessageOK
  <2>2. addons = 0 => ~dmsg.typeChanged /\ Len(words) <= MaxWords
    BY <1>1, <1>3, <2>1 DEF MessageOK
  <2>. QED BY <1>3, <2>1, <2>2
<1>6. /\ \E pad \in {Pad, 0} : words = Wire(next, Decl, meant, pad)
      /\ addons = 0 => ~dmsg.typeChanged /\ Len(words) <= MaxWords
  <2>. QED BY <1>4, <1>5
<1>7. IF (dmsg.typeChanged /\ ~TypesMatch(dmsg)) \/ Len(words) > MaxWords THEN Panic
      ELSE /\ Sends(words, dmsg.fds, meant)
           /\ Done
           /\ UNCHANGED <<inFds, idMap, dropped>>
  BY DEF Marshal
<1>8. CASE (dmsg.typeChanged /\ ~TypesMatch(dmsg)) \/ Len(words) > MaxWords
  <2>1. Len(words) \in Nat /\ MaxWords \in Nat
    <3>1. words \in Seq(Word)
      <4>1. Wire(next, Decl, meant, Pad) \in Seq(Word) /\ Wire(next, Decl, meant, 0) \in Seq(Word)
        <5>1. AllLegal(meant) /\ Pad \in Nat
          BY <1>1, HandFacts DEF Pad
        <5>. QED BY <1>2, <1>3, <5>1, WireType
      <4>. QED BY <1>6, <4>1
    <3>. HIDE DEF words
    <3>. QED BY <3>1, LenProperties, MediatorAssumption
  <2>2. addons # 0 /\ addons \in Nat
    <3>. HIDE DEF words
    <3>. QED BY <1>6, <1>8, <2>1 DEF PlaceOK
  <2>. QED BY <1>1, <1>7, <1>8, <2>2 DEF Stopped
<1>9. CASE ~((dmsg.typeChanged /\ ~TypesMatch(dmsg)) \/ Len(words) > MaxWords)
  <2>1. Sends(words, dmsg.fds, meant) /\ Done /\ UNCHANGED <<inFds, idMap, dropped>>
    BY <1>7, <1>9
  <2>. HIDE DEF words
  <2>2. GoesOn(words)
    BY <1>1, <1>6, <2>1 DEF GoesOn, Sends, Done, Over, config
  <2>. QED BY <2>2
<1>. QED BY <1>8, <1>9

-----------------------------------------------------------------------------
(* How a message begins.                                                   *)

\* Its handlers are those that the invariant tells of.
LEMMA QueueHandlers ==
    ASSUME addons \in Nat, NEW d \in Decls
    PROVE  /\ Queue(d) \in Seq(Handlers)
           /\ \A k \in 1..Len(Queue(d)) : Queue(d)[k] = "addon" => addons > 0
           /\ Queue(d) = <<>> => addons = 0 /\ d.special \in {"none", "sync"}
           /\ d.special \in {"none", "sync"} => \A k \in 1..Len(Queue(d)) : Queue(d)[k] = "addon"
           /\ d.special \in {"global", "bind"} => Queue(d) # <<>> /\ Queue(d)[1] = "builtin"
           /\ d.special = "delete_id" =>
                 /\ Queue(d) # <<>>
                 /\ \A k \in 1..Len(Queue(d)) : Queue(d)[k] = "builtin" <=> k = Len(Queue(d))
<1> DEFINE others == [k \in 1..addons |-> "addon"]
           b == <<"builtin">>
<1>1. others \in Seq(Handlers) /\ Len(others) = addons /\ \A k \in 1..addons : others[k] = "addon"
  <2>1. others \in [1..addons -> Handlers]
    BY DEF Handlers
  <2>. QED BY <2>1, FunctionSeq
<1>2. b \in Seq(Handlers) /\ Len(b) = 1 /\ b[1] = "builtin"
  BY DEF Handlers
<1>3. /\ d.special \in {"none", "global", "bind", "sync", "delete_id"}
      /\ Queue(d) = CASE d.special \in {"global", "bind"} -> b \o others
                      [] d.special = "delete_id" -> others \o b
                      [] OTHER -> others
  BY Declared DEF Queue
<1>. HIDE DEF others, b
<1>4. CASE d.special \in {"global", "bind"}
  <2>1. Queue(d) = b \o others
    BY <1>3, <1>4
  <2>2. /\ b \o others \in Seq(Handlers) /\ Len(b \o others) = 1 + addons
        /\ \A k \in 1..(1 + addons) : (b \o others)[k] = IF k <= 1 THEN b[k] ELSE others[k - 1]
    <3>1. /\ b \o others \in Seq(Handlers) /\ Len(b \o others) = Len(b) + Len(others)
          /\ \A k \in 1..(Len(b) + Len(others)) :
                (b \o others)[k] = IF k <= Len(b) THEN b[k] ELSE others[k - Len(b)]
      BY <1>1, <1>2, ConcatProperties
    <3>. QED BY <1>1, <1>2, <3>1
  <2> DEFINE q == b \o others
  <2>. HIDE DEF q
  <2>3. 1 \in 1..(1 + addons) /\ q[1] = "builtin" /\ q # <<>>
    BY <1>2, <2>2 DEF q
  <2>4. \A k \in 1..Len(q) : q[k] = "addon" => addons > 0
    <3>1. ASSUME NEW k \in 1..Len(q), q[k] = "addon"
          PROVE  addons > 0
      BY <2>2, <2>3, <3>1 DEF q
    <3>. QED BY <3>1
  <2>. QED BY <1>4, <2>1, <2>2, <2>3, <2>4 DEF q
<1>5. CASE d.special = "delete_id"
  <2>1. Queue(d) = others \o b
    BY <1>3, <1>5
  <2>2. /\ others \o b \in Seq(Handlers) /\ Len(others \o b) = addons + 1
        /\ \A k \in 1..(addons + 1) : (others \o b)[k] = IF k <= addons THEN others[k] ELSE b[k - addons]
    <3>1. /\ others \o b \in Seq(Handlers) /\ Len(others \o b) = Len(others) + Len(b)
          /\ \A k \in 1..(Len(others) + Len(b)) :
                (others \o b)[k] = IF k <= Len(others) THEN others[k] ELSE b[k - Len(others)]
      BY <1>1, <1>2, ConcatProperties
    <3>. QED BY <1>1, <1>2, <3>1
  <2> DEFINE q == others \o b
  <2>. HIDE DEF q
  <2>3. \A k \in 1..(addons + 1) : q[k] = IF k <= addons THEN "addon" ELSE "builtin"
    <3>1. ASSUME NEW k \in 1..(addons + 1)
          PROVE  q[k] = IF k <= addons THEN "addon" ELSE "builtin"
      <4>1. CASE k <= addons
        BY <1>1, <2>2, <4>1 DEF q
      <4>2. CASE ~(k <= addons)
        <5>1. k - addons = 1
          BY <4>2
        <5>. QED BY <1>2, <2>2, <4>2, <5>1 DEF q
      <4>. QED BY <4>1, <4>2
    <3>. QED BY <3>1
  <2>4. q # <<>> /\ Len(q) = addons + 1
    BY <2>2 DEF q
  <2>5. \A k \in 1..Len(q) : (q[k] = "addon" => addons > 0) /\ (q[k] = "builtin" <=> k = Len(q))
    BY <2>3, <2>4
  <2>. QED BY <1>5, <2>1, <2>2, <2>4, <2>5 DEF q
<1>6. CASE d.special \in {"none", "sync"}
  <2>1. Queue(d) = others
    BY <1>3, <1>6
  <2>2. others = <<>> => addons = 0
    BY <1>1
  <2>3. \A k \in 1..Len(others) : others[k] = "addon" /\ addons > 0
    BY <1>1
  <2>. QED BY <1>1, <1>6, <2>1, <2>2, <2>3
<1>. QED BY <1>3, <1>4, <1>5, <1>6

\* The descriptors of the message at hand were taken.
Taken ==
    /\ inFds' \in [Sides -> FdSeq]
    /\ \A side \in Sides : inFds'[side] = FdsFrom(came, side, next + 1)

\* They are the first on its side.
LEMMA FdsTaken ==
    ASSUME CameOK, PlaceOK, FdsOK, pc = "idle", next <= Len(came)
    PROVE  /\ Fds(NumFds(Decl)) = came[next].fds
           /\ Take(NumFds(Decl)) => Taken
<1> DEFINE c == Decl.from
           x == came[next].fds
           y == FdsFrom(came, c, next + 1)
<1>1. /\ next \in 1..Len(came) /\ came \in Seq(Received) /\ Decl \in Decls /\ Decl = came[next].decl
      /\ x \in FdSeq /\ Len(x) = NumFds(Decl) /\ c \in Sides
  BY AtHandFacts, Declared DEF CameOK, Sides
<1>2. next + 1 \in 1..(Len(came) + 1)
  BY <1>1, LenProperties
<1>3. ASSUME NEW side \in Sides
      PROVE  FdsFrom(came, side, next + 1) \in FdSeq
  BY <1>1, <1>2, FdPartsType
<1>4. y \in FdSeq
  BY <1>1, <1>3
<1>5. /\ inFds \in [Sides -> FdSeq]
      /\ \A side \in Sides : inFds[side] = FdsFrom(came, side, next)
  BY DEF FdsOK
<1>6. inFds[c] = x \o y
  <2>1. inFds[c] = FdsFrom(came, c, next)
    BY <1>1, <1>5
  <2>2. FdsFrom(came, c, next) = FdsFor(came, c, next) \o y
    BY <1>1, FdsGo
  <2>3. FdsFor(came, c, next) = x
    BY <1>1 DEF FdsFor
  <2>. QED BY <2>1, <2>2, <2>3
<1>. HIDE DEF x, y
<1>7. SubSeq(x \o y, 1, Len(x)) = x /\ SubSeq(x \o y, Len(x) + 1, Len(x \o y)) = y
  <2>1. x \in Seq(Nat \X Nat) /\ y \in Seq(Nat \X Nat)
    BY <1>1, <1>4 DEF FdSeq
  <2>. QED BY <2>1, CutAt
<1>8. Fds(NumFds(Decl)) = x
  BY <1>1, <1>6, <1>7 DEF Fds
<1>9. ASSUME Take(NumFds(Decl))
      PROVE  Taken
  <2>1. inFds' = [inFds EXCEPT ![c] = SubSeq(@, NumFds(Decl) + 1, Len(@))]
    BY <1>9 DEF Take
  <2>2. inFds' = [inFds EXCEPT ![c] = y]
    <3>1. SubSeq(inFds[c], NumFds(Decl) + 1, Len(inFds[c])) = y
      BY <1>1, <1>6, <1>7
    <3>. QED BY <2>1, <3>1
  <2>. HIDE DEF c
  <2>3. inFds' \in [Sides -> FdSeq]
    BY <1>4, <1>5, <2>2
  <2>4. ASSUME NEW side \in Sides
        PROVE  inFds'[side] = FdsFrom(came, side, next + 1)
    <3>1. CASE side = c
      BY <1>1, <1>5, <2>2, <3>1 DEF y
    <3>2. CASE side # c
      <4>1. inFds'[side] = FdsFrom(came, side, next)
        BY <1>5, <2>2, <3>2
      <4>2. FdsFrom(came, side, next) = FdsFor(came, side, next) \o FdsFrom(came, side, next + 1)
        BY <1>1, FdsGo
      <4>3. FdsFor(came, side, next) = <<>>
        BY <1>1, <3>2 DEF FdsFor, c
      <4>4. <<>> \o FdsFrom(came, side, next + 1) = FdsFrom(came, side, next + 1)
        BY <1>3, ConcatEmptySeq DEF FdSeq
      <4>. QED BY <4>1, <4>2, <4>3, <4>4
    <3>. QED BY <3>1, <3>2
  <2>. QED BY <2>3, <2>4 DEF Taken
<1>. QED BY <1>8, <1>9 DEF x

\* The fast track adds the ids that demarshalling adds.
LEMMA FastAdds ==
    ASSUME NEW d \in Decls, d.special # "bind", NEW args, Matches(args, d), NEW n \in Nat, NEW ids
    PROVE  LET id == FindNewId(d, Wire(n, d, args, Pad))
           IN  (IF d.newId # NoInterface /\ AddsId(d, id) THEN ids \union {<<id, d.newId>>} ELSE ids)
                  = ids \union AddedBy(d, args, Len(args))
<1> DEFINE id == FindNewId(d, Wire(n, d, args, Pad))
           New(j) == args[j].type = "NewId" /\ AddsId(d, Number(args[j].value))
           E(j) == <<Number(args[j].value), d.newId>>
           l == Len(args)
<1>1. DOMAIN WireTypes(d) = 1..l /\ \A k \in 1..l : args[k].type = WireTypes(d)[k]
  BY Declared, LenProperties DEF Matches
<1>2. AddedBy(d, args, l) = {E(j) : j \in {k \in 1..l : New(k)}}
  BY DEF AddedBy, Interface
<1>3. CASE d.newId # NoInterface
  <2>1. PICK p \in 1..l : args[p].type = "NewId"
    <3>1. \E k \in DOMAIN WireTypes(d) : WireTypes(d)[k] = "NewId"
      BY <1>3, Declared
    <3>2. PICK k \in DOMAIN WireTypes(d) : WireTypes(d)[k] = "NewId"
      BY <3>1
    <3>. HIDE DEF l
    <3>3. k \in 1..l /\ args[k].type = "NewId"
      BY <1>1, <3>2
    <3>. QED BY <3>3
  <2>2. id = Number(args[p].value)
    <3>. HIDE DEF l
    <3>. QED BY <2>1, NewIdFound DEF l
  <2>3. \A k \in 1..l : New(k) => k = p
    <3>1. ASSUME NEW k \in 1..l, args[k].type = "NewId"
          PROVE  k = p
      <4>1. WireTypes(d)[k] = "NewId" /\ WireTypes(d)[p] = "NewId"
        BY <1>1, <2>1, <3>1
      <4>. QED BY <1>1, <4>1, Declared
    <3>. QED BY <3>1
  <2>. HIDE DEF id, l
  <2>4. CASE AddsId(d, id)
    <3>1. {k \in 1..l : New(k)} = {p}
      BY <2>1, <2>2, <2>3, <2>4
    <3>2. AddedBy(d, args, l) = {<<id, d.newId>>}
      <4>1. E(p) = <<id, d.newId>>
        BY <2>2
      <4>. HIDE DEF E, New
      <4>2. AddedBy(d, args, l) = {E(p)}
        BY <1>2, <3>1
      <4>. QED BY <4>1, <4>2
    <3>. QED BY <1>3, <2>4, <3>2 DEF id, l
  <2>5. CASE ~AddsId(d, id)
    <3>1. {k \in 1..l : New(k)} = {}
      BY <2>2, <2>3, <2>5
    <3>2. AddedBy(d, args, l) = {}
      <4>. HIDE DEF E, New
      <4>. QED BY <1>2, <3>1
    <3>. QED BY <1>3, <2>5, <3>2 DEF id, l
  <2>. QED BY <2>4, <2>5
<1>4. CASE d.newId = NoInterface
  <2>1. \A k \in 1..l : args[k].type # "NewId"
    BY <1>1, <1>4, Declared
  <2>2. {k \in 1..l : New(k)} = {}
    BY <2>1
  <2>3. AddedBy(d, args, l) = {}
    <3>. HIDE DEF E, New, l
    <3>. QED BY <1>2, <2>2
  <2>. QED BY <1>4, <2>3
<1>. QED BY <1>3, <1>4

IsMsg(m, d, s, g, f, x, t) ==
    m = [decl |-> d, source |-> s, args |-> g, fds |-> f, modified |-> x, typeChanged |-> t]

Opens(m, d, s, g, f) == [m EXCEPT !.decl = d, !.source = s, !.args = g, !.fds = f]

Puts(m, k, a, x, t) == [m EXCEPT !.args[k] = a, !.modified = x, !.typeChanged = t]

LEMMA MsgOpens ==
    ASSUME NEW m, NEW d, NEW s, NEW g, NEW f, NEW x, NEW t, IsMsg(m, d, s, g, f, x, t),
           NEW d2, NEW s2, NEW g2, NEW f2
    PROVE  IsMsg(Opens(m, d2, s2, g2, f2), d2, s2, g2, f2, x, t)
<1> DEFINE A(e, u, h, j) ==
             [decl |-> e, source |-> u, args |-> h, fds |-> j, modified |-> x, typeChanged |-> t]
           a1 == A(d2, s, g, f)
           a2 == A(d2, s2, g, f)
           a3 == A(d2, s2, g2, f)
           a4 == A(d2, s2, g2, f2)
<1>1. [m EXCEPT !.decl = d2] = a1
  BY DEF IsMsg
<1>2. [a1 EXCEPT !.source = s2] = a2
  OBVIOUS
<1>3. [a2 EXCEPT !.args = g2] = a3
  OBVIOUS
<1>4. [a3 EXCEPT !.fds = f2] = a4
  OBVIOUS
<1>5. Opens(m, d2, s2, g2, f2) =
         [[[[m EXCEPT !.decl = d2] EXCEPT !.source = s2] EXCEPT !.args = g2] EXCEPT !.fds = f2]
  BY DEF Opens
<1>. HIDE DEF a1, a2, a3
<1>. QED BY <1>1, <1>2, <1>3, <1>4, <1>5 DEF IsMsg

LEMMA MsgPuts ==
    ASSUME NEW m, NEW d, NEW s, NEW g, NEW f, NEW x, NEW t, IsMsg(m, d, s, g, f, x, t),
           NEW k, NEW a, NEW x2, NEW t2
    PROVE  IsMsg(Puts(m, k, a, x2, t2), d, s, [g EXCEPT ![k] = a], f, x2, t2)
<1> DEFINE g2 == [g EXCEPT ![k] = a]
           A(h, y, z) ==
             [decl |-> d, source |-> s, args |-> h, fds |-> f, modified |-> y, typeChanged |-> z]
           a1 == A(g2, x, t)
           a2 == A(g2, x2, t)
           a3 == A(g2, x2, t2)
<1>1. [m EXCEPT !.args[k] = a] = a1
  <2>1. m.args = g
    BY DEF IsMsg
  <2>2. [m EXCEPT !.args[k] = a] = [m EXCEPT !.args = [m.args EXCEPT ![k] = a]]
    OBVIOUS
  <2>3. [m EXCEPT !.args = g2] = a1
    <3>. HIDE DEF g2
    <3>. QED BY DEF IsMsg
  <2>. QED BY <2>1, <2>2, <2>3
<1>. HIDE DEF g2
<1>2. [a1 EXCEPT !.modified = x2] = a2
  OBVIOUS
<1>3. [a2 EXCEPT !.typeChanged = t2] = a3
  OBVIOUS
<1>4. Puts(m, k, a, x2, t2) =
         [[[m EXCEPT !.args[k] = a] EXCEPT !.modified = x2] EXCEPT !.typeChanged = t2]
  BY DEF Puts
<1>. HIDE DEF a1, a2
<1>. QED BY <1>1, <1>2, <1>3, <1>4 DEF IsMsg, g2

LEMMA MsgFields ==
    ASSUME NEW m, NEW d, NEW s, NEW g, NEW f, NEW x, NEW t, IsMsg(m, d, s, g, f, x, t)
    PROVE  /\ m.decl = d /\ m.source = s /\ m.args = g /\ m.fds = f
           /\ m.modified = x /\ m.typeChanged = t
BY DEF IsMsg

\* The fast track sends the message, as it came.
Passed ==
    /\ pc = "idle" /\ next <= Len(came) /\ Over /\ Taken
    /\ addons = 0 /\ Decl.special \in {"none", "sync"}
    /\ out' = Append(out, [words |-> Source, fds |-> came[next].fds, for |-> next,
                           meant |-> came[next].args, unseen |-> <<>>])
    /\ idMap' = idMap \union AddedBy(Decl, came[next].args, Len(came[next].args))
    /\ UNCHANGED dropped

\* Demarshalling makes it the message at hand,
Started ==
    /\ pc = "idle" /\ next <= Len(came) /\ Taken
    /\ IsMsg(dmsg', Decl, Source, dmsg'.args, came[next].fds, FALSE, FALSE)
    /\ AllKept(dmsg'.args, came[next].args, WireTypes(Decl))
    /\ meant' = came[next].args /\ todo' = Queue(Decl)
    /\ pc' = IF Queue(Decl) = <<>> THEN "relay" ELSE "handle"
    /\ idMap' = idMap \union AddedBy(Decl, came[next].args, Len(came[next].args))
    /\ UNCHANGED <<debugLevel, addons, came, next, out, dropped>>

\* or panics.
Refused ==
    /\ pc = "idle" /\ next <= Len(came) /\ Panic
    /\ \/ HasNull(came[next].args, Len(came[next].args))
       \/ /\ Decl.special = "bind"
          /\ ~MayBind(came[next].args[2].value, Number(came[next].args[3].value))

\* What becomes of a message that was not begun.
LEMMA FastSteps ==
    ASSUME CameOK, PlaceOK, FdsOK, FastTrack
    PROVE  Passed
<1>1. pc = "idle" /\ next <= Len(came) /\ Queue(Decl) = <<>> /\ todo = <<>> /\ addons \in Nat
  BY DEF FastTrack, AtHand, PlaceOK
<1>2. /\ Decl \in Decls /\ Matches(came[next].args, Decl) /\ next \in Nat
      /\ Source = Wire(next, Decl, came[next].args, Pad)
  BY <1>1, AtHandFacts
<1>3. addons = 0 /\ Decl.special \in {"none", "sync"}
  BY <1>1, <1>2, QueueHandlers
<1>4. Fds(NumFds(Decl)) = came[next].fds /\ Taken
  BY <1>1, FdsTaken DEF FastTrack
<1>5. Over /\ UNCHANGED dropped
  BY DEF FastTrack, Done, Over, config
<1>6. out' = Append(out, [words |-> Source, fds |-> came[next].fds, for |-> next,
                          meant |-> came[next].args, unseen |-> <<>>])
  BY <1>1, <1>4 DEF FastTrack, Sends
<1>7. idMap' = idMap \union AddedBy(Decl, came[next].args, Len(came[next].args))
  <2>1. idMap' = IF Decl.newId # NoInterface /\ AddsId(Decl, FindNewId(Decl, Source))
                 THEN idMap \union {<<FindNewId(Decl, Source), Decl.newId>>} ELSE idMap
    BY DEF FastTrack
  <2>2. Decl.special # "bind"
    BY <1>3
  <2>. QED BY <1>2, <2>1, <2>2, FastAdds
<1>. QED BY <1>1, <1>3, <1>4, <1>5, <1>6, <1>7 DEF Passed

LEMMA StartSteps ==
    ASSUME CameOK, PlaceOK, FdsOK, StartMessage
    PROVE  Started \/ Refused
<1> DEFINE args == came[next].args
           d == Demarshal(Decl, Source)
<1>1. pc = "idle" /\ next <= Len(came)
  BY DEF StartMessage, AtHand
<1>2. /\ Decl \in Decls /\ Matches(args, Decl) /\ next \in Nat
      /\ Source = Wire(next, Decl, args, Pad)
  BY <1>1, AtHandFacts
<1>3. Demarshalled(d, Decl, args)
  <2>1. Demarshalled(Demarshal(Decl, Wire(next, Decl, args, Pad)), Decl, args)
    BY <1>2, DemarshalMessage
  <2>. QED BY <1>2, <2>1
<1>4. /\ d.panic <=> \/ HasNull(args, Len(args))
                     \/ Decl.special = "bind" /\ ~MayBind(args[2].value, Number(args[3].value))
      /\ ~d.panic => /\ AllKept(d.args, args, WireTypes(Decl))
                     /\ d.fds = NumFds(Decl) /\ d.adds = AddedBy(Decl, args, Len(args))
  BY <1>3 DEF Demarshalled
<1>5. IF d.panic THEN Panic
      ELSE /\ dmsg' = Opens(NoMessage, Decl, Source, d.args, Fds(d.fds))
           /\ Take(d.fds)
           /\ idMap' = idMap \union d.adds
           /\ todo' = Queue(Decl)
           /\ pc' = IF Queue(Decl) = <<>> THEN "relay" ELSE "handle"
           /\ meant' = came[next].args
           /\ UNCHANGED <<config, came, next, out, dropped>>
  BY DEF StartMessage, Opens
<1>. HIDE DEF d
<1>6. CASE d.panic
  BY <1>1, <1>4, <1>5, <1>6 DEF Refused
<1>7. CASE ~d.panic
  <2>1. /\ dmsg' = Opens(NoMessage, Decl, Source, d.args, Fds(d.fds))
        /\ Take(d.fds)
        /\ idMap' = idMap \union d.adds
        /\ todo' = Queue(Decl)
        /\ pc' = IF Queue(Decl) = <<>> THEN "relay" ELSE "handle"
        /\ meant' = came[next].args
        /\ UNCHANGED <<debugLevel, addons, came, next, out, dropped>>
    BY <1>5, <1>7 DEF config
  <2>2. Fds(d.fds) = came[next].fds /\ Taken
    BY <1>1, <1>4, <1>7, <2>1, FdsTaken
  <2>3. IsMsg(dmsg', Decl, Source, dmsg'.args, came[next].fds, FALSE, FALSE) /\ dmsg'.args = d.args
    <3> DEFINE no == FALSE
               none == <<>>
    <3>1. IsMsg(NoMessage, Null, none, none, none, no, no)
      BY DEF IsMsg, NoMessage
    <3>. HIDE DEF no, none
    <3>2. IsMsg(dmsg', Decl, Source, d.args, came[next].fds, no, no)
      BY <2>1, <2>2, <3>1, MsgOpens
    <3>3. dmsg'.args = d.args
      BY <3>2, MsgFields
    <3>. QED BY <3>2, <3>3 DEF no
  <2>4. AllKept(dmsg'.args, args, WireTypes(Decl))
    BY <1>4, <1>7, <2>3
  <2>. QED BY <1>1, <1>4, <1>7, <2>1, <2>2, <2>3, <2>4 DEF Started
<1>. QED BY <1>6, <1>7

\* Every step is one of these.
LEMMA Steps ==
    ASSUME CameOK, PlaceOK, TodoOK, MessageOK, FdsOK, Next
    PROVE  \/ \E d \in Decls : Come(d)
           \/ Passed \/ Started \/ Refused
           \/ Seen \/ (\E k, type, v, how : Given(k, type, v, how)) \/ (\E shown : Limited(shown))
           \/ Removed \/ Lost \/ (\E words : GoesOn(words)) \/ Stopped
<1>1. CASE \E d \in Decls : Come(d)
  BY <1>1
<1>2. CASE FastTrack
  BY <1>2, FastSteps
<1>3. CASE StartMessage
  BY <1>3, StartSteps
<1>4. CASE Relay
  BY <1>4, RelaySteps
<1>5. CASE LookAddon
  BY <1>5, LookSteps
<1>6. CASE ChangeAddon
  BY <1>6, ChangeSteps
<1>7. CASE BuiltinGlobal
  BY <1>7, GlobalSteps
<1>8. CASE BuiltinBind
  BY <1>8, BindSteps
<1>9. CASE BuiltinDelete
  BY <1>9, DeleteSteps
<1>10. CASE Marshal
  BY <1>10, MarshalSteps
<1>. QED BY <1>1, <1>2, <1>3, <1>4, <1>5, <1>6, <1>7, <1>8, <1>9, <1>10 DEF Next

-----------------------------------------------------------------------------
(* A message comes.                                                        *)

\* Ids that were created are numbers.
LEMMA CreatedNumbers ==
    ASSUME NEW args, AllLegal(args)
    PROVE  Created(args) \subseteq Nat
<1>1. DOMAIN args = 1..Len(args) /\ \A k \in 1..Len(args) : Legal(args[k])
  BY LenProperties DEF AllLegal
<1>2. ASSUME NEW k \in DOMAIN args, args[k].type = "NewId"
      PROVE  Number(args[k].value) \in Nat
  <2>1. Legal(args[k]) /\ args[k].type \notin {"String", "Array"}
    BY <1>1, <1>2
  <2>. QED BY <2>1, OneNumber
<1>. QED BY <1>2 DEF Created

\* Arguments that may come.
LEMMA ArgumentsLegal ==
    ASSUME CameOK, Len(came) < MsgBound, NEW d \in Decls, NEW args \in Arguments(d)
    PROVE  /\ Matches(args, d)
           /\ \A k \in 1..Len(args) :
                 args[k].type = "NewId" =>
                    \/ Number(args[k].value) < ServerStart
                    \/ d.special = "sync" /\ Number(args[k].value) = HandshakeId
<1> DEFINE types == WireTypes(d)
           l == Len(types)
<1>1. types \in Seq(Types) /\ l \in Nat /\ DOMAIN types = 1..l
  BY Declared, LenProperties
<1>2. \A k \in 1..l : types[k] \in Types
  BY <1>1, ElementOfSeq
<1>3. PICK v : /\ args = [k \in DOMAIN types |-> Arg(types[k], v[k])]
               /\ \A k \in DOMAIN types : v[k] \in ArgValues(d, types[k])
  BY DEF Arguments
<1>4. IdsOf(came) \subseteq Nat
  <2>1. ASSUME NEW n \in DOMAIN came
        PROVE  Created(came[n].args) \subseteq Nat
    <3>1. n \in 1..Len(came)
      BY LenProperties DEF CameOK
    <3>2. AllLegal(came[n].args)
      BY <3>1 DEF CameOK, WellSent, Matches
    <3>. QED BY <3>2, CreatedNumbers
  <2>. QED BY <2>1 DEF IdsOf
<1>5. NextId \in Nat /\ NextId < ServerStart
  <2>1. Cardinality(IdsOf(came)) \in Nat /\ Cardinality(IdsOf(came)) <= Len(came) /\ Len(came) \in Nat
    BY FS_CardinalityType, LenProperties DEF CameOK
  <2>2. MsgBound \in Nat /\ MsgBound + 1 < ServerStart /\ ServerStart \in Nat
    BY MediatorAssumption
  <2>3. NextId = Cardinality(IdsOf(came)) + 2
    BY DEF NextId, IdsOf
  <2>. QED BY <2>1, <2>2, <2>3
<1>6. HandshakeId \in Nat
  BY MediatorAssumption
<1>7. ASSUME NEW k \in 1..l
      PROVE  /\ args[k].type = types[k] /\ args[k].value = v[k]
             /\ args[k] = Arg(types[k], v[k])
  BY <1>1, <1>3, <1>7 DEF Arg
<1>8. ASSUME NEW n \in Nat, NEW type \in {"NewId", "Uint", "Fd"}
      PROVE  HasType(<<n>>, type)
  BY DEF HasType
<1>9. ASSUME NEW k \in 1..l, types[k] = "NewId"
      PROVE  /\ HasType(v[k], types[k])
             /\ \/ Number(v[k]) < ServerStart
                \/ d.special = "sync" /\ Number(v[k]) = HandshakeId
  <2>1. v[k] \in IF d.special = "sync" THEN {<<NextId>>, <<HandshakeId>>} ELSE {<<NextId>>}
    BY <1>1, <1>3, <1>9 DEF ArgValues
  <2>2. v[k] = <<NextId>> \/ (d.special = "sync" /\ v[k] = <<HandshakeId>>)
    BY <2>1
  <2>. HIDE DEF types
  <2>3. HasType(v[k], types[k])
    BY <1>5, <1>6, <1>8, <1>9, <2>2
  <2>. QED BY <1>5, <2>2, <2>3 DEF Number
<1>10. ASSUME NEW k \in 1..l
       PROVE  HasType(v[k], types[k]) \/ (types[k] = "String" /\ v[k] = Null)
  <2>1. v[k] \in ArgValues(d, types[k]) /\ types[k] \in Types
    BY <1>1, <1>2, <1>3
  <2>. HIDE DEF types
  <2>2. CASE types[k] = "NewId"
    BY <1>9, <2>2
  <2>3. CASE types[k] = "Fd"
    <3>1. v[k] = <<1>>
      BY <2>1, <2>3 DEF ArgValues
    <3>. QED BY <1>8, <2>3, <3>1
  <2>4. CASE types[k] = "Uint" /\ d.special = "delete_id"
    <3>1. \E id \in {HandshakeId} \union IdsOf(came) : v[k] = <<id>>
      BY <2>1, <2>4 DEF ArgValues, IdsOf
    <3>. QED BY <1>4, <1>6, <1>8, <2>4, <3>1
  <2>5. CASE types[k] \notin {"NewId", "Fd"} /\ ~(types[k] = "Uint" /\ d.special = "delete_id")
    <3>1. v[k] \in Values[types[k]] /\ types[k] \in DOMAIN Values
      BY <2>1, <2>5 DEF ArgValues, Types
    <3>. QED BY <3>1, MediatorAssumption DEF ValuesAssumption
  <2>. QED BY <2>2, <2>3, <2>4, <2>5
<1>11. ASSUME NEW k \in 1..l
       PROVE  Legal(args[k]) /\ args[k] \in ArgSet
  <2>1. args[k].type = types[k] /\ args[k].value = v[k] /\ args[k] = Arg(types[k], v[k])
    BY <1>7
  <2>2. HasType(v[k], types[k]) \/ (types[k] = "String" /\ v[k] = Null)
    BY <1>10
  <2>3. Legal(args[k])
    BY <2>1, <2>2 DEF Legal, IsNull
  <2>4. HasType(v[k], types[k]) => v[k] \in Seq(Nat)
    <3>1. Seq(Nat \ {0}) \subseteq Seq(Nat)
      BY SeqMonotonic
    <3>. QED BY <3>1 DEF HasType
  <2>5. types[k] \in {"NewId", "Fd", "Object"} \union DOMAIN Values \union DOMAIN NewValues
    BY <1>2 DEF Types
  <2>6. v[k] \in Seq(Nat) \union {Null}
    BY <2>2, <2>4
  <2>. QED BY <2>1, <2>3, <2>5, <2>6 DEF ArgSet, Arg
<1>12. args \in Seq(ArgSet) /\ Len(args) = l
  <2>1. args \in [1..l -> ArgSet]
    BY <1>1, <1>3, <1>11
  <2>. QED BY <1>1, <2>1, FunctionSeq
<1>13. Matches(args, d)
  BY <1>7, <1>11, <1>12 DEF Matches, AllLegal
<1>. QED BY <1>7, <1>9, <1>12, <1>13

\* A message has one new id at most.
LEMMA CreatedOne ==
    ASSUME NEW d \in Decls, NEW args, Matches(args, d)
    PROVE  Created(args) = {} \/ \E x : Created(args) = {x}
<1>1. DOMAIN args = 1..Len(args) /\ DOMAIN WireTypes(d) = 1..Len(args)
  BY Declared, LenProperties DEF Matches, AllLegal
<1>2. \A j, k \in DOMAIN args : args[j].type = "NewId" /\ args[k].type = "NewId" => j = k
  <2>1. ASSUME NEW j \in DOMAIN args, NEW k \in DOMAIN args, args[j].type = "NewId", args[k].type = "NewId"
        PROVE  j = k
    <3>1. WireTypes(d)[j] = "NewId" /\ WireTypes(d)[k] = "NewId"
      BY <1>1, <2>1 DEF Matches
    <3>. QED BY <1>1, <3>1, Declared
  <2>. QED BY <2>1
<1>3. CASE \E k \in DOMAIN args : args[k].type = "NewId"
  <2>1. PICK k \in DOMAIN args : args[k].type = "NewId"
    BY <1>3
  <2>2. {j \in DOMAIN args : args[j].type = "NewId"} = {k}
    BY <1>2, <2>1
  <2>3. Created(args) = {Number(args[k].value)}
    BY <2>2 DEF Created
  <2>. QED BY <2>3
<1>4. CASE ~\E k \in DOMAIN args : args[k].type = "NewId"
  <2>1. {j \in DOMAIN args : args[j].type = "NewId"} = {}
    BY <1>4
  <2>. QED BY <2>1 DEF Created
<1>. QED BY <1>3, <1>4

\* What came, when a message comes.
ComesAs(m) ==
    /\ pc = "idle" /\ Len(came) < MsgBound
    /\ m \in Received /\ WellSent(m, Len(came) + 1)
    /\ came' = Append(came, m)
    /\ inFds' = [inFds EXCEPT ![m.decl.from] = @ \o m.fds]
    /\ UNCHANGED <<debugLevel, addons, next, pc, dmsg, todo, idMap, out, dropped, meant>>

\* A message comes.
LEMMA ComeSteps ==
    ASSUME CameOK, NEW d \in Decls, Come(d)
    PROVE  \E m : ComesAs(m)
<1>1. PICK args \in Arguments(d) :
         LET fds == [k \in 1..NumFds(d) |-> <<Len(came) + 1, k>>]
         IN  /\ Len(Wire(Len(came) + 1, d, args, Pad)) <= MaxWords
             /\ came' = Append(came, [decl |-> d, args |-> args, fds |-> fds])
             /\ inFds' = [inFds EXCEPT ![d.from] = @ \o fds]
  BY DEF Come
<1> DEFINE fds == [k \in 1..NumFds(d) |-> <<Len(came) + 1, k>>]
           m == [decl |-> d, args |-> args, fds |-> fds]
<1>2. Len(came) < MsgBound /\ Len(came) \in Nat
  BY LenProperties DEF Come, CameOK
<1>3. /\ Matches(args, d)
      /\ \A k \in 1..Len(args) :
            args[k].type = "NewId" =>
               \/ Number(args[k].value) < ServerStart
               \/ d.special = "sync" /\ Number(args[k].value) = HandshakeId
  BY <1>2, ArgumentsLegal
<1>4. NumFds(d) \in Nat
  <2>1. WireTypes(d) \in Seq(Types) /\ DOMAIN WireTypes(d) = 1..Len(WireTypes(d)) /\ Len(WireTypes(d)) \in Nat
    BY Declared, LenProperties
  <2>2. NumFds(d) = Cardinality(FdsAmong(WireTypes(d), Len(WireTypes(d))))
    BY <2>1, Declared DEF FdsAmong
  <2>. QED BY <2>1, <2>2, FdsCounted
<1>5. fds \in FdSeq /\ Len(fds) = NumFds(d)
  <2>1. fds \in [1..NumFds(d) -> Nat \X Nat]
    BY <1>2
  <2>. QED BY <1>4, <2>1, FunctionSeq DEF FdSeq
<1>6. args \in Seq(ArgSet)
  BY <1>3 DEF Matches, AllLegal
<1>. HIDE DEF fds
<1>7. m \in Received /\ m.decl = d /\ m.args = args /\ m.fds = fds
  BY <1>5, <1>6 DEF Received
<1>8. Len(Wire(Len(came) + 1, d, args, Pad)) <= MaxWords
  BY <1>1
<1>9. came' = Append(came, m) /\ inFds' = [inFds EXCEPT ![d.from] = @ \o fds]
  BY <1>1 DEF fds
<1>. HIDE DEF m
<1>10. WellSent(m, Len(came) + 1)
  BY <1>3, <1>5, <1>7, <1>8 DEF WellSent
<1>11. ComesAs(m)
  <2>1. pc = "idle" /\ UNCHANGED <<debugLevel, addons, next, pc, dmsg, todo, idMap, out, dropped, meant>>
    BY DEF Come, config, history
  <2>. QED BY <1>2, <1>7, <1>9, <1>10, <2>1 DEF ComesAs
<1>. QED BY <1>11

LEMMA CameComes ==
    ASSUME CameOK, NEW m, ComesAs(m)
    PROVE  CameOK'
<1>1. /\ came \in Seq(Received) /\ Len(came) <= MsgBound /\ Len(came) < MsgBound
      /\ \A n \in 1..Len(came) : WellSent(came[n], n)
      /\ m \in Received /\ WellSent(m, Len(came) + 1) /\ came' = Append(came, m)
      /\ Len(came) \in Nat /\ MsgBound \in Nat
  BY LenProperties, MediatorAssumption DEF CameOK, ComesAs
<1>2. /\ came' \in Seq(Received) /\ Len(came') = Len(came) + 1 /\ came'[Len(came) + 1] = m
      /\ \A n \in 1..Len(came) : came'[n] = came[n]
  BY <1>1, AppendProperties
<1>3. DOMAIN came = 1..Len(came) /\ DOMAIN came' = 1..(Len(came) + 1)
  BY <1>1, <1>2, LenProperties
<1>4. \A n \in 1..Len(came') : WellSent(came'[n], n)
  <2>1. ASSUME NEW n \in 1..Len(came')
        PROVE  WellSent(came'[n], n)
    <3>1. n \in 1..Len(came) \/ n = Len(came) + 1
      BY <1>1, <1>2
    <3>. QED BY <1>1, <1>2, <3>1
  <2>. QED BY <2>1
<1>5. IdsOf(came') = IdsOf(came) \union Created(m.args)
  <2>1. \A n : n \in DOMAIN came' <=> n \in DOMAIN came \/ n = Len(came) + 1
    BY <1>1, <1>3
  <2>2. \A n \in DOMAIN came : Created(came'[n].args) = Created(came[n].args)
    BY <1>2, <1>3
  <2>3. Created(came'[Len(came) + 1].args) = Created(m.args)
    BY <1>2
  <2> DEFINE c == came'
             q == Len(came) + 1
  <2>. HIDE DEF c, q
  <2>. QED BY <2>1, <2>2, <2>3 DEF IdsOf, c, q
<1>6. Created(m.args) = {} \/ \E x : Created(m.args) = {x}
  <2>1. m.decl \in Decls /\ Matches(m.args, m.decl)
    BY <1>1 DEF Received, WellSent
  <2>. QED BY <2>1, CreatedOne
<1>7. IsFiniteSet(IdsOf(came)) /\ Cardinality(IdsOf(came)) <= Len(came)
  BY DEF CameOK
<1>8. IsFiniteSet(IdsOf(came')) /\ Cardinality(IdsOf(came')) <= Len(came')
  <2>1. CASE Created(m.args) = {}
    <3>1. IdsOf(came') = IdsOf(came)
      BY <1>5, <2>1
    <3>2. Cardinality(IdsOf(came)) \in Nat
      BY <1>7, FS_CardinalityType
    <3>. QED BY <1>1, <1>2, <1>7, <3>1, <3>2
  <2>2. CASE \E x : Created(m.args) = {x}
    <3>1. PICK x : IdsOf(came') = IdsOf(came) \union {x}
      BY <1>5, <2>2
    <3>2. /\ IsFiniteSet(IdsOf(came) \union {x}) /\ Cardinality(IdsOf(came)) \in Nat
          /\ Cardinality(IdsOf(came) \union {x}) <= Cardinality(IdsOf(came)) + 1
      <4>1. Cardinality(IdsOf(came)) \in Nat
        BY <1>7, FS_CardinalityType
      <4>2. /\ IsFiniteSet(IdsOf(came) \union {x})
            /\ Cardinality(IdsOf(came) \union {x}) =
                  IF x \in IdsOf(came) THEN Cardinality(IdsOf(came)) ELSE Cardinality(IdsOf(came)) + 1
        BY <1>7, FS_AddElement
      <4>. QED BY <4>1, <4>2
    <3>3. Cardinality(IdsOf(came')) \in Nat
      BY <3>1, <3>2, FS_CardinalityType
    <3>. QED BY <1>1, <1>2, <1>7, <3>1, <3>2, <3>3
  <2>. QED BY <1>6, <2>1, <2>2
<1>9. Len(came') <= MsgBound
  BY <1>1, <1>2
<1>. QED BY <1>2, <1>4, <1>8, <1>9 DEF CameOK

\* What was sent is of earlier messages, none of them dropped.
LEMMA SentBefore ==
    ASSUME PlaceOK, OutOK, came \in Seq(Received)
    PROVE  /\ DOMAIN out = 1..Len(out) /\ Len(out) \in Nat
           /\ \A k \in 1..Len(out) :
                 /\ out[k] \in SentSet /\ out[k].for \in 1..(next - 1) /\ out[k].for \in 1..Len(came)
                 /\ out[k].for \notin dropped
<1>1. DOMAIN out = 1..Len(out) /\ Len(out) \in Nat /\ \A k \in 1..Len(out) : out[k] \in SentSet
  BY LenProperties, ElementOfSeq DEF OutOK
<1>2. {out[k].for : k \in DOMAIN out} = 1..(next - 1) \ dropped
  BY DEF OutOK, SentAsMeant
<1>3. \A k \in 1..Len(out) : out[k].for \in 1..(next - 1) \ dropped
  BY <1>1, <1>2
<1>4. Len(came) \in Nat /\ next \in 1..(Len(came) + 1)
  BY LenProperties DEF PlaceOK
<1>. QED BY <1>1, <1>3, <1>4

LEMMA ComesKeeps ==
    ASSUME CameOK, PlaceOK, TodoOK, MessageOK, FdsOK, OutOK, IdsOK, NEW m, ComesAs(m)
    PROVE  PlaceOK' /\ TodoOK' /\ MessageOK' /\ FdsOK' /\ OutOK' /\ IdsOK' /\ PanicsCalledFor'
<1>1. /\ came \in Seq(Received) /\ Len(came) \in Nat
      /\ m \in Received /\ came' = Append(came, m) /\ pc = "idle"
      /\ inFds' = [inFds EXCEPT ![m.decl.from] = @ \o m.fds]
      /\ UNCHANGED <<debugLevel, addons, next, pc, dmsg, todo, idMap, out, dropped, meant>>
  BY LenProperties DEF CameOK, ComesAs
<1>2. /\ Len(came') = Len(came) + 1
      /\ \A n \in 1..Len(came) : came'[n] = came[n]
  BY <1>1, AppendProperties
<1>3. PlaceOK'
  <2>1. next \in 1..(Len(came') + 1)
    BY <1>1, <1>2 DEF PlaceOK
  <2>. QED BY <1>1, <2>1 DEF PlaceOK
<1>4. TodoOK'
  BY <1>1 DEF TodoOK, InHand
<1>5. MessageOK'
  BY <1>1 DEF MessageOK, InHand
<1>6. FdsOK'
  <2>1. /\ inFds \in [Sides -> FdSeq]
        /\ \A side \in Sides : inFds[side] = FdsFrom(came, side, next)
    BY <1>1 DEF FdsOK
  <2>2. m.decl.from \in Sides /\ m.fds \in FdSeq
    BY <1>1, Declared DEF Received, Sides
  <2>3. inFds' \in [Sides -> FdSeq]
    <3>1. inFds[m.decl.from] \o m.fds \in FdSeq
      <4>1. inFds[m.decl.from] \in FdSeq
        BY <2>1, <2>2
      <4>. QED BY <2>2, <4>1, ConcatProperties DEF FdSeq
    <3>. QED BY <1>1, <2>1, <2>2, <3>1
  <2>4. ASSUME NEW side \in Sides
        PROVE  inFds'[side] = FdsFrom(came', side, next)
    <3>1. FdsFrom(came', side, next) =
             FdsFrom(came, side, next) \o (IF m.decl.from = side THEN m.fds ELSE <<>>)
      <4>1. next \in 1..(Len(came) + 1)
        BY DEF PlaceOK
      <4>. QED BY <1>1, <4>1, FdsCome
    <3>2. CASE m.decl.from = side
      BY <1>1, <2>1, <3>1, <3>2
    <3>3. CASE m.decl.from # side
      <4>1. inFds'[side] = inFds[side] /\ inFds[side] \in FdSeq
        BY <1>1, <2>1, <3>3
      <4>2. inFds[side] \o <<>> = inFds[side]
        BY <4>1, ConcatEmptySeq DEF FdSeq
      <4>. QED BY <2>1, <3>1, <3>3, <4>1, <4>2
    <3>. QED BY <3>2, <3>3
  <2>. QED BY <1>1, <2>3, <2>4 DEF FdsOK
<1>7. OutOK'
  <2>1. \A k \in DOMAIN out : came'[out[k].for] = came[out[k].for]
    BY <1>1, <1>2, SentBefore
  <2>2. SentAsMeant'
    <3>1. /\ {out[k].for : k \in DOMAIN out} = 1..(next - 1) \ dropped
          /\ \A j, k \in DOMAIN out : j < k => out[j].for < out[k].for
          /\ \A k \in DOMAIN out :
                /\ \E pad \in {Pad, 0} :
                      out[k].words = Wire(out[k].for, came[out[k].for].decl, out[k].meant, pad)
                /\ out[k].fds = came[out[k].for].fds
      BY DEF OutOK, SentAsMeant
    <3>. QED BY <1>1, <2>1, <3>1 DEF SentAsMeant
  <2>3. \A k \in 1..Len(out) : came'[out[k].for].decl.special = "global" => Within(out[k].meant)
    BY <1>1, <2>1, SentBefore DEF OutOK
  <2>. QED BY <1>1, <2>2, <2>3 DEF OutOK
<1>8. IdsOK'
  <2>1. IdsSent(came', out) = IdsSent(came, out)
    <3>1. out \in Seq(SentSet)
      BY DEF OutOK
    <3>. QED BY <1>1, <3>1, SentBefore, IdsSentLater
  <2>. QED BY <1>1, <2>1 DEF IdsOK, InHand
<1>9. PanicsCalledFor'
  BY <1>1 DEF PanicsCalledFor
<1>. QED BY <1>3, <1>4, <1>5, <1>6, <1>7, <1>8, <1>9

-----------------------------------------------------------------------------
(* The mediator is done with a message.                                    *)

\* What holds when a message is over, whatever became of it.
LEMMA OverKeeps ==
    ASSUME CameOK, PlaceOK, next <= Len(came), Over, Taken,
           dropped' \in {dropped, dropped \union {next}}
    PROVE  CameOK' /\ PlaceOK' /\ TodoOK' /\ MessageOK' /\ FdsOK' /\ PanicsCalledFor'
<1>1. /\ pc' = "idle" /\ next' = next + 1 /\ dmsg' = NoMessage /\ todo' = <<>> /\ meant' = <<>>
      /\ debugLevel' = debugLevel /\ addons' = addons /\ came' = came
  BY DEF Over
<1>2. next \in 1..Len(came) /\ Len(came) \in Nat /\ dropped \subseteq 1..(next - 1)
  BY LenProperties DEF PlaceOK, CameOK
<1>3. CameOK'
  BY <1>1 DEF CameOK
<1>4. PlaceOK'
  <2>1. next' \in 1..(Len(came) + 1) /\ dropped' \subseteq 1..(next' - 1)
    BY <1>1, <1>2
  <2>. QED BY <1>1, <2>1 DEF PlaceOK
<1>5. TodoOK'
  <2>1. <<>> \in Seq(Handlers) /\ Len(<<>>) = 0
    OBVIOUS
  <2>. QED BY <1>1, <2>1 DEF TodoOK, InHand
<1>6. MessageOK'
  BY <1>1 DEF MessageOK, InHand
<1>7. FdsOK'
  BY <1>1 DEF FdsOK, Taken
<1>8. PanicsCalledFor'
  BY <1>1 DEF PanicsCalledFor
<1>. QED BY <1>3, <1>4, <1>5, <1>6, <1>7, <1>8

LEMMA HandTaken ==
    ASSUME FdsOK, InHand, UNCHANGED inFds
    PROVE  Taken
BY DEF FdsOK, InHand, Taken

\* What is sent is next in order,
LEMMA SentKeeps ==
    ASSUME CameOK, PlaceOK, OutOK, next <= Len(came), next' = next + 1,
           UNCHANGED <<came, dropped>>,
           NEW w, NEW g, NEW u, NEW pad \in {Pad, 0}, w = Wire(next, Decl, g, pad),
           NEW r, r = [words |-> w, fds |-> came[next].fds, for |-> next, meant |-> g, unseen |-> u],
           r \in SentSet, out' = Append(out, r),
           Decl.special = "global" => Within(g)
    PROVE  OutOK'
<1> DEFINE n == Len(out)
<1>1. /\ DOMAIN out = 1..n /\ n \in Nat
      /\ \A k \in 1..n : out[k].for \in 1..(next - 1)
  BY SentBefore DEF CameOK
<1>2. /\ out \in Seq(SentSet) /\ next \in Nat /\ next \in 1..Len(came) /\ Decl = came[next].decl
      /\ dropped \subseteq 1..(next - 1)
  BY AtHandFacts DEF OutOK, PlaceOK
<1>3. /\ out' \in Seq(SentSet) /\ Len(out') = n + 1 /\ out'[n + 1] = r
      /\ \A k \in 1..n : out'[k] = out[k]
  BY <1>2, AppendProperties
<1>4. DOMAIN out' = 1..(n + 1)
  BY <1>3, LenProperties
<1>5. r.for = next /\ r.words = w /\ r.fds = came[next].fds /\ r.meant = g
  OBVIOUS
<1>. HIDE DEF n
<1>6. \A k \in 1..(n + 1) : k \in 1..n \/ k = n + 1
  BY <1>1
<1>7. /\ {out[k].for : k \in 1..n} = 1..(next - 1) \ dropped
      /\ \A j, k \in 1..n : j < k => out[j].for < out[k].for
      /\ \A k \in 1..n :
            /\ \E p \in {Pad, 0} :
                  out[k].words = Wire(out[k].for, came[out[k].for].decl, out[k].meant, p)
            /\ out[k].fds = came[out[k].for].fds
  BY <1>1 DEF OutOK, SentAsMeant
<1>8. {out'[k].for : k \in 1..(n + 1)} = 1..next \ dropped
  <2>1. {out'[k].for : k \in 1..(n + 1)} = {out[k].for : k \in 1..n} \union {next}
    BY <1>1, <1>3, <1>5, <1>6
  <2>2. (1..(next - 1) \ dropped) \union {next} = 1..next \ dropped
    BY <1>2
  <2>. QED BY <1>7, <2>1, <2>2
<1>9. ASSUME NEW j \in 1..(n + 1), NEW k \in 1..(n + 1), j < k
      PROVE  out'[j].for < out'[k].for
  <2>1. j \in 1..n
    BY <1>1, <1>9
  <2>2. CASE k \in 1..n
    BY <1>3, <1>7, <1>9, <2>1, <2>2
  <2>3. CASE k = n + 1
    BY <1>1, <1>2, <1>3, <1>5, <2>1, <2>3
  <2>. QED BY <1>6, <2>2, <2>3
<1>10. ASSUME NEW k \in 1..(n + 1)
       PROVE  /\ \E p \in {Pad, 0} :
                    out'[k].words = Wire(out'[k].for, came[out'[k].for].decl, out'[k].meant, p)
              /\ out'[k].fds = came[out'[k].for].fds
              /\ came[out'[k].for].decl.special = "global" => Within(out'[k].meant)
  <2>1. CASE k \in 1..n
    <3>1. came[out[k].for].decl.special = "global" => Within(out[k].meant)
      BY <2>1 DEF OutOK, n
    <3>. QED BY <1>3, <1>7, <2>1, <3>1
  <2>2. CASE k = n + 1
    <3>1. out'[k] = r
      BY <1>3, <2>2
    <3>2. r.words = Wire(next, came[next].decl, g, pad) /\ pad \in {Pad, 0}
      BY <1>2, <1>5
    <3>3. came[next].decl.special = "global" => Within(g)
      BY <1>2
    <3>4. /\ out'[k].for = next /\ out'[k].words = r.words /\ out'[k].meant = g
          /\ out'[k].fds = came[next].fds
      BY <1>5, <3>1
    <3>5. /\ out'[k].words = Wire(out'[k].for, came[out'[k].for].decl, out'[k].meant, pad)
          /\ out'[k].fds = came[out'[k].for].fds
      BY <3>2, <3>4
    <3>6. came[out'[k].for].decl.special = "global" => Within(out'[k].meant)
      BY <3>3, <3>4
    <3>. QED BY <3>2, <3>5, <3>6
  <2>. QED BY <1>6, <2>1, <2>2
<1>11. SentAsMeant'
  <2>1. next' - 1 = next /\ came' = came /\ dropped' = dropped
    BY <1>2
  <2>2. {out'[k].for : k \in DOMAIN out'} = 1..(next' - 1) \ dropped'
    BY <1>4, <1>8, <2>1
  <2>3. \A j, k \in DOMAIN out' : j < k => out'[j].for < out'[k].for
    BY <1>4, <1>9
  <2>4. ASSUME NEW k \in DOMAIN out'
        PROVE  /\ \E p \in {Pad, 0} :
                     out'[k].words = Wire(out'[k].for, came'[out'[k].for].decl, out'[k].meant, p)
               /\ out'[k].fds = came'[out'[k].for].fds
    <3>1. k \in 1..(n + 1)
      BY <1>4
    <3>2. /\ \E p \in {Pad, 0} :
                out'[k].words = Wire(out'[k].for, came[out'[k].for].decl, out'[k].meant, p)
          /\ out'[k].fds = came[out'[k].for].fds
      BY <1>10, <3>1
    <3>3. came'[out'[k].for] = came[out'[k].for]
      BY <2>1
    <3>. QED BY <3>2, <3>3
  <2>. QED BY <2>2, <2>3, <2>4 DEF SentAsMeant
<1>. QED BY <1>3, <1>10, <1>11 DEF OutOK

\* and what is dropped is passed over.
LEMMA LostKeeps ==
    ASSUME CameOK, PlaceOK, OutOK, next <= Len(came), next' = next + 1,
           dropped' = dropped \union {next}, UNCHANGED <<came, out>>
    PROVE  OutOK'
<1>1. next \in Nat /\ next \in 1..Len(came) /\ dropped \subseteq 1..(next - 1)
  BY AtHandFacts DEF PlaceOK
<1>2. next' - 1 = next /\ 1..next \ (dropped \union {next}) = 1..(next - 1) \ dropped
  BY <1>1
<1>3. SentAsMeant'
  <2>1. 1..(next' - 1) \ dropped' = 1..(next - 1) \ dropped
    BY <1>2
  <2>2. /\ {out[k].for : k \in DOMAIN out} = 1..(next - 1) \ dropped
        /\ \A j, k \in DOMAIN out : j < k => out[j].for < out[k].for
        /\ \A k \in DOMAIN out :
              /\ \E pad \in {Pad, 0} :
                    out[k].words = Wire(out[k].for, came[out[k].for].decl, out[k].meant, pad)
              /\ out[k].fds = came[out[k].for].fds
    BY DEF OutOK, SentAsMeant
  <2>3. out' = out /\ came' = came
    OBVIOUS
  <2>4. {out'[k].for : k \in DOMAIN out'} = 1..(next' - 1) \ dropped'
    BY <2>1, <2>2, <2>3
  <2>5. \A k \in DOMAIN out' :
           /\ \E pad \in {Pad, 0} :
                 out'[k].words = Wire(out'[k].for, came'[out'[k].for].decl, out'[k].meant, pad)
           /\ out'[k].fds = came'[out'[k].for].fds
    BY <2>2, <2>3
  <2>6. \A j, k \in DOMAIN out' : j < k => out'[j].for < out'[k].for
    BY <2>2, <2>3
  <2>. QED BY <2>4, <2>5, <2>6 DEF SentAsMeant
<1>. QED BY <1>3 DEF OutOK

\* Each kind of step keeps the invariant.
LEMMA PassedKeeps ==
    ASSUME CameOK, PlaceOK, OutOK, IdsOK, Passed
    PROVE  /\ CameOK' /\ PlaceOK' /\ TodoOK' /\ MessageOK' /\ FdsOK' /\ PanicsCalledFor'
           /\ OutOK' /\ IdsOK'
<1> DEFINE a == came[next].args
           r == [words |-> Source, fds |-> came[next].fds, for |-> next, meant |-> a, unseen |-> <<>>]
<1>1. /\ pc = "idle" /\ next <= Len(came) /\ Over /\ Taken /\ dropped' = dropped
      /\ Decl.special \in {"none", "sync"} /\ out' = Append(out, r)
      /\ idMap' = idMap \union AddedBy(Decl, a, Len(a))
  BY DEF Passed
<1>2. /\ next \in 1..Len(came) /\ next \in Nat /\ Decl \in Decls /\ Decl = came[next].decl
      /\ WellSent(came[next], next) /\ AllLegal(a) /\ Source = Wire(next, Decl, a, Pad)
      /\ Source \in Seq(Word) /\ came[next].fds \in FdSeq
  BY <1>1, AtHandFacts
<1>3. pc' = "idle" /\ next' = next + 1 /\ came' = came
  BY <1>1 DEF Over
<1>4. r \in SentSet /\ r.for = next /\ r.meant = a
  <2>1. a \in Seq(ArgSet) /\ <<>> \in Seq(Handlers)
    BY <1>2 DEF AllLegal
  <2>. HIDE DEF a
  <2>. QED BY <1>2, <2>1 DEF SentSet
<1>5. CameOK' /\ PlaceOK' /\ TodoOK' /\ MessageOK' /\ FdsOK' /\ PanicsCalledFor'
  BY <1>1, OverKeeps
<1>6. OutOK'
  <2>1. r = [words |-> Source, fds |-> came[next].fds, for |-> next, meant |-> a, unseen |-> <<>>]
    OBVIOUS
  <2>. HIDE DEF r, a
  <2>. QED BY <1>1, <1>2, <1>3, <1>4, <2>1, SentKeeps
<1>7. IdsOK'
  <2>1. idMap = IdsSent(came, out)
    BY <1>1 DEF IdsOK
  <2>2. IdsSent(came', out') = Track(came, IdsSent(came, out), r)
    <3>1. out \in Seq(SentSet)
      BY DEF OutOK
    <3>. HIDE DEF r
    <3>. QED BY <1>1, <1>3, <1>4, <3>1, IdsSentAppend
  <2>3. Track(came, IdsSent(came, out), r) = IdsSent(came, out) \union AddedBy(Decl, a, Len(a))
    <3>1. came[r.for].decl = Decl /\ WellSent(came[r.for], next) /\ came[r.for].args = a
      BY <1>2, <1>4
    <3>2. Decl.special # "delete_id" /\ Decl.special # "bind"
      BY <1>1
    <3> DEFINE ids == IdsSent(came, out)
    <3>. HIDE DEF r, a, ids
    <3>3. Opening(came, r, Decl, next)
      BY <1>2, <3>1, <3>2 DEF Opening
    <3>4. Track(came, ids, r) = ids \union AddedBy(Decl, came[r.for].args, Len(came[r.for].args))
      BY <3>3, TrackFirst
    <3>. QED BY <3>1, <3>4 DEF ids
  <2>4. idMap' = IdsSent(came', out')
    BY <1>1, <2>1, <2>2, <2>3
  <2>5. \A e \in AddedBy(Decl, a, Len(a)) : e[1] \in Nat
    <3>1. ASSUME NEW j \in 1..Len(a), a[j].type = "NewId"
          PROVE  Number(a[j].value) \in Nat
      <4>1. Legal(a[j])
        BY <1>2 DEF AllLegal
      <4>. QED BY <3>1, <4>1, OneNumber
    <3>. HIDE DEF a
    <3>. QED BY <3>1 DEF AddedBy
  <2>6. \A e \in idMap' : e[1] \in Nat
    BY <1>1, <2>5 DEF IdsOK
  <2>. QED BY <1>3, <2>4, <2>6 DEF IdsOK, InHand
<1>. QED BY <1>5, <1>6, <1>7

LEMMA LostAllKept ==
    ASSUME CameOK, PlaceOK, MessageOK, FdsOK, OutOK, IdsOK, Lost
    PROVE  /\ CameOK' /\ PlaceOK' /\ TodoOK' /\ MessageOK' /\ FdsOK' /\ PanicsCalledFor'
           /\ OutOK' /\ IdsOK'
<1>1. /\ InHand /\ Over /\ dropped' = dropped \union {next} /\ inFds' = inFds /\ idMap' = idMap
      /\ out' = out /\ Decl.special \in {"none", "global"} /\ Decl.newId = NoInterface
  BY DEF Lost, InHand
<1>2. next <= Len(came) /\ pc' = "idle" /\ next' = next + 1 /\ came' = came /\ Taken
  BY <1>1, HandTaken DEF Over, PlaceOK, InHand
<1>3. CameOK' /\ PlaceOK' /\ TodoOK' /\ MessageOK' /\ FdsOK' /\ PanicsCalledFor'
  BY <1>1, <1>2, OverKeeps
<1>4. OutOK'
  BY <1>1, <1>2, LostKeeps
<1>5. IdsOK'
  <2>1. idMap = Track(came, IdsSent(came, out), AtHandSent)
    BY <1>1 DEF IdsOK
  <2>2. Created(came[next].args) = {}
    <3>1. Decl \in Decls /\ Matches(came[next].args, Decl)
      BY <1>2, AtHandFacts
    <3>2. \A k \in DOMAIN WireTypes(Decl) : WireTypes(Decl)[k] # "NewId"
      BY <1>1, <3>1, Declared
    <3>3. DOMAIN came[next].args = 1..Len(came[next].args)
          /\ DOMAIN WireTypes(Decl) = 1..Len(came[next].args)
      BY <3>1, Declared, LenProperties DEF Matches, AllLegal
    <3>4. \A k \in DOMAIN came[next].args : came[next].args[k].type # "NewId"
      BY <3>1, <3>2, <3>3 DEF Matches
    <3>5. {j \in DOMAIN came[next].args : came[next].args[j].type = "NewId"} = {}
      BY <3>4
    <3>. QED BY <3>5 DEF Created
  <2>3. Track(came, IdsSent(came, out), AtHandSent) = IdsSent(came, out)
    <3>1. AtHandSent.for = next /\ came[next].decl.special # "delete_id"
      BY <1>1 DEF AtHandSent, Decl
    <3> DEFINE i == IF came[next].decl.special = "bind" THEN AtHandSent.meant[2].value
                    ELSE came[next].decl.newId
    <3>2. Track(came, IdsSent(came, out), AtHandSent) =
             IdsSent(came, out) \union {<<id, i>> : id \in Created(came[next].args) \ {HandshakeId}}
      BY <3>1 DEF Track
    <3>. HIDE DEF i
    <3>. QED BY <2>2, <3>2
  <2>. QED BY <1>1, <1>2, <2>1, <2>3 DEF IdsOK, InHand
<1>. QED BY <1>3, <1>4, <1>5

LEMMA GoesOnKeeps ==
    ASSUME CameOK, PlaceOK, TodoOK, MessageOK, FdsOK, OutOK, IdsOK, NEW words, GoesOn(words)
    PROVE  /\ CameOK' /\ PlaceOK' /\ TodoOK' /\ MessageOK' /\ FdsOK' /\ PanicsCalledFor'
           /\ OutOK' /\ IdsOK'
<1> DEFINE r == [words |-> words, fds |-> came[next].fds, for |-> next, meant |-> meant,
                 unseen |-> todo]
<1>1. /\ InHand /\ Over /\ dropped' = dropped /\ inFds' = inFds /\ idMap' = idMap /\ pc # "handle"
  BY DEF GoesOn
<1>2. next <= Len(came) /\ pc' = "idle" /\ next' = next + 1 /\ came' = came /\ Taken
  BY <1>1, HandTaken DEF Over, PlaceOK, InHand
<1>3. /\ next \in Nat /\ Decl \in Decls /\ AllLegal(meant) /\ dmsg.fds = came[next].fds
      /\ came[next].fds \in FdSeq
  BY <1>1, <1>2, HandFacts, AtHandFacts
<1>4. out' = Append(out, r)
  BY <1>3 DEF GoesOn
<1>5. PICK pad \in {Pad, 0} : words = Wire(next, Decl, meant, pad)
  BY DEF GoesOn
<1>6. r \in SentSet /\ r.for = next /\ r.meant = meant /\ r.unseen = todo
  <2>1. words \in Seq(Word)
    <3>1. Decl.opcode \in Nat
      BY <1>3, Declared
    <3>2. pad \in Nat
      BY DEF Pad
    <3>. QED BY <1>3, <1>5, <3>1, <3>2, WireType
  <2>2. meant \in Seq(ArgSet) /\ todo \in Seq(Handlers)
    BY <1>3 DEF AllLegal, TodoOK
  <2>. QED BY <1>3, <2>1, <2>2 DEF SentSet
<1>7. CameOK' /\ PlaceOK' /\ TodoOK' /\ MessageOK' /\ FdsOK' /\ PanicsCalledFor'
  BY <1>1, <1>2, OverKeeps
<1>8. r = [words |-> words, fds |-> came[next].fds, for |-> next, meant |-> meant, unseen |-> todo]
  OBVIOUS
<1>. HIDE DEF r
<1>9. OutOK'
  <2>1. Decl.special = "global" => Within(meant)
    BY <1>1 DEF MessageOK
  <2>. QED BY <1>1, <1>2, <1>4, <1>5, <1>6, <1>8, <2>1, SentKeeps
<1>10. IdsOK'
  <2>1. idMap = Track(came, IdsSent(came, out), AtHandSent)
    BY <1>1 DEF IdsOK
  <2>2. IdsSent(came', out') = Track(came, IdsSent(came, out), r)
    <3>1. out \in Seq(SentSet)
      BY DEF OutOK
    <3>. QED BY <1>2, <1>4, <1>6, <3>1, IdsSentAppend
  <2>3. Track(came, IdsSent(came, out), r) = Track(came, IdsSent(came, out), AtHandSent)
    <3>1. AtHandSent.for = r.for /\ AtHandSent.meant = r.meant /\ AtHandSent.unseen = r.unseen
      BY <1>6 DEF AtHandSent
    <3>. QED BY <3>1, Zenon DEF Track
  <2>. QED BY <1>1, <1>2, <2>1, <2>2, <2>3 DEF IdsOK, InHand
<1>. QED BY <1>7, <1>9, <1>10

-----------------------------------------------------------------------------
(* A message becomes the one at hand, or the mediator panics.              *)

LEMMA StartedKeeps ==
    ASSUME CameOK, PlaceOK, OutOK, IdsOK, Started
    PROVE  /\ CameOK' /\ PlaceOK' /\ TodoOK' /\ MessageOK' /\ FdsOK' /\ PanicsCalledFor'
           /\ OutOK' /\ IdsOK'
<1> DEFINE a == came[next].args
<1>1. /\ pc = "idle" /\ next <= Len(came) /\ Taken
      /\ IsMsg(dmsg', Decl, Source, dmsg'.args, came[next].fds, FALSE, FALSE)
      /\ AllKept(dmsg'.args, a, WireTypes(Decl))
      /\ meant' = a /\ todo' = Queue(Decl)
      /\ pc' = IF Queue(Decl) = <<>> THEN "relay" ELSE "handle"
      /\ idMap' = idMap \union AddedBy(Decl, a, Len(a))
      /\ debugLevel' = debugLevel /\ addons' = addons /\ came' = came /\ next' = next
      /\ out' = out /\ dropped' = dropped
  BY DEF Started
<1>2. /\ next \in 1..Len(came) /\ next \in Nat /\ Decl \in Decls /\ Decl = came[next].decl
      /\ WellSent(came[next], next) /\ AllLegal(a) /\ Source = Wire(next, Decl, a, Pad)
      /\ Source \in Seq(Word) /\ Len(Source) <= MaxWords /\ came[next].fds \in FdSeq
  BY <1>1, AtHandFacts
<1>3. Decl' = Decl /\ Source' = Source /\ AtHandSent' = [for |-> next, meant |-> a, unseen |-> Queue(Decl)]
  BY <1>1 DEF Decl, Source, AtHandSent
<1>4. /\ Queue(Decl) \in Seq(Handlers)
      /\ \A k \in 1..Len(Queue(Decl)) : Queue(Decl)[k] = "addon" => addons > 0
      /\ Queue(Decl) = <<>> => addons = 0 /\ Decl.special \in {"none", "sync"}
      /\ Decl.special \in {"none", "sync"} =>
            \A k \in 1..Len(Queue(Decl)) : Queue(Decl)[k] = "addon"
      /\ Decl.special \in {"global", "bind"} => Queue(Decl) # <<>> /\ Queue(Decl)[1] = "builtin"
      /\ Decl.special = "delete_id" =>
            /\ Queue(Decl) # <<>>
            /\ \A k \in 1..Len(Queue(Decl)) : Queue(Decl)[k] = "builtin" <=> k = Len(Queue(Decl))
  BY <1>2, QueueHandlers DEF PlaceOK
<1>5. CameOK'
  BY <1>1 DEF CameOK
<1>6. PlaceOK'
  BY <1>1 DEF PlaceOK
<1>7. TodoOK'
  <2> DEFINE q == Queue(Decl)
             s == Decl.special
  <2>1. todo' = q /\ (q = <<>> => pc' = "relay") /\ (q # <<>> => pc' = "handle")
    BY <1>1
  <2>2. Decl'.special = s /\ addons' = addons
    BY <1>1, <1>3
  <2>. HIDE DEF q, s
  <2>. QED BY <1>4, <2>1, <2>2 DEF TodoOK, q, s
<1>8. FdsOK'
  <2>1. /\ inFds' \in [Sides -> FdSeq]
        /\ \A side \in Sides : inFds'[side] = FdsFrom(came, side, next + 1)
    BY <1>1 DEF Taken
  <2>2. pc' # "idle"
    BY <1>1
  <2>. QED BY <1>1, <2>1, <2>2 DEF FdsOK
<1>9. OutOK'
  BY <1>1 DEF OutOK, SentAsMeant
<1>10. PanicsCalledFor'
  BY <1>1 DEF PanicsCalledFor
<1>11. IdsOK'
  <2> DEFINE r == AtHandSent'
             ids == IdsSent(came, out)
  <2>1. idMap = ids
    BY <1>1 DEF IdsOK
  <2>2. r.for = next /\ r.meant = a /\ r.unseen = Queue(Decl)
    BY <1>3
  <2>3. /\ came[r.for].decl = Decl /\ WellSent(came[r.for], next) /\ came[r.for].args = a
        /\ r.meant = came[r.for].args
        /\ Decl.special = "delete_id" => r.unseen # <<>>
    BY <1>2, <1>4, <2>2
  <2>4. IdsSent(came', out') = ids
    BY <1>1
  <2>5. \A e \in AddedBy(Decl, a, Len(a)) : e[1] \in Nat
    <3>1. ASSUME NEW j \in 1..Len(a), a[j].type = "NewId"
          PROVE  Number(a[j].value) \in Nat
      <4>1. Legal(a[j])
        BY <1>2 DEF AllLegal
      <4>. QED BY <3>1, <4>1, OneNumber
    <3>. HIDE DEF a
    <3>. QED BY <3>1 DEF AddedBy
  <2>6. \A e \in idMap' : e[1] \in Nat
    BY <1>1, <2>5 DEF IdsOK
  <2>. HIDE DEF r, ids, a
  <2>7. Track(came, ids, r) = ids \union AddedBy(Decl, came[r.for].args, Len(came[r.for].args))
    <3>1. Opening(came, r, Decl, next)
      BY <1>2, <2>3 DEF Opening
    <3>. QED BY <3>1, TrackFirst
  <2>8. idMap' = Track(came', IdsSent(came', out'), r)
    BY <1>1, <2>1, <2>3, <2>4, <2>7
  <2>9. pc' # "idle"
    BY <1>1
  <2>. QED BY <2>6, <2>8, <2>9 DEF IdsOK, r
<1>12. MessageOK'
  <2>1. /\ dmsg'.decl = Decl /\ dmsg'.source = Source /\ dmsg'.fds = came[next].fds
        /\ ~dmsg'.modified /\ ~dmsg'.typeChanged
    <3> DEFINE no == FALSE
    <3>1. IsMsg(dmsg', Decl, Source, dmsg'.args, came[next].fds, no, no)
      BY <1>1
    <3>. HIDE DEF no
    <3>2. /\ dmsg'.decl = Decl /\ dmsg'.source = Source /\ dmsg'.fds = came[next].fds
          /\ dmsg'.modified = no /\ dmsg'.typeChanged = no
      BY <3>1, MsgFields
    <3>. QED BY <3>2 DEF no
  <2>2. dmsg' \in [decl : Decls, source : Seq(Word), args : Seq(ArgSet), fds : FdSeq,
                   modified : BOOLEAN, typeChanged : BOOLEAN]
    <3>1. dmsg'.args \in Seq(ArgSet)
      BY <1>1 DEF AllKept
    <3> DEFINE no == FALSE
               g == dmsg'.args
               f == came[next].fds
    <3>2. dmsg' = [decl |-> Decl, source |-> Source, args |-> g, fds |-> f,
                   modified |-> no, typeChanged |-> no]
      BY <1>1 DEF IsMsg
    <3>3. no \in BOOLEAN
      OBVIOUS
    <3>. HIDE DEF no, g, f
    <3>4. g \in Seq(ArgSet) /\ f \in FdSeq
      BY <1>2, <3>1 DEF g, f
    <3>. QED BY <1>2, <3>2, <3>3, <3>4
  <2>3. Decl.special = "global" => pc' = "handle"
    BY <1>1, <1>4
  <2>4. Len(Wire(next, Decl, a, 0)) <= MaxWords
    <3>1. \A k \in 1..Len(a) : Len(WireArg(a[k], Pad)) = Len(WireArg(a[k], 0))
      <4>1. \A k \in 1..Len(a) : Legal(a[k]) /\ a[k] \in ArgSet
        BY <1>2, ElementOfSeq DEF AllLegal
      <4>2. Pad \in Nat /\ 0 \in Nat
        BY DEF Pad
      <4>. QED BY <4>1, <4>2, PadLength
    <3>2. Decl.opcode \in Nat
      BY <1>2, Declared
    <3>3. Pad \in Nat
      BY DEF Pad
    <3>. HIDE DEF a
    <3>4. Len(Wire(next, Decl, a, Pad)) = Len(Wire(next, Decl, a, 0))
      <4>1. AsLong(a, Pad, a, 0)
        BY <1>2, <3>1, <3>3 DEF AsLong
      <4>. QED BY <1>2, <3>2, <4>1, WireLength
    <3>. QED BY <1>2, <3>4
  <2>5. came' = came /\ next' = next /\ addons' = addons /\ meant' = a
    BY <1>1
  <2>6. AllKept(dmsg'.args, meant', WireTypes(Decl'))
    BY <1>1, <1>3
  <2>7. Len(Wire(next', Decl', meant', 0)) <= MaxWords
    BY <1>3, <2>4, <2>5
  <2>. QED BY <1>3, <2>1, <2>2, <2>3, <2>5, <2>6, <2>7 DEF MessageOK
<1>. QED BY <1>5, <1>6, <1>7, <1>8, <1>9, <1>10, <1>11, <1>12

LEMMA PanicKeeps ==
    ASSUME CameOK, PlaceOK, TodoOK, FdsOK, OutOK, IdsOK, next <= Len(came), Panic
    PROVE  CameOK' /\ PlaceOK' /\ TodoOK' /\ MessageOK' /\ FdsOK' /\ OutOK' /\ IdsOK'
<1>1. /\ pc' = "panicked"
      /\ UNCHANGED <<debugLevel, addons, came, next, inFds, dmsg, todo, idMap, out, dropped, meant>>
  BY DEF Panic, config, history
<1>2. CameOK'
  BY <1>1 DEF CameOK
<1>3. PlaceOK'
  BY <1>1 DEF PlaceOK
<1>4. TodoOK'
  BY <1>1 DEF TodoOK, InHand
<1>5. MessageOK'
  BY <1>1 DEF MessageOK, InHand
<1>6. FdsOK'
  BY <1>1 DEF FdsOK
<1>7. OutOK'
  BY <1>1 DEF OutOK, SentAsMeant
<1>8. IdsOK'
  BY <1>1 DEF IdsOK, InHand
<1>. QED BY <1>2, <1>3, <1>4, <1>5, <1>6, <1>7, <1>8

\* Demarshalling panics for a null string, or for a bind that was not shown.
LEMMA RefusedCalledFor ==
    ASSUME CameOK, PlaceOK, OutOK, Refused
    PROVE  PanicsCalledFor'
<1> DEFINE a == came[next].args
           NullString == \E k \in DOMAIN a : a[k].type = "String" /\ a[k].value = Null
           Shown == \E k \in DOMAIN out :
               /\ came[out[k].for].decl.special = "global"
               /\ out[k].meant[2] = a[2] /\ Number(out[k].meant[3].value) >= Number(a[3].value)
<1>1. /\ pc = "idle" /\ next <= Len(came) /\ pc' = "panicked" /\ dmsg' = NoMessage
      /\ came' = came /\ next' = next /\ out' = out
  BY DEF Refused, Panic, PlaceOK, history
<1>2. /\ Decl \in Decls /\ Matches(a, Decl) /\ AllLegal(a)
  BY <1>1, AtHandFacts
<1>3. CASE HasNull(a, Len(a))
  <2>1. NullString
    <3>1. DOMAIN a = 1..Len(a)
      BY <1>2, LenProperties DEF AllLegal
    <3>. QED BY <1>3, <3>1 DEF HasNull, IsNull
  <2>. HIDE DEF Shown
  <2>. QED BY <1>1, <2>1 DEF PanicsCalledFor
<1>4. CASE Decl.special = "bind" /\ ~MayBind(a[2].value, Number(a[3].value))
  <2>1. Number(a[3].value) \in Nat
    <3> DEFINE w == <<"Uint", "String", "Uint", "NewId">>
    <3>1. WireTypes(Decl) = w
      BY <1>2, <1>4, Declared
    <3>2. Len(w) = 4 /\ w[3] = "Uint"
      OBVIOUS
    <3>. HIDE DEF w, a
    <3>3. Legal(a[3]) /\ a[3].type = "Uint"
      BY <1>2, <3>1, <3>2 DEF Matches, AllLegal
    <3>. QED BY <3>3, OneNumber
  <2>2. ~Shown
    <3>1. SUFFICES ASSUME NEW k \in DOMAIN out,
                          came[out[k].for].decl.special = "global",
                          out[k].meant[2] = a[2], Number(out[k].meant[3].value) >= Number(a[3].value)
                   PROVE  FALSE
      OBVIOUS
    <3>2. Within(out[k].meant)
      BY <3>1, SentBefore DEF OutOK, CameOK
    <3> DEFINE v == Number(out[k].meant[3].value)
               u == Number(a[3].value)
               name == a[2].value
    <3>3. name \in DOMAIN Limits /\ v \in Nat /\ v <= Limits[name]
      BY <3>1, <3>2 DEF Within
    <3>4. Limits[name] \in Nat
      BY <3>3, MediatorAssumption
    <3>5. u <= v /\ u \in Nat
      BY <2>1, <3>1
    <3>. HIDE DEF v, u, name
    <3>6. u <= Limits[name]
      BY <3>3, <3>4, <3>5
    <3>7. MayBind(name, u)
      BY <3>3, <3>6 DEF MayBind
    <3>. QED BY <1>4, <3>7 DEF name, u
  <2>3. Decl' = Decl
    BY <1>1 DEF Decl
  <2>. HIDE DEF NullString
  <2>. QED BY <1>1, <1>4, <2>2, <2>3 DEF PanicsCalledFor
<1>. QED BY <1>3, <1>4 DEF Refused

\* A panic later is an addon's.
LEMMA StoppedCalledFor ==
    ASSUME CameOK, PlaceOK, MessageOK, Stopped
    PROVE  PanicsCalledFor'
<1>1. InHand /\ addons > 0 /\ dmsg' = dmsg /\ addons' = addons
  BY DEF Stopped, Panic, config
<1>2. dmsg.source = Source /\ Len(Source) >= 2
  <2>1. next <= Len(came)
    BY <1>1 DEF PlaceOK, InHand
  <2>. QED BY <1>1, <2>1, HandFacts, AtHandFacts
<1>3. NoMessage.source = <<>> /\ Len(<<>>) = 0
  BY DEF NoMessage
<1>4. dmsg # NoMessage
  BY <1>2, <1>3
<1>. QED BY <1>1, <1>4 DEF PanicsCalledFor

-----------------------------------------------------------------------------
(* A handler is done with the message at hand.                             *)

LEMMA AnsweredKeeps ==
    ASSUME CameOK, PlaceOK, TodoOK, FdsOK, OutOK, Answered
    PROVE  /\ CameOK' /\ PlaceOK' /\ TodoOK' /\ FdsOK' /\ OutOK' /\ PanicsCalledFor'
           /\ Decl' = Decl /\ Source' = Source
<1>1. /\ pc = "handle" /\ pc' \in {"handle", "marshal"} /\ todo' = Tail(todo)
      /\ pc' = "handle" => todo' # <<>>
      /\ Decl.special \in {"global", "bind"} => pc' = "marshal"
      /\ UNCHANGED <<debugLevel, addons, came, next, inFds, out, dropped>>
  BY DEF Answered
<1>2. InHand
  BY <1>1 DEF InHand
<1>3. Decl' = Decl /\ Source' = Source
  BY <1>1 DEF Decl, Source
<1>4. CameOK'
  BY <1>1 DEF CameOK
<1>5. PlaceOK'
  BY <1>1 DEF PlaceOK
<1>6. FdsOK'
  BY <1>1 DEF FdsOK
<1>7. OutOK'
  BY <1>1 DEF OutOK, SentAsMeant
<1>8. PanicsCalledFor'
  BY <1>1 DEF PanicsCalledFor
<1>9. TodoOK'
  <2> DEFINE l == Len(todo)
             t == Tail(todo)
  <2>1. todo \in Seq(Handlers) /\ todo # <<>> /\ l \in Nat
    BY <1>1, LenProperties DEF TodoOK
  <2>2. /\ t \in Seq(Handlers) /\ Len(t) = l - 1 /\ \A i \in 1..Len(t) : t[i] = todo[i + 1]
    BY <2>1, HeadTailProperties
  <2>3. \A i \in 1..(l - 1) : i + 1 \in 1..l
    BY <2>1
  <2>4. /\ \A k \in 1..l : todo[k] = "addon" => addons > 0
        /\ Decl.special \in {"none", "sync"} => \A k \in 1..l : todo[k] = "addon"
        /\ Decl.special = "delete_id" => \A k \in 1..l : todo[k] = "builtin" <=> k = l
    BY <1>2 DEF TodoOK
  <2>. HIDE DEF l, t
  <2>5. \A k \in 1..Len(t) : t[k] = "addon" => addons > 0
    BY <2>2, <2>3, <2>4
  <2>6. Decl.special \in {"none", "sync"} => \A k \in 1..Len(t) : t[k] = "addon"
    BY <2>2, <2>3, <2>4
  <2>7. Decl.special = "delete_id" => \A k \in 1..Len(t) : t[k] = "builtin" <=> k = Len(t)
    <3>1. ASSUME Decl.special = "delete_id", NEW k \in 1..Len(t)
          PROVE  t[k] = "builtin" <=> k = Len(t)
      <4>1. t[k] = todo[k + 1] /\ k + 1 \in 1..l
        BY <2>2, <2>3
      <4>2. todo[k + 1] = "builtin" <=> k + 1 = l
        BY <2>4, <3>1, <4>1
      <4>3. k + 1 = l <=> k = Len(t)
        BY <2>1, <2>2
      <4>. QED BY <4>1, <4>2, <4>3
    <3>. QED BY <3>1
  <2>8. todo' = t /\ Decl' = Decl /\ addons' = addons
    BY <1>1, <1>3 DEF t
  <2>. QED BY <1>1, <2>2, <2>5, <2>6, <2>7, <2>8 DEF TodoOK
<1>. QED BY <1>3, <1>4, <1>5, <1>6, <1>7, <1>8, <1>9

LEMMA TrackKept ==
    ASSUME PlaceOK, IdsOK, Answered, UNCHANGED idMap,
           Decl.special = "bind" => meant' = meant,
           Decl.special = "delete_id" => todo # <<>> /\ todo' # <<>>
    PROVE  IdsOK'
<1> DEFINE r == AtHandSent
           r2 == AtHandSent'
           ids == IdsSent(came, out)
<1>1. /\ pc = "handle" /\ pc' \in {"handle", "marshal"} /\ InHand
      /\ came' = came /\ next' = next /\ out' = out
  BY DEF Answered, InHand
<1>2. /\ r.for = next /\ r.meant = meant /\ r.unseen = todo
      /\ r2.for = next /\ r2.meant = meant' /\ r2.unseen = todo'
  BY <1>1 DEF AtHandSent
<1>3. came[r.for].decl = Decl
  BY <1>2 DEF Decl
<1>4. idMap = Track(came, ids, r)
  BY <1>1 DEF IdsOK
<1>. HIDE DEF r, r2, ids
<1>5. Track(came, ids, r2) = Track(came, ids, r)
  <2>1. r2.for = r.for
    BY <1>2
  <2>2. came[r.for].decl.special = "bind" => r2.meant = r.meant
    BY <1>2, <1>3
  <2>3. came[r.for].decl.special = "delete_id" => r.unseen # <<>> /\ r2.unseen # <<>>
    BY <1>2, <1>3
  <2>. QED BY <2>1, <2>2, <2>3, TrackSame
<1>6. idMap' = Track(came', IdsSent(came', out'), r2)
  BY <1>1, <1>4, <1>5 DEF ids
<1>. QED BY <1>1, <1>6 DEF IdsOK, r2

LEMMA SeenKeeps ==
    ASSUME CameOK, PlaceOK, TodoOK, MessageOK, FdsOK, OutOK, IdsOK, Seen
    PROVE  /\ CameOK' /\ PlaceOK' /\ TodoOK' /\ MessageOK' /\ FdsOK' /\ PanicsCalledFor'
           /\ OutOK' /\ IdsOK'
<1>1. /\ Answered /\ Decl.special # "global" /\ pc = "handle" /\ pc' \in {"handle", "marshal"}
      /\ Decl.special = "delete_id" => todo # <<>> /\ todo' # <<>>
      /\ dmsg' = dmsg /\ meant' = meant /\ idMap' = idMap
      /\ came' = came /\ next' = next /\ addons' = addons
  BY DEF Seen, Answered
<1>2. InHand /\ InHand'
  BY <1>1 DEF InHand
<1>3. /\ CameOK' /\ PlaceOK' /\ TodoOK' /\ FdsOK' /\ OutOK' /\ PanicsCalledFor'
      /\ Decl' = Decl /\ Source' = Source
  BY <1>1, <1>2, AnsweredKeeps
<1>4. IdsOK'
  BY <1>1, TrackKept
<1>5. MessageOK'
  BY <1>1, <1>2, <1>3 DEF MessageOK
<1>. QED BY <1>3, <1>4, <1>5

LEMMA RemovedKeeps ==
    ASSUME CameOK, PlaceOK, TodoOK, MessageOK, FdsOK, OutOK, IdsOK, Removed
    PROVE  /\ CameOK' /\ PlaceOK' /\ TodoOK' /\ MessageOK' /\ FdsOK' /\ PanicsCalledFor'
           /\ OutOK' /\ IdsOK'
<1>1. /\ Answered /\ Decl.special = "delete_id" /\ pc = "handle" /\ pc' \in {"handle", "marshal"}
      /\ todo' = <<>> /\ todo # <<>>
      /\ dmsg' = dmsg /\ meant' = meant
      /\ idMap' = {e \in idMap : e[1] # Number(meant[1].value)}
      /\ came' = came /\ next' = next /\ addons' = addons /\ out' = out
  BY DEF Removed, Answered, TodoOK
<1>2. InHand /\ InHand'
  BY <1>1 DEF InHand
<1>3. /\ CameOK' /\ PlaceOK' /\ TodoOK' /\ FdsOK' /\ OutOK' /\ PanicsCalledFor'
      /\ Decl' = Decl /\ Source' = Source
  BY <1>1, <1>2, AnsweredKeeps
<1>4. MessageOK'
  BY <1>1, <1>2, <1>3 DEF MessageOK
<1>5. IdsOK'
  <2> DEFINE r == AtHandSent
             r2 == AtHandSent'
             ids == IdsSent(came, out)
  <2>1. /\ r.for = next /\ r.meant = meant /\ r.unseen = todo
        /\ r2.for = next /\ r2.meant = meant /\ r2.unseen = <<>>
    BY <1>1 DEF AtHandSent
  <2>2. came[next].decl = Decl /\ Decl.special = "delete_id"
    BY <1>1 DEF Decl
  <2>3. idMap = Track(came, ids, r)
    BY <1>2 DEF IdsOK
  <2>4. Created(came[next].args) = {}
    <3>1. Decl \in Decls /\ Matches(came[next].args, Decl)
      <4>1. next <= Len(came)
        BY <1>1 DEF PlaceOK
      <4>. QED BY <4>1, AtHandFacts
    <3>2. Len(WireTypes(Decl)) = 1 /\ WireTypes(Decl)[1] = "Uint"
      BY <1>1, <1>2, DeleteArgs
    <3>3. DOMAIN came[next].args = 1..1 /\ came[next].args[1].type = "Uint"
      BY <3>1, <3>2, LenProperties DEF Matches, AllLegal
    <3>4. {j \in DOMAIN came[next].args : came[next].args[j].type = "NewId"} = {}
      BY <3>3
    <3>. QED BY <3>4 DEF Created
  <2>. HIDE DEF r, r2, ids
  <2>5. Track(came, ids, r) = ids
    <3>1. came[r.for].decl.special = "delete_id" /\ r.unseen # <<>> /\ Created(came[r.for].args) = {}
      BY <1>1, <2>1, <2>2, <2>4
    <3> DEFINE i == IF came[r.for].decl.special = "bind" THEN r.meant[2].value
                    ELSE came[r.for].decl.newId
    <3>2. Track(came, ids, r) = ids \union {<<id, i>> : id \in Created(came[r.for].args) \ {HandshakeId}}
      BY <3>1 DEF Track
    <3>. HIDE DEF i
    <3>. QED BY <3>1, <3>2
  <2>6. Track(came, ids, r2) = {e \in ids : e[1] # Number(meant[1].value)}
    BY <2>1, <2>2 DEF Track
  <2>7. idMap' = Track(came', IdsSent(came', out'), r2)
    BY <1>1, <2>3, <2>5, <2>6 DEF ids
  <2>8. \A e \in idMap' : e[1] \in Nat
    BY <1>1 DEF IdsOK
  <2>. QED BY <1>1, <2>7, <2>8 DEF IdsOK, r2
<1>. QED BY <1>3, <1>4, <1>5

\* What the message at hand is when an argument of it was changed.
LEMMA ChangedMessage ==
    ASSUME CameOK, PlaceOK, MessageOK, InHand, NEW k \in 1..Len(WireTypes(Decl)), NEW a \in ArgSet,
           NEW how, dmsg' = Changed(k, a, how)
    PROVE  /\ dmsg' \in [decl : Decls, source : Seq(Word), args : Seq(ArgSet), fds : FdSeq,
                         modified : BOOLEAN, typeChanged : BOOLEAN]
           /\ dmsg'.decl = Decl /\ dmsg'.source = Source /\ dmsg'.fds = came[next].fds
           /\ dmsg'.args = [dmsg.args EXCEPT ![k] = a] /\ dmsg'.modified
           /\ how = "set_arg" /\ ~dmsg.typeChanged => ~dmsg'.typeChanged
<1> DEFINE yes == TRUE
           t == dmsg.typeChanged \/ how = "get_arg_mut"
           x == dmsg.modified
           y == dmsg.typeChanged
           g == dmsg.args
           g2 == [g EXCEPT ![k] = a]
           f == came[next].fds
<1>1. dmsg' = Puts(dmsg, k, a, yes, t)
  BY DEF Changed, Puts
<1>2. /\ dmsg.decl = Decl /\ dmsg.source = Source /\ dmsg.fds = f
      /\ DOMAIN g = 1..Len(WireTypes(Decl)) /\ g \in Seq(ArgSet) /\ Decl \in Decls
      /\ Source \in Seq(Word) /\ f \in FdSeq
  <2>1. next <= Len(came)
    BY DEF PlaceOK, InHand
  <2>. QED BY <2>1, HandFacts, AtHandFacts DEF AllKept
<1>3. IsMsg(dmsg, Decl, Source, g, f, x, y)
  <2>1. dmsg \in [decl : Decls, source : Seq(Word), args : Seq(ArgSet), fds : FdSeq,
                  modified : BOOLEAN, typeChanged : BOOLEAN]
    BY DEF MessageOK
  <2>2. dmsg = [decl |-> dmsg.decl, source |-> dmsg.source, args |-> dmsg.args, fds |-> dmsg.fds,
                modified |-> dmsg.modified, typeChanged |-> dmsg.typeChanged]
    BY <2>1
  <2>. QED BY <1>2, <2>2 DEF IsMsg
<1>4. yes \in BOOLEAN /\ t \in BOOLEAN
  OBVIOUS
<1>5. g2 \in Seq(ArgSet)
  BY <1>2, ExceptSeq
<1>6. how = "set_arg" => t = y
  <2>1. how = "set_arg" => (t <=> y)
    OBVIOUS
  <2>2. y \in BOOLEAN
    BY DEF MessageOK
  <2>. QED BY <1>4, <2>1, <2>2
<1>. HIDE DEF yes, t, x, y, g, g2, f
<1>7. IsMsg(dmsg', Decl, Source, [g EXCEPT ![k] = a], f, yes, t)
  BY <1>1, <1>3, MsgPuts
<1>8. IsMsg(dmsg', Decl, Source, g2, f, yes, t)
  BY <1>7 DEF g2
<1>9. /\ dmsg'.decl = Decl /\ dmsg'.source = Source /\ dmsg'.args = g2 /\ dmsg'.fds = f
      /\ dmsg'.modified = yes /\ dmsg'.typeChanged = t
  BY <1>8, MsgFields
<1>10. dmsg' \in [decl : Decls, source : Seq(Word), args : Seq(ArgSet), fds : FdSeq,
                  modified : BOOLEAN, typeChanged : BOOLEAN]
  BY <1>2, <1>4, <1>5, <1>8 DEF IsMsg
<1>11. how = "set_arg" /\ ~y => ~dmsg'.typeChanged
  BY <1>6, <1>9
<1>. QED BY <1>9, <1>10, <1>11 DEF f, g, g2, yes, y

\* The message at hand and what it is meant to be stay together.
LEMMA KeptTogether ==
    ASSUME NEW xs, NEW ys, NEW types, AllKept(xs, ys, types), NEW k \in 1..Len(types),
           types[k] \notin {"NewId", "Fd"}, NEW a \in ArgSet, Legal(a), ~IsNull(a)
    PROVE  AllKept([xs EXCEPT ![k] = a], [ys EXCEPT ![k] = a], types)
<1> DEFINE xs2 == [xs EXCEPT ![k] = a]
           ys2 == [ys EXCEPT ![k] = a]
<1>1. /\ xs \in Seq(ArgSet) /\ ys \in Seq(ArgSet)
      /\ types \in Seq({"NewId", "Fd"} \union DOMAIN Values)
      /\ Len(xs) = Len(types) /\ Len(ys) = Len(types)
      /\ \A j \in 1..Len(types) : Kept(xs[j], ys[j], types[j])
  BY DEF AllKept
<1>2. k \in 1..Len(xs) /\ k \in 1..Len(ys)
  BY <1>1
<1>3. /\ xs2 \in Seq(ArgSet) /\ Len(xs2) = Len(xs) /\ xs2[k] = a
      /\ \A j \in 1..Len(xs) : j # k => xs2[j] = xs[j]
  BY <1>1, <1>2, ExceptSeq
<1>4. /\ ys2 \in Seq(ArgSet) /\ Len(ys2) = Len(ys) /\ ys2[k] = a
      /\ \A j \in 1..Len(ys) : j # k => ys2[j] = ys[j]
  BY <1>1, <1>2, ExceptSeq
<1>. HIDE DEF xs2, ys2
<1>5. ASSUME NEW j \in 1..Len(types)
      PROVE  Kept(xs2[j], ys2[j], types[j])
  <2>1. CASE j = k
    BY <1>3, <1>4, <2>1 DEF Kept
  <2>2. CASE j # k
    BY <1>1, <1>3, <1>4, <2>2
  <2>. QED BY <2>1, <2>2
<1>6. AllKept(xs2, ys2, types)
  BY <1>1, <1>3, <1>4, <1>5 DEF AllKept
<1>. QED BY <1>6 DEF xs2, ys2

\* Values that handlers put are legal.
LEMMA NewLegal ==
    ASSUME NEW type \in DOMAIN NewValues, NEW v \in NewValues[type]
    PROVE  Arg(type, v) \in ArgSet /\ Legal(Arg(type, v)) /\ ~IsNull(Arg(type, v))
<1>1. HasType(v, type) /\ Null \notin Seq(Nat)
  BY MediatorAssumption DEF ValuesAssumption
<1>2. Seq(Nat \ {0}) \subseteq Seq(Nat)
  BY SeqMonotonic
<1>3. v \in Seq(Nat)
  BY <1>1, <1>2 DEF HasType
<1>. QED BY <1>1, <1>3 DEF Arg, ArgSet, Legal, IsNull

LEMMA GivenKeeps ==
    ASSUME CameOK, PlaceOK, TodoOK, MessageOK, FdsOK, OutOK, IdsOK,
           NEW k, NEW type, NEW v, NEW how, Given(k, type, v, how)
    PROVE  /\ CameOK' /\ PlaceOK' /\ TodoOK' /\ MessageOK' /\ FdsOK' /\ PanicsCalledFor'
           /\ OutOK' /\ IdsOK'
<1> DEFINE a == Arg(type, v)
<1>1. /\ Answered /\ Decl.special \notin {"global", "bind"} /\ pc = "handle"
      /\ pc' \in {"handle", "marshal"} /\ addons > 0
      /\ Decl.special = "delete_id" => todo # <<>> /\ todo' # <<>>
      /\ k \in 1..Len(WireTypes(Decl)) /\ WireTypes(Decl)[k] \notin {"NewId", "Fd"}
      /\ dmsg' = Changed(k, a, how) /\ meant' = [meant EXCEPT ![k] = a] /\ idMap' = idMap
      /\ came' = came /\ next' = next /\ addons' = addons
  BY DEF Given, Answered
<1>2. InHand /\ InHand'
  BY <1>1 DEF InHand
<1>3. /\ CameOK' /\ PlaceOK' /\ TodoOK' /\ FdsOK' /\ OutOK' /\ PanicsCalledFor'
      /\ Decl' = Decl /\ Source' = Source
  BY <1>1, AnsweredKeeps
<1>4. IdsOK'
  BY <1>1, TrackKept
<1>5. a \in ArgSet /\ Legal(a) /\ ~IsNull(a)
  BY NewLegal DEF Given
<1>. HIDE DEF a
<1>6. /\ dmsg' \in [decl : Decls, source : Seq(Word), args : Seq(ArgSet), fds : FdSeq,
                    modified : BOOLEAN, typeChanged : BOOLEAN]
      /\ dmsg'.decl = Decl /\ dmsg'.source = Source /\ dmsg'.fds = came[next].fds
      /\ dmsg'.args = [dmsg.args EXCEPT ![k] = a] /\ dmsg'.modified
  BY <1>1, <1>2, <1>5, ChangedMessage
<1>7. AllKept(dmsg'.args, meant', WireTypes(Decl))
  <2>1. AllKept(dmsg.args, meant, WireTypes(Decl))
    BY <1>2 DEF MessageOK
  <2>2. AllKept([dmsg.args EXCEPT ![k] = a], [meant EXCEPT ![k] = a], WireTypes(Decl))
    BY <1>1, <1>5, <2>1, KeptTogether
  <2>. QED BY <1>1, <1>6, <2>2
<1>8. addons' # 0 /\ pc' # "relay"
  BY <1>1 DEF PlaceOK
<1>9. MessageOK'
  BY <1>1, <1>3, <1>6, <1>7, <1>8 DEF MessageOK
<1>. QED BY <1>3, <1>4, <1>9

LEMMA LimitedKeeps ==
    ASSUME CameOK, PlaceOK, TodoOK, MessageOK, FdsOK, OutOK, IdsOK, NEW shown, Limited(shown)
    PROVE  /\ CameOK' /\ PlaceOK' /\ TodoOK' /\ MessageOK' /\ FdsOK' /\ PanicsCalledFor'
           /\ OutOK' /\ IdsOK'
<1> DEFINE a == Arg("Uint", <<shown>>)
<1>1. /\ Answered /\ Decl.special = "global" /\ pc = "handle" /\ pc' = "marshal"
      /\ meant[2].value \in DOMAIN Limits /\ shown \in Nat /\ shown <= Limits[meant[2].value]
      /\ meant' = [meant EXCEPT ![3] = a] /\ idMap' = idMap
      /\ \/ shown = Number(dmsg.args[3].value) /\ dmsg' = dmsg
         \/ dmsg' = Changed(3, a, "set_arg")
      /\ came' = came /\ next' = next /\ addons' = addons
  BY DEF Limited, Answered
<1>2. InHand /\ InHand'
  BY <1>1 DEF InHand
<1>3. /\ CameOK' /\ PlaceOK' /\ TodoOK' /\ FdsOK' /\ OutOK' /\ PanicsCalledFor'
      /\ Decl' = Decl /\ Source' = Source
  BY <1>1, AnsweredKeeps
<1>4. IdsOK'
  BY <1>1, TrackKept
<1>5. a \in ArgSet /\ Legal(a) /\ ~IsNull(a) /\ a.type = "Uint" /\ a.value = <<shown>>
  <2>1. "Uint" \in DOMAIN Values
    BY MediatorAssumption DEF ValuesAssumption
  <2>2. <<shown>> \in Seq(Nat) /\ Len(<<shown>>) = 1
    BY <1>1
  <2>. QED BY <2>1, <2>2 DEF ArgSet, Arg, Legal, IsNull, HasType
<1>6. /\ Len(WireTypes(Decl)) = 3 /\ WireTypes(Decl)[3] = "Uint" /\ meant = came[next].args
      /\ dmsg.args[2] = meant[2] /\ dmsg.args[3] = meant[3]
      /\ Number(meant[3].value) \in Nat /\ meant[3].type = "Uint"
  BY <1>1, GlobalArgs
<1>7. /\ AllKept(dmsg.args, meant, WireTypes(Decl)) /\ AllLegal(meant)
      /\ DOMAIN meant = 1..3 /\ Len(meant) = 3 /\ meant \in Seq(ArgSet) /\ next \in Nat /\ Decl \in Decls
  BY <1>2, <1>6, HandFacts DEF AllLegal
<1>8. 3 \in 1..3 /\ 3 \in 1..Len(WireTypes(Decl))
  BY <1>6
<1>9. Within(meant')
  <2>1. meant'[2] = meant[2] /\ meant'[3] = a
    BY <1>1, <1>7
  <2>2. Number(a.value) = shown
    BY <1>5 DEF Number
  <2>. HIDE DEF a
  <2>. QED BY <1>1, <2>1, <2>2 DEF Within
<1>10. AllLegal(meant') /\ Len(meant') = 3
       /\ \A k \in 1..3 : Len(WireArg(meant'[k], 0)) = Len(WireArg(meant[k], 0))
  <2> DEFINE m2 == [meant EXCEPT ![3] = a]
  <2>. HIDE DEF a
  <2>1. /\ m2 \in Seq(ArgSet) /\ Len(m2) = 3 /\ m2[3] = a
        /\ \A k \in 1..3 : k # 3 => m2[k] = meant[k]
    <3> DEFINE i == 3
    <3>1. i \in 1..Len(meant)
      BY <1>7
    <3>. HIDE DEF i
    <3>2. a \in ArgSet /\ meant \in Seq(ArgSet)
      BY <1>5, <1>7
    <3>3. /\ [meant EXCEPT ![i] = a] \in Seq(ArgSet) /\ Len([meant EXCEPT ![i] = a]) = Len(meant)
          /\ \A j \in 1..Len(meant) : [meant EXCEPT ![i] = a][j] = IF j = i THEN a ELSE meant[j]
      <4>. HIDE DEF ArgSet
      <4>. QED BY ONLY <3>1, <3>2, ExceptSeq
    <3>. QED BY <1>7, <3>3 DEF i, m2
  <2>. HIDE DEF m2
  <2>2. \A k \in 1..3 : Legal(m2[k])
    <3>1. \A k \in 1..3 : Legal(meant[k])
      BY <1>7 DEF AllLegal
    <3>. QED BY <1>5, <2>1, <3>1
  <2>3. Len(WireArg(a, 0)) = Len(WireArg(meant[3], 0))
    <3>1. WireArg(a, 0) = <<a.value>> /\ WireArg(meant[3], 0) = <<meant[3].value>>
      BY <1>5, <1>6 DEF WireArg
    <3>. QED BY <3>1
  <2>4. \A k \in 1..3 : Len(WireArg(m2[k], 0)) = Len(WireArg(meant[k], 0))
    BY <2>1, <2>3
  <2>5. meant' = m2
    BY <1>1 DEF m2
  <2>. QED BY <2>1, <2>2, <2>4, <2>5 DEF AllLegal
<1>11. addons = 0 => Len(Wire(next, Decl, meant', 0)) <= MaxWords
  <2>1. SUFFICES ASSUME addons = 0
                 PROVE  Len(Wire(next, Decl, meant', 0)) <= MaxWords
    OBVIOUS
  <2>2. Len(Wire(next, Decl, meant, 0)) <= MaxWords
    BY <1>2, <2>1 DEF MessageOK
  <2>3. AsLong(meant', 0, meant, 0)
    BY <1>7, <1>10 DEF AsLong
  <2>4. Decl.opcode \in Nat
    BY <1>7, Declared
  <2>5. Len(Wire(next, Decl, meant', 0)) = Len(Wire(next, Decl, meant, 0))
    <3>1. next \in Nat
      BY <1>7
    <3>. QED BY ONLY <2>3, <2>4, <3>1, WireLength
  <2>. QED BY <2>2, <2>5
<1>12. ASSUME shown = Number(dmsg.args[3].value) /\ dmsg' = dmsg
       PROVE  MessageOK'
  <2>1. meant[3] = a
    <3>1. meant[3] = [type |-> meant[3].type, value |-> meant[3].value]
      <4>1. meant[3] \in ArgSet
        BY <1>7, <1>8, ElementOfSeq
      <4>. QED BY <4>1 DEF ArgSet
    <3>2. meant[3].value = <<shown>>
      <4>1. Legal(meant[3])
        BY <1>7, <1>8 DEF AllLegal
      <4>. QED BY <1>6, <1>12, <4>1, OneNumber
    <3>. QED BY <1>6, <3>1, <3>2 DEF Arg
  <2>2. meant' = meant
    <3>. HIDE DEF a
    <3>. QED BY <1>1, <1>7, <2>1
  <2>. QED BY <1>1, <1>2, <1>3, <1>6, <1>9, <1>11, <1>12, <2>2 DEF MessageOK
<1>13. ASSUME dmsg' = Changed(3, a, "set_arg")
       PROVE  MessageOK'
  <2>. HIDE DEF a
  <2> DEFINE how == "set_arg"
             k == 3
  <2>1. dmsg' = Changed(k, a, how) /\ k \in 1..Len(WireTypes(Decl))
    BY <1>8, <1>13
  <2>2. how = "set_arg" /\ k = 3
    OBVIOUS
  <2>. HIDE DEF how, k
  <2>3. /\ dmsg' \in [decl : Decls, source : Seq(Word), args : Seq(ArgSet), fds : FdSeq,
                      modified : BOOLEAN, typeChanged : BOOLEAN]
        /\ dmsg'.decl = Decl /\ dmsg'.source = Source /\ dmsg'.fds = came[next].fds
        /\ dmsg'.args = [dmsg.args EXCEPT ![k] = a] /\ dmsg'.modified
        /\ how = "set_arg" /\ ~dmsg.typeChanged => ~dmsg'.typeChanged
    BY <1>2, <1>5, <2>1, ChangedMessage
  <2>4. AllKept(dmsg'.args, meant', WireTypes(Decl))
    <3>1. AllKept([dmsg.args EXCEPT ![k] = a], [meant EXCEPT ![k] = a], WireTypes(Decl))
      <4>1. WireTypes(Decl)[k] \notin {"NewId", "Fd"}
        BY <1>6, <2>2
      <4>. QED BY <1>5, <1>7, <2>1, <4>1, KeptTogether
    <3>2. meant' = [meant EXCEPT ![k] = a]
      BY <1>1, <2>2
    <3>. QED BY <2>3, <3>1, <3>2
  <2>5. addons = 0 => ~dmsg'.typeChanged
    BY <1>2, <2>2, <2>3 DEF MessageOK
  <2>6. came'[next'].fds = came[next].fds
    BY <1>1
  <2>. QED BY <1>1, <1>3, <1>9, <1>11, <2>3, <2>4, <2>5, <2>6 DEF MessageOK
<1>. QED BY <1>1, <1>3, <1>4, <1>12, <1>13

-----------------------------------------------------------------------------
(* The invariant, and what follows from it.                                *)

LEMMA InitInv == Init => IInv
<1>. SUFFICES ASSUME Init PROVE IInv
  OBVIOUS
<1>1. /\ came = <<>> /\ next = 1 /\ pc = "idle" /\ dmsg = NoMessage /\ todo = <<>>
      /\ out = <<>> /\ dropped = {} /\ meant = <<>> /\ idMap = TrackBase
      /\ inFds = [side \in Sides |-> <<>>]
      /\ debugLevel \in Nat /\ addons \in Nat
  BY MediatorAssumption DEF Init, TrackBase, Sides
<1>2. Len(<<>>) = 0 /\ DOMAIN <<>> = 1..0 /\ \A S : <<>> \in Seq(S)
  OBVIOUS
<1>3. 1..0 = {} /\ 1..1 = {1}
  OBVIOUS
<1>4. CameOK
  <2>1. IdsOf(came) = {}
    BY <1>1, <1>2, <1>3 DEF IdsOf
  <2>2. IsFiniteSet(IdsOf(came)) /\ Cardinality(IdsOf(came)) = 0
    BY <2>1, FS_EmptySet
  <2>3. MsgBound \in Nat
    BY MediatorAssumption
  <2>4. came \in Seq(Received) /\ Len(came) = 0 /\ 1..Len(came) = {}
    BY <1>1, <1>2, <1>3
  <2>. QED BY <2>2, <2>3, <2>4 DEF CameOK
<1>5. PlaceOK
  BY <1>1, <1>2 DEF PlaceOK
<1>6. TodoOK
  BY <1>1, <1>2, <1>3 DEF TodoOK, InHand
<1>7. MessageOK
  BY <1>1 DEF MessageOK, InHand
<1>8. FdsOK
  <2>1. ASSUME NEW side \in Sides
        PROVE  FdsFrom(came, side, 1) = <<>>
    <3> DEFINE s == [k \in 1..0 |-> IF came[1 + k - 1].decl.from = side
                                    THEN came[1 + k - 1].fds ELSE <<>>]
    <3>1. Len(came) + 1 - 1 = 0
      BY <1>1, <1>2
    <3>2. FdsFrom(came, side, 1) = FlattenSeq(s)
      BY <3>1 DEF FdsFrom
    <3>3. s = <<>>
      BY <1>3
    <3>. QED BY <3>2, <3>3, FlattenEmpty
  <2>2. inFds \in [Sides -> FdSeq] /\ \A side \in Sides : inFds[side] = <<>>
    BY <1>1, <1>2 DEF FdSeq
  <2>. QED BY <1>1, <2>1, <2>2 DEF FdsOK
<1>9. OutOK
  <2>1. DOMAIN out = {} /\ 1..Len(out) = {} /\ 1..(next - 1) = {} /\ out \in Seq(SentSet)
    BY <1>1, <1>2, <1>3
  <2>2. SentAsMeant
    BY <1>1, <2>1 DEF SentAsMeant
  <2>. QED BY <2>1, <2>2 DEF OutOK
<1>10. IdsOK
  BY <1>1, IdsSentEmpty DEF IdsOK, InHand, TrackBase
<1>11. PanicsCalledFor
  BY <1>1 DEF PanicsCalledFor
<1>. QED BY <1>4, <1>5, <1>6, <1>7, <1>8, <1>9, <1>10, <1>11 DEF IInv

LEMMA NextInv == IInv /\ [Next]_vars => IInv'
<1>. SUFFICES ASSUME IInv, [Next]_vars PROVE IInv'
  OBVIOUS
<1>. CameOK /\ PlaceOK /\ TodoOK /\ MessageOK /\ FdsOK /\ OutOK /\ IdsOK /\ PanicsCalledFor
  BY DEF IInv
<1>1. CASE Next
  <2>1. CASE \E d \in Decls : Come(d)
    <3>1. PICK d \in Decls : Come(d)
      BY <2>1
    <3>2. PICK m : ComesAs(m)
      BY <3>1, ComeSteps
    <3>. QED BY <3>2, CameComes, ComesKeeps DEF IInv
  <2>2. CASE Passed
    BY <2>2, PassedKeeps DEF IInv
  <2>3. CASE Started
    BY <2>3, StartedKeeps DEF IInv
  <2>4. CASE Refused
    <3>1. next <= Len(came) /\ Panic
      BY <2>4 DEF Refused
    <3>. QED BY <2>4, <3>1, PanicKeeps, RefusedCalledFor DEF IInv
  <2>5. CASE Seen
    BY <2>5, SeenKeeps DEF IInv
  <2>6. CASE \E k, type, v, how : Given(k, type, v, how)
    <3>1. PICK k, type, v, how : Given(k, type, v, how)
      BY <2>6
    <3>. QED BY <3>1, GivenKeeps DEF IInv
  <2>7. CASE \E shown : Limited(shown)
    <3>1. PICK shown : Limited(shown)
      BY <2>7
    <3>. QED BY <3>1, LimitedKeeps DEF IInv
  <2>8. CASE Removed
    BY <2>8, RemovedKeeps DEF IInv
  <2>9. CASE Lost
    BY <2>9, LostAllKept DEF IInv
  <2>10. CASE \E words : GoesOn(words)
    <3>1. PICK words : GoesOn(words)
      BY <2>10
    <3>. QED BY <3>1, GoesOnKeeps DEF IInv
  <2>11. CASE Stopped
    <3>1. next <= Len(came) /\ Panic
      BY <2>11 DEF Stopped, InHand, PlaceOK
    <3>. QED BY <2>11, <3>1, PanicKeeps, StoppedCalledFor DEF IInv
  <2>. QED BY <1>1, <2>1, <2>2, <2>3, <2>4, <2>5, <2>6, <2>7, <2>8, <2>9, <2>10, <2>11, Steps
<1>2. CASE UNCHANGED vars
  <2>1. UNCHANGED <<debugLevel, addons, came, next, inFds, pc, dmsg, todo, idMap, out,
                    dropped, meant>>
    BY <1>2 DEF vars, config, history
  <2>2. Decl' = Decl /\ Source' = Source /\ InHand' = InHand /\ AtHandSent' = AtHandSent
    BY <2>1 DEF Decl, Source, InHand, AtHandSent
  <2>3. CameOK' /\ PlaceOK'
    BY <2>1 DEF CameOK, PlaceOK
  <2>4. TodoOK'
    BY <2>1, <2>2 DEF TodoOK
  <2>5. MessageOK'
    BY <2>1, <2>2 DEF MessageOK
  <2>6. FdsOK'
    BY <2>1 DEF FdsOK
  <2>7. OutOK'
    BY <2>1 DEF OutOK, SentAsMeant
  <2>8. IdsOK'
    BY <2>1, <2>2 DEF IdsOK
  <2>9. PanicsCalledFor'
    BY <2>1, <2>2 DEF PanicsCalledFor
  <2>. QED BY <2>3, <2>4, <2>5, <2>6, <2>7, <2>8, <2>9 DEF IInv
<1>. QED BY <1>1, <1>2

\* The invariant holds of every state that the mediator reaches.
THEOREM Invariant == Spec => []IInv
<1>. QED BY InitInv, NextInv, PTL DEF Spec

\* A message in hand is of the declaration it came with, with as many arguments as its
\* handlers were to leave, and is the next one that was not mediated.
THEOREM TypeCorrect == Spec => []TypeOK
<1>1. IInv => TypeOK
  <2>. SUFFICES ASSUME IInv PROVE TypeOK
    OBVIOUS
  <2>1. InHand => dmsg.decl = Decl /\ Len(dmsg.args) = Len(meant)
    BY HandFacts DEF IInv
  <2>. QED BY <2>1 DEF IInv, PlaceOK, TodoOK, IdsOK, InHand, TypeOK
<1>. QED BY <1>1, Invariant, PTL

\* For all declarations and all values: what demarshals, goes through handlers and is
\* marshalled again has the words of the arguments that they left, and the descriptors
\* it came with (src/src/mediator.rs with src/src/message.rs).
THEOREM SentWhole == Spec => []SentAsMeant
<1>1. IInv => SentAsMeant
  BY DEF IInv, OutOK
<1>. QED BY <1>1, Invariant, PTL

\* The fast track, debug output and handlers leave the same ids behind.
THEOREM IdsKept == Spec => []IdsTracked
<1>1. IInv => IdsTracked
  BY DEF IInv, IdsOK, IdsTracked
<1>. QED BY <1>1, Invariant, PTL

\* Without a handler that does what it must not, only a null string and a bind of what
\* was not shown make mediate panic.
THEOREM PanicsExplained == Spec => []PanicsCalledFor
<1>1. IInv => PanicsCalledFor
  BY DEF IInv
<1>. QED BY <1>1, Invariant, PTL

=============================================================================
