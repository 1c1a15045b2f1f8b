--------------------------- MODULE OutBufferProofs ---------------------------
(***************************************************************************)
(* Proofs about OutBuffer, for every size of chunk, number of descriptors  *)
(* per send and per message, and set of messages that satisfies            *)
(* OutAssumption.  The inductive invariant IInv is the conjunction of the  *)
(* invariants of OutBuffer except StreamInOrder; FdsSentWithWords follows  *)
(* from it, and StreamInOrder is proved on top of it at the end.           *)
(***************************************************************************)
EXTENDS OutBuffer, SequenceTheorems, SequenceLemmas, TLAPS

Buffer == [active : Seq(Chunk), free : Seq(Chunk)]

ChunkLimit == IF LimitSends THEN MaxWords ELSE ChunkSize

\* The state of the chunk lists between the operations that change them, except
\* for the length of the end chunk.
WellFormed(b) ==
    /\ b \in Buffer
    /\ b.active # <<>>
    /\ \A i \in 1..(Len(b.active) - 1) :
          b.active[i] # <<>> /\ Len(b.active[i]) <= ChunkLimit
    /\ Len(b.free) <= AllowedExcess
    /\ \A i \in 1..Len(b.free) : b.free[i] = <<>>

EndLen(b) == Len(b.active[Len(b.active)])

\* The descriptors sent once i more chunks were, when f are already.
Reach(f, i) == f + i * MaxFds

\* FdsTravelWithData of chunks cs, with f descriptors sent and a accepted.
Covered(cs, f, a) ==
    \A i \in 1..Len(cs) : \A j \in 1..Len(cs[i]) :
        /\ cs[i][j].msg.lastFd <= Reach(f, i)
        /\ cs[i][j].msg.lastFd <= a

IInv ==
    /\ TypeOK
    /\ ChunksFit
    /\ RecycledAreEmpty
    /\ NoEmptyChunkAhead
    /\ WaitMeansPending
    /\ FdsFitChunks
    /\ FdsInOrder
    /\ FdsTravelWithData

-----------------------------------------------------------------------------
\* Extending the end chunk leaves the others alone.
LEMMA ExtendProps ==
    ASSUME NEW b \in Buffer, b.active # <<>>, NEW ws \in Chunk
    PROVE  LET r == Extend(b, ws)
               n == Len(b.active)
           IN  /\ r \in Buffer
               /\ r.free = b.free
               /\ Len(r.active) = n
               /\ r.active # <<>>
               /\ r.active[n] = b.active[n] \o ws
               /\ \A i \in 1..(n - 1) : r.active[i] = b.active[i]
<1> DEFINE n == Len(b.active)
           e == b.active[n] \o ws
<1>1. n \in Nat \ {0} /\ n \in 1..Len(b.active) /\ b.active \in Seq(Chunk)
  BY EmptySeq, LenProperties DEF Buffer
<1>2. b.active[n] \in Chunk /\ e \in Chunk
  BY <1>1, ElementOfSeq, ConcatProperties DEF Buffer, Chunk
<1>3. Extend(b, ws) = [b EXCEPT !.active = [b.active EXCEPT ![n] = e]]
  BY DEF Extend, Buffer
<1>4. /\ [b.active EXCEPT ![n] = e] \in Seq(Chunk)
      /\ Len([b.active EXCEPT ![n] = e]) = n
      /\ \A j \in 1..n : [b.active EXCEPT ![n] = e][j] = IF j = n THEN e ELSE b.active[j]
  <2>. HIDE DEF e
  <2>. QED BY <1>1, <1>2, ExceptSeq
<1>5. [b.active EXCEPT ![n] = e] # <<>>
  BY <1>1, <1>4
<1> DEFINE a == [b.active EXCEPT ![n] = e]
<1>6. /\ Extend(b, ws).active = a
      /\ Extend(b, ws).free = b.free
      /\ Extend(b, ws) \in Buffer
  <2>. HIDE DEF a
  <2>. QED BY <1>3, <1>4 DEF Buffer, a
<1>. HIDE DEF e, a
<1>. QED BY <1>1, <1>4, <1>5, <1>6 DEF a, e

\* A new end chunk, with what limit_sends moves out of the old one.
LEMMA StartNextChunkProps ==
    ASSUME NEW b \in Buffer, b.active # <<>>,
           \A i \in 1..Len(b.free) : b.free[i] = <<>>
    PROVE  LET r    == StartNextChunk(b)
               n    == Len(b.active)
               old  == b.active[n]
               keep == IF LimitSends /\ Len(old) > MaxWords THEN MaxWords ELSE Len(old)
           IN  /\ r \in Buffer
               /\ r.active # <<>>
               /\ Len(r.active) = n + 1
               /\ \A i \in 1..(n - 1) : r.active[i] = b.active[i]
               /\ Len(r.active[n]) = keep
               /\ \A j \in 1..keep : r.active[n][j] = old[j]
               /\ Len(r.active[n + 1]) = Len(old) - keep
               /\ \A j \in 1..(Len(old) - keep) : r.active[n + 1][j] = old[keep + j]
               /\ Len(r.free) <= Len(b.free)
               /\ \A i \in 1..Len(r.free) : r.free[i] = <<>>
<1> DEFINE r == StartNextChunk(b)
           n == Len(b.active)
           old == b.active[n]
           keep == IF LimitSends /\ Len(old) > MaxWords THEN MaxWords ELSE Len(old)
           new == IF b.free = <<>> THEN <<>> ELSE Last(b.free)
           kept == SubSeq(old, 1, keep)
           rest == SubSeq(old, keep + 1, Len(old))
           cut == [b.active EXCEPT ![n] = kept]
<1> USE OutAssumption
<1>1. n \in Nat \ {0} /\ n \in 1..Len(b.active) /\ b.active \in Seq(Chunk)
  BY EmptySeq, LenProperties DEF Buffer
<1>2. old \in Chunk /\ Len(old) \in Nat
  BY <1>1, ElementOfSeq, LenProperties DEF Buffer, Chunk
<1>3. keep \in 0..Len(old)
  BY <1>2
<1>4. new = <<>>
  BY EmptySeq, LenProperties DEF Buffer, Last
<1>5. /\ kept \in Chunk
      /\ Len(kept) = keep
      /\ \A j \in 1..keep : kept[j] = old[j]
  <2>1. \A j \in 1..keep : old[j] \in Word
    BY <1>2, <1>3, ElementOfSeq DEF Chunk
  <2>. QED BY <1>3, <2>1, SubSeqProperties DEF Chunk
<1>6. /\ rest \in Chunk
      /\ Len(rest) = Len(old) - keep
      /\ \A j \in 1..(Len(old) - keep) : rest[j] = old[keep + j]
  <2>1. \A j \in (keep + 1)..Len(old) : old[j] \in Word
    BY <1>2, <1>3, ElementOfSeq DEF Chunk
  <2>2. /\ rest \in Seq(Word)
        /\ Len(rest) = IF keep + 1 <= Len(old) THEN Len(old) - (keep + 1) + 1 ELSE 0
        /\ \A j \in 1..(Len(old) - (keep + 1) + 1) : rest[j] = old[(keep + 1) + j - 1]
    <3>. HIDE DEF keep, old
    <3>1. keep + 1 \in Int /\ Len(old) \in Int
      BY <1>2, <1>3
    <3>. QED BY <2>1, <3>1, SubSeqProperties
  <2>. HIDE DEF keep, old, rest
  <2>. QED BY <1>2, <1>3, <2>2 DEF Chunk
<1>7. new \o rest = rest
  BY <1>4, <1>6, ConcatEmptySeq DEF Chunk
<1>8. /\ cut \in Seq(Chunk)
      /\ Len(cut) = n
      /\ \A j \in 1..n : cut[j] = IF j = n THEN kept ELSE b.active[j]
  <2>. HIDE DEF kept
  <2>. QED BY <1>1, <1>5, ExceptSeq
<1>9. /\ Append(cut, rest) \in Seq(Chunk)
      /\ Append(cut, rest) # <<>>
      /\ Len(Append(cut, rest)) = n + 1
      /\ \A i \in 1..n : Append(cut, rest)[i] = cut[i]
      /\ Append(cut, rest)[n + 1] = rest
  <2>. HIDE DEF cut, rest
  <2>. QED BY <1>6, <1>8, AppendProperties, SMTT(60)
<1>10. r = [active |-> Append(cut, rest),
            free   |-> IF b.free = <<>> THEN <<>> ELSE Front(b.free)]
  BY <1>7 DEF StartNextChunk, Last
<1>11. /\ r.free \in Seq(Chunk)
       /\ Len(r.free) <= Len(b.free)
       /\ \A i \in 1..Len(r.free) : r.free[i] = <<>>
  <2>1. CASE b.free = <<>>
    BY <1>10, <2>1, EmptySeq
  <2>2. CASE b.free # <<>>
    <3> DEFINE k == Len(b.free)
    <3>1. k \in Nat \ {0}
      BY <2>2, EmptySeq DEF Buffer
    <3>2. \A i \in 1..(k - 1) : b.free[i] \in Chunk
      BY <3>1, ElementOfSeq DEF Buffer
    <3>3. /\ SubSeq(b.free, 1, k - 1) \in Seq(Chunk)
          /\ Len(SubSeq(b.free, 1, k - 1)) = k - 1
          /\ \A i \in 1..(k - 1) : SubSeq(b.free, 1, k - 1)[i] = b.free[i]
      BY <3>1, <3>2, SubSeqProperties
    <3>4. r.free = SubSeq(b.free, 1, k - 1)
      BY <1>10, <2>2 DEF Front
    <3>. QED BY <3>1, <3>3, <3>4
  <2>. QED BY <2>1, <2>2
<1>12. r.active = Append(cut, rest) /\ r \in Buffer
  <2>. HIDE DEF cut, rest, r
  <2>. QED BY <1>9, <1>10, <1>11 DEF Buffer
<1>13. /\ \A i \in 1..(n - 1) : r.active[i] = b.active[i]
       /\ r.active[n] = kept
       /\ r.active[n + 1] = rest
       /\ Len(r.active) = n + 1
       /\ r.active # <<>>
  <2>. HIDE DEF cut, rest, r, kept
  <2>. QED BY <1>1, <1>8, <1>9, <1>12
<1>. HIDE DEF r, n, old, keep, kept, rest
<1>. QED BY <1>5, <1>6, <1>11, <1>12, <1>13 DEF r, n, old, keep

-----------------------------------------------------------------------------
LEMMA TimesMaxFds ==
    ASSUME NEW i \in Nat
    PROVE  /\ i * MaxFds \in Nat
           /\ (i + 1) * MaxFds = i * MaxFds + MaxFds
BY OutAssumption

LEMMA TimesMonotone ==
    ASSUME NEW i \in Nat, NEW j \in Nat, i <= j
    PROVE  i * MaxFds <= j * MaxFds
<1> DEFINE k == j - i
<1>1. k \in Nat /\ j = i + k
  OBVIOUS
<1>. HIDE DEF k
<1>2. (i + k) * MaxFds = i * MaxFds + k * MaxFds
      /\ i * MaxFds \in Nat /\ k * MaxFds \in Nat
  BY <1>1, OutAssumption
<1>. QED BY <1>1, <1>2

\* Every chunk extends the reach by MaxFds.
LEMMA ReachProps ==
    ASSUME NEW f \in Nat, NEW i \in Nat
    PROVE  /\ Reach(f, i) \in Nat
           /\ Reach(f, i + 1) = Reach(f, i) + MaxFds
           /\ Reach(f + MaxFds, i) = Reach(f, i + 1)
<1>1. i * MaxFds \in Nat /\ (i + 1) * MaxFds = i * MaxFds + MaxFds
  BY OutAssumption
<1>. QED BY <1>1, OutAssumption DEF Reach

\* Words added at the end are covered if all descriptors accepted are within
\* reach of the chunks there are.
LEMMA ExtendCovered ==
    ASSUME NEW b \in Buffer, b.active # <<>>, NEW ws \in Chunk,
           NEW f \in Nat, NEW a \in Nat,
           Covered(b.active, f, a),
           a <= Reach(f, Len(b.active)),
           \A k \in 1..Len(ws) : ws[k].msg.lastFd <= a
    PROVE  Covered(Extend(b, ws).active, f, a)
<1> DEFINE r == Extend(b, ws).active
           n == Len(b.active)
<1>1. n \in Nat \ {0} /\ b.active \in Seq(Chunk)
  BY EmptySeq, LenProperties DEF Buffer
<1>2. /\ Len(r) = n
      /\ r[n] = b.active[n] \o ws
      /\ \A i \in 1..(n - 1) : r[i] = b.active[i]
  BY ExtendProps
<1>3. SUFFICES ASSUME NEW i \in 1..n, NEW j \in 1..Len(r[i])
               PROVE  /\ r[i][j].msg.lastFd <= Reach(f, i)
                      /\ r[i][j].msg.lastFd <= a
  BY <1>2 DEF Covered
<1>. HIDE DEF r
<1>4. CASE i < n
  BY <1>1, <1>2, <1>4, SMTT(60) DEF Covered
<1>5. CASE i = n
  <2> DEFINE old == b.active[n]
  <2>1. old \in Seq(Word) /\ Len(old) \in Nat /\ Len(ws) \in Nat
    BY <1>1, ElementOfSeq, LenProperties DEF Chunk
  <2>2. /\ Len(r[n]) = Len(old) + Len(ws)
        /\ \A k \in 1..(Len(old) + Len(ws)) :
              r[n][k] = IF k <= Len(old) THEN old[k] ELSE ws[k - Len(old)]
    BY <1>2, <2>1, ConcatProperties DEF Chunk
  <2>3. \A k \in 1..Len(old) : /\ old[k].msg.lastFd <= Reach(f, n)
                               /\ old[k].msg.lastFd <= a
    BY <1>1 DEF Covered
  <2>. HIDE DEF old
  <2>4. CASE j <= Len(old)
    BY <1>5, <2>1, <2>2, <2>3, <2>4, SMTT(60)
  <2>5. CASE j > Len(old)
    <3>1. r[n][j] = ws[j - Len(old)] /\ j - Len(old) \in 1..Len(ws)
      BY <1>5, <2>1, <2>2, <2>5
    <3>2. r[n][j].msg.lastFd <= a
      BY <3>1
    <3>3. r[n][j].msg \in Header
      <4>1. ws[j - Len(old)] \in Word
        BY <3>1, ElementOfSeq DEF Chunk
      <4>. QED BY <3>1, <4>1 DEF Word
    <3>4. r[n][j].msg.lastFd \in Nat /\ Reach(f, n) \in Nat
      BY <1>1, <3>3, ReachProps DEF Header
    <3>. QED BY <1>5, <3>2, <3>4
  <2>. QED BY <2>1, <2>4, <2>5
<1>. QED BY <1>4, <1>5

\* A word that moves to a later chunk travels with descriptors further on.
LEMMA StartNextChunkCovered ==
    ASSUME NEW b \in Buffer, b.active # <<>>,
           \A i \in 1..Len(b.free) : b.free[i] = <<>>,
           NEW f \in Nat, NEW a \in Nat,
           Covered(b.active, f, a)
    PROVE  Covered(StartNextChunk(b).active, f, a)
<1> DEFINE r == StartNextChunk(b).active
           n == Len(b.active)
           old == b.active[n]
           keep == IF LimitSends /\ Len(old) > MaxWords THEN MaxWords ELSE Len(old)
<1>1. n \in Nat \ {0} /\ b.active \in Seq(Chunk)
  BY EmptySeq, LenProperties DEF Buffer
<1>2. old \in Seq(Word) /\ Len(old) \in Nat
  BY <1>1, ElementOfSeq, LenProperties DEF Chunk
<1>3. keep \in 0..Len(old)
  BY <1>2, OutAssumption
<1>4. /\ Len(r) = n + 1
      /\ \A i \in 1..(n - 1) : r[i] = b.active[i]
      /\ Len(r[n]) = keep
      /\ \A j \in 1..keep : r[n][j] = old[j]
      /\ Len(r[n + 1]) = Len(old) - keep
      /\ \A j \in 1..(Len(old) - keep) : r[n + 1][j] = old[keep + j]
  BY StartNextChunkProps
<1>5. SUFFICES ASSUME NEW i \in 1..(n + 1), NEW j \in 1..Len(r[i])
               PROVE  /\ r[i][j].msg.lastFd <= Reach(f, i)
                      /\ r[i][j].msg.lastFd <= a
  BY <1>4 DEF Covered
<1>6. \A k \in 1..Len(old) : /\ old[k].msg.lastFd <= Reach(f, n)
                             /\ old[k].msg.lastFd <= a
                             /\ old[k].msg.lastFd \in Nat
  <2>1. \A k \in 1..Len(old) : old[k] \in Word
    BY <1>2, ElementOfSeq
  <2>2. \A k \in 1..Len(old) : old[k].msg.lastFd \in Nat
    BY <2>1 DEF Word, Header
  <2>3. ASSUME NEW k \in 1..Len(old)
        PROVE  old[k].msg.lastFd <= Reach(f, n) /\ old[k].msg.lastFd <= a
    <3>. n \in 1..Len(b.active)
      BY <1>1
    <3>. QED BY DEF Covered
  <2>. QED BY <2>2, <2>3
<1>. HIDE DEF r, old, keep
<1>7. CASE i < n
  <2>1. r[i] = b.active[i] /\ i \in 1..n
    BY <1>1, <1>4, <1>7, SMTT(60)
  <2>. QED BY <1>1, <2>1 DEF Covered
<1>8. CASE i = n
  <2>1. j \in 1..keep /\ keep \in 0..Len(old)
    BY <1>3, <1>4, <1>8
  <2>2. r[n][j] = old[j] /\ j \in 1..Len(old)
    BY <1>2, <1>4, <2>1
  <2>. QED BY <1>6, <1>8, <2>2
<1>9. CASE i = n + 1
  <2>1. r[i][j] = old[keep + j] /\ keep + j \in 1..Len(old)
    <3>1. j \in 1..(Len(old) - keep)
      BY <1>4, <1>9
    <3>2. r[n + 1][j] = old[keep + j]
      BY <1>4, <3>1
    <3>. QED BY <1>2, <1>3, <1>9, <3>1, <3>2
  <2>2. Reach(f, n) \in Nat /\ Reach(f, n + 1) = Reach(f, n) + MaxFds
    BY <1>1, ReachProps
  <2>. QED BY <1>6, <1>9, <2>1, <2>2, OutAssumption
<1>. QED BY <1>1, <1>7, <1>8, <1>9

-----------------------------------------------------------------------------
LEMMA ExtendWellFormed ==
    ASSUME NEW b, WellFormed(b), NEW ws \in Chunk
    PROVE  /\ WellFormed(Extend(b, ws))
           /\ Len(Extend(b, ws).active) = Len(b.active)
           /\ EndLen(Extend(b, ws)) = EndLen(b) + Len(ws)
           /\ EndLen(b) \in Nat /\ Len(b.active) \in Nat \ {0}
<1> DEFINE r == Extend(b, ws)
           n == Len(b.active)
<1>1. /\ b \in Buffer /\ b.active # <<>>
      /\ n \in Nat \ {0} /\ b.active \in Seq(Chunk)
  BY EmptySeq, LenProperties DEF WellFormed, Buffer
<1>2. b.active[n] \in Seq(Word) /\ Len(b.active[n]) \in Nat
  BY <1>1, ElementOfSeq, LenProperties DEF Chunk
<1>3. /\ r \in Buffer
      /\ r.free = b.free
      /\ Len(r.active) = n
      /\ r.active # <<>>
      /\ r.active[n] = b.active[n] \o ws
      /\ \A i \in 1..(n - 1) : r.active[i] = b.active[i]
  BY <1>1, ExtendProps
<1>4. Len(r.active[n]) = Len(b.active[n]) + Len(ws)
  BY <1>2, <1>3, ConcatProperties DEF Chunk
<1>. HIDE DEF r
<1>5. WellFormed(r)
  BY <1>1, <1>3 DEF WellFormed
<1>. QED BY <1>1, <1>2, <1>3, <1>4, <1>5 DEF EndLen, r

LEMMA StartNextChunkWellFormed ==
    ASSUME NEW b, WellFormed(b), EndLen(b) \in 1..ChunkSize
    PROVE  LET r == StartNextChunk(b)
           IN  /\ WellFormed(r)
               /\ Len(r.active) = Len(b.active) + 1
               /\ EndLen(r) = IF LimitSends /\ EndLen(b) > MaxWords
                              THEN EndLen(b) - MaxWords ELSE 0
<1> DEFINE r == StartNextChunk(b)
           n == Len(b.active)
           old == b.active[n]
           keep == IF LimitSends /\ Len(old) > MaxWords THEN MaxWords ELSE Len(old)
<1>1. /\ b \in Buffer /\ b.active # <<>>
      /\ \A i \in 1..Len(b.free) : b.free[i] = <<>>
      /\ n \in Nat \ {0} /\ b.active \in Seq(Chunk)
  BY EmptySeq, LenProperties DEF WellFormed, Buffer
<1>2. Len(old) \in 1..ChunkSize
  BY DEF EndLen
<1>3. keep \in 1..Len(old) /\ keep <= ChunkLimit
  BY <1>2, OutAssumption DEF ChunkLimit, ChunkSize
<1>4. /\ r \in Buffer
      /\ r.active # <<>>
      /\ Len(r.active) = n + 1
      /\ \A i \in 1..(n - 1) : r.active[i] = b.active[i]
      /\ Len(r.active[n]) = keep
      /\ Len(r.active[n + 1]) = Len(old) - keep
      /\ Len(r.free) <= Len(b.free)
      /\ \A i \in 1..Len(r.free) : r.free[i] = <<>>
  BY <1>1, StartNextChunkProps
<1>. HIDE DEF r
<1>5. ASSUME NEW i \in 1..n
      PROVE  r.active[i] # <<>> /\ Len(r.active[i]) <= ChunkLimit
  <2>1. CASE i < n
    <3>1. i \in 1..(n - 1) /\ r.active[i] = b.active[i]
      BY <1>1, <1>4, <2>1
    <3>. QED BY <3>1 DEF WellFormed
  <2>2. CASE i = n
    <3>. HIDE DEF keep
    <3>1. Len(r.active[i]) = keep /\ keep # 0
      BY <1>2, <1>3, <1>4, <2>2
    <3>2. r.active[i] # <<>>
      BY <3>1, EmptySeq
    <3>. QED BY <1>3, <3>1, <3>2
  <2>. QED BY <1>1, <2>1, <2>2
<1>6. Len(r.free) <= AllowedExcess
  <2>1. Len(r.free) \in Nat /\ Len(b.free) \in Nat
    BY <1>1, <1>4, LenProperties DEF Buffer
  <2>. QED BY <1>4, <2>1, OutAssumption DEF WellFormed
<1>7. WellFormed(r)
  BY <1>1, <1>4, <1>5, <1>6 DEF WellFormed
<1>8. EndLen(r) = IF LimitSends /\ EndLen(b) > MaxWords
                  THEN EndLen(b) - MaxWords ELSE 0
  BY <1>2, <1>4, OutAssumption DEF EndLen
<1>. QED BY <1>4, <1>7, <1>8 DEF r

-----------------------------------------------------------------------------
\* What a put makes of well-formed chunk lists, whichever way it takes: every
\* chunk is filled and fits, and the new words too are covered.
Filled(r, b, f, a) ==
    /\ WellFormed(r)
    /\ Len(r.active) >= Len(b.active)
    /\ EndLen(r) \in 1..ChunkLimit
    /\ Covered(r.active, f, a)

LEMMA PutRawFills ==
    ASSUME NEW b, WellFormed(b), EndLen(b) <= ChunkLimit,
           NEW ws \in Chunk, Len(ws) \in 2..MaxWords,
           NEW f \in Nat, NEW a \in Nat,
           Covered(b.active, f, a),
           a <= Reach(f, Len(b.active)),
           \A k \in 1..Len(ws) : ws[k].msg.lastFd <= a
    PROVE  Filled(PutRaw(b, ws), b, f, a)
<1> DEFINE room == RawRoom(b)
           n == Len(b.active)
<1>1. /\ b \in Buffer /\ b.active # <<>>
      /\ \A i \in 1..Len(b.free) : b.free[i] = <<>>
      /\ n \in Nat \ {0}
      /\ EndLen(b) \in Nat
  BY ExtendWellFormed DEF WellFormed
<1>2. room = ChunkLimit - EndLen(b) /\ room \in Nat
  <2>1. room = ChunkLimit - EndLen(b)
    BY DEF RawRoom, Room, ChunkLimit, EndLen, Last
  <2>. HIDE DEF room
  <2>. QED BY <1>1, <2>1, OutAssumption DEF ChunkLimit, ChunkSize
<1>3. ChunkLimit \in Nat /\ MaxWords <= ChunkLimit /\ ChunkLimit <= ChunkSize
      /\ ChunkSize \in Nat
  BY OutAssumption DEF ChunkLimit, ChunkSize
<1>. HIDE DEF room
<1>4. CASE room >= Len(ws)
  <2> DEFINE r == Extend(b, ws)
  <2>1. PutRaw(b, ws) = r
    BY <1>4 DEF PutRaw, room
  <2>2. WellFormed(r) /\ Len(r.active) = n /\ EndLen(r) = EndLen(b) + Len(ws)
    BY ExtendWellFormed
  <2>3. Covered(r.active, f, a)
    BY <1>1, ExtendCovered
  <2>. HIDE DEF r
  <2>. QED BY <1>1, <1>2, <1>3, <1>4, <2>1, <2>2, <2>3 DEF Filled
<1>5. CASE ~(room >= Len(ws))
  <2> DEFINE first == SubSeq(ws, 1, room)
             rest == SubSeq(ws, room + 1, Len(ws))
             b1 == Extend(b, first)
             b2 == StartNextChunk(b1)
             b3 == Extend(b2, rest)
  <2>1. PutRaw(b, ws) = b3
    BY <1>5 DEF PutRaw, room
  <2>2. /\ first \in Chunk
        /\ Len(first) = room
        /\ \A k \in 1..Len(first) : first[k].msg.lastFd <= a
    <3>1. \A k \in 1..room : ws[k] \in Word /\ k \in 1..Len(ws)
      BY <1>2, <1>5, ElementOfSeq DEF Chunk
    <3>2. /\ first \in Seq(Word)
          /\ Len(first) = room
          /\ \A k \in 1..room : first[k] = ws[k]
      BY <1>2, <3>1, SubSeqProperties
    <3>. HIDE DEF first
    <3>. QED BY <3>1, <3>2 DEF Chunk
  <2>3. /\ rest \in Chunk
        /\ Len(rest) = Len(ws) - room
        /\ \A k \in 1..Len(rest) : rest[k].msg.lastFd <= a
    <3>1. \A k \in (room + 1)..Len(ws) : ws[k] \in Word
      BY <1>2, ElementOfSeq DEF Chunk
    <3>2. /\ rest \in Seq(Word)
          /\ Len(rest) = IF room + 1 <= Len(ws) THEN Len(ws) - (room + 1) + 1 ELSE 0
          /\ \A k \in 1..(Len(ws) - (room + 1) + 1) : rest[k] = ws[room + 1 + k - 1]
      BY <1>2, <3>1, SubSeqProperties, SMTT(60)
    <3>3. Len(rest) = Len(ws) - room
      BY <1>2, <1>5, <3>2
    <3>4. \A k \in 1..Len(rest) : rest[k] = ws[room + k] /\ room + k \in 1..Len(ws)
      <4>. SUFFICES ASSUME NEW k \in 1..Len(rest)
                    PROVE  rest[k] = ws[room + k] /\ room + k \in 1..Len(ws)
        OBVIOUS
      <4>. HIDE DEF rest
      <4>1. k \in 1..(Len(ws) - (room + 1) + 1) /\ room + 1 + k - 1 = room + k
        BY <1>2, <3>3
      <4>2. rest[k] = ws[room + 1 + k - 1]
        BY <3>2, <4>1
      <4>3. rest[k] = ws[room + k]
        BY <4>1, <4>2
      <4>4. room + k \in 1..Len(ws)
        BY <1>2, <1>5, <3>3
      <4>. QED BY <4>3, <4>4
    <3>. HIDE DEF rest
    <3>. QED BY <3>2, <3>3, <3>4 DEF Chunk
  <2>. HIDE DEF first, rest
  <2>4. /\ WellFormed(b1)
        /\ Len(b1.active) = n
        /\ EndLen(b1) = ChunkLimit
        /\ Covered(b1.active, f, a)
        /\ b1 \in Buffer /\ b1.active # <<>>
        /\ \A i \in 1..Len(b1.free) : b1.free[i] = <<>>
    <3>1. /\ WellFormed(b1)
          /\ Len(b1.active) = n
          /\ EndLen(b1) = EndLen(b) + Len(first)
      BY <2>2, ExtendWellFormed
    <3>2. Covered(b1.active, f, a)
      BY <1>1, <2>2, ExtendCovered
    <3>3. EndLen(b1) = ChunkLimit
      BY <1>1, <1>2, <1>3, <2>2, <3>1
    <3>. QED BY <3>1, <3>2, <3>3 DEF WellFormed
  <2>. HIDE DEF b1
  <2>5. /\ WellFormed(b2)
        /\ Len(b2.active) = n + 1
        /\ EndLen(b2) = 0
        /\ Covered(b2.active, f, a)
        /\ b2 \in Buffer /\ b2.active # <<>>
    <3>1. EndLen(b1) \in 1..ChunkSize
      BY <1>3, <2>4, OutAssumption
    <3>2. /\ WellFormed(b2)
          /\ Len(b2.active) = Len(b1.active) + 1
          /\ EndLen(b2) = IF LimitSends /\ EndLen(b1) > MaxWords
                          THEN EndLen(b1) - MaxWords ELSE 0
      BY <2>4, <3>1, StartNextChunkWellFormed
    <3>3. EndLen(b2) = 0
      BY <2>4, <3>2, OutAssumption DEF ChunkLimit
    <3>4. Covered(b2.active, f, a)
      BY <2>4, StartNextChunkCovered
    <3>. QED BY <2>4, <3>2, <3>3, <3>4 DEF WellFormed
  <2>. HIDE DEF b2
  <2>6. a <= Reach(f, Len(b2.active))
    <3>1. Reach(f, n) \in Nat /\ Reach(f, n + 1) = Reach(f, n) + MaxFds
      BY <1>1, ReachProps
    <3>. QED BY <2>5, <3>1, OutAssumption
  <2>7. /\ WellFormed(b3)
        /\ Len(b3.active) = n + 1
        /\ EndLen(b3) = Len(rest)
        /\ Covered(b3.active, f, a)
    <3>1. /\ WellFormed(b3)
          /\ Len(b3.active) = n + 1
          /\ EndLen(b3) = EndLen(b2) + Len(rest)
      BY <2>3, <2>5, ExtendWellFormed
    <3>2. Covered(b3.active, f, a)
      BY <2>3, <2>5, <2>6, ExtendCovered
    <3>. QED BY <1>2, <2>3, <2>5, <3>1, <3>2
  <2>. HIDE DEF b3
  <2>8. Len(rest) \in 1..ChunkLimit
    BY <1>2, <1>3, <1>5, <2>3, OutAssumption
  <2>. QED BY <1>1, <2>1, <2>7, <2>8 DEF Filled
<1>. QED BY <1>4, <1>5

LEMMA PutMarshalledFills ==
    ASSUME NEW b, WellFormed(b), EndLen(b) <= ChunkLimit,
           NEW ws \in Chunk, Len(ws) \in 2..MaxWords,
           NEW f \in Nat, NEW a \in Nat,
           Covered(b.active, f, a),
           a <= Reach(f, Len(b.active)),
           \A k \in 1..Len(ws) : ws[k].msg.lastFd <= a
    PROVE  Filled(PutMarshalled(b, ws), b, f, a)
<1> DEFINE ready == IF Room(b) < MaxWords THEN StartNextChunk(b) ELSE b
           filled == Extend(ready, ws)
           n == Len(b.active)
<1>1. /\ b \in Buffer /\ b.active # <<>>
      /\ \A i \in 1..Len(b.free) : b.free[i] = <<>>
      /\ n \in Nat \ {0}
      /\ EndLen(b) \in Nat
  BY ExtendWellFormed DEF WellFormed
<1>2. \A x : Room(x) = ChunkSize - EndLen(x)
  BY DEF Room, EndLen, Last
<1>3. /\ ChunkLimit = (IF LimitSends THEN MaxWords ELSE ChunkSize)
      /\ ChunkSize = MaxWords + MaxWords
      /\ MaxWords \in Nat /\ MaxWords >= 2 /\ LimitSends \in BOOLEAN
  BY OutAssumption DEF ChunkLimit, ChunkSize
<1>4. /\ WellFormed(ready)
      /\ Len(ready.active) >= n /\ Len(ready.active) \in Nat
      /\ EndLen(ready) \in 0..MaxWords
      /\ Covered(ready.active, f, a)
      /\ a <= Reach(f, Len(ready.active))
  <2>1. CASE Room(b) < MaxWords
    <3> DEFINE r == StartNextChunk(b)
    <3>1. EndLen(b) \in 1..ChunkSize /\ ~LimitSends
      BY <1>1, <1>2, <1>3, <2>1
    <3>2. WellFormed(r) /\ Len(r.active) = n + 1 /\ EndLen(r) = 0
      BY <3>1, StartNextChunkWellFormed
    <3>3. Covered(r.active, f, a)
      BY <1>1, StartNextChunkCovered
    <3>4. a <= Reach(f, n + 1)
      <4>1. Reach(f, n) \in Nat /\ Reach(f, n + 1) = Reach(f, n) + MaxFds
        BY <1>1, ReachProps
      <4>. QED BY <4>1, OutAssumption
    <3>. HIDE DEF r
    <3>5. ready = r
      BY <2>1 DEF r
    <3>. QED BY <1>1, <1>3, <3>2, <3>3, <3>4, <3>5
  <2>2. CASE ~(Room(b) < MaxWords)
    <3>1. ready = b
      BY <2>2
    <3>. HIDE DEF ready
    <3>2. EndLen(b) \in 0..MaxWords
      BY <1>1, <1>2, <1>3, <2>2
    <3>. QED BY <1>1, <3>1, <3>2
  <2>. QED BY <2>1, <2>2
<1>5. PutMarshalled(b, ws) = IF LimitSends /\ Room(filled) < MaxWords
                             THEN StartNextChunk(filled) ELSE filled
  BY DEF PutMarshalled
<1>. HIDE DEF ready
<1>6. /\ WellFormed(filled)
      /\ Len(filled.active) >= n /\ Len(filled.active) \in Nat
      /\ EndLen(filled) \in 1..ChunkSize
      /\ Covered(filled.active, f, a)
      /\ filled \in Buffer /\ filled.active # <<>>
      /\ \A i \in 1..Len(filled.free) : filled.free[i] = <<>>
  <2>1. /\ WellFormed(filled)
        /\ Len(filled.active) = Len(ready.active)
        /\ EndLen(filled) = EndLen(ready) + Len(ws)
    BY <1>4, ExtendWellFormed
  <2>2. ready \in Buffer /\ ready.active # <<>>
    BY <1>4 DEF WellFormed
  <2>3. Covered(filled.active, f, a)
    BY <1>4, <2>2, ExtendCovered
  <2>. HIDE DEF filled
  <2>4. EndLen(filled) \in 1..ChunkSize
    BY <1>3, <1>4, <2>1
  <2>. QED BY <1>4, <2>1, <2>3, <2>4 DEF WellFormed
<1>. HIDE DEF filled
<1>7. CASE LimitSends /\ Room(filled) < MaxWords
  <2> DEFINE r == StartNextChunk(filled)
  <2>1. EndLen(filled) > MaxWords
    BY <1>2, <1>3, <1>6, <1>7
  <2>2. /\ WellFormed(r)
        /\ Len(r.active) = Len(filled.active) + 1
        /\ EndLen(r) = EndLen(filled) - MaxWords
    BY <1>6, <1>7, <2>1, StartNextChunkWellFormed
  <2>3. Covered(r.active, f, a)
    BY <1>6, StartNextChunkCovered
  <2>4. PutMarshalled(b, ws) = r
    BY <1>5, <1>7
  <2>. HIDE DEF r
  <2>. QED BY <1>1, <1>3, <1>6, <1>7, <2>1, <2>2, <2>3, <2>4, SMTT(60) DEF Filled
<1>8. CASE ~(LimitSends /\ Room(filled) < MaxWords)
  <2>1. PutMarshalled(b, ws) = filled
    BY <1>5, <1>8
  <2>2. EndLen(filled) \in 1..ChunkLimit
    BY <1>2, <1>3, <1>6, <1>8
  <2>. QED BY <1>1, <1>6, <2>1, <2>2 DEF Filled
<1>. QED BY <1>7, <1>8

-----------------------------------------------------------------------------
LEMMA LongIsNonEmpty ==
    ASSUME NEW s, Len(s) >= 1
    PROVE  s # <<>>
<1>1. Len(<<>>) = 0
  OBVIOUS
<1>. QED BY <1>1

LEMMA FunctionIsSeq ==
    ASSUME NEW S, NEW n \in Nat, NEW s \in [1..n -> S]
    PROVE  s \in Seq(S) /\ Len(s) = n
<1>1. s \in Seq(S) /\ DOMAIN s = 1..n
  OBVIOUS
<1>2. Len(s) \in Nat /\ DOMAIN s = 1..Len(s)
  BY <1>1, LenProperties
<1>. QED BY <1>1, <1>2

\* The queue of the descriptors after the f-th, up to the a-th.
Queue(f, a) == [k \in 1..(a - f) |-> f + k]

LEMMA QueueProps ==
    ASSUME NEW f \in Nat, NEW a \in Nat, f <= a
    PROVE  /\ Queue(f, a) \in Seq(Nat)
           /\ Len(Queue(f, a)) = a - f
           /\ \A k \in 1..(a - f) : Queue(f, a)[k] = f + k
<1>1. Queue(f, a) \in [1..(a - f) -> Nat] /\ a - f \in Nat
  BY DEF Queue
<1>. QED BY <1>1, FunctionIsSeq DEF Queue

LEMMA QueueAdd ==
    ASSUME NEW f \in Nat, NEW a \in Nat, f <= a, NEW n \in Nat
    PROVE  Queue(f, a) \o [k \in 1..n |-> a + k] = Queue(f, a + n)
<1> DEFINE q == Queue(f, a)
           x == [k \in 1..n |-> a + k]
           r == Queue(f, a + n)
<1>1. /\ q \in Seq(Nat) /\ Len(q) = a - f /\ \A k \in 1..(a - f) : q[k] = f + k
      /\ x \in Seq(Nat) /\ Len(x) = n /\ \A k \in 1..n : x[k] = a + k
      /\ r \in Seq(Nat) /\ Len(r) = a + n - f /\ \A k \in 1..(a + n - f) : r[k] = f + k
  <2>1. a + n \in Nat /\ f <= a + n
    OBVIOUS
  <2>2. x \in Seq(Nat) /\ Len(x) = n /\ \A k \in 1..n : x[k] = a + k
    <3>1. x \in [1..n -> Nat] /\ \A k \in 1..n : x[k] = a + k
      OBVIOUS
    <3>. HIDE DEF x
    <3>. QED BY <3>1, FunctionIsSeq
  <2>3. r \in Seq(Nat) /\ Len(r) = a + n - f /\ \A k \in 1..(a + n - f) : r[k] = f + k
    BY <2>1, QueueProps
  <2>4. q \in Seq(Nat) /\ Len(q) = a - f /\ \A k \in 1..(a - f) : q[k] = f + k
    BY QueueProps
  <2>. HIDE DEF q, x, r
  <2>. QED BY <2>1, <2>2, <2>3, <2>4
<1>. HIDE DEF q, x, r
<1>2. /\ q \o x \in Seq(Nat)
      /\ Len(q \o x) = Len(q) + Len(x)
      /\ \A k \in 1..(Len(q) + Len(x)) :
            (q \o x)[k] = IF k <= Len(q) THEN q[k] ELSE x[k - Len(q)]
  BY <1>1, ConcatProperties
<1>3. Len(q \o x) = Len(r)
  BY <1>1, <1>2
<1>4. ASSUME NEW k \in 1..Len(q \o x)
      PROVE  (q \o x)[k] = r[k]
  <2>0. k \in 1..(a + n - f) /\ r[k] = f + k
    BY <1>1, <1>3
  <2>1. CASE k <= a - f
    BY <1>1, <1>2, <2>0, <2>1
  <2>2. CASE k > a - f
    <3>1. k - (a - f) \in 1..n /\ (q \o x)[k] = x[k - (a - f)]
      BY <1>1, <1>2, <2>0, <2>2, SMTT(60)
    <3>2. x[k - (a - f)] = a + (k - (a - f))
      BY <1>1, <3>1
    <3>. QED BY <2>0, <3>1, <3>2
  <2>. QED BY <2>0, <2>1, <2>2
<1>5. q \o x = r
  BY <1>1, <1>2, <1>3, <1>4, SeqEqual
<1>. QED BY <1>5 DEF q, x, r

LEMMA QueueDrop ==
    ASSUME NEW f \in Nat, NEW a \in Nat, f <= a, NEW n \in 0..(a - f)
    PROVE  SubSeq(Queue(f, a), n + 1, Len(Queue(f, a))) = Queue(f + n, a)
<1> DEFINE q == Queue(f, a)
           t == SubSeq(q, n + 1, Len(q))
           r == Queue(f + n, a)
<1>1. /\ q \in Seq(Nat) /\ Len(q) = a - f /\ \A k \in 1..(a - f) : q[k] = f + k
      /\ n \in Nat /\ n + 1 \in Int /\ Len(q) \in Int
  BY QueueProps
<1>2. /\ r \in Seq(Nat) /\ Len(r) = a - (f + n)
      /\ \A k \in 1..(a - (f + n)) : r[k] = f + n + k
  <2>1. f + n \in Nat /\ f + n <= a
    OBVIOUS
  <2>. QED BY <2>1, QueueProps
<1>. HIDE DEF q, r
<1>3. \A k \in (n + 1)..Len(q) : q[k] \in Nat
  BY <1>1
<1>4. /\ t \in Seq(Nat)
      /\ Len(t) = IF n + 1 <= Len(q) THEN Len(q) - (n + 1) + 1 ELSE 0
      /\ \A k \in 1..(Len(q) - (n + 1) + 1) : t[k] = q[n + 1 + k - 1]
  BY <1>1, <1>3, SubSeqProperties
<1>. HIDE DEF t
<1>5. Len(t) = Len(r)
  BY <1>1, <1>2, <1>4
<1>6. ASSUME NEW k \in 1..Len(t)
      PROVE  t[k] = r[k]
  <2>1. /\ k \in 1..(Len(q) - (n + 1) + 1) /\ n + 1 + k - 1 = n + k
        /\ n + k \in 1..(a - f) /\ k \in 1..(a - (f + n))
    BY <1>1, <1>2, <1>5
  <2>2. t[k] = q[n + k]
    <3>1. t[k] = q[n + 1 + k - 1]
      BY <1>4, <2>1
    <3>. QED BY <2>1, <3>1
  <2>3. q[n + k] = f + (n + k) /\ r[k] = f + n + k
    BY <1>1, <1>2, <2>1
  <2>. QED BY <1>1, <2>1, <2>2, <2>3
<1>7. t = r
  BY <1>2, <1>4, <1>5, <1>6, SeqEqual
<1>. QED BY <1>7 DEF t, q, r

-----------------------------------------------------------------------------
\* What IInv says of the chunk lists, in the terms of the lemmas above.
LEMMA IInvBuffered ==
    ASSUME IInv
    PROVE  /\ WellFormed(Buffered)
           /\ EndLen(Buffered) \in 0..ChunkLimit
           /\ Covered(chunks, sent.fds, accepted.fds)
           /\ Buffered.active = chunks /\ Buffered.free = freeChunks
           /\ Len(chunks) \in Nat \ {0}
           /\ Len(fds) = accepted.fds - sent.fds
<1>1. Len(chunks) \in Nat \ {0}
  BY EmptySeq, LenProperties DEF IInv, TypeOK
<1>2. \A i \in 1..Len(chunks) : Len(chunks[i]) \in Nat /\ Len(chunks[i]) <= ChunkLimit
  <2>. SUFFICES ASSUME NEW i \in 1..Len(chunks)
                PROVE  Len(chunks[i]) \in Nat /\ Len(chunks[i]) <= ChunkLimit
    OBVIOUS
  <2>1. chunks[i] \in Seq(Word)
    BY ElementOfSeq DEF IInv, TypeOK, Chunk
  <2>. QED BY <2>1, LenProperties DEF IInv, ChunksFit, ChunkLimit
<1>3. Buffered \in Buffer /\ Buffered.active = chunks /\ Buffered.free = freeChunks
  BY DEF Buffered, Buffer, IInv, TypeOK
<1>4. WellFormed(Buffered)
  BY <1>1, <1>2, <1>3 DEF WellFormed, IInv, TypeOK, NoEmptyChunkAhead, RecycledAreEmpty
<1>5. EndLen(Buffered) \in 0..ChunkLimit
  <2>1. ChunkLimit \in Nat
    BY OutAssumption DEF ChunkLimit, ChunkSize
  <2>. QED BY <1>1, <1>2, <1>3, <2>1 DEF EndLen
<1>6. Covered(chunks, sent.fds, accepted.fds)
  BY DEF Covered, Reach, IInv, FdsTravelWithData
<1>7. Len(fds) = accepted.fds - sent.fds
  <2> DEFINE n == accepted.fds - sent.fds
  <2>1. n \in Nat
    BY DEF IInv, TypeOK, FdsInOrder
  <2>2. DOMAIN fds = 1..n /\ fds \in Seq(Nat)
    BY DEF IInv, TypeOK, FdsInOrder
  <2>3. Len(fds) \in Nat /\ DOMAIN fds = 1..Len(fds)
    BY <2>2, LenProperties
  <2>. HIDE DEF n
  <2>4. Len(fds) = n
    BY <2>1, <2>2, <2>3
  <2>. QED BY <2>4 DEF n
<1>. QED BY <1>1, <1>3, <1>4, <1>5, <1>6, <1>7

\* The words of a message.
LEMMA WordsOfProps ==
    ASSUME NEW m \in Messages, NEW n \in Nat, NEW f \in Nat
    PROVE  LET ws == WordsOf(m, n, f)
           IN  /\ ws \in Chunk
               /\ Len(ws) = m.len /\ Len(ws) \in 2..MaxWords
               /\ \A k \in 1..Len(ws) : ws[k].msg.lastFd <= f
<1> DEFINE ws == WordsOf(m, n, f)
           w(k) == [pos |-> n + k,
                   msg |-> [start |-> n + 1, len |-> m.len, nfds |-> m.nfds, lastFd |-> f]]
<1>1. m.len \in 2..MaxWords /\ m.nfds \in 0..MaxArgs
  BY OutAssumption
<1>2. \A k \in 1..m.len : w(k) \in Word
  BY <1>1, OutAssumption DEF Word, Header
<1>3. ws = [k \in 1..m.len |-> w(k)]
  BY DEF WordsOf
<1>. HIDE DEF w
<1>4. ws \in Seq(Word) /\ DOMAIN ws = 1..m.len /\ m.len \in Nat
  <2>1. m.len \in Nat
    BY <1>1, OutAssumption
  <2>2. ws \in [1..m.len -> Word]
    BY <1>2, <1>3
  <2>. QED BY <1>3, <2>1, <2>2
<1>5. Len(ws) = m.len
  <2>. HIDE DEF ws
  <2>. QED BY <1>4, LenProperties
<1>6. \A k \in 1..Len(ws) : ws[k].msg.lastFd = f
  <2>1. \A k \in 1..m.len : w(k).msg.lastFd = f
    BY DEF w
  <2>2. \A k \in 1..m.len : ws[k] = w(k)
    BY <1>3
  <2>. HIDE DEF ws
  <2>. QED BY <1>5, <2>1, <2>2
<1>. HIDE DEF ws
<1>. QED BY <1>1, <1>4, <1>5, <1>6 DEF Chunk, ws

LEMMA WordsAreTyped ==
    ASSUME TypeOK, NEW i \in 1..Len(chunks), NEW j \in 1..Len(chunks[i])
    PROVE  chunks[i][j].msg.lastFd \in Nat
<1>1. chunks[i] \in Seq(Word)
  BY ElementOfSeq DEF TypeOK, Chunk
<1>2. chunks[i][j] \in Word
  BY <1>1, ElementOfSeq
<1>. QED BY <1>2 DEF Word, Header

LEMMA InitIInv == Init => IInv
<1>. SUFFICES ASSUME Init PROVE IInv
  OBVIOUS
<1>1. /\ chunks = << <<>> >> /\ Len(chunks) = 1 /\ chunks[1] = <<>> /\ chunks # <<>>
      /\ freeChunks = <<>> /\ Len(freeChunks) = 0 /\ fds = <<>> /\ Len(fds) = 0
  BY DEF Init
<1>2. chunks \in Seq(Chunk) /\ freeChunks \in Seq(Chunk) /\ fds \in Seq(Nat)
  <2>1. <<>> \in Chunk
    BY EmptySeq DEF Chunk
  <2>. QED BY <1>1, <2>1, EmptySeq
<1>3. TypeOK
  BY <1>1, <1>2 DEF Init, TypeOK
<1>4. Len(chunks[1]) = 0
  BY <1>1
<1>5. ChunksFit
  BY <1>1, <1>4, OutAssumption DEF ChunksFit, ChunkSize
<1>6. RecycledAreEmpty /\ NoEmptyChunkAhead /\ WaitMeansPending
  BY <1>1, OutAssumption DEF Init, RecycledAreEmpty, NoEmptyChunkAhead, WaitMeansPending
<1>7. FdsFitChunks
  BY <1>1, OutAssumption DEF Init, FdsFitChunks
<1>8. FdsInOrder
  BY <1>1 DEF Init, FdsInOrder
<1>9. FdsTravelWithData
  BY <1>1, <1>4 DEF FdsTravelWithData
<1>. QED BY <1>3, <1>5, <1>6, <1>7, <1>8, <1>9 DEF IInv

LEMMA AddFdsStep ==
    ASSUME IInv, NEW m \in Messages, AddFds(m)
    PROVE  IInv'
<1>. USE DEF IInv
<1>1. /\ m.nfds \in Nat /\ m.nfds <= MaxArgs /\ MaxArgs \in Nat
      /\ MaxFds \in Nat \ {0}
  BY OutAssumption
<1>2. /\ Len(chunks) \in Nat \ {0}
      /\ Len(fds) = accepted.fds - sent.fds
      /\ accepted.fds \in Nat /\ sent.fds \in Nat /\ sent.fds <= accepted.fds
      /\ Covered(chunks, sent.fds, accepted.fds)
      /\ fds = Queue(sent.fds, accepted.fds)
  BY IInvBuffered DEF TypeOK, FdsInOrder, Queue
<1>3. /\ accepted'.fds = accepted.fds + m.nfds
      /\ accepted' \in [msgs : Nat, words : Nat, fds : Nat]
  <2>1. accepted' = [accepted EXCEPT !.msgs = @ + 1, !.fds = @ + m.nfds]
    BY DEF AddFds
  <2>2. accepted \in [msgs : Nat, words : Nat, fds : Nat]
    BY DEF TypeOK
  <2>3. accepted'.fds = accepted.fds + m.nfds /\ accepted'.msgs = accepted.msgs + 1
        /\ accepted'.words = accepted.words
    BY <2>1, <2>2
  <2>4. accepted' = [msgs |-> accepted.msgs + 1, words |-> accepted.words,
                     fds |-> accepted.fds + m.nfds]
    BY <2>1, <2>2
  <2>. QED BY <1>1, <2>2, <2>3, <2>4
<1>12. accepted.fds <= accepted'.fds /\ accepted'.fds \in Nat
  BY <1>1, <1>2, <1>3
<1>4. /\ chunks' = chunks /\ freeChunks' = freeChunks /\ sent' = sent
      /\ waitForOutput' = waitForOutput /\ msg' = m /\ pc = "idle"
      /\ pc' = IF TooManyFds(Len(fds'), Len(chunks)) THEN "fdsFlush" ELSE "put"
  BY DEF AddFds
<1>5. fds' = Queue(sent.fds, accepted'.fds)
  <2>1. fds' = fds \o [k \in 1..m.nfds |-> accepted.fds + k]
    BY DEF AddFds
  <2>2. Queue(sent.fds, accepted.fds) \o [k \in 1..m.nfds |-> accepted.fds + k]
           = Queue(sent.fds, accepted.fds + m.nfds)
    BY <1>1, <1>2, QueueAdd
  <2>. QED BY <1>2, <1>3, <2>1, <2>2
<1>6. fds' \in Seq(Nat) /\ Len(fds') = Len(fds) + m.nfds
  <2>1. accepted'.fds \in Nat /\ sent.fds <= accepted'.fds
    BY <1>1, <1>2, <1>3
  <2>2. fds' \in Seq(Nat) /\ Len(fds') = accepted'.fds - sent.fds
    BY <1>2, <1>5, <2>1, QueueProps
  <2>. QED BY <1>1, <1>2, <1>3, <2>2, SMTT(60)
<1>7. TypeOK'
  BY <1>3, <1>4, <1>6 DEF TypeOK
<1>8. ChunksFit' /\ RecycledAreEmpty' /\ WaitMeansPending' /\ NoEmptyChunkAhead'
  BY <1>4 DEF ChunksFit, RecycledAreEmpty, WaitMeansPending, NoEmptyChunkAhead
<1>9. FdsFitChunks'
  <2>1. Len(fds) <= Len(chunks) * MaxFds /\ (chunks[1] = <<>> => fds = <<>>)
    BY <1>4 DEF FdsFitChunks
  <2>2. Len(chunks) * MaxFds \in Nat
    BY <1>1, <1>2
  <2>3. chunks[1] = <<>> => Len(fds') <= MaxArgs
    BY <1>1, <1>6, <2>1, EmptySeq
  <2>4. Len(fds') <= Len(chunks) * MaxFds + MaxArgs
    BY <1>1, <1>2, <1>6, <2>1, <2>2
  <2>5. ~TooManyFds(Len(fds'), Len(chunks)) => Len(fds') <= Len(chunks) * MaxFds
    BY <1>1, <1>2, <1>6, <2>2 DEF TooManyFds
  <2>6. pc' \in {"fdsFlush", "put"}
        /\ (pc' = "put" => ~TooManyFds(Len(fds'), Len(chunks)))
    BY <1>4
  <2>. QED BY <1>4, <2>3, <2>4, <2>5, <2>6 DEF FdsFitChunks
<1>10. FdsInOrder'
  BY <1>1, <1>2, <1>3, <1>4, <1>5 DEF FdsInOrder, Queue
<1>11. FdsTravelWithData'
  <2>1. \A i \in 1..Len(chunks) : \A j \in 1..Len(chunks[i]) :
           chunks[i][j].msg.lastFd \in Nat
    BY WordsAreTyped DEF Covered
  <2>2. ASSUME NEW i \in 1..Len(chunks), NEW j \in 1..Len(chunks[i])
        PROVE  /\ chunks[i][j].msg.lastFd <= sent.fds + i * MaxFds
               /\ chunks[i][j].msg.lastFd <= accepted'.fds
    <3>1. /\ chunks[i][j].msg.lastFd <= sent.fds + i * MaxFds
          /\ chunks[i][j].msg.lastFd <= accepted.fds
      BY DEF FdsTravelWithData
    <3>2. chunks[i][j].msg.lastFd \in Nat
      BY <2>1
    <3>3. chunks[i][j].msg.lastFd <= accepted'.fds
      <4>1. chunks[i][j].msg.lastFd <= accepted.fds
        BY <3>1
      <4>2. accepted.fds \in Nat
        BY <1>2
      <4>. QED BY <1>12, <3>2, <4>1, <4>2
    <3>. QED BY <3>1, <3>3
  <2>. QED BY <1>4, <2>2 DEF FdsTravelWithData
<1>. QED BY <1>7, <1>8, <1>9, <1>10, <1>11

LEMMA FilledChunks ==
    ASSUME NEW r, NEW b, NEW f, NEW a, Filled(r, b, f, a)
    PROVE  /\ r.active \in Seq(Chunk) /\ r.free \in Seq(Chunk)
           /\ Len(r.active) \in Nat \ {0}
           /\ \A i \in 1..Len(r.active) :
                 r.active[i] # <<>> /\ Len(r.active[i]) <= ChunkLimit
<1> DEFINE n == Len(r.active)
<1>1. /\ r \in Buffer /\ r.active # <<>> /\ r.active \in Seq(Chunk)
      /\ n \in Nat \ {0} /\ WellFormed(r) /\ EndLen(r) \in 1..ChunkLimit
  BY EmptySeq DEF Filled, WellFormed, Buffer
<1>2. ASSUME NEW i \in 1..n
      PROVE  r.active[i] # <<>> /\ Len(r.active[i]) <= ChunkLimit
  <2>1. CASE i = n
    <3>1. Len(r.active[i]) \in 1..ChunkLimit
      BY <1>1, <2>1 DEF EndLen
    <3>2. ChunkLimit \in Nat
      BY OutAssumption DEF ChunkLimit, ChunkSize
    <3>3. r.active[i] # <<>>
      BY <3>1, <3>2, EmptySeq
    <3>. QED BY <3>1, <3>2, <3>3
  <2>2. CASE i # n
    <3>1. i \in 1..(n - 1)
      BY <1>1, <2>2
    <3>. QED BY <1>1, <3>1 DEF WellFormed
  <2>. QED BY <2>1, <2>2
<1>. QED BY <1>1, <1>2 DEF Buffer

LEMMA PutStep ==
    ASSUME IInv, Put
    PROVE  IInv'
<1> DEFINE ws == WordsOf(msg, accepted.words, accepted.fds)
           r == IF msg.raw THEN PutRaw(Buffered, ws) ELSE PutMarshalled(Buffered, ws)
<1>. USE DEF IInv
<1>1. /\ pc = "put" /\ msg \in Messages
      /\ chunks' = r.active /\ freeChunks' = r.free
      /\ fds' = fds /\ sent' = sent /\ waitForOutput' = waitForOutput
      /\ pc' \in {"flush", "forcedFlush"} /\ msg' = NoMsg
  BY DEF Put, TypeOK
<1>2. /\ accepted' = [accepted EXCEPT !.words = @ + msg.len]
      /\ accepted \in [msgs : Nat, words : Nat, fds : Nat]
      /\ sent \in [words : Nat, fds : Nat]
      /\ msg.len \in Nat
  BY <1>1, OutAssumption, SMTT(60) DEF Put, TypeOK
<1>3. accepted' \in [msgs : Nat, words : Nat, fds : Nat] /\ accepted'.fds = accepted.fds
  BY <1>2
<1>4. /\ WellFormed(Buffered)
      /\ EndLen(Buffered) <= ChunkLimit
      /\ Covered(Buffered.active, sent.fds, accepted.fds)
      /\ Len(Buffered.active) = Len(chunks) /\ Len(chunks) \in Nat \ {0}
      /\ Len(fds) = accepted.fds - sent.fds
      /\ Len(fds) <= Len(chunks) * MaxFds
  BY <1>1, IInvBuffered DEF FdsFitChunks
<1>5. accepted.fds <= Reach(sent.fds, Len(Buffered.active))
  <2>1. Len(chunks) * MaxFds \in Nat
    BY <1>4, TimesMaxFds
  <2>2. accepted.fds \in Nat /\ sent.fds \in Nat
    BY <1>2
  <2>. QED BY <1>4, <2>1, <2>2 DEF Reach
<1>6. /\ ws \in Chunk /\ Len(ws) \in 2..MaxWords
      /\ \A k \in 1..Len(ws) : ws[k].msg.lastFd <= accepted.fds
      /\ accepted.fds \in Nat /\ sent.fds \in Nat
  BY <1>1, <1>2, WordsOfProps
<1>7. Filled(r, Buffered, sent.fds, accepted.fds)
  <2>. HIDE DEF ws
  <2>1. Filled(PutRaw(Buffered, ws), Buffered, sent.fds, accepted.fds)
    BY <1>4, <1>5, <1>6, PutRawFills
  <2>2. Filled(PutMarshalled(Buffered, ws), Buffered, sent.fds, accepted.fds)
    BY <1>4, <1>5, <1>6, PutMarshalledFills
  <2>. QED BY <2>1, <2>2
<1>. HIDE DEF r
<1>8. /\ chunks' \in Seq(Chunk) /\ freeChunks' \in Seq(Chunk)
      /\ Len(chunks') \in Nat \ {0} /\ Len(chunks') >= Len(chunks)
      /\ \A i \in 1..Len(chunks') : chunks'[i] # <<>> /\ Len(chunks'[i]) <= ChunkLimit
  BY <1>1, <1>4, <1>7, FilledChunks DEF Filled
<1>9. chunks' # <<>>
  BY <1>8
<1>10. TypeOK'
  BY <1>1, <1>3, <1>8, <1>9 DEF TypeOK
<1>11. ChunksFit'
  BY <1>8 DEF ChunksFit, ChunkLimit
<1>12. NoEmptyChunkAhead' /\ WaitMeansPending'
  BY <1>8 DEF NoEmptyChunkAhead, WaitMeansPending
<1>13. RecycledAreEmpty'
  BY <1>1, <1>7 DEF RecycledAreEmpty, Filled, WellFormed
<1>14. FdsFitChunks'
  <2>1. Len(fds) <= Len(chunks') * MaxFds
    <3>1. /\ Len(chunks) \in Nat /\ Len(chunks') \in Nat
          /\ Len(chunks) <= Len(chunks')
      BY <1>4, <1>8
    <3>2. /\ Len(chunks) * MaxFds <= Len(chunks') * MaxFds
          /\ Len(chunks) * MaxFds \in Nat
          /\ Len(chunks') * MaxFds \in Nat
      BY <3>1, TimesMaxFds, TimesMonotone
    <3>3. Len(fds) \in Nat /\ Len(fds) <= Len(chunks) * MaxFds
      BY <1>4, LenProperties DEF TypeOK
    <3>. QED BY <3>2, <3>3
  <2>2. chunks'[1] # <<>>
    BY <1>8
  <2>. QED BY <1>1, <2>1, <2>2 DEF FdsFitChunks
<1>15. FdsInOrder'
  BY <1>1, <1>3 DEF FdsInOrder
<1>16. FdsTravelWithData'
  BY <1>1, <1>3, <1>7 DEF FdsTravelWithData, Filled, Covered, Reach
<1>. QED BY <1>10, <1>11, <1>12, <1>13, <1>14, <1>15, <1>16

LEMMA SendChunkStep ==
    ASSUME IInv, SendChunk
    PROVE  IInv'
<1> DEFINE d == FdsPerSend
           n == Len(chunks)
           p == IF n > 1 THEN n - 1 ELSE 1
<1>. USE DEF IInv
<1>1. /\ pc \in {"fdsFlush", "flush", "forcedFlush"}
      /\ chunks[1] # <<>>
      /\ pc' = pc /\ msg' = msg /\ accepted' = accepted
      /\ fds' = SubSeq(fds, d + 1, Len(fds))
  BY DEF SendChunk, MaySend, InFlush
<1>2. ~waitForOutput /\ waitForOutput' = waitForOutput
  BY DEF SendChunk, MaySend
<1>3. sent' = [words |-> sent.words + Len(chunks[1]), fds |-> sent.fds + d]
  BY DEF SendChunk
<1>4. chunks \in Seq(Chunk) /\ freeChunks \in Seq(Chunk) /\ n \in Nat /\ n >= 1
  BY IInvBuffered DEF TypeOK
<1>5. /\ Len(fds) = accepted.fds - sent.fds
      /\ accepted.fds \in Nat /\ sent.fds \in Nat /\ sent.fds <= accepted.fds
  BY IInvBuffered DEF TypeOK, FdsInOrder
<1>6. MaxFds \in Nat /\ MaxFds >= 1 /\ MaxArgs \in Nat /\ MaxArgs <= MaxFds
  BY OutAssumption
<1>7. /\ d \in Nat /\ d <= Len(fds) /\ d <= MaxFds
      /\ d = MaxFds \/ d = Len(fds)
  BY <1>5, <1>6 DEF FdsPerSend
<1>. HIDE DEF d
<1>8. sent'.fds = sent.fds + d /\ sent'.fds \in Nat /\ sent'.fds <= accepted.fds
  <2>1. sent'.fds = sent.fds + d
    BY <1>3
  <2>. QED BY <1>5, <1>7, <2>1
<1>9. /\ fds' = Queue(sent'.fds, accepted.fds)
      /\ fds' \in Seq(Nat) /\ Len(fds') = Len(fds) - d
  <2>1. d \in 0..(accepted.fds - sent.fds)
    BY <1>5, <1>7
  <2>2. fds = Queue(sent.fds, accepted.fds)
    BY DEF FdsInOrder, Queue
  <2>3. fds' = Queue(sent.fds + d, accepted.fds)
    BY <1>1, <1>5, <2>1, <2>2, QueueDrop
  <2>4. /\ Queue(sent'.fds, accepted.fds) \in Seq(Nat)
        /\ Len(Queue(sent'.fds, accepted.fds)) = accepted.fds - sent'.fds
    BY <1>5, <1>8, QueueProps
  <2>5. accepted.fds - sent'.fds = Len(fds) - d
    BY <1>5, <1>7, <1>8
  <2>. QED BY <1>8, <2>3, <2>4, <2>5
\* The chunks left, and the spare ones.
<1>10. /\ chunks' \in Seq(Chunk) /\ chunks' # <<>>
       /\ Len(chunks') = p
       /\ n > 1 => \A i \in 1..(n - 1) : chunks'[i] = chunks[i + 1]
       /\ ~(n > 1) => chunks'[1] = <<>>
  <2>1. CASE n > 1
    <3>1. chunks' = Tail(chunks)
      BY <2>1 DEF SendChunk, ChunksLeft
    <3>2. chunks # <<>>
      BY DEF TypeOK
    <3>3. /\ Tail(chunks) \in Seq(Chunk)
          /\ Len(Tail(chunks)) = n - 1
          /\ \A i \in 1..Len(Tail(chunks)) : Tail(chunks)[i] = chunks[i + 1]
      BY <1>4, <3>2, HeadTailProperties
    <3>. HIDE DEF n
    <3>4. Tail(chunks) # <<>>
      <4>1. Len(Tail(chunks)) >= 1
        BY <1>4, <2>1, <3>3
      <4>. QED BY <4>1, LongIsNonEmpty
    <3>. QED BY <2>1, <3>1, <3>3, <3>4
  <2>2. CASE ~(n > 1)
    <3>1. chunks' = << <<>> >>
      BY <2>2 DEF SendChunk, ChunksLeft
    <3>2. <<>> \in Chunk
      BY EmptySeq DEF Chunk
    <3>3. << <<>> >> \in Seq(Chunk) /\ << <<>> >> # <<>> /\ Len(<< <<>> >>) = 1
          /\ << <<>> >>[1] = <<>>
      BY <3>2
    <3>. QED BY <2>2, <3>1, <3>3
  <2>. QED BY <2>1, <2>2
<1>11. freeChunks' = freeChunks \/ (freeChunks' = Append(freeChunks, <<>>)
                                   /\ Len(freeChunks) < AllowedExcess)
  BY DEF SendChunk, FreeWithSent
<1>12. p \in Nat /\ (n > 1 => p = n - 1) /\ (~(n > 1) => n = 1 /\ p = 1)
  <2>. HIDE DEF n
  <2>. QED BY <1>4
<1>. HIDE DEF n, p
<1>13. freeChunks' \in Seq(Chunk) /\ RecycledAreEmpty'
  <2>1. CASE freeChunks' = freeChunks
    BY <1>4, <2>1 DEF RecycledAreEmpty
  <2>2. CASE freeChunks' = Append(freeChunks, <<>>) /\ Len(freeChunks) < AllowedExcess
    <3>1. <<>> \in Chunk
      BY EmptySeq DEF Chunk
    <3>2. /\ freeChunks' \in Seq(Chunk)
          /\ Len(freeChunks') = Len(freeChunks) + 1
          /\ \A i \in 1..Len(freeChunks) : freeChunks'[i] = freeChunks[i]
          /\ freeChunks'[Len(freeChunks) + 1] = <<>>
          /\ Len(freeChunks) \in Nat
      BY <1>4, <2>2, <3>1, AppendProperties, LenProperties
    <3>. QED BY <2>2, <3>2, OutAssumption DEF RecycledAreEmpty
  <2>. QED BY <1>11, <2>1, <2>2
<1>14. TypeOK'
  <2>1. Len(chunks[1]) \in Nat
    <3>1. chunks[1] \in Seq(Word)
      BY <1>4, ElementOfSeq DEF Chunk, n
    <3>. QED BY <3>1, LenProperties
  <2>2. sent.words + Len(chunks[1]) \in Nat /\ sent.fds + d \in Nat
    BY <1>5, <1>7, <2>1, SMTT(60) DEF TypeOK
  <2>3. sent' \in [words : Nat, fds : Nat]
    BY <1>3, <2>2
  <2>4. waitForOutput' \in BOOLEAN
    BY <1>2 DEF TypeOK
  <2>. QED BY <1>1, <1>9, <1>10, <1>13, <2>3, <2>4 DEF TypeOK
\* Every chunk left but a lone cleared one was there before.
<1>15. ASSUME NEW i \in 1..p, n > 1
       PROVE  i + 1 \in 2..n /\ i + 1 \in 1..n /\ chunks'[i] = chunks[i + 1]
  <2>1. i \in 1..(n - 1) /\ i + 1 \in 2..n /\ i + 1 \in 1..n
    BY <1>4, <1>12, <1>15
  <2>. QED BY <1>10, <1>15, <2>1
<1>16. ChunksFit'
  <2>. SUFFICES ASSUME NEW i \in 1..p
                PROVE  Len(chunks'[i]) <= IF LimitSends THEN MaxWords ELSE ChunkSize
    BY <1>10 DEF ChunksFit
  <2>1. CASE n > 1
    BY <1>15, <2>1 DEF ChunksFit, n
  <2>2. CASE ~(n > 1)
    <3>1. i = 1
      BY <1>12, <2>2
    <3>2. Len(chunks'[i]) = 0
      BY <1>10, <2>2, <3>1
    <3>. QED BY <3>2, OutAssumption DEF ChunkSize
  <2>. QED BY <2>1, <2>2
<1>17. n > 1 => \A i \in 1..p : chunks'[i] # <<>>
  <2>. SUFFICES ASSUME n > 1, NEW i \in 1..p
                PROVE  chunks'[i] # <<>>
    OBVIOUS
  <2>1. i + 1 \in 1..(n - 1) \/ i + 1 = n
    BY <1>4, <1>15
  <2>2. chunks[i + 1] # <<>>
    BY <1>1, <2>1 DEF NoEmptyChunkAhead, n
  <2>. QED BY <1>15, <2>2
<1>18. NoEmptyChunkAhead'
  <2>1. \A i \in 1..(p - 1) : n > 1 /\ i \in 1..p
    BY <1>12
  <2>2. p > 1 => n > 1 /\ p \in 1..p
    BY <1>12
  <2>. QED BY <1>10, <1>17, <2>1, <2>2 DEF NoEmptyChunkAhead
<1>19. WaitMeansPending'
  BY <1>2 DEF WaitMeansPending
<1>20. FdsFitChunks'
  <2> DEFINE k == n * MaxFds
             l == p * MaxFds
             g == Len(fds)
             h == Len(fds')
  <2>1. k \in Nat /\ l \in Nat /\ g \in Nat /\ h \in Nat /\ h = g - d
    <3>1. k \in Nat
      BY <1>4, <1>6
    <3>2. l \in Nat
      BY <1>6, <1>12
    <3>3. g \in Nat /\ h \in Nat /\ h = g - d
      BY <1>5, <1>7, <1>9
    <3>. QED BY <3>1, <3>2, <3>3
  <2>2. n > 1 => l = k - MaxFds
    <3>. SUFFICES ASSUME n > 1 PROVE l = k - MaxFds
      OBVIOUS
    <3>1. p \in Nat /\ p + 1 = n
      BY <1>4, <1>12
    <3>2. (p + 1) * MaxFds = p * MaxFds + MaxFds
      BY <3>1, TimesMaxFds
    <3>. HIDE DEF l
    <3>3. k = l + MaxFds
      BY <3>1, <3>2 DEF l
    <3>. QED BY <1>6, <2>1, <3>3
  <2>3. ~(n > 1) => k = MaxFds /\ l = MaxFds
    BY <1>6, <1>12
  <2>4. pc = "fdsFlush" => g <= k + MaxArgs
    BY DEF FdsFitChunks, n
  <2>5. pc # "fdsFlush" => g <= k
    BY <1>1 DEF FdsFitChunks, n
  <2>. HIDE DEF k, l, g, h
  <2>6. pc = "fdsFlush" => h <= l + MaxArgs /\ (~(n > 1) => h <= MaxArgs)
    BY <1>6, <1>7, <2>1, <2>2, <2>3, <2>4 DEF g
  <2>7. pc # "fdsFlush" => h <= l /\ (~(n > 1) => h = 0)
    BY <1>6, <1>7, <2>1, <2>2, <2>3, <2>5 DEF g
  <2>8. h = 0 => fds' = <<>>
    BY <1>9, EmptySeq DEF h
  <2>9. chunks'[1] = <<>> => ~(n > 1)
    <3>1. n > 1 => 1 \in 1..p
      BY <1>4, <1>12
    <3>. QED BY <1>17, <3>1
  <2>. QED BY <1>1, <1>10, <2>6, <2>7, <2>8, <2>9 DEF FdsFitChunks, l, h
<1>21. FdsInOrder'
  BY <1>1, <1>8, <1>9 DEF FdsInOrder, Queue
<1>22. FdsTravelWithData'
  <2>. SUFFICES ASSUME NEW i \in 1..p, NEW j \in 1..Len(chunks'[i])
                PROVE  /\ chunks'[i][j].msg.lastFd <= sent'.fds + i * MaxFds
                       /\ chunks'[i][j].msg.lastFd <= accepted.fds
    BY <1>1, <1>10 DEF FdsTravelWithData
  <2>1. n > 1 /\ i \in Nat
    <3>1. ~(n > 1) => i = 1 /\ chunks'[1] = <<>>
      BY <1>10, <1>12
    <3>. QED BY <3>1
  <2>2. i + 1 \in 1..n /\ chunks'[i] = chunks[i + 1] /\ i + 1 \in 1..Len(chunks)
    BY <1>15, <2>1 DEF n
  <2> DEFINE x == chunks[i + 1][j].msg.lastFd
  <2>3. x <= accepted.fds /\ x <= Reach(sent.fds, i + 1)
    BY <2>2 DEF FdsTravelWithData, Reach
  <2>4. x \in Nat
    BY <2>2, WordsAreTyped
  <2>. HIDE DEF x
  <2>5. x <= Reach(sent'.fds, i)
    <3>1. CASE d = MaxFds
      <4>1. Reach(sent.fds + MaxFds, i) = Reach(sent.fds, i + 1)
        BY <1>5, <2>1, ReachProps
      <4>. QED BY <1>8, <2>3, <3>1, <4>1
    <3>2. CASE d = Len(fds)
      <4>1. sent'.fds = accepted.fds
        BY <1>5, <1>8, <3>2
      <4> DEFINE y == i * MaxFds
      <4>2. y \in Nat
        BY <2>1, TimesMaxFds
      <4>3. Reach(sent'.fds, i) = accepted.fds + y
        BY <4>1 DEF Reach
      <4>. HIDE DEF y
      <4>. QED BY <1>5, <2>3, <2>4, <4>2, <4>3
    <3>. QED BY <1>7, <3>1, <3>2
  <2>. QED BY <2>2, <2>3, <2>5 DEF Reach, x
<1>. QED BY <1>13, <1>14, <1>16, <1>18, <1>19, <1>20, <1>21, <1>22

LEMMA FlushReturnStep ==
    ASSUME IInv, FlushReturn
    PROVE  IInv'
<1> DEFINE n == Len(chunks)
           k == n * MaxFds
           over == pc = "fdsFlush" /\ TooManyFds(Len(fds), Len(chunks))
           r == StartNextChunk(Buffered)
<1>. USE DEF IInv
<1>1. /\ pc \in {"fdsFlush", "flush", "forcedFlush"}
      /\ pc' = IF pc = "fdsFlush" THEN "put" ELSE "idle"
      /\ fds' = fds /\ msg' = msg /\ accepted' = accepted /\ sent' = sent
  BY DEF FlushReturn, InFlush
<1>2. waitForOutput' = waitForOutput
  BY DEF FlushReturn
<1>3. IF over THEN chunks' = r.active /\ freeChunks' = r.free
              ELSE chunks' = chunks /\ freeChunks' = freeChunks
  BY DEF FlushReturn
<1>4. /\ chunks \in Seq(Chunk) /\ n \in Nat /\ n >= 1
      /\ Len(fds) \in Nat
      /\ MaxFds \in Nat /\ MaxFds >= 1 /\ MaxArgs \in Nat /\ MaxArgs <= MaxFds
  BY IInvBuffered, LenProperties, OutAssumption DEF TypeOK
<1>5. /\ WellFormed(Buffered)
      /\ EndLen(Buffered) \in 0..ChunkLimit
      /\ Covered(Buffered.active, sent.fds, accepted.fds)
      /\ Buffered.active = chunks
  BY IInvBuffered
<1>6. k \in Nat /\ k >= MaxFds
  <2> DEFINE b == n - 1
             q == b * MaxFds
  <2>1. b \in Nat /\ b + 1 = n
    BY <1>4
  <2>. HIDE DEF b
  <2>2. b * MaxFds \in Nat /\ (b + 1) * MaxFds = b * MaxFds + MaxFds
    BY <2>1, TimesMaxFds
  <2>3. k = q + MaxFds /\ q \in Nat
    BY <2>1, <2>2
  <2>. HIDE DEF k, q
  <2>. QED BY <1>4, <2>3
<1>. HIDE DEF n, k, over, r
<1>7. FdsInOrder'
  BY <1>1 DEF FdsInOrder
<1>8. CASE over
  <2>1. /\ pc = "fdsFlush" /\ pc' = "put"
        /\ Len(fds) > k
        /\ chunks' = r.active /\ freeChunks' = r.free
    BY <1>1, <1>3, <1>8 DEF over, TooManyFds, k, n
  <2>2. Len(fds) <= k + MaxArgs /\ chunks[1] # <<>>
    <3>1. Len(fds) <= k + MaxArgs /\ (chunks[1] = <<>> => Len(fds) <= MaxArgs)
      BY <2>1 DEF FdsFitChunks, k, n
    <3>. QED BY <1>4, <1>6, <2>1, <3>1
  <2>3. chunks[n] # <<>>
    <3>1. CASE n > 1
      BY <2>1, <3>1 DEF NoEmptyChunkAhead, n
    <3>2. CASE ~(n > 1)
      <4>1. n = 1
        BY <1>4, <3>2
      <4>. QED BY <2>2, <4>1
    <3>. QED BY <3>1, <3>2
  <2>4. EndLen(Buffered) \in 1..ChunkSize /\ EndLen(Buffered) <= ChunkLimit
        /\ Len(Buffered.active) = n /\ MaxWords \in Nat
    <3>1. EndLen(Buffered) = Len(chunks[n])
      BY <1>5 DEF EndLen, n
    <3>2. chunks[n] \in Seq(Word)
      BY <1>4, ElementOfSeq DEF Chunk, n
    <3>3. Len(chunks[n]) \in Nat \ {0}
      BY <2>3, <3>2, EmptySeq
    <3>4. ChunkLimit \in Nat /\ ChunkLimit <= ChunkSize /\ ChunkSize \in Nat
      BY OutAssumption DEF ChunkLimit, ChunkSize
    <3>5. EndLen(Buffered) \in 1..ChunkSize /\ EndLen(Buffered) <= ChunkLimit
      BY <1>5, <3>1, <3>3, <3>4
    <3>. QED BY <1>5, <3>5, OutAssumption DEF n
  <2>5. WellFormed(r) /\ Len(r.active) = n + 1 /\ EndLen(r) = 0
    <3>1. /\ WellFormed(r)
          /\ Len(r.active) = Len(Buffered.active) + 1
          /\ EndLen(r) = IF LimitSends /\ EndLen(Buffered) > MaxWords
                         THEN EndLen(Buffered) - MaxWords ELSE 0
      BY <1>5, <2>4, StartNextChunkWellFormed DEF r
    <3>2. ~(LimitSends /\ EndLen(Buffered) > MaxWords)
      <4>1. LimitSends => EndLen(Buffered) <= MaxWords
        BY <2>4 DEF ChunkLimit
      <4>. QED BY <2>4, <4>1
    <3>. QED BY <2>4, <3>1, <3>2
  <2>6. Covered(chunks', sent.fds, accepted.fds)
    <3>1. /\ Buffered \in Buffer /\ Buffered.active # <<>>
          /\ \A i \in 1..Len(Buffered.free) : Buffered.free[i] = <<>>
      BY <1>5 DEF WellFormed
    <3>2. sent.fds \in Nat /\ accepted.fds \in Nat
      BY DEF TypeOK
    <3>. QED BY <1>5, <2>1, <3>1, <3>2, StartNextChunkCovered DEF r
  <2>7. /\ chunks' \in Seq(Chunk) /\ freeChunks' \in Seq(Chunk)
        /\ Len(chunks') = n + 1 /\ chunks' # <<>>
    BY <2>1, <2>5 DEF WellFormed, Buffer
  <2>8. /\ \A i \in 1..n : chunks'[i] # <<>> /\ Len(chunks'[i]) <= ChunkLimit
        /\ Len(chunks'[n + 1]) = 0
    <3>1. \A i \in 1..n : chunks'[i] # <<>> /\ Len(chunks'[i]) <= ChunkLimit
      <4>1. Len(r.active) - 1 = n
        BY <1>4, <2>5
      <4>. QED BY <2>1, <2>5, <4>1 DEF WellFormed
    <3>2. Len(chunks'[n + 1]) = 0
      BY <2>1, <2>5 DEF EndLen
    <3>. QED BY <1>4, <3>1, <3>2
  <2>9. TypeOK'
    <3>1. waitForOutput' \in BOOLEAN
      BY <1>2 DEF TypeOK
    <3>. QED BY <1>1, <2>1, <2>7, <3>1 DEF TypeOK
  <2>10. ChunksFit'
    <3>1. 0 <= ChunkLimit
      BY OutAssumption DEF ChunkLimit, ChunkSize
    <3>2. \A i \in 1..(n + 1) : Len(chunks'[i]) <= ChunkLimit
      <4>. SUFFICES ASSUME NEW i \in 1..(n + 1) PROVE Len(chunks'[i]) <= ChunkLimit
        OBVIOUS
      <4>1. i \in 1..n \/ i = n + 1
        BY <1>4
      <4>. QED BY <2>8, <3>1, <4>1
    <3>. QED BY <2>7, <3>2 DEF ChunksFit, ChunkLimit
  <2>11. RecycledAreEmpty'
    BY <2>1, <2>5 DEF RecycledAreEmpty, WellFormed
  <2>12. NoEmptyChunkAhead'
    <3>1. \A i \in 1..(Len(chunks') - 1) : i \in 1..n
      BY <1>4, <2>7
    <3>. QED BY <2>1, <2>8, <3>1 DEF NoEmptyChunkAhead
  <2>13. WaitMeansPending'
    <3>1. 1 \in 1..n
      BY <1>4
    <3>. QED BY <2>8, <3>1 DEF WaitMeansPending
  <2>14. FdsFitChunks'
    <3> DEFINE l == Len(chunks') * MaxFds
    <3>1. l = k + MaxFds
      BY <1>4, <2>7, TimesMaxFds DEF k
    <3>. HIDE DEF l
    <3>2. Len(fds') <= l
      BY <1>1, <1>4, <1>6, <2>2, <3>1
    <3>. QED BY <2>1, <3>2 DEF FdsFitChunks, l
  <2>15. FdsTravelWithData'
    BY <1>1, <2>6 DEF FdsTravelWithData, Covered, Reach
  <2>. QED BY <1>7, <2>9, <2>10, <2>11, <2>12, <2>13, <2>14, <2>15
<1>9. CASE ~over
  <2>1. chunks' = chunks /\ freeChunks' = freeChunks
    BY <1>3, <1>9
  <2>2. TypeOK'
    BY <1>1, <1>2, <2>1 DEF TypeOK
  <2>3. ChunksFit' /\ RecycledAreEmpty' /\ NoEmptyChunkAhead' /\ FdsTravelWithData'
    BY <1>1, <2>1
    DEF ChunksFit, RecycledAreEmpty, NoEmptyChunkAhead, FdsTravelWithData
  <2>4. WaitMeansPending'
    BY <1>2, <2>1 DEF WaitMeansPending
  <2>5. FdsFitChunks'
    <3>1. CASE pc = "fdsFlush"
      <4>1. Len(fds) <= k /\ pc' = "put"
        BY <1>1, <1>4, <1>6, <1>9, <3>1 DEF over, TooManyFds, k, n
      <4>. QED BY <1>1, <2>1, <4>1 DEF FdsFitChunks, k, n
    <3>2. CASE pc # "fdsFlush"
      <4>1. pc' = "idle" /\ pc \in {"flush", "forcedFlush"}
        BY <1>1, <3>2
      <4>. QED BY <1>1, <2>1, <4>1 DEF FdsFitChunks
    <3>. QED BY <3>1, <3>2
  <2>. QED BY <1>7, <2>2, <2>3, <2>4, <2>5
<1>. QED BY <1>8, <1>9

\* The steps that change neither the chunks nor the descriptors.
LEMMA OtherSteps ==
    ASSUME IInv, SendRefused \/ SendFailed \/ GotOutputEvent \/ ForceFlush \/ UNCHANGED outVars
    PROVE  IInv'
<1>. USE DEF IInv
<1>1. /\ chunks' = chunks /\ freeChunks' = freeChunks /\ fds' = fds
      /\ msg' = msg /\ accepted' = accepted /\ sent' = sent
  BY DEF SendRefused, SendFailed, GotOutputEvent, ForceFlush, outVars
<1>2. \/ pc' = pc
      \/ pc' = "failed" /\ pc # "put"
      \/ pc = "idle" /\ pc' = "forcedFlush"
  BY DEF SendRefused, SendFailed, GotOutputEvent, ForceFlush, outVars, MaySend, InFlush
<1>3. waitForOutput' \in BOOLEAN /\ (waitForOutput' => waitForOutput \/ chunks[1] # <<>>)
  <2>1. CASE SendRefused
    BY <2>1, Zenon DEF SendRefused, MaySend
  <2>2. CASE GotOutputEvent
    BY <2>2, Zenon DEF GotOutputEvent
  <2>3. CASE SendFailed \/ ForceFlush \/ UNCHANGED outVars
    <3>1. waitForOutput' = waitForOutput
      BY <2>3 DEF SendFailed, ForceFlush, outVars
    <3>. QED BY <3>1, Zenon DEF TypeOK
  <2>. QED BY <2>1, <2>2, <2>3
<1>4. TypeOK'
  BY <1>1, <1>2, <1>3 DEF TypeOK
<1>5. ChunksFit' /\ RecycledAreEmpty' /\ FdsInOrder' /\ FdsTravelWithData'
  BY <1>1 DEF ChunksFit, RecycledAreEmpty, FdsInOrder, FdsTravelWithData
<1>6. NoEmptyChunkAhead' /\ FdsFitChunks'
  BY <1>1, <1>2 DEF NoEmptyChunkAhead, FdsFitChunks
<1>7. WaitMeansPending'
  BY <1>1, <1>3 DEF WaitMeansPending
<1>. QED BY <1>4, <1>5, <1>6, <1>7

-----------------------------------------------------------------------------
LEMMA IInvStep == IInv /\ [Next]_outVars => IInv'
<1>. SUFFICES ASSUME IInv, [Next]_outVars PROVE IInv'
  OBVIOUS
<1>1. ASSUME NEW m \in Messages, AddFds(m) PROVE IInv'
  BY <1>1, AddFdsStep
<1>2. CASE Put
  BY <1>2, PutStep
<1>3. CASE SendChunk
  BY <1>3, SendChunkStep
<1>4. CASE FlushReturn
  BY <1>4, FlushReturnStep
<1>5. CASE SendRefused \/ SendFailed \/ GotOutputEvent \/ ForceFlush \/ UNCHANGED outVars
  BY <1>5, OtherSteps
<1>. QED BY <1>1, <1>2, <1>3, <1>4, <1>5 DEF Next

\* IInv is inductive: every call keeps the buffer in order, at every point
\* where it may be interrupted by the peer.
THEOREM Invariance == Spec => []IInv
<1>1. Init => IInv
  BY InitIInv
<1>2. IInv /\ [Next]_outVars => IInv'
  BY IInvStep
<1>. QED BY <1>1, <1>2, PTL DEF Spec

\* The state stays well typed, with never an empty list of chunks.
THEOREM TypeCorrect == Spec => []TypeOK
<1>1. IInv => TypeOK
  BY DEF IInv
<1>. QED BY <1>1, Invariance, PTL

\* Chunks never outgrow their capacity, nor a receive of the peer under
\* limit_sends: no push or subtraction of send and send_raw can panic.
THEOREM ChunksAlwaysFit == Spec => []ChunksFit
<1>1. IInv => ChunksFit
  BY DEF IInv
<1>. QED BY <1>1, Invariance, PTL

\* No flush can be stopped by an empty chunk or by a wait with nothing to send.
THEOREM NeverStalls == Spec => []NoStall
<1>1. IInv => NoStall
  BY DEF IInv, NoStall
<1>. QED BY <1>1, Invariance, PTL

\* Each queued descriptor has a chunk to travel with, and each word its
\* descriptors with its chunk or an earlier one: what add_fds is for.
THEOREM FdsAlwaysKeepUp == Spec => []FdsKeepUp
<1>1. IInv => FdsKeepUp
  BY DEF IInv, FdsKeepUp
<1>. QED BY <1>1, Invariance, PTL

LEMMA SendCarriesFds ==
    ASSUME IInv, SendChunk, NEW j \in 1..Len(chunks[1])
    PROVE  chunks[1][j].msg.lastFd <= sent'.fds
<1> DEFINE d == FdsPerSend
           x == chunks[1][j].msg.lastFd
<1>. USE DEF IInv
<1>1. sent'.fds = sent.fds + d
  <2>1. sent' = [words |-> sent.words + Len(chunks[1]), fds |-> sent.fds + d]
    BY DEF SendChunk
  <2>. HIDE DEF d
  <2>. QED BY <2>1
<1>2. /\ Len(fds) = accepted.fds - sent.fds
      /\ accepted.fds \in Nat /\ sent.fds \in Nat /\ sent.fds <= accepted.fds
      /\ 1 \in 1..Len(chunks)
  BY IInvBuffered DEF TypeOK, FdsInOrder
<1>3. MaxFds \in Nat
  BY OutAssumption
<1>4. d = MaxFds \/ d = Len(fds)
  BY DEF FdsPerSend
<1>5. x \in Nat
  BY <1>2, WordsAreTyped
<1>6. x <= sent.fds + 1 * MaxFds /\ x <= accepted.fds
  BY <1>2 DEF FdsTravelWithData
<1>. HIDE DEF d, x
<1>7. x <= sent'.fds
  BY <1>1, <1>2, <1>3, <1>4, <1>5, <1>6
<1>. QED BY <1>7 DEF x

\* No word of a message leaves before the descriptors of the message: whatever
\* the receiver has read, it has the descriptors of all of it.
THEOREM NoFdStarvation == Spec => FdsSentWithWords
<1> DEFINE A == sent'.words > sent.words =>
                   \A j \in 1..Len(chunks[1]) : chunks[1][j].msg.lastFd <= sent'.fds
<1>1. IInv /\ [Next]_outVars => A
  <2>. SUFFICES ASSUME IInv, [Next]_outVars, sent'.words > sent.words
                PROVE  \A j \in 1..Len(chunks[1]) : chunks[1][j].msg.lastFd <= sent'.fds
    OBVIOUS
  <2>1. CASE SendChunk
    BY <2>1, SendCarriesFds
  <2>2. CASE ~SendChunk
    <3>1. sent' = sent
      BY <2>2 DEF Next, AddFds, Put, SendRefused, SendFailed, FlushReturn,
                  GotOutputEvent, ForceFlush, outVars
    <3>2. sent.words \in Nat
      BY DEF IInv, TypeOK
    <3>. QED BY <3>1, <3>2, SMTT(60)
  <2>. QED BY <2>1, <2>2
<1>2. IInv /\ [Next]_outVars => [A]_outVars
  BY <1>1
<1>. QED BY <1>2, Invariance, PTL DEF Spec, FdsSentWithWords

LEMMA ReturnStep ==
    ASSUME IInv, [Next]_outVars, pc # "idle", pc' = "idle", ~waitForOutput'
    PROVE  Len(chunks') <= 1 /\ (pc = "forcedFlush" => chunks'[1] = <<>>)
<1>1. FlushReturn
  BY DEF Next, AddFds, Put, SendChunk, SendRefused, SendFailed, GotOutputEvent,
         ForceFlush, MaySend, InFlush, outVars
<1>2. pc # "fdsFlush" /\ chunks' = chunks
  BY <1>1 DEF FlushReturn
<1>3. ~waitForOutput
  BY <1>1 DEF FlushReturn
<1>4. ~(Len(chunks) > 1 \/ pc # "flush") \/ chunks[1] = <<>>
  BY <1>1, <1>3, Zenon DEF FlushReturn, FlushDone, MaySend
<1>5. Len(chunks) \in Nat \ {0}
  BY IInvBuffered
<1>6. chunks[1] = <<>> => ~(Len(chunks) > 1)
  <2>. SUFFICES ASSUME Len(chunks) > 1 PROVE chunks[1] # <<>>
    OBVIOUS
  <2>1. 1 \in 1..(Len(chunks) - 1)
    BY <1>5
  <2>. QED BY <2>1 DEF IInv, NoEmptyChunkAhead
<1>7. ~(Len(chunks) > 1)
  BY <1>4, <1>6
<1>8. pc = "forcedFlush" => chunks[1] = <<>>
  BY <1>4
<1>. QED BY <1>2, <1>5, <1>7, <1>8

\* A call that returns has left no chunk behind that the kernel would take,
\* except the end chunk of a flush that was not forced.
THEOREM FlushDrains == Spec => ReturnsDrained
<1> DEFINE P == pc # "idle" /\ pc' = "idle" /\ ~waitForOutput'
           Q == Len(chunks') <= 1 /\ (pc = "forcedFlush" => chunks'[1] = <<>>)
<1>1. IInv /\ [Next]_outVars => (P => Q)
  BY ReturnStep
<1>2. IInv /\ [Next]_outVars => [P => Q]_outVars
  BY <1>1
<1>. QED BY <1>2, Invariance, PTL DEF Spec, ReturnsDrained

-----------------------------------------------------------------------------
(* The stream: what the chunks hold one after the other. *)

Stream(b) == FlattenSeq(b.active)

LEMMA ChunkLists ==
    ASSUME NEW b \in Buffer, b.active # <<>>
    PROVE  /\ b.active \in Seq(Seq(Word))
           /\ Last(b.active) = b.active[Len(b.active)]
           /\ Last(b.active) \in Seq(Word)
           /\ Front(b.active) \in Seq(Seq(Word))
           /\ FlattenSeq(Front(b.active)) \in Seq(Word)
           /\ Stream(b) = FlattenSeq(Front(b.active)) \o Last(b.active)
<1>1. b.active \in Seq(Seq(Word))
  BY DEF Buffer, Chunk
<1>2. Last(b.active) \in Seq(Word) /\ Front(b.active) \in Seq(Seq(Word))
  BY <1>1, FrontLastConcat
<1>3. FlattenSeq(Front(b.active)) \in Seq(Word)
  BY <1>2, FlattenType
<1>4. FlattenSeq(b.active) = FlattenSeq(Front(b.active)) \o Last(b.active)
  BY <1>1, FlattenFrontLast
<1>. QED BY <1>1, <1>2, <1>3, <1>4 DEF Stream, Last

\* Extending the end chunk extends the stream.
LEMMA ExtendStream ==
    ASSUME NEW b \in Buffer, b.active # <<>>, NEW ws \in Chunk
    PROVE  Stream(Extend(b, ws)) = Stream(b) \o ws
<1> DEFINE a == b.active
           e == a[Len(a)] \o ws
<1>1. /\ a \in Seq(Seq(Word)) /\ a # <<>> /\ ws \in Seq(Word)
      /\ Last(a) = a[Len(a)] /\ Last(a) \in Seq(Word)
      /\ Front(a) \in Seq(Seq(Word)) /\ FlattenSeq(Front(a)) \in Seq(Word)
      /\ Stream(b) = FlattenSeq(Front(a)) \o Last(a)
  BY ChunkLists DEF Chunk
<1>2. e \in Seq(Word) /\ e = Last(a) \o ws
  BY <1>1, ConcatProperties
<1>3. Extend(b, ws).active = [a EXCEPT ![Len(a)] = e]
  BY DEF Extend, Buffer
<1>. HIDE DEF a, e
<1>4. [a EXCEPT ![Len(a)] = e] = Append(Front(a), e)
  <2>1. a \in Seq(Seq(Word)) /\ a # <<>> /\ e \in Seq(Word)
    BY <1>1, <1>2
  <2>. QED BY <2>1, ReplaceLast
<1>5. FlattenSeq(Append(Front(a), e)) = FlattenSeq(Front(a)) \o e
  BY <1>1, <1>2, FlattenAppend
<1>6. FlattenSeq(Front(a)) \o (Last(a) \o ws) = (FlattenSeq(Front(a)) \o Last(a)) \o ws
  <2>1. FlattenSeq(Front(a)) \in Seq(Word) /\ Last(a) \in Seq(Word) /\ ws \in Seq(Word)
    BY <1>1
  <2>. QED BY <2>1, ConcatAssociative, SMTT(60)
<1>. QED BY <1>1, <1>2, <1>3, <1>4, <1>5, <1>6 DEF Stream

\* Starting a chunk moves words, but neither adds nor drops any.
LEMMA StartNextChunkStream ==
    ASSUME NEW b \in Buffer, b.active # <<>>,
           \A i \in 1..Len(b.free) : b.free[i] = <<>>
    PROVE  Stream(StartNextChunk(b)) = Stream(b)
<1> DEFINE a == b.active
           old == Last(a)
           keep == IF LimitSends /\ Len(old) > MaxWords THEN MaxWords ELSE Len(old)
           new == IF b.free = <<>> THEN <<>> ELSE Last(b.free)
           kept == SubSeq(old, 1, keep)
           rest == SubSeq(old, keep + 1, Len(old))
           cut == [a EXCEPT ![Len(a)] = kept]
<1>1. /\ a \in Seq(Seq(Word)) /\ a # <<>>
      /\ old \in Seq(Word) /\ Len(old) \in Nat
      /\ Front(a) \in Seq(Seq(Word)) /\ FlattenSeq(Front(a)) \in Seq(Word)
      /\ Stream(b) = FlattenSeq(Front(a)) \o old
  BY ChunkLists, LenProperties
<1>2. keep \in 0..Len(old)
  BY <1>1, OutAssumption
<1>3. new = <<>>
  BY EmptySeq, LenProperties DEF Buffer, Last
<1>4. StartNextChunk(b).active = Append(cut, new \o rest)
  BY DEF StartNextChunk, Last
<1>. HIDE DEF keep, new, old, a
<1>5. /\ old = kept \o rest /\ kept \in Seq(Word) /\ rest \in Seq(Word)
  BY <1>1, <1>2, CutConcat
<1>6. new \o rest = rest
  BY <1>3, <1>5, ConcatEmptySeq
<1>. HIDE DEF kept, rest
<1>7. cut = Append(Front(a), kept)
  BY <1>1, <1>5, ReplaceLast
<1>8. Append(Front(a), kept) \in Seq(Seq(Word))
  BY <1>1, <1>5, AppendProperties
<1>9. FlattenSeq(Append(Append(Front(a), kept), rest))
        = FlattenSeq(Append(Front(a), kept)) \o rest
  BY <1>5, <1>8, FlattenAppend
<1>10. FlattenSeq(Append(Front(a), kept)) = FlattenSeq(Front(a)) \o kept
  BY <1>1, <1>5, FlattenAppend
<1>11. (FlattenSeq(Front(a)) \o kept) \o rest = FlattenSeq(Front(a)) \o (kept \o rest)
  <2>1. FlattenSeq(Front(a)) \in Seq(Word) /\ kept \in Seq(Word) /\ rest \in Seq(Word)
    BY <1>1, <1>5
  <2>. QED BY <2>1, ConcatAssociative, SMTT(60)
<1>. QED BY <1>1, <1>4, <1>5, <1>6, <1>7, <1>9, <1>10, <1>11 DEF Stream

\* Both ways to put a message append its words to the stream.
LEMMA PutMarshalledStream ==
    ASSUME NEW b, WellFormed(b), EndLen(b) <= ChunkLimit,
           NEW ws \in Chunk, Len(ws) \in 2..MaxWords
    PROVE  Stream(PutMarshalled(b, ws)) = Stream(b) \o ws
<1> DEFINE ready == IF Room(b) < MaxWords THEN StartNextChunk(b) ELSE b
           filled == Extend(ready, ws)
<1>1. /\ b \in Buffer /\ b.active # <<>>
      /\ \A i \in 1..Len(b.free) : b.free[i] = <<>>
  BY DEF WellFormed
<1>2. /\ ready \in Buffer /\ ready.active # <<>>
      /\ \A i \in 1..Len(ready.free) : ready.free[i] = <<>>
      /\ Stream(ready) = Stream(b)
  <2> DEFINE r == StartNextChunk(b)
  <2>1. Stream(r) = Stream(b)
    BY <1>1, StartNextChunkStream
  <2>2. /\ r \in Buffer /\ r.active # <<>>
        /\ \A i \in 1..Len(r.free) : r.free[i] = <<>>
    BY <1>1, StartNextChunkProps
  <2>. HIDE DEF r
  <2>. QED BY <1>1, <2>1, <2>2 DEF r
<1>. HIDE DEF ready
<1>3. /\ filled \in Buffer /\ filled.active # <<>>
      /\ \A i \in 1..Len(filled.free) : filled.free[i] = <<>>
  BY <1>2, ExtendProps
<1>4. Stream(filled) = Stream(b) \o ws
  BY <1>2, ExtendStream
<1>. HIDE DEF filled
<1>5. Stream(StartNextChunk(filled)) = Stream(filled)
  BY <1>3, StartNextChunkStream
<1>6. PutMarshalled(b, ws) = IF LimitSends /\ Room(filled) < MaxWords
                             THEN StartNextChunk(filled) ELSE filled
  BY DEF PutMarshalled, filled, ready
<1>. QED BY <1>4, <1>5, <1>6

LEMMA PutRawStream ==
    ASSUME NEW b, WellFormed(b), EndLen(b) <= ChunkLimit,
           NEW ws \in Chunk, Len(ws) \in 2..MaxWords
    PROVE  Stream(PutRaw(b, ws)) = Stream(b) \o ws
<1> DEFINE room == RawRoom(b)
           first == SubSeq(ws, 1, room)
           rest == SubSeq(ws, room + 1, Len(ws))
           b1 == Extend(b, first)
           b2 == StartNextChunk(b1)
<1>1. /\ b \in Buffer /\ b.active # <<>>
      /\ \A i \in 1..Len(b.free) : b.free[i] = <<>>
  BY DEF WellFormed
<1>2. room \in Nat
  <2>1. room = ChunkLimit - EndLen(b)
    BY DEF RawRoom, Room, ChunkLimit, EndLen, Last
  <2>2. ChunkLimit \in Nat
    BY OutAssumption DEF ChunkLimit, ChunkSize
  <2>3. EndLen(b) \in Nat
    BY ExtendWellFormed
  <2>. HIDE DEF room
  <2>. QED BY <2>1, <2>2, <2>3
<1>3. CASE room >= Len(ws)
  BY <1>1, <1>3, ExtendStream DEF PutRaw
<1>4. CASE ~(room >= Len(ws))
  <2>1. PutRaw(b, ws) = Extend(b2, rest)
    BY <1>4 DEF PutRaw
  <2>. HIDE DEF room
  <2>2. room \in 0..Len(ws)
    BY <1>2, <1>4, OutAssumption
  <2>3. ws = first \o rest /\ first \in Chunk /\ rest \in Chunk
    BY <2>2, CutConcat DEF Chunk
  <2>. HIDE DEF first, rest
  <2>4. /\ b1 \in Buffer /\ b1.active # <<>>
        /\ \A i \in 1..Len(b1.free) : b1.free[i] = <<>>
        /\ Stream(b1) = Stream(b) \o first
    BY <1>1, <2>3, ExtendProps, ExtendStream
  <2>. HIDE DEF b1
  <2>5. b2 \in Buffer /\ b2.active # <<>> /\ Stream(b2) = Stream(b1)
    BY <2>4, StartNextChunkProps, StartNextChunkStream
  <2>. HIDE DEF b2
  <2>6. Stream(Extend(b2, rest)) = (Stream(b) \o first) \o rest
    BY <2>3, <2>4, <2>5, ExtendStream
  <2>7. Stream(b) \in Seq(Word) /\ first \in Seq(Word) /\ rest \in Seq(Word)
    BY <1>1, <2>3, ChunkLists, FlattenType DEF Stream, Chunk
  <2>8. (Stream(b) \o first) \o rest = Stream(b) \o (first \o rest)
    BY <2>7, ConcatAssociative, SMTT(60)
  <2>. QED BY <2>1, <2>3, <2>6, <2>8
<1>. QED BY <1>3, <1>4

-----------------------------------------------------------------------------
\* Words ws are those of the stream from the one behind p on.
Consecutive(ws, p) == \A k \in 1..Len(ws) : ws[k].pos = p + k

LEMMA ConsecutiveConcat ==
    ASSUME NEW s \in Seq(Word), NEW t \in Seq(Word), NEW p \in Nat
    PROVE  Consecutive(s \o t, p) <=> Consecutive(s, p) /\ Consecutive(t, p + Len(s))
<1> DEFINE m == Len(s)
           n == Len(t)
           u == s \o t
<1>1. /\ m \in Nat /\ n \in Nat /\ Len(u) = m + n
      /\ \A i \in 1..(m + n) : u[i] = IF i <= m THEN s[i] ELSE t[i - m]
  BY ConcatProperties, LenProperties
<1>. HIDE DEF m, n, u
<1>2. ASSUME Consecutive(u, p)
      PROVE  Consecutive(s, p) /\ Consecutive(t, p + m)
  <2>1. ASSUME NEW k \in 1..m PROVE s[k].pos = p + k
    <3>1. k \in 1..(m + n) /\ k <= m
      BY <1>1
    <3>2. u[k].pos = p + k
      BY <1>1, <1>2, <3>1 DEF Consecutive
    <3>. QED BY <1>1, <3>1, <3>2
  <2>2. ASSUME NEW k \in 1..n PROVE t[k].pos = (p + m) + k
    <3>1. k + m \in 1..(m + n) /\ ~(k + m <= m) /\ (k + m) - m = k
      BY <1>1
    <3>2. u[k + m].pos = p + (k + m)
      BY <1>1, <1>2, <3>1 DEF Consecutive
    <3>3. u[k + m] = t[k]
      BY <1>1, <3>1
    <3>4. p + (k + m) = (p + m) + k
      BY <1>1
    <3>. QED BY <3>2, <3>3, <3>4
  <2>. QED BY <2>1, <2>2 DEF Consecutive, m, n
<1>3. ASSUME Consecutive(s, p), Consecutive(t, p + m)
      PROVE  Consecutive(u, p)
  <2>1. ASSUME NEW k \in 1..(m + n) PROVE u[k].pos = p + k
    <3>1. CASE k <= m
      <4>1. k \in 1..Len(s) /\ u[k] = s[k]
        BY <1>1, <3>1 DEF m
      <4>. QED BY <1>3, <4>1 DEF Consecutive
    <3>2. CASE ~(k <= m)
      <4>1. k - m \in 1..Len(t) /\ u[k] = t[k - m]
        BY <1>1, <3>2 DEF n
      <4>2. t[k - m].pos = (p + m) + (k - m)
        BY <1>3, <4>1 DEF Consecutive
      <4>3. (p + m) + (k - m) = p + k
        BY <1>1
      <4>. QED BY <4>1, <4>2, <4>3
    <3>. QED BY <3>1, <3>2
  <2>. QED BY <1>1, <2>1 DEF Consecutive
<1>. QED BY <1>2, <1>3 DEF m, u

StreamInv ==
    /\ FlattenSeq(chunks) \in Seq(Word)
    /\ Len(FlattenSeq(chunks)) = accepted.words - sent.words
    /\ Consecutive(FlattenSeq(chunks), sent.words)

LEMMA StreamInvFacts ==
    ASSUME IInv
    PROVE  /\ chunks \in Seq(Seq(Word)) /\ chunks # <<>> /\ FlattenSeq(chunks) \in Seq(Word)
           /\ accepted.words \in Nat /\ sent.words \in Nat /\ sent.words + 0 = sent.words
           /\ StreamInv <=> StreamInOrder
<1>1. chunks \in Seq(Seq(Word)) /\ chunks # <<>>
  BY DEF IInv, TypeOK, Chunk
<1>2. FlattenSeq(chunks) \in Seq(Word)
  BY <1>1, FlattenType
<1>3. accepted.words \in Nat /\ sent.words \in Nat
  BY DEF IInv, TypeOK
<1>. QED BY <1>1, <1>2, <1>3 DEF StreamInv, StreamInOrder, Consecutive

\* Put adds the words of its message to the end of the stream.
LEMMA PutAddsWords ==
    ASSUME IInv, Put
    PROVE  LET ws == WordsOf(msg, accepted.words, accepted.fds)
           IN  /\ ws \in Seq(Word) /\ Len(ws) = msg.len /\ msg.len \in 2..MaxWords
               /\ Consecutive(ws, accepted.words)
               /\ msg \in Messages
               /\ FlattenSeq(chunks') = FlattenSeq(chunks) \o ws
               /\ sent' = sent
               /\ accepted'.words = accepted.words + msg.len
<1> DEFINE ws == WordsOf(msg, accepted.words, accepted.fds)
           r == IF msg.raw THEN PutRaw(Buffered, ws) ELSE PutMarshalled(Buffered, ws)
<1>1. /\ msg \in Messages /\ chunks' = r.active /\ sent' = sent
      /\ accepted' = [accepted EXCEPT !.words = @ + msg.len]
  BY DEF Put, IInv, TypeOK
<1>2. /\ accepted \in [msgs : Nat, words : Nat, fds : Nat]
      /\ accepted.words \in Nat /\ accepted.fds \in Nat
  BY DEF IInv, TypeOK
<1>3. accepted'.words = accepted.words + msg.len
  BY <1>1, <1>2
<1>4. ws \in Chunk /\ Len(ws) = msg.len /\ Len(ws) \in 2..MaxWords
  BY <1>1, <1>2, WordsOfProps
<1>5. Consecutive(ws, accepted.words)
  <2>1. ASSUME NEW k \in 1..msg.len PROVE ws[k].pos = accepted.words + k
    BY DEF WordsOf
  <2>. HIDE DEF ws
  <2>. QED BY <1>4, <2>1 DEF Consecutive
<1>. HIDE DEF ws
<1>6. Stream(r) = Stream(Buffered) \o ws
  <2>1. WellFormed(Buffered) /\ EndLen(Buffered) <= ChunkLimit
    <3>1. WellFormed(Buffered) /\ EndLen(Buffered) \in 0..ChunkLimit
      BY IInvBuffered
    <3>. QED BY <3>1
  <2>2. Stream(PutRaw(Buffered, ws)) = Stream(Buffered) \o ws
    BY <1>4, <2>1, PutRawStream
  <2>3. Stream(PutMarshalled(Buffered, ws)) = Stream(Buffered) \o ws
    BY <1>4, <2>1, PutMarshalledStream
  <2>. QED BY <2>2, <2>3
<1>. HIDE DEF r
<1>7. FlattenSeq(chunks') = FlattenSeq(chunks) \o ws
  BY <1>1, <1>6 DEF Stream, Buffered
<1>. QED BY <1>1, <1>3, <1>4, <1>5, <1>7 DEF ws, Chunk

LEMMA PutStream ==
    ASSUME IInv, StreamInv, Put
    PROVE  StreamInv'
<1> DEFINE ws == WordsOf(msg, accepted.words, accepted.fds)
           old == FlattenSeq(chunks)
<1>1. /\ ws \in Seq(Word) /\ Len(ws) = msg.len /\ msg.len \in 2..MaxWords
      /\ Consecutive(ws, accepted.words)
      /\ FlattenSeq(chunks') = old \o ws
      /\ sent' = sent /\ accepted'.words = accepted.words + msg.len
  BY PutAddsWords
<1>2. accepted.words \in Nat /\ sent.words \in Nat
  BY StreamInvFacts
<1>. HIDE DEF ws
<1>3. old \in Seq(Word) /\ Len(old) = accepted.words - sent.words /\ Consecutive(old, sent.words)
  BY DEF StreamInv
<1>. HIDE DEF old
<1>4. old \o ws \in Seq(Word) /\ Len(old \o ws) = Len(old) + Len(ws)
  BY <1>1, <1>3, ConcatProperties
<1>5. sent.words + Len(old) = accepted.words
  BY <1>2, <1>3
<1>6. Consecutive(old \o ws, sent.words)
  <2>1. Consecutive(ws, sent.words + Len(old))
    BY <1>1, <1>5
  <2>. QED BY <1>1, <1>2, <1>3, <2>1, ConsecutiveConcat
<1>7. Len(old \o ws) = accepted'.words - sent'.words
  <2>1. Len(old \o ws) = (accepted.words - sent.words) + msg.len /\ msg.len \in Nat
    BY <1>1, <1>3, <1>4, OutAssumption
  <2>. QED BY <1>1, <1>2, <2>1
<1>. QED BY <1>1, <1>4, <1>6, <1>7 DEF StreamInv

\* SendChunk takes the first chunk from the front of the stream.
LEMMA SendTakesChunk ==
    ASSUME IInv, SendChunk
    PROVE  /\ chunks[1] \in Seq(Word) /\ Len(chunks[1]) \in Nat
           /\ FlattenSeq(chunks') \in Seq(Word)
           /\ FlattenSeq(chunks) = chunks[1] \o FlattenSeq(chunks')
           /\ sent'.words = sent.words + Len(chunks[1])
           /\ accepted' = accepted
<1> DEFINE rest == FlattenSeq(Tail(chunks))
<1>1. /\ chunks' = IF Len(chunks) > 1 THEN Tail(chunks) ELSE << <<>> >>
      /\ accepted' = accepted
  BY DEF SendChunk, ChunksLeft
<1>2. sent'.words = sent.words + Len(chunks[1])
  BY DEF SendChunk
<1>3. chunks \in Seq(Seq(Word)) /\ chunks # <<>>
  BY StreamInvFacts
<1>4. Tail(chunks) \in Seq(Seq(Word)) /\ Len(Tail(chunks)) = Len(chunks) - 1 /\ Len(chunks) \in Nat \ {0}
  BY <1>3, EmptySeq, HeadTailProperties
<1>5. chunks[1] \in Seq(Word) /\ Len(chunks[1]) \in Nat
  <2>1. chunks[1] \in Seq(Word)
    BY <1>3, <1>4, ElementOfSeq
  <2>. QED BY <2>1, LenProperties
<1>6. rest \in Seq(Word) /\ FlattenSeq(chunks) = chunks[1] \o rest
  BY <1>3, <1>4, FlattenType, FlattenHeadTail
<1>7. FlattenSeq(chunks') = rest
  <2>1. CASE Len(chunks) > 1
    BY <1>1, <2>1
  <2>2. CASE ~(Len(chunks) > 1)
    <3>1. Len(Tail(chunks)) = 0
      BY <1>4, <2>2
    <3>2. Tail(chunks) = <<>>
      BY <1>4, <3>1, EmptySeq
    <3>3. FlattenSeq(<< <<>> >>) = <<>>
      BY FlattenOne, EmptySeq
    <3>. QED BY <1>1, <2>2, <3>2, <3>3, FlattenEmpty
  <2>. QED BY <2>1, <2>2
<1>. HIDE DEF rest
<1>. QED BY <1>1, <1>2, <1>5, <1>6, <1>7

LEMMA SendChunkStream ==
    ASSUME IInv, StreamInv, SendChunk
    PROVE  StreamInv'
<1> DEFINE c == chunks[1]
           old == FlattenSeq(chunks)
           rest == FlattenSeq(chunks')
<1>1. /\ c \in Seq(Word) /\ Len(c) \in Nat
      /\ rest \in Seq(Word) /\ old = c \o rest
      /\ sent'.words = sent.words + Len(c) /\ accepted' = accepted
  BY SendTakesChunk
<1>2. accepted.words \in Nat /\ sent.words \in Nat
  BY StreamInvFacts
<1>3. Len(old) = accepted.words - sent.words /\ Consecutive(old, sent.words)
  BY DEF StreamInv
<1>4. StreamInv' <=> /\ rest \in Seq(Word)
                     /\ Len(rest) = accepted'.words - sent'.words
                     /\ Consecutive(rest, sent'.words)
  BY DEF StreamInv
<1>. HIDE DEF c, old, rest
<1>5. Len(old) = Len(c) + Len(rest) /\ Len(rest) \in Nat
  BY <1>1, ConcatProperties, LenProperties
<1>6. Consecutive(rest, sent.words + Len(c))
  BY <1>1, <1>2, <1>3, ConsecutiveConcat
<1>7. Len(rest) = accepted'.words - sent'.words
  BY <1>1, <1>2, <1>3, <1>5, SMTT(60)
<1>. QED BY <1>1, <1>4, <1>6, <1>7

\* A flush that starts a chunk leaves the stream as it is.
LEMMA FlushKeepsStream ==
    ASSUME IInv, FlushReturn
    PROVE  FlattenSeq(chunks') = FlattenSeq(chunks)
<1> DEFINE r == StartNextChunk(Buffered)
<1>1. chunks' = r.active \/ chunks' = chunks
  BY DEF FlushReturn
<1>2. Stream(r) = Stream(Buffered)
  <2>1. WellFormed(Buffered)
    BY IInvBuffered
  <2>. QED BY <2>1, StartNextChunkStream DEF WellFormed
<1>. HIDE DEF r
<1>. QED BY <1>1, <1>2 DEF Stream, Buffered

LEMMA FlushReturnStream ==
    ASSUME IInv, StreamInv, FlushReturn
    PROVE  StreamInv'
<1>1. accepted' = accepted /\ sent' = sent
  BY DEF FlushReturn
<1>. QED BY <1>1, FlushKeepsStream DEF StreamInv

LEMMA InitStream == Init => StreamInv
<1>. SUFFICES ASSUME Init PROVE StreamInv
  OBVIOUS
<1>1. chunks = << <<>> >> /\ accepted.words = 0 /\ sent.words = 0
  BY DEF Init
<1>2. FlattenSeq(<< <<>> >>) = <<>>
  BY FlattenOne, EmptySeq
<1>3. <<>> \in Seq(Word) /\ Len(<<>>) = 0
  BY EmptySeq
<1>4. Consecutive(<<>>, 0)
  BY <1>3 DEF Consecutive
<1>. QED BY <1>1, <1>2, <1>3, <1>4 DEF StreamInv

LEMMA StreamStep == IInv /\ StreamInv /\ [Next]_outVars => StreamInv'
<1>. SUFFICES ASSUME IInv, StreamInv, [Next]_outVars PROVE StreamInv'
  OBVIOUS
<1>1. CASE Put
  BY <1>1, PutStream
<1>2. CASE SendChunk
  BY <1>2, SendChunkStream
<1>3. CASE FlushReturn
  BY <1>3, FlushReturnStream
<1>4. CASE \E m \in Messages : AddFds(m)
  <2>1. chunks' = chunks /\ sent' = sent /\ accepted'.words = accepted.words
    BY <1>4 DEF AddFds, IInv, TypeOK
  <2>. QED BY <2>1 DEF StreamInv
<1>5. CASE SendRefused \/ SendFailed \/ GotOutputEvent \/ ForceFlush \/ UNCHANGED outVars
  <2>1. chunks' = chunks /\ sent' = sent /\ accepted' = accepted
    BY <1>5 DEF SendRefused, SendFailed, GotOutputEvent, ForceFlush, outVars
  <2>. QED BY <2>1 DEF StreamInv
<1>. QED BY <1>1, <1>2, <1>3, <1>4, <1>5 DEF Next

\* Splitting messages, starting chunks and recycling them lose no word and repeat
\* none, and descriptors are sent in the order they were queued.
THEOREM StreamAlwaysIntact == Spec => []StreamIntact
<1>1. Init => StreamInv
  BY InitStream
<1>2. IInv /\ StreamInv /\ [Next]_outVars => StreamInv'
  BY StreamStep
<1>3. IInv /\ StreamInv => StreamIntact
  BY StreamInvFacts DEF StreamIntact, IInv
<1>. QED BY <1>1, <1>2, <1>3, Invariance, PTL DEF Spec

=============================================================================
