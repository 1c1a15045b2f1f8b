---------------------------- MODULE TransportProofs ----------------------------
(***************************************************************************)
(* Proofs about Transport, for every size of buffer, socket and message:   *)
(* its invariants, and that the two buffers with a socket between them     *)
(* implement the safety part of MessageChannel.  What OutBufferProofs      *)
(* shows of the sender's buffer is used here as it stands.                 *)
(***************************************************************************)
EXTENDS Transport, SequenceLemmas, SequenceTheorems, TLAPS

Buffer == INSTANCE OutBufferProofs

LEMMA SameFlatten == \A s : Buffer!FlattenSeq(s) = FlattenSeq(s)
BY DEF Buffer!FlattenSeq, FlattenSeq

-----------------------------------------------------------------------------
(* The steps of the sender's buffer are those of OutBuffer.                 *)

LEMMA BufferAssumption == Buffer!OutAssumption
BY TransportAssumption DEF Buffer!OutAssumption

LEMMA SameOperators ==
    /\ \A m, n, f : Out!WordsOf(m, n, f) = Buffer!WordsOf(m, n, f)
    /\ Out!NoMsg = Buffer!NoMsg
    /\ Out!FdsPerSend = Buffer!FdsPerSend
    /\ Out!InFlush = Buffer!InFlush
    /\ Out!MaySend = Buffer!MaySend
    /\ \A n, k : Out!TooManyFds(n, k) = Buffer!TooManyFds(n, k)
BY DEF Out!WordsOf, Buffer!WordsOf, Out!NoMsg, Buffer!NoMsg, Out!FdsPerSend, Buffer!FdsPerSend,
       Out!InFlush, Buffer!InFlush, Out!MaySend, Buffer!MaySend, Out!TooManyFds, Buffer!TooManyFds

LEMMA SameLists ==
    /\ Out!Buffered = Buffer!Buffered
    /\ \A b : Out!StartNextChunk(b) = Buffer!StartNextChunk(b)
    /\ \A b, ws : Out!PutMarshalled(b, ws) = Buffer!PutMarshalled(b, ws)
    /\ \A b, ws : Out!PutRaw(b, ws) = Buffer!PutRaw(b, ws)
<1>1. Out!Buffered = Buffer!Buffered
  BY DEF Out!Buffered, Buffer!Buffered
<1>2. /\ \A b : Out!StartNextChunk(b) = Buffer!StartNextChunk(b)
      /\ \A b, ws : Out!Extend(b, ws) = Buffer!Extend(b, ws)
  BY DEF Out!StartNextChunk, Buffer!StartNextChunk, Out!Extend, Buffer!Extend,
         Out!Last, Buffer!Last, Out!Front, Buffer!Front
<1>3. /\ \A b : Out!Room(b) = Buffer!Room(b)
      /\ \A b : Out!RawRoom(b) = Buffer!RawRoom(b)
  BY DEF Out!Room, Buffer!Room, Out!RawRoom, Buffer!RawRoom, Out!ChunkSize, Buffer!ChunkSize,
         Out!Last, Buffer!Last
<1>4. \A b, ws : Out!PutMarshalled(b, ws) = Buffer!PutMarshalled(b, ws)
  BY <1>2, <1>3 DEF Out!PutMarshalled, Buffer!PutMarshalled
<1>5. \A b, ws : Out!PutRaw(b, ws) = Buffer!PutRaw(b, ws)
  BY <1>2, <1>3 DEF Out!PutRaw, Buffer!PutRaw
<1>. QED BY <1>1, <1>2, <1>4, <1>5

LEMMA SameSteps ==
    /\ Out!Init = Buffer!Init
    /\ \A m \in Messages : Out!AddFds(m) = Buffer!AddFds(m)
    /\ Out!Put = Buffer!Put
    /\ Out!SendChunk = Buffer!SendChunk
    /\ Out!SendRefused = Buffer!SendRefused
    /\ Out!FlushReturn = Buffer!FlushReturn
    /\ Out!GotOutputEvent = Buffer!GotOutputEvent
    /\ Out!ForceFlush = Buffer!ForceFlush
<1>1. Out!Init = Buffer!Init
  BY SameOperators DEF Out!Init, Buffer!Init
<1>2. \A m \in Messages : Out!AddFds(m) = Buffer!AddFds(m)
  BY SameOperators DEF Out!AddFds, Buffer!AddFds
<1>3. Out!Put = Buffer!Put
  BY SameOperators, SameLists DEF Out!Put, Buffer!Put
<1>4. Out!SendChunk = Buffer!SendChunk
  BY SameOperators DEF Out!SendChunk, Buffer!SendChunk, Out!ChunksLeft, Buffer!ChunksLeft,
                       Out!FreeWithSent, Buffer!FreeWithSent
<1>5. Out!SendRefused = Buffer!SendRefused
  BY SameOperators DEF Out!SendRefused, Buffer!SendRefused
<1>6. Out!FlushReturn = Buffer!FlushReturn
  BY SameOperators, SameLists DEF Out!FlushReturn, Buffer!FlushReturn, Out!FlushDone, Buffer!FlushDone
<1>7. Out!GotOutputEvent = Buffer!GotOutputEvent /\ Out!ForceFlush = Buffer!ForceFlush
  BY DEF Out!GotOutputEvent, Buffer!GotOutputEvent, Out!ForceFlush, Buffer!ForceFlush
<1>. QED BY <1>1, <1>2, <1>3, <1>4, <1>5, <1>6, <1>7

Word == Buffer!Word

\* What is proved of the sender's buffer alone.
Sender == Buffer!IInv /\ Buffer!StreamInv

LEMMA SenderInit == Out!Init => Sender
BY SameSteps, BufferAssumption, Buffer!InitIInv, Buffer!InitStream DEF Sender, Buffer!OutAssumption

LEMMA SenderSteps == [Next]_vars => [Buffer!Next]_(Buffer!outVars)
<1>. SUFFICES ASSUME [Next]_vars PROVE Buffer!Next \/ UNCHANGED Buffer!outVars
  OBVIOUS
<1>1. CASE \E m \in Messages : Send(m)
  BY <1>1, SameSteps DEF Send, Buffer!Next
<1>2. CASE Put
  BY <1>2, SameSteps DEF Put, Buffer!Next
<1>3. CASE SendChunk
  BY <1>3, SameSteps DEF SendChunk, Buffer!Next
<1>4. CASE SendRefused \/ FlushReturn
  BY <1>4, SameSteps DEF SendRefused, FlushReturn, Buffer!Next
<1>5. CASE InputEnds \/ OutputEvent
  BY <1>5, SameSteps DEF InputEnds, OutputEvent, Buffer!Next
<1>6. CASE OutputEdgeSpent \/ InputEvent \/ Receive \/ Pop \/ PopDone \/ UNCHANGED vars
  BY <1>6 DEF OutputEdgeSpent, InputEvent, Receive, Pop, PopDone, vars, outVars, Buffer!outVars
<1>. QED BY <1>1, <1>2, <1>3, <1>4, <1>5, <1>6 DEF Next

LEMMA SenderStep == Sender /\ [Next]_vars => Sender'
<1>. SUFFICES ASSUME Sender, [Next]_vars PROVE Sender'
  OBVIOUS
<1>1. [Buffer!Next]_(Buffer!outVars)
  BY SenderSteps
<1>. QED BY <1>1, BufferAssumption, Buffer!IInvStep, Buffer!StreamStep DEF Sender, Buffer!OutAssumption

\* The sender's buffer between two steps.
LEMMA SenderFacts ==
    ASSUME Sender
    PROVE  /\ chunks \in Seq(Seq(Word)) /\ chunks # <<>>
           /\ FlattenSeq(chunks) \in Seq(Word)
           /\ accepted \in [msgs : Nat, words : Nat, fds : Nat]
           /\ sent \in [words : Nat, fds : Nat]
           /\ accepted.words \in Nat /\ accepted.fds \in Nat /\ accepted.msgs \in Nat
           /\ sent.words \in Nat /\ sent.fds \in Nat
           /\ sent.fds <= accepted.fds
           /\ fds = Buffer!Queue(sent.fds, accepted.fds)
           /\ pc \in {"fdsFlush", "put"} => msg \in Messages
           /\ Buffer!Consecutive(FlattenSeq(chunks), sent.words)
           /\ Len(FlattenSeq(chunks)) = accepted.words - sent.words
<1>1. Buffer!TypeOK /\ Buffer!FdsInOrder
  BY DEF Sender, Buffer!IInv
<1>2. /\ accepted \in [msgs : Nat, words : Nat, fds : Nat]
      /\ sent \in [words : Nat, fds : Nat]
      /\ chunks \in Seq(Seq(Word)) /\ chunks # <<>>
      /\ pc \in {"fdsFlush", "put"} => msg \in Messages
  BY <1>1 DEF Buffer!TypeOK, Buffer!Chunk, Word
<1>3. /\ FlattenSeq(chunks) \in Seq(Word)
      /\ Buffer!Consecutive(FlattenSeq(chunks), sent.words)
      /\ Len(FlattenSeq(chunks)) = accepted.words - sent.words
  BY SameFlatten DEF Sender, Buffer!StreamInv, Word
<1>4. fds = Buffer!Queue(sent.fds, accepted.fds) /\ sent.fds <= accepted.fds
  BY <1>1 DEF Buffer!FdsInOrder, Buffer!Queue
<1>5. /\ accepted.words \in Nat /\ accepted.fds \in Nat /\ accepted.msgs \in Nat
      /\ sent.words \in Nat /\ sent.fds \in Nat
  BY <1>2
<1>. QED BY <1>2, <1>3, <1>4, <1>5

-----------------------------------------------------------------------------
(* Segments of the socket. *)

Segment == [words : Seq(Word), fds : Seq(Nat), whole : Seq(Word)]

FdsOfSegments(s) == FlattenSeq([i \in 1..Len(s) |-> s[i].fds])

LEMMA SegmentParts ==
    ASSUME NEW s \in Seq(Segment)
    PROVE  /\ Len(s) \in Nat
           /\ \A i \in 1..Len(s) : /\ s[i] \in Segment /\ s[i].words \in Seq(Word)
                                   /\ s[i].fds \in Seq(Nat) /\ s[i].whole \in Seq(Word)
           /\ [i \in 1..Len(s) |-> s[i].words] \in Seq(Seq(Word))
           /\ [i \in 1..Len(s) |-> s[i].fds] \in Seq(Seq(Nat))
           /\ [i \in 1..Len(s) |-> s[i].whole] \in Seq(Seq(Word))
           /\ Len([i \in 1..Len(s) |-> s[i].words]) = Len(s)
           /\ Len([i \in 1..Len(s) |-> s[i].fds]) = Len(s)
<1>1. Len(s) \in Nat /\ \A i \in 1..Len(s) : s[i] \in Segment
  BY LenProperties, ElementOfSeq
<1>2. \A i \in 1..Len(s) : /\ s[i].words \in Seq(Word)
                           /\ s[i].fds \in Seq(Nat) /\ s[i].whole \in Seq(Word)
  BY <1>1 DEF Segment
<1> DEFINE n == Len(s)
<1>. HIDE DEF n
<1>3. \A S : \A f \in [1..n -> S] : f \in Seq(S) /\ Len(f) = n
  BY <1>1 DEF n
<1>4. /\ [i \in 1..n |-> s[i].words] \in [1..n -> Seq(Word)]
      /\ [i \in 1..n |-> s[i].fds] \in [1..n -> Seq(Nat)]
      /\ [i \in 1..n |-> s[i].whole] \in [1..n -> Seq(Word)]
  BY <1>2 DEF n
<1>5. /\ [i \in 1..n |-> s[i].words] \in Seq(Seq(Word)) /\ Len([i \in 1..n |-> s[i].words]) = n
      /\ [i \in 1..n |-> s[i].fds] \in Seq(Seq(Nat)) /\ Len([i \in 1..n |-> s[i].fds]) = n
      /\ [i \in 1..n |-> s[i].whole] \in Seq(Seq(Word))
  BY <1>3, <1>4
<1>. QED BY <1>1, <1>2, <1>5 DEF n

LEMMA SegmentTypes ==
    ASSUME NEW s \in Seq(Segment)
    PROVE  WordsOfSegments(s) \in Seq(Word) /\ FdsOfSegments(s) \in Seq(Nat) /\ Used(s) \in Nat
<1>1. FlattenSeq([i \in 1..Len(s) |-> s[i].whole]) \in Seq(Word)
  BY SegmentParts, FlattenType
<1>. QED BY <1>1, SegmentParts, FlattenType, LenProperties DEF WordsOfSegments, FdsOfSegments, Used

LEMMA SegmentsEmpty == WordsOfSegments(<<>>) = <<>> /\ FdsOfSegments(<<>>) = <<>>
<1>1. Len(<<>>) = 0
  BY EmptySeq
<1>2. [i \in 1..0 |-> <<>>[i].words] = <<>> /\ [i \in 1..0 |-> <<>>[i].fds] = <<>>
  OBVIOUS
<1>. QED BY <1>1, <1>2, FlattenEmpty DEF WordsOfSegments, FdsOfSegments

LEMMA SegmentsConcat ==
    ASSUME NEW s \in Seq(Segment), NEW t \in Seq(Segment)
    PROVE  /\ s \o t \in Seq(Segment)
           /\ WordsOfSegments(s \o t) = WordsOfSegments(s) \o WordsOfSegments(t)
           /\ FdsOfSegments(s \o t) = FdsOfSegments(s) \o FdsOfSegments(t)
<1> DEFINE u == s \o t
           Wu == [i \in 1..Len(u) |-> u[i].words]
           Ws == [i \in 1..Len(s) |-> s[i].words]
           Wt == [i \in 1..Len(t) |-> t[i].words]
           Fu == [i \in 1..Len(u) |-> u[i].fds]
           Fs == [i \in 1..Len(s) |-> s[i].fds]
           Ft == [i \in 1..Len(t) |-> t[i].fds]
<1>1. /\ u \in Seq(Segment) /\ Len(u) = Len(s) + Len(t)
      /\ \A i \in 1..(Len(s) + Len(t)) : u[i] = IF i <= Len(s) THEN s[i] ELSE t[i - Len(s)]
      /\ Len(s) \in Nat /\ Len(t) \in Nat
  BY ConcatProperties, LenProperties
<1>. HIDE DEF u
<1>2. /\ Wu \in Seq(Seq(Word)) /\ Ws \in Seq(Seq(Word)) /\ Wt \in Seq(Seq(Word))
      /\ Len(Wu) = Len(u) /\ Len(Ws) = Len(s) /\ Len(Wt) = Len(t)
      /\ Fu \in Seq(Seq(Nat)) /\ Fs \in Seq(Seq(Nat)) /\ Ft \in Seq(Seq(Nat))
      /\ Len(Fu) = Len(u) /\ Len(Fs) = Len(s) /\ Len(Ft) = Len(t)
  BY <1>1, SegmentParts
<1>3. /\ Ws \o Wt \in Seq(Seq(Word)) /\ Len(Ws \o Wt) = Len(s) + Len(t)
      /\ \A i \in 1..(Len(s) + Len(t)) :
            (Ws \o Wt)[i] = IF i <= Len(s) THEN Ws[i] ELSE Wt[i - Len(s)]
      /\ Fs \o Ft \in Seq(Seq(Nat)) /\ Len(Fs \o Ft) = Len(s) + Len(t)
      /\ \A i \in 1..(Len(s) + Len(t)) :
            (Fs \o Ft)[i] = IF i <= Len(s) THEN Fs[i] ELSE Ft[i - Len(s)]
  <2>. HIDE DEF Wu, Ws, Wt, Fu, Fs, Ft
  <2>1. /\ Ws \o Wt \in Seq(Seq(Word)) /\ Len(Ws \o Wt) = Len(Ws) + Len(Wt)
        /\ \A i \in 1..(Len(Ws) + Len(Wt)) :
              (Ws \o Wt)[i] = IF i <= Len(Ws) THEN Ws[i] ELSE Wt[i - Len(Ws)]
    BY <1>2, ConcatProperties
  <2>2. /\ Fs \o Ft \in Seq(Seq(Nat)) /\ Len(Fs \o Ft) = Len(Fs) + Len(Ft)
        /\ \A i \in 1..(Len(Fs) + Len(Ft)) :
              (Fs \o Ft)[i] = IF i <= Len(Fs) THEN Fs[i] ELSE Ft[i - Len(Fs)]
    BY <1>2, ConcatProperties
  <2>. QED BY <1>2, <2>1, <2>2
<1>4. ASSUME NEW i \in 1..Len(u)
      PROVE  Wu[i] = (Ws \o Wt)[i] /\ Fu[i] = (Fs \o Ft)[i]
  <2>1. i \in 1..(Len(s) + Len(t))
    BY <1>1
  <2>2. CASE i <= Len(s)
    <3>1. i \in 1..Len(s) /\ u[i] = s[i]
      BY <1>1, <2>1, <2>2
    <3>2. Wu[i] = Ws[i] /\ Fu[i] = Fs[i]
      BY <3>1
    <3>. QED BY <1>3, <2>1, <2>2, <3>2
  <2>3. CASE ~(i <= Len(s))
    <3>1. i - Len(s) \in 1..Len(t) /\ u[i] = t[i - Len(s)]
      BY <1>1, <2>1, <2>3
    <3>2. Wu[i] = Wt[i - Len(s)] /\ Fu[i] = Ft[i - Len(s)]
      BY <3>1
    <3>. QED BY <1>3, <2>1, <2>3, <3>2
  <2>. QED BY <2>2, <2>3
<1>5. Wu = Ws \o Wt /\ Fu = Fs \o Ft
  <2>1. Len(Wu) = Len(Ws \o Wt) /\ Len(Fu) = Len(Fs \o Ft)
    BY <1>1, <1>2, <1>3
  <2>2. /\ \A i \in 1..Len(Wu) : Wu[i] = (Ws \o Wt)[i]
        /\ \A i \in 1..Len(Fu) : Fu[i] = (Fs \o Ft)[i]
    BY <1>2, <1>4
  <2>. HIDE DEF Wu, Ws, Wt, Fu, Fs, Ft
  <2>3. Wu = Ws \o Wt
    <3>1. Wu \in Seq(Seq(Word)) /\ Ws \o Wt \in Seq(Seq(Word))
      BY <1>2, <1>3
    <3>. QED BY <2>1, <2>2, <3>1, SeqEqual
  <2>4. Fu = Fs \o Ft
    <3>1. Fu \in Seq(Seq(Nat)) /\ Fs \o Ft \in Seq(Seq(Nat))
      BY <1>2, <1>3
    <3>. QED BY <2>1, <2>2, <3>1, SeqEqual
  <2>. QED BY <2>3, <2>4
<1>6. /\ WordsOfSegments(u) = FlattenSeq(Wu) /\ WordsOfSegments(s) = FlattenSeq(Ws)
      /\ WordsOfSegments(t) = FlattenSeq(Wt)
      /\ FdsOfSegments(u) = FlattenSeq(Fu) /\ FdsOfSegments(s) = FlattenSeq(Fs)
      /\ FdsOfSegments(t) = FlattenSeq(Ft)
  BY DEF WordsOfSegments, FdsOfSegments
<1>. HIDE DEF Wu, Ws, Wt, Fu, Fs, Ft
<1>7. FlattenSeq(Ws \o Wt) = FlattenSeq(Ws) \o FlattenSeq(Wt)
  BY <1>2, FlattenConcat
<1>8. FlattenSeq(Fs \o Ft) = FlattenSeq(Fs) \o FlattenSeq(Ft)
  BY <1>2, FlattenConcat
<1>. QED BY <1>1, <1>5, <1>6, <1>7, <1>8 DEF u

LEMMA SegmentsOne ==
    ASSUME NEW g \in Segment
    PROVE  /\ <<g>> \in Seq(Segment) /\ Len(<<g>>) = 1 /\ <<g>>[1] = g
           /\ g.words \in Seq(Word) /\ g.fds \in Seq(Nat)
           /\ WordsOfSegments(<<g>>) = g.words
           /\ FdsOfSegments(<<g>>) = g.fds
<1>1. <<g>> \in Seq(Segment) /\ Len(<<g>>) = 1 /\ <<g>>[1] = g
  OBVIOUS
<1>2. g.words \in Seq(Word) /\ g.fds \in Seq(Nat)
  BY DEF Segment
<1>3. [i \in 1..1 |-> <<g>>[i].words] = <<g.words>> /\ [i \in 1..1 |-> <<g>>[i].fds] = <<g.fds>>
  OBVIOUS
<1>4. FlattenSeq(<<g.words>>) = g.words /\ FlattenSeq(<<g.fds>>) = g.fds
  BY <1>2, FlattenOne
<1>. QED BY <1>1, <1>2, <1>3, <1>4 DEF WordsOfSegments, FdsOfSegments

\* Segments without descriptors bring none.
LEMMA SegmentsNoFds ==
    ASSUME NEW s \in Seq(Segment), \A i \in 1..Len(s) : s[i].fds = <<>>
    PROVE  FdsOfSegments(s) = <<>>
<1> DEFINE F == [i \in 1..Len(s) |-> s[i].fds]
<1>1. F \in Seq(Seq({}))
  <2>1. F = [i \in 1..Len(s) |-> <<>>] /\ Len(s) \in Nat /\ <<>> \in Seq({})
    BY LenProperties, EmptySeq
  <2>. HIDE DEF F
  <2>. QED BY <2>1
<1>2. FlattenSeq(F) \in Seq({})
  <2>. HIDE DEF F
  <2>. QED BY <1>1, FlattenType
<1>. HIDE DEF F
<1>3. FlattenSeq(F) = <<>>
  <2>. SUFFICES ASSUME FlattenSeq(F) # <<>> PROVE FALSE
    OBVIOUS
  <2>1. 1 \in 1..Len(FlattenSeq(F))
    BY <1>2, EmptySeq
  <2>. QED BY <1>2, <2>1, ElementOfSeq
<1>. QED BY <1>3 DEF FdsOfSegments, F

\* Words of messages that have the n-th descriptor or none behind it as their last.
Early(n) == {w \in Word : w.msg.lastFd <= n}

\* Of f descriptors sent, those a word of the segments s needs are not behind it.
Covers(s, f) ==
    \A k \in 1..Len(s) : s[k].words \in Seq(Early(f - Len(FdsOfSegments(Behind(s, k)))))

LEMMA WordTypes ==
    ASSUME NEW w \in Word
    PROVE  /\ w.pos \in Nat /\ w.msg.start \in Nat /\ w.msg.lastFd \in Nat
           /\ w.msg.len \in 2..MaxWords /\ w.msg.nfds \in 0..MaxArgs
BY DEF Word, Buffer!Word, Buffer!Header

LEMMA EarlyMonotone ==
    ASSUME NEW m \in Int, NEW n \in Int, m <= n, NEW s \in Seq(Early(m))
    PROVE  s \in Seq(Early(n))
<1>1. Early(m) \subseteq Early(n)
  <2>. SUFFICES ASSUME NEW w \in Word, w.msg.lastFd <= m PROVE w.msg.lastFd <= n
    BY DEF Early
  <2>. QED BY WordTypes
<1>. QED BY <1>1, SeqMonotonic

LEMMA BehindTypes ==
    ASSUME NEW s \in Seq(Segment), NEW k \in 0..Len(s)
    PROVE  /\ Behind(s, k) \in Seq(Segment)
           /\ Len(FdsOfSegments(Behind(s, k))) \in Nat
<1>1. Behind(s, k) \in Seq(Segment)
  BY CutConcat DEF Behind
<1>. QED BY <1>1, SegmentTypes, LenProperties

LEMMA CoversRight ==
    ASSUME NEW s \in Seq(Segment), NEW t \in Seq(Segment), NEW f \in Int, Covers(s \o t, f)
    PROVE  Covers(t, f)
<1> DEFINE u == s \o t
<1>1. /\ u \in Seq(Segment) /\ Len(u) = Len(s) + Len(t)
      /\ \A i \in 1..(Len(s) + Len(t)) : u[i] = IF i <= Len(s) THEN s[i] ELSE t[i - Len(s)]
      /\ Len(s) \in Nat /\ Len(t) \in Nat
  BY ConcatProperties, LenProperties
<1>2. \A k \in 0..Len(t) : Behind(u, Len(s) + k) = Behind(t, k)
  BY BehindConcat
<1>3. Covers(u, f)
  OBVIOUS
<1>. HIDE DEF u
<1>4. ASSUME NEW k \in 1..Len(t)
      PROVE  t[k].words \in Seq(Early(f - Len(FdsOfSegments(Behind(t, k)))))
  <2>1. /\ Len(s) + k \in 1..Len(u) /\ Len(s) + k \in 1..(Len(s) + Len(t))
        /\ ~(Len(s) + k <= Len(s)) /\ (Len(s) + k) - Len(s) = k /\ k \in 0..Len(t)
    BY <1>1
  <2>2. u[Len(s) + k] = t[k] /\ Behind(u, Len(s) + k) = Behind(t, k)
    BY <1>1, <1>2, <2>1
  <2>3. u[Len(s) + k].words \in Seq(Early(f - Len(FdsOfSegments(Behind(u, Len(s) + k)))))
    BY <1>3, <2>1 DEF Covers
  <2>. QED BY <2>2, <2>3
<1>. QED BY <1>4 DEF Covers

\* All words of the segments in front of t are early enough for what is behind them.
LEMMA CoversLeft ==
    ASSUME NEW s \in Seq(Segment), NEW t \in Seq(Segment), NEW f \in Int, Covers(s \o t, f)
    PROVE  LET n == f - Len(FdsOfSegments(t))
           IN  /\ \A k \in 1..Len(s) : s[k].words \in Seq(Early(n))
               /\ WordsOfSegments(s) \in Seq(Early(n))
<1> DEFINE u == s \o t
           n == f - Len(FdsOfSegments(t))
           W == [i \in 1..Len(s) |-> s[i].words]
<1>1. /\ u \in Seq(Segment) /\ Len(u) = Len(s) + Len(t)
      /\ \A i \in 1..(Len(s) + Len(t)) : u[i] = IF i <= Len(s) THEN s[i] ELSE t[i - Len(s)]
      /\ Len(s) \in Nat /\ Len(t) \in Nat
  BY ConcatProperties, LenProperties
<1>2. \A k \in 0..Len(s) : Behind(u, k) = Behind(s, k) \o t
  BY BehindConcat
<1>3. Covers(u, f)
  OBVIOUS
<1>4. FdsOfSegments(t) \in Seq(Nat) /\ Len(FdsOfSegments(t)) \in Nat
  BY SegmentTypes, LenProperties
<1>5. n \in Int
  BY <1>4
<1>. HIDE DEF u
<1>6. ASSUME NEW k \in 1..Len(s)
      PROVE  s[k].words \in Seq(Early(n))
  <2> DEFINE b == Behind(s, k)
             m == f - Len(FdsOfSegments(b \o t))
  <2>1. k \in 1..(Len(s) + Len(t)) /\ k <= Len(s) /\ k \in 0..Len(s) /\ k \in 1..Len(u)
    BY <1>1
  <2>2. u[k] = s[k] /\ Behind(u, k) = b \o t
    BY <1>1, <1>2, <2>1
  <2>3. s[k].words \in Seq(Early(m))
    <3>1. u[k].words \in Seq(Early(f - Len(FdsOfSegments(Behind(u, k)))))
      BY <1>3, <2>1 DEF Covers
    <3>. QED BY <2>2, <3>1
  <2>4. b \in Seq(Segment) /\ FdsOfSegments(b) \in Seq(Nat) /\ Len(FdsOfSegments(b)) \in Nat
    BY <2>1, BehindTypes, SegmentTypes
  <2>5. FdsOfSegments(b \o t) = FdsOfSegments(b) \o FdsOfSegments(t)
    BY <2>4, SegmentsConcat
  <2>6. Len(FdsOfSegments(b) \o FdsOfSegments(t)) = Len(FdsOfSegments(b)) + Len(FdsOfSegments(t))
    BY <1>4, <2>4, ConcatProperties
  <2>7. m \in Int /\ m <= n
    BY <1>4, <2>4, <2>5, <2>6
  <2>. HIDE DEF m, n
  <2>. QED BY <1>5, <2>3, <2>7, EarlyMonotone
<1>. HIDE DEF n
<1>7. W \in Seq(Seq(Early(n)))
  <2>1. W \in [1..Len(s) -> Seq(Early(n))]
    BY <1>6
  <2>. HIDE DEF W
  <2>. QED BY <1>1, <2>1, SMTT(60)
<1>8. WordsOfSegments(s) = FlattenSeq(W)
  BY DEF WordsOfSegments
<1>. HIDE DEF W
<1>9. FlattenSeq(W) \in Seq(Early(n))
  BY <1>7, FlattenType
<1>. QED BY <1>6, <1>8, <1>9 DEF n

LEMMA CoversCons ==
    ASSUME NEW s \in Seq(Segment), Len(s) <= 1, NEW t \in Seq(Segment), NEW f \in Int,
           Covers(t, f),
           \A k \in 1..Len(s) : s[k].words \in Seq(Early(f - Len(FdsOfSegments(t))))
    PROVE  Covers(s \o t, f)
<1> DEFINE u == s \o t
<1>1. /\ u \in Seq(Segment) /\ Len(u) = Len(s) + Len(t)
      /\ \A i \in 1..(Len(s) + Len(t)) : u[i] = IF i <= Len(s) THEN s[i] ELSE t[i - Len(s)]
      /\ Len(s) \in Nat /\ Len(t) \in Nat
  BY ConcatProperties, LenProperties
<1>2. \A k \in 0..Len(t) : Behind(u, Len(s) + k) = Behind(t, k)
  BY BehindConcat
<1>3. Behind(t, 0) = t
  BY SubSeqFull DEF Behind
<1>. HIDE DEF u
<1>4. ASSUME NEW k \in 1..Len(u)
      PROVE  u[k].words \in Seq(Early(f - Len(FdsOfSegments(Behind(u, k)))))
  <2>1. CASE k <= Len(s)
    <3>1. k \in 1..Len(s) /\ k = Len(s) + 0 /\ 0 \in 0..Len(t) /\ k \in 1..(Len(s) + Len(t))
      BY <1>1, <2>1
    <3>2. u[k] = s[k] /\ Behind(u, k) = t
      BY <1>1, <1>2, <1>3, <2>1, <3>1
    <3>. QED BY <3>1, <3>2
  <2>2. CASE ~(k <= Len(s))
    <3> DEFINE j == k - Len(s)
    <3>1. j \in 1..Len(t) /\ j \in 0..Len(t) /\ k = Len(s) + j /\ k \in 1..(Len(s) + Len(t))
      BY <1>1, <2>2
    <3>2. u[k] = t[j]
      BY <1>1, <2>2, <3>1
    <3>. HIDE DEF j
    <3>3. Behind(u, k) = Behind(t, j)
      BY <1>2, <3>1
    <3>. QED BY <3>1, <3>2, <3>3 DEF Covers
  <2>. QED BY <2>1, <2>2
<1>. QED BY <1>4 DEF Covers, u

LEMMA CoversAppend ==
    ASSUME NEW s \in Seq(Segment), NEW f \in Nat, Covers(s, f),
           NEW g \in Segment, g.words \in Seq(Early(f + Len(g.fds)))
    PROVE  Covers(s \o <<g>>, f + Len(g.fds))
<1> DEFINE u == s \o <<g>>
           d == Len(g.fds)
<1>1. /\ <<g>> \in Seq(Segment) /\ Len(<<g>>) = 1 /\ <<g>>[1] = g
      /\ g.fds \in Seq(Nat) /\ FdsOfSegments(<<g>>) = g.fds
  BY SegmentsOne
<1>2. /\ u \in Seq(Segment) /\ Len(u) = Len(s) + Len(<<g>>)
      /\ \A i \in 1..(Len(s) + Len(<<g>>)) :
            u[i] = IF i <= Len(s) THEN s[i] ELSE <<g>>[i - Len(s)]
      /\ Len(s) \in Nat /\ d \in Nat
  BY <1>1, ConcatProperties, LenProperties
<1>3. /\ \A k \in 0..Len(s) : Behind(u, k) = Behind(s, k) \o <<g>>
      /\ \A k \in 0..Len(<<g>>) : Behind(u, Len(s) + k) = Behind(<<g>>, k)
  BY <1>1, BehindConcat
<1>. HIDE DEF u
<1>4. ASSUME NEW k \in 1..Len(u)
      PROVE  u[k].words \in Seq(Early((f + d) - Len(FdsOfSegments(Behind(u, k)))))
  <2>1. CASE k <= Len(s)
    <3> DEFINE b == Behind(s, k)
    <3>1. k \in 1..Len(s) /\ k \in 0..Len(s) /\ k \in 1..(Len(s) + Len(<<g>>))
      BY <1>1, <1>2, <2>1
    <3>2. u[k] = s[k] /\ Behind(u, k) = b \o <<g>>
      BY <1>2, <1>3, <2>1, <3>1
    <3>3. b \in Seq(Segment) /\ FdsOfSegments(b) \in Seq(Nat) /\ Len(FdsOfSegments(b)) \in Nat
      BY <3>1, BehindTypes, SegmentTypes
    <3>4. s[k].words \in Seq(Early(f - Len(FdsOfSegments(b))))
      BY <3>1 DEF Covers
    <3>. HIDE DEF b
    <3>5. FdsOfSegments(b \o <<g>>) = FdsOfSegments(b) \o g.fds
      <4>1. FdsOfSegments(b \o <<g>>) = FdsOfSegments(b) \o FdsOfSegments(<<g>>)
        BY <1>1, <3>3, SegmentsConcat
      <4>. QED BY <1>1, <4>1
    <3>6. Len(FdsOfSegments(b) \o g.fds) = Len(FdsOfSegments(b)) + d
      BY <1>1, <3>3, ConcatProperties
    <3>7. (f + d) - (Len(FdsOfSegments(b)) + d) = f - Len(FdsOfSegments(b))
      BY <1>2, <3>3
    <3>. QED BY <3>2, <3>4, <3>5, <3>6, <3>7
  <2>2. CASE ~(k <= Len(s))
    <3>1. k = Len(s) + 1 /\ 1 \in 0..Len(<<g>>) /\ k - Len(s) = 1 /\ k \in 1..(Len(s) + Len(<<g>>))
      BY <1>1, <1>2, <2>2
    <3>2. u[k] = g
      BY <1>1, <1>2, <2>2, <3>1
    <3>3. Behind(<<g>>, 1) = <<>>
      BY <1>1, SubSeqEmpty DEF Behind
    <3>4. Behind(u, k) = <<>>
      BY <1>3, <3>1, <3>3
    <3>5. Len(FdsOfSegments(<<>>)) = 0
      BY SegmentsEmpty, EmptySeq
    <3>6. (f + d) - 0 = f + d
      BY <1>2
    <3>. QED BY <3>2, <3>4, <3>5, <3>6
  <2>. QED BY <2>1, <2>2
<1>. QED BY <1>4 DEF Covers, u, d

-----------------------------------------------------------------------------
(* What a receive takes from the socket and what it leaves there: it ends  *)
(* in segment g, behind the segments a and before b, and x is what is left *)
(* of g, if anything.                                                      *)

Cut(t, c, a, g, b, x, w1, w2) ==
    /\ a \in Seq(Segment) /\ b \in Seq(Segment) /\ x \in Seq(Segment)
    /\ g \in Segment /\ w1 \in Seq(Word) /\ w2 \in Seq(Word)
    /\ sock = (a \o <<g>>) \o b
    /\ FdsOfSegments(a) = <<>>
    /\ sock[t] = g /\ g.words = w1 \o w2
    /\ Unread(t, c) = x \o b
    /\ ReadUpTo(t, c) = WordsOfSegments(a) \o w1
    /\ Len(x) <= 1 /\ \A k \in 1..Len(x) : x[k].words = w2
    /\ WordsOfSegments(x) = w2 /\ FdsOfSegments(x) = <<>>

LEMMA ReadParts ==
    ASSUME sock \in Seq(Segment), NEW t \in 1..Len(sock), NEW c \in 1..Len(sock[t].words),
           MayRead(t, c)
    PROVE  \E a, g, b, x, w1, w2 : Cut(t, c, a, g, b, x, w1, w2)
<1> DEFINE n == Len(sock)
           g == sock[t]
           a == SubSeq(sock, 1, t - 1)
           b == SubSeq(sock, t + 1, n)
           w1 == SubSeq(g.words, 1, c)
           w2 == SubSeq(g.words, c + 1, Len(g.words))
           y == [g EXCEPT !.words = w2, !.fds = <<>>]
           x == IF w2 = <<>> THEN <<>> ELSE <<y>>
<1>1. /\ n \in Nat /\ t \in 1..n /\ g \in Segment /\ g.words \in Seq(Word) /\ g.fds \in Seq(Nat)
      /\ g.whole \in Seq(Word) /\ \A i \in 1..n : sock[i] \in Segment
  BY SegmentParts, ElementOfSeq
<1>2. /\ sock = a \o SubSeq(sock, (t - 1) + 1, n)
      /\ a \in Seq(Segment) /\ Len(a) = t - 1
      /\ \A k \in 1..(t - 1) : a[k] = sock[k]
  <2>1. t - 1 \in 0..n
    BY <1>1
  <2>2. /\ sock = a \o SubSeq(sock, (t - 1) + 1, n)
        /\ a \in Seq(Segment) /\ Len(a) = t - 1
    BY <2>1, CutConcat
  <2>3. \A k \in 1..(t - 1) : a[k] = sock[k]
    <3>1. \A k \in 1..(t - 1) : sock[k] \in Segment
      BY <1>1
    <3>2. t - 1 \in Int /\ 1 \in Int
      BY <1>1
    <3>3. \A k \in 1..((t - 1) - 1 + 1) : a[k] = sock[1 + k - 1]
      BY <3>1, <3>2, SubSeqProperties
    <3>4. \A k \in 1..(t - 1) : k \in 1..((t - 1) - 1 + 1) /\ 1 + k - 1 = k
      BY <1>1
    <3>. HIDE DEF a
    <3>. QED BY <3>3, <3>4
  <2>. QED BY <2>2, <2>3
<1>3. SubSeq(sock, (t - 1) + 1, n) = <<g>> \o b
  <2>1. (t - 1) + 1 = t /\ t \in 1..Len(sock) /\ n \in t..Len(sock)
    BY <1>1
  <2>. QED BY <2>1, SubSeqRecursiveFirst
<1>4. b \in Seq(Segment) /\ <<g>> \in Seq(Segment)
  <2>1. t \in 0..n
    BY <1>1
  <2>. QED BY <1>1, <2>1, CutConcat, SegmentsOne
<1>5. sock = (a \o <<g>>) \o b
  <2>. HIDE DEF a, b, g
  <2>1. a \in Seq(Segment) /\ b \in Seq(Segment) /\ <<g>> \in Seq(Segment)
    BY <1>2, <1>4
  <2>2. (a \o <<g>>) \o b = a \o (<<g>> \o b)
    BY <2>1, ConcatAssociative, SMTT(60)
  <2>3. sock = a \o (<<g>> \o b)
    BY <1>2, <1>3
  <2>. QED BY <2>2, <2>3
<1>6. g.words = w1 \o w2 /\ w1 \in Seq(Word) /\ w2 \in Seq(Word)
  <2>1. c \in 0..Len(g.words)
    BY <1>1, LenProperties
  <2>. QED BY <1>1, <2>1, CutConcat
<1>7. FdsOfSegments(a) = <<>>
  <2>1. \A k \in 1..(t - 1) : sock[k].fds = <<>>
    BY DEF MayRead
  <2>2. \A k \in 1..Len(a) : a[k].fds = <<>>
    BY <1>2, <2>1
  <2>. HIDE DEF a
  <2>. QED BY <1>2, <2>2, SegmentsNoFds
<1>8. Unread(t, c) = x \o b /\ ReadUpTo(t, c) = WordsOfSegments(a) \o w1
  BY DEF Unread, ReadUpTo
<1>9. y \in Segment /\ y.words = w2 /\ y.fds = <<>>
  <2>1. <<>> \in Seq(Nat)
    BY EmptySeq
  <2>. HIDE DEF w2, g
  <2>. QED BY <1>1, <1>6, <2>1 DEF Segment
<1>. HIDE DEF y, w1, w2, a, b, g
<1>10. /\ x \in Seq(Segment) /\ Len(x) <= 1 /\ \A k \in 1..Len(x) : x[k].words = w2
       /\ WordsOfSegments(x) = w2 /\ FdsOfSegments(x) = <<>>
  <2>1. CASE w2 = <<>>
    <3>1. x = <<>> /\ <<>> \in Seq(Segment) /\ Len(<<>>) = 0
      BY <2>1, EmptySeq
    <3>. QED BY <2>1, <3>1, SegmentsEmpty
  <2>2. CASE w2 # <<>>
    <3>1. x = <<y>>
      BY <2>2
    <3>2. /\ <<y>> \in Seq(Segment) /\ Len(<<y>>) = 1 /\ <<y>>[1] = y
          /\ WordsOfSegments(<<y>>) = y.words /\ FdsOfSegments(<<y>>) = y.fds
      BY <1>9, SegmentsOne
    <3>. HIDE DEF x
    <3>. QED BY <1>9, <3>1, <3>2
  <2>. QED BY <2>1, <2>2
<1>. HIDE DEF x
<1>11. g = sock[t] /\ g \in Segment
  BY <1>1 DEF g
<1>12. Cut(t, c, a, g, b, x, w1, w2)
  BY <1>2, <1>4, <1>5, <1>6, <1>7, <1>8, <1>10, <1>11 DEF Cut
<1>. QED BY <1>12

\* Concatenation of four sequences, with a name for the provers to go by.
Regroups(p, q, r, s) == (p \o (q \o r)) \o s = (p \o q) \o (r \o s)

LEMMA RegroupWords ==
    ASSUME NEW p \in Seq(Word), NEW q \in Seq(Word), NEW r \in Seq(Word), NEW s \in Seq(Word)
    PROVE  Regroups(p, q, r, s)
<1>1. (p \o q) \o r = p \o (q \o r)
  BY ConcatAssociative
<1>2. p \o q \in Seq(Word)
  BY ConcatProperties
<1>3. ((p \o q) \o r) \o s = (p \o q) \o (r \o s)
  BY <1>2, ConcatAssociative, SMTT(60)
<1>. QED BY <1>1, <1>3 DEF Regroups

\* No word and no descriptor is lost between what is read and what is left.
LEMMA ReadSplits ==
    ASSUME sock \in Seq(Segment), NEW t \in 1..Len(sock), NEW c \in 1..Len(sock[t].words),
           MayRead(t, c)
    PROVE  /\ Unread(t, c) \in Seq(Segment)
           /\ ReadUpTo(t, c) \in Seq(Word) /\ Len(ReadUpTo(t, c)) \in 0..MaxWords
           /\ WordsOfSegments(Unread(t, c)) \in Seq(Word)
           /\ WordsOfSegments(sock) = ReadUpTo(t, c) \o WordsOfSegments(Unread(t, c))
           /\ sock[t].fds \in Seq(Nat)
           /\ FdsOfSegments(Unread(t, c)) \in Seq(Nat)
           /\ FdsOfSegments(sock) = sock[t].fds \o FdsOfSegments(Unread(t, c))
<1>1. PICK a, g, b, x, w1, w2 : Cut(t, c, a, g, b, x, w1, w2)
  BY ReadParts
<1>a. /\ a \in Seq(Segment) /\ b \in Seq(Segment) /\ x \in Seq(Segment)
      /\ g \in Segment /\ w1 \in Seq(Word) /\ w2 \in Seq(Word)
  BY <1>1 DEF Cut
<1>2. /\ sock = (a \o <<g>>) \o b
      /\ FdsOfSegments(a) = <<>>
      /\ sock[t] = g /\ g.words = w1 \o w2
      /\ Unread(t, c) = x \o b
      /\ ReadUpTo(t, c) = WordsOfSegments(a) \o w1
      /\ WordsOfSegments(x) = w2 /\ FdsOfSegments(x) = <<>>
  BY <1>1 DEF Cut
<1>3. /\ <<g>> \in Seq(Segment) /\ g.fds \in Seq(Nat)
      /\ WordsOfSegments(<<g>>) = g.words /\ FdsOfSegments(<<g>>) = g.fds
  BY <1>a, SegmentsOne
<1> DEFINE A == WordsOfSegments(a)
           B == WordsOfSegments(b)
           FB == FdsOfSegments(b)
<1>4. A \in Seq(Word) /\ B \in Seq(Word) /\ FB \in Seq(Nat)
  BY <1>a, SegmentTypes
<1>5. /\ a \o <<g>> \in Seq(Segment)
      /\ WordsOfSegments(a \o <<g>>) = A \o (w1 \o w2)
      /\ FdsOfSegments(a \o <<g>>) = <<>> \o g.fds
  <2>1. /\ a \o <<g>> \in Seq(Segment)
        /\ WordsOfSegments(a \o <<g>>) = WordsOfSegments(a) \o WordsOfSegments(<<g>>)
        /\ FdsOfSegments(a \o <<g>>) = FdsOfSegments(a) \o FdsOfSegments(<<g>>)
    BY <1>a, <1>3, SegmentsConcat
  <2>. QED BY <1>2, <1>3, <2>1
<1>6. /\ WordsOfSegments((a \o <<g>>) \o b) = (A \o (w1 \o w2)) \o B
      /\ FdsOfSegments((a \o <<g>>) \o b) = (<<>> \o g.fds) \o FB
  <2>1. /\ WordsOfSegments((a \o <<g>>) \o b) = WordsOfSegments(a \o <<g>>) \o WordsOfSegments(b)
        /\ FdsOfSegments((a \o <<g>>) \o b) = FdsOfSegments(a \o <<g>>) \o FdsOfSegments(b)
    BY <1>a, <1>5, SegmentsConcat
  <2>. QED BY <1>5, <2>1
<1>7. /\ x \o b \in Seq(Segment)
      /\ WordsOfSegments(x \o b) = w2 \o B
      /\ FdsOfSegments(x \o b) = <<>> \o FB
  <2>1. /\ x \o b \in Seq(Segment)
        /\ WordsOfSegments(x \o b) = WordsOfSegments(x) \o WordsOfSegments(b)
        /\ FdsOfSegments(x \o b) = FdsOfSegments(x) \o FdsOfSegments(b)
    BY <1>a, SegmentsConcat
  <2>. QED BY <1>2, <2>1
<1>. HIDE DEF A, B, FB
<1>8. (A \o (w1 \o w2)) \o B = (A \o w1) \o (w2 \o B)
  <2>1. A \in Seq(Word) /\ B \in Seq(Word) /\ w1 \in Seq(Word) /\ w2 \in Seq(Word)
    BY <1>a, <1>4
  <2>2. Regroups(A, w1, w2, B)
    BY <2>1, RegroupWords
  <2>. QED BY <2>2 DEF Regroups
<1>9. <<>> \o g.fds = g.fds /\ <<>> \o FB = FB
  BY <1>3, <1>4, ConcatEmptySeq
<1>10. A \o w1 \in Seq(Word) /\ w2 \o B \in Seq(Word)
  BY <1>a, <1>4, ConcatProperties
<1>11. Len(ReadUpTo(t, c)) <= MaxWords
  BY DEF MayRead
<1>12. Len(A \o w1) \in Nat
  BY <1>10, LenProperties
<1>13. ReadUpTo(t, c) = A \o w1
  BY <1>2 DEF A
<1>14. /\ Unread(t, c) \in Seq(Segment)
       /\ WordsOfSegments(Unread(t, c)) = w2 \o B
       /\ FdsOfSegments(Unread(t, c)) = FB
  BY <1>2, <1>7, <1>9
<1>15. WordsOfSegments(sock) = (A \o w1) \o (w2 \o B)
  BY <1>2, <1>6, <1>8
<1>16. FdsOfSegments(sock) = g.fds \o FB
  BY <1>2, <1>6, <1>9
<1>17. Len(A \o w1) \in 0..MaxWords
  BY <1>11, <1>12, <1>13, TransportAssumption
<1>. QED BY <1>a, <1>2, <1>3, <1>4, <1>10, <1>13, <1>14, <1>15, <1>16, <1>17

LEMMA ConcatParts ==
    ASSUME NEW S, NEW s \in Seq(S), NEW t \in Seq(S), NEW T, s \o t \in Seq(T)
    PROVE  s \in Seq(T) /\ t \in Seq(T)
<1> DEFINE u == s \o t
<1>1. Len(u) = Len(s) + Len(t) /\ Len(s) \in Nat /\ Len(t) \in Nat
  BY ConcatProperties, LenProperties
<1>2. SubSeq(u, 1, Len(s)) = s /\ SubSeq(u, Len(s) + 1, Len(u)) = t
  BY CutAt
<1>3. u \in Seq(T)
  OBVIOUS
<1>. HIDE DEF u
<1>4. Len(s) \in 0..Len(u)
  BY <1>1
<1>5. SubSeq(u, 1, Len(s)) \in Seq(T) /\ SubSeq(u, Len(s) + 1, Len(u)) \in Seq(T)
  BY <1>3, <1>4, CutConcat
<1>. QED BY <1>2, <1>5

\* What is read needs no descriptor that is left in the socket.
LEMMA ReadCovers ==
    ASSUME sock \in Seq(Segment), NEW t \in 1..Len(sock), NEW c \in 1..Len(sock[t].words),
           MayRead(t, c), NEW f \in Int, Covers(sock, f)
    PROVE  /\ ReadUpTo(t, c) \in Seq(Early(f - Len(FdsOfSegments(Unread(t, c)))))
           /\ Covers(Unread(t, c), f)
<1>1. PICK a, g, b, x, w1, w2 : Cut(t, c, a, g, b, x, w1, w2)
  BY ReadParts
<1>2. /\ a \in Seq(Segment) /\ b \in Seq(Segment) /\ x \in Seq(Segment)
      /\ g \in Segment /\ w1 \in Seq(Word) /\ w2 \in Seq(Word)
      /\ sock = (a \o <<g>>) \o b
      /\ g.words = w1 \o w2
      /\ Unread(t, c) = x \o b
      /\ ReadUpTo(t, c) = WordsOfSegments(a) \o w1
      /\ Len(x) <= 1 /\ \A k \in 1..Len(x) : x[k].words = w2
      /\ FdsOfSegments(x) = <<>>
  BY <1>1 DEF Cut
<1> DEFINE n == f - Len(FdsOfSegments(b))
           A == WordsOfSegments(a)
<1>3. /\ <<g>> \in Seq(Segment) /\ WordsOfSegments(<<g>>) = g.words
  BY <1>2, SegmentsOne
<1>4. a \o <<g>> \in Seq(Segment) /\ WordsOfSegments(a \o <<g>>) = A \o (w1 \o w2)
  <2>1. /\ a \o <<g>> \in Seq(Segment)
        /\ WordsOfSegments(a \o <<g>>) = WordsOfSegments(a) \o WordsOfSegments(<<g>>)
    BY <1>2, <1>3, SegmentsConcat
  <2>. QED BY <1>2, <1>3, <2>1
<1>5. Covers((a \o <<g>>) \o b, f)
  BY <1>2
<1>6. WordsOfSegments(a \o <<g>>) \in Seq(Early(n)) /\ Covers(b, f)
  BY <1>2, <1>4, <1>5, CoversLeft, CoversRight
<1>7. FdsOfSegments(Unread(t, c)) = FdsOfSegments(b)
  <2>1. FdsOfSegments(x \o b) = FdsOfSegments(x) \o FdsOfSegments(b)
    BY <1>2, SegmentsConcat
  <2>2. FdsOfSegments(b) \in Seq(Nat)
    BY <1>2, SegmentTypes
  <2>3. <<>> \o FdsOfSegments(b) = FdsOfSegments(b)
    BY <2>2, ConcatEmptySeq
  <2>. QED BY <1>2, <2>1, <2>3
<1>8. A \in Seq(Word) /\ w1 \o w2 \in Seq(Word)
  BY <1>2, SegmentTypes, ConcatProperties
<1>. HIDE DEF n, A
<1>9. A \in Seq(Early(n)) /\ w1 \o w2 \in Seq(Early(n))
  <2>1. A \o (w1 \o w2) \in Seq(Early(n))
    BY <1>4, <1>6
  <2>. QED BY <1>8, <2>1, ConcatParts
<1>10. w1 \in Seq(Early(n)) /\ w2 \in Seq(Early(n))
  BY <1>2, <1>9, ConcatParts
<1>11. A \o w1 \in Seq(Early(n))
  BY <1>9, <1>10, ConcatProperties
<1>12. Covers(x \o b, f)
  <2>1. \A k \in 1..Len(x) : x[k].words \in Seq(Early(f - Len(FdsOfSegments(b))))
    BY <1>2, <1>10 DEF n
  <2>. QED BY <1>2, <1>6, <2>1, CoversCons
<1>. QED BY <1>2, <1>7, <1>11, <1>12 DEF n, A

\* The socket has as much in it as before, unless a segment was read to its end.
LEMMA ReadUsed ==
    ASSUME sock \in Seq(Segment), NEW t \in 1..Len(sock), NEW c \in 1..Len(sock[t].words)
    PROVE  Len(Unread(t, c)) < Len(sock) \/ Used(Unread(t, c)) = Used(sock)
<1> DEFINE n == Len(sock)
           b == SubSeq(sock, t + 1, n)
           rest == SubSeq(sock[t].words, c + 1, Len(sock[t].words))
           cut == [sock[t] EXCEPT !.words = rest, !.fds = <<>>]
           x == IF rest = <<>> THEN <<>> ELSE <<cut>>
           u == x \o b
<1>1. n \in Nat /\ t \in 1..n /\ \A i \in 1..n : sock[i] \in Segment
  BY SegmentParts
<1>2. /\ b \in Seq(Segment) /\ Len(b) = n - t
      /\ \A i \in 1..(n - t) : b[i] = sock[t + i]
  <2>1. t + 1 \in Int /\ n \in Int /\ \A i \in (t + 1)..n : sock[i] \in Segment
    BY <1>1
  <2>2. t \in 0..n
    BY <1>1
  <2>3. b \in Seq(Segment) /\ Len(b) = n - t
    BY <2>2, CutConcat
  <2>4. \A i \in 1..(n - (t + 1) + 1) : b[i] = sock[(t + 1) + i - 1]
    BY <2>1, SubSeqProperties
  <2>5. ASSUME NEW i \in 1..(n - t)
        PROVE  b[i] = sock[t + i]
    <3>1. i \in 1..(n - (t + 1) + 1) /\ (t + 1) + i - 1 = t + i
      BY <1>1
    <3>. HIDE DEF b
    <3>. QED BY <2>4, <3>1
  <2>. QED BY <2>3, <2>5
<1>3. cut \in Segment /\ cut.whole = sock[t].whole
  <2>1. sock[t] \in Segment /\ sock[t].words \in Seq(Word)
    BY SegmentParts
  <2>2. rest \in Seq(Word)
    <3>1. c \in 0..Len(sock[t].words)
      BY <2>1, LenProperties
    <3>. QED BY <2>1, <3>1, CutConcat
  <2>3. <<>> \in Seq(Nat)
    BY EmptySeq
  <2>. HIDE DEF rest
  <2>. QED BY <2>1, <2>2, <2>3 DEF Segment
<1>4. Unread(t, c) = u
  BY DEF Unread
<1>. HIDE DEF cut, rest, b
<1>5. CASE rest = <<>>
  <2>1. x = <<>>
    BY <1>5
  <2>2. u = b
    BY <1>2, <2>1, ConcatEmptySeq
  <2>. QED BY <1>1, <1>2, <1>4, <2>2
<1>6. CASE rest # <<>>
  <2>1. x = <<cut>> /\ <<cut>> \in Seq(Segment) /\ Len(<<cut>>) = 1 /\ <<cut>>[1] = cut
    BY <1>3, <1>6, SegmentsOne
  <2>2. /\ <<cut>> \o b \in Seq(Segment) /\ Len(<<cut>> \o b) = 1 + (n - t)
        /\ \A i \in 1..(1 + (n - t)) :
              (<<cut>> \o b)[i] = IF i <= 1 THEN <<cut>>[i] ELSE b[i - 1]
    <3>1. /\ <<cut>> \o b \in Seq(Segment) /\ Len(<<cut>> \o b) = Len(<<cut>>) + Len(b)
          /\ \A i \in 1..(Len(<<cut>>) + Len(b)) :
                (<<cut>> \o b)[i] = IF i <= Len(<<cut>>) THEN <<cut>>[i] ELSE b[i - Len(<<cut>>)]
      BY <1>2, <2>1, ConcatProperties
    <3>. QED BY <1>2, <2>1, <3>1
  <2>3. u = <<cut>> \o b
    BY <2>1
  <2>. HIDE DEF u, x
  <2>4. CASE t = 1
    <3>1. Len(u) = n
      BY <1>1, <2>2, <2>3, <2>4
    <3>2. ASSUME NEW i \in 1..n
          PROVE  u[i].whole = sock[i].whole
      <4>1. CASE i = 1
        <5>1. u[i] = cut
          BY <1>1, <2>1, <2>2, <2>3, <2>4, <4>1
        <5>. QED BY <1>3, <2>4, <4>1, <5>1
      <4>2. CASE i # 1
        <5>1. /\ i \in 1..(1 + (n - t)) /\ ~(i <= 1) /\ i - 1 \in 1..(n - t)
              /\ t + (i - 1) = i
          BY <1>1, <2>4, <4>2
        <5>2. u[i] = b[i - 1]
          BY <2>2, <2>3, <5>1
        <5>3. b[i - 1] = sock[t + (i - 1)]
          BY <1>2, <5>1
        <5>. QED BY <5>1, <5>2, <5>3
      <4>. QED BY <4>1, <4>2
    <3>3. [i \in 1..Len(u) |-> u[i].whole] = [i \in 1..Len(sock) |-> sock[i].whole]
      BY <3>1, <3>2
    <3>. QED BY <1>4, <3>3 DEF Used
  <2>5. CASE t # 1
    <3>1. 1 + (n - t) < n
      BY <1>1, <2>5
    <3>. QED BY <1>4, <2>2, <2>3, <3>1
  <2>. QED BY <2>4, <2>5
<1>. QED BY <1>5, <1>6

-----------------------------------------------------------------------------
(* The array of the receiver. *)

\* The words received and not popped.
Held == [i \in 1..(back - front) |-> data[front + i - 1]]

\* The receiver has them in its array, and room for a receive when one is due.
Receiver ==
    /\ front \in Nat /\ back \in Nat /\ front <= back /\ back <= 2 * MaxWords
    /\ Held \in Seq(Word)
    /\ inFds \in Seq(Nat)
    /\ popped \in [msgs : Nat, words : Nat, fds : Nat]
    /\ sock \in Seq(Segment)
    /\ inPc # "pop" => back - front < MaxWords

LEMMA HeldFacts ==
    ASSUME Receiver
    PROVE  /\ back - front \in Nat /\ Len(Held) = back - front
           /\ \A i \in 1..(back - front) : Held[i] = data[front + i - 1] /\ Held[i] \in Word
           /\ popped.words \in Nat /\ popped.fds \in Nat /\ popped.msgs \in Nat
<1>1. back - front \in Nat /\ Held \in Seq(Word)
  BY DEF Receiver
<1>2. DOMAIN Held = 1..(back - front)
  BY DEF Held
<1>3. Len(Held) = back - front
  <2>1. Len(Held) \in Nat /\ DOMAIN Held = 1..Len(Held)
    BY <1>1, LenProperties
  <2>. HIDE DEF Held
  <2>2. 1..Len(Held) = 1..(back - front)
    BY <1>2, <2>1
  <2> DEFINE n == back - front
  <2>. HIDE DEF n
  <2>3. n \in Nat /\ 1..Len(Held) = 1..n
    BY <1>1, <2>2 DEF n
  <2>. QED BY <2>1, <2>3 DEF n
<1>4. \A i \in 1..(back - front) : Held[i] = data[front + i - 1]
  BY DEF Held
<1>5. \A i \in 1..(back - front) : Held[i] \in Word
  <2>. HIDE DEF Held
  <2>. QED BY <1>1, <1>3, ElementOfSeq
<1>6. popped.words \in Nat /\ popped.fds \in Nat /\ popped.msgs \in Nat
  BY DEF Receiver
<1>. QED BY <1>1, <1>3, <1>4, <1>5, <1>6

\* make_room keeps what is held, and a whole receive fits behind it.
LEMMA RoomIsMade ==
    ASSUME Receiver, back - front < MaxWords
    PROVE  LET room == In!MakeRoom
           IN  /\ room.front \in Nat /\ room.back \in Nat
               /\ room.back - room.front = back - front
               /\ room.back + MaxWords <= 2 * MaxWords
               /\ \A i \in 1..(back - front) : room.data[room.front + i - 1] = data[front + i - 1]
<1>1. /\ front \in Nat /\ back \in Nat /\ front <= back /\ back <= 2 * MaxWords
      /\ MaxWords \in Nat
  BY TransportAssumption DEF Receiver
<1>2. CASE In!Available = 0
  <2>1. In!MakeRoom = [data |-> data, front |-> 0, back |-> 0]
    BY <1>2 DEF In!MakeRoom
  <2>2. back - front = 0
    BY <1>2 DEF In!Available
  <2>3. /\ In!MakeRoom.front = 0 /\ In!MakeRoom.back = 0
    BY <2>1
  <2>4. \A i \in 1..(back - front) : FALSE
    BY <2>2
  <2>. QED BY <1>1, <2>2, <2>3, <2>4
<1>3. CASE In!Available # 0 /\ In!NeedsCompact
  <2>1. In!MakeRoom = [data |-> [i \in 0..(In!Size - 1) |-> In!Moved(i)],
                       front |-> 0, back |-> In!Available]
    BY <1>3 DEF In!MakeRoom
  <2>2. In!Available = back - front /\ In!Size = 2 * MaxWords
    BY DEF In!Available, In!Size
  <2>3. ASSUME NEW i \in 1..(back - front)
        PROVE  In!MakeRoom.data[0 + i - 1] = data[front + i - 1]
    <3>1. i - 1 \in 0..(In!Size - 1) /\ i - 1 < back - front /\ 0 + i - 1 = i - 1
      BY <1>1, <2>2
    <3>2. In!MakeRoom.data[i - 1] = In!Moved(i - 1)
      BY <2>1, <3>1
    <3>3. In!Moved(i - 1) = data[front + (i - 1)]
      BY <2>2, <3>1 DEF In!Moved
    <3>4. front + (i - 1) = front + i - 1
      BY <1>1
    <3>. QED BY <3>1, <3>2, <3>3, <3>4
  <2>4. In!MakeRoom.front = 0 /\ In!MakeRoom.back = back - front
    BY <2>1, <2>2
  <2>5. \A i \in 1..(back - front) : In!MakeRoom.data[In!MakeRoom.front + i - 1] = data[front + i - 1]
    BY <2>3, <2>4
  <2>6. /\ 0 \in Nat /\ back - front \in Nat /\ (back - front) - 0 = back - front
        /\ (back - front) + MaxWords <= 2 * MaxWords
    BY <1>1
  <2>. QED BY <2>4, <2>5, <2>6
<1>4. CASE In!Available # 0 /\ ~In!NeedsCompact
  <2>1. In!MakeRoom = [data |-> data, front |-> front, back |-> back]
    BY <1>4 DEF In!MakeRoom
  <2>2. ~(back > MaxWords)
    BY <1>4 DEF In!NeedsCompact
  <2>3. back + MaxWords <= 2 * MaxWords
    BY <1>1, <2>2
  <2>4. In!MakeRoom.front = front /\ In!MakeRoom.back = back /\ In!MakeRoom.data = data
    BY <2>1
  <2>. QED BY <1>1, <2>3, <2>4
<1>. QED BY <1>2, <1>3, <1>4

\* receive adds what it brings to what is held.
LEMMA HeldGrows ==
    ASSUME Receiver, NEW ws \in Seq(Word), Len(ws) \in 0..MaxWords, NEW fs, In!Receive(ws, fs)
    PROVE  /\ front' \in Nat /\ back' \in Nat /\ front' <= back' /\ back' <= 2 * MaxWords
           /\ Held' = Held \o ws
           /\ Held' \in Seq(Word)
           /\ inFds' = inFds \o fs
           /\ inPc' # "pop" => ws = <<>> /\ back' - front' < MaxWords
<1> DEFINE room == In!MakeRoom
           n == back - front
           l == Len(ws)
<1>1. /\ n \in Nat /\ Len(Held) = n /\ l \in Nat /\ l <= MaxWords /\ MaxWords \in Nat
      /\ \A i \in 1..n : Held[i] = data[front + i - 1]
      /\ Held \in Seq(Word)
  BY HeldFacts, TransportAssumption DEF Receiver
<1>2. n < MaxWords
  BY DEF In!Receive, Receiver
<1>3. /\ room.front \in Nat /\ room.back \in Nat /\ room.back - room.front = n
      /\ room.back + MaxWords <= 2 * MaxWords
      /\ \A i \in 1..n : room.data[room.front + i - 1] = data[front + i - 1]
  BY <1>2, RoomIsMade
<1>4. /\ data' = [i \in 0..(In!Size - 1) |->
                     IF i \in room.back..(room.back + Len(ws) - 1)
                     THEN ws[i - room.back + 1] ELSE room.data[i]]
      /\ front' = room.front /\ back' = room.back + Len(ws) /\ inFds' = inFds \o fs
      /\ inPc' = IF ws = <<>> THEN "idle" ELSE "pop"
  BY DEF In!Receive, In!NextAfter
<1>5. In!Size = 2 * MaxWords
  BY DEF In!Size
<1> DEFINE h == Held \o ws
<1>6. /\ h \in Seq(Word) /\ Len(h) = n + l
      /\ \A i \in 1..(n + l) : h[i] = IF i <= n THEN Held[i] ELSE ws[i - n]
  <2>1. Held \in Seq(Word) /\ Len(Held) = n
    BY <1>1
  <2>. HIDE DEF n
  <2>2. /\ Held \o ws \in Seq(Word) /\ Len(Held \o ws) = Len(Held) + Len(ws)
        /\ \A i \in 1..(Len(Held) + Len(ws)) :
              (Held \o ws)[i] = IF i <= Len(Held) THEN Held[i] ELSE ws[i - Len(Held)]
    BY <2>1, ConcatProperties
  <2>. QED BY <2>1, <2>2
<1> DEFINE r == room.front
           e == room.back
           d == room.data
<1>7. r \in Nat /\ e \in Nat /\ e - r = n /\ e + MaxWords <= 2 * MaxWords
  BY <1>3
<1>8. ASSUME NEW i \in 1..(n + l)
      PROVE  data'[r + i - 1] = h[i]
  <2> DEFINE j == r + i - 1
  <2>. HIDE DEF n, l, h, r, e, d, room
  <2>1. j \in 0..(In!Size - 1)
    BY <1>1, <1>5, <1>7
  <2>2. data'[j] = IF j \in e..(e + l - 1) THEN ws[j - e + 1] ELSE d[j]
    BY <1>4, <2>1 DEF e, l, d
  <2>3. CASE i <= n
    <3>1. ~(j \in e..(e + l - 1)) /\ i \in 1..n
      BY <1>1, <1>7, <2>3
    <3>2. d[j] = data[front + i - 1]
      BY <1>3, <3>1 DEF r, d
    <3>3. h[i] = data[front + i - 1]
      BY <1>1, <1>6, <2>3, <3>1
    <3>. QED BY <2>2, <3>1, <3>2, <3>3
  <2>4. CASE ~(i <= n)
    <3>1. j \in e..(e + l - 1) /\ j - e + 1 = i - n
      BY <1>1, <1>7, <2>4
    <3>2. h[i] = ws[i - n]
      BY <1>6, <2>4
    <3>. QED BY <2>2, <3>1, <3>2
  <2>. QED BY <2>3, <2>4
<1>9. front' = r /\ back' = e + l
  BY <1>4
<1>10. back' - front' = n + l
  BY <1>1, <1>7, <1>9
<1>11. Held' = h
  <2>1. Held' = [i \in 1..(n + l) |-> data'[r + i - 1]]
    BY <1>9, <1>10 DEF Held
  <2>2. Held' = [i \in 1..(n + l) |-> h[i]]
    BY <1>8, <2>1
  <2>3. h = [i \in 1..(n + l) |-> h[i]]
    <3>. HIDE DEF h, n, l
    <3>1. h \in [1..Len(h) -> Word]
      BY <1>6, LenProperties
    <3>. QED BY <1>6, <3>1
  <2>. QED BY <2>2, <2>3
<1>12. inPc' # "pop" => ws = <<>> /\ back' - front' < MaxWords
  <2>. SUFFICES ASSUME inPc' # "pop" PROVE ws = <<>> /\ back' - front' < MaxWords
    OBVIOUS
  <2>1. ws = <<>>
    BY <1>4
  <2>2. l = 0
    BY <2>1, EmptySeq, SMTT(60)
  <2>. HIDE DEF n, l
  <2>. QED BY <1>1, <1>2, <1>10, <2>1, <2>2
<1>. HIDE DEF n, l, r, e
<1>. QED BY <1>1, <1>4, <1>6, <1>7, <1>9, <1>11, <1>12 DEF h

\* A message is popped from the front of what is held.
LEMMA HeldShrinks ==
    ASSUME Receiver, In!Pop
    PROVE  LET m  == data[front + 1].msg
               ws == [k \in 1..m.len |-> data[front + k - 1]]
           IN  /\ m.len \in 2..MaxWords /\ m.nfds \in Nat /\ m.lastFd \in Nat
               /\ front' \in Nat /\ front' <= back
               /\ ws \in Seq(Word) /\ Len(ws) = m.len /\ ws[2] = data[front + 1]
               /\ Held' \in Seq(Word)
               /\ Held = ws \o Held'
<1> DEFINE m == data[front + 1].msg
           n == back - front
           ws == [k \in 1..m.len |-> data[front + k - 1]]
           l == m.len
<1>1. /\ n \in Nat /\ Len(Held) = n /\ front \in Nat /\ back \in Nat /\ front <= back
      /\ \A i \in 1..n : Held[i] = data[front + i - 1] /\ Held[i] \in Word
      /\ Held \in Seq(Word)
  BY HeldFacts DEF Receiver
<1>2. /\ n >= 2 /\ front + m.len <= back /\ front' = front + m.len /\ back' = back /\ data' = data
  BY DEF In!Pop, In!CanPop, In!Available, In!MessageComplete
<1>3. Held[2] = data[front + 1] /\ Held[2] \in Word
  <2>1. 2 \in 1..n /\ front + 2 - 1 = front + 1
    BY <1>1, <1>2
  <2>2. Held[2] = data[front + 2 - 1] /\ Held[2] \in Word
    BY <1>1, <2>1
  <2>. QED BY <2>1, <2>2
<1>4. l \in 2..MaxWords /\ m.nfds \in Nat /\ m.lastFd \in Nat
  BY <1>3, WordTypes, TransportAssumption
<1>. HIDE DEF l
<1>5. l \in 0..Len(Held)
  <2>. HIDE DEF n, m
  <2>1. front + l <= back
    BY <1>2 DEF l
  <2>. QED BY <1>1, <1>4, <2>1 DEF n
<1> DEFINE p == SubSeq(Held, 1, l)
           q == SubSeq(Held, l + 1, Len(Held))
<1>6. /\ Held = p \o q /\ p \in Seq(Word) /\ Len(p) = l
      /\ q \in Seq(Word) /\ Len(q) = Len(Held) - l
  BY <1>1, <1>5, CutConcat
<1>7. /\ \A i \in 1..l : p[i] = Held[i]
      /\ \A i \in 1..(n - l) : q[i] = Held[l + i]
  <2>. HIDE DEF n, m, p, q
  <2>1. l \in Int /\ l + 1 \in Int /\ n \in Int /\ l <= n
    BY <1>1, <1>4, <1>5
  <2>2. (\A i \in 1..l : Held[i] \in Word) /\ (\A i \in (l + 1)..n : Held[i] \in Word)
    BY <1>1, <1>4, <2>1
  <2>3. \A i \in 1..(l - 1 + 1) : p[i] = Held[1 + i - 1]
    BY <2>1, <2>2, SubSeqProperties DEF p
  <2>4. \A i \in 1..(n - (l + 1) + 1) : q[i] = Held[(l + 1) + i - 1]
    BY <1>1, <2>1, <2>2, SubSeqProperties DEF q
  <2>5. \A i \in 1..l : i \in 1..(l - 1 + 1) /\ 1 + i - 1 = i
    BY <2>1
  <2>6. \A i \in 1..(n - l) : i \in 1..(n - (l + 1) + 1) /\ (l + 1) + i - 1 = l + i
    BY <2>1
  <2>7. \A i \in 1..l : p[i] = Held[i]
    BY <2>3, <2>5
  <2>8. \A i \in 1..(n - l) : q[i] = Held[l + i]
    BY <2>4, <2>6
  <2>. QED BY <2>7, <2>8
<1>8. p = ws
  <2>1. p = [i \in 1..l |-> p[i]]
    <3>. HIDE DEF p
    <3>1. p \in [1..Len(p) -> Word]
      BY <1>6, LenProperties
    <3>. QED BY <1>6, <3>1
  <2>2. ASSUME NEW i \in 1..l PROVE p[i] = data[front + i - 1]
    <3>1. i \in 1..n
      BY <1>1, <1>4, <1>5
    <3>. HIDE DEF p, n, m
    <3>. QED BY <1>1, <1>7, <3>1
  <2>3. ws = [i \in 1..l |-> data[front + i - 1]]
    BY DEF l
  <2>. HIDE DEF p, ws, m
  <2>. QED BY <2>1, <2>2, <2>3
<1>9. back' - front' = n - l
  <2>1. front' = front + l
    BY <1>2 DEF l
  <2>. QED BY <1>1, <1>2, <1>4, <2>1, SMTT(60)
<1>10. q = Held'
  <2>1. q = [i \in 1..(n - l) |-> q[i]]
    <3>1. q \in [1..Len(q) -> Word] /\ Len(q) = n - l
      <4>. HIDE DEF q, n
      <4>. QED BY <1>1, <1>6, LenProperties
    <3>. HIDE DEF q, n
    <3>. QED BY <3>1
  <2>2. ASSUME NEW i \in 1..(n - l) PROVE q[i] = data'[front' + i - 1]
    <3>1. l + i \in 1..n /\ front + (l + i) - 1 = (front + l) + i - 1
      BY <1>1, <1>4, <1>5
    <3>2. q[i] = Held[l + i]
      <4>. HIDE DEF q
      <4>. QED BY <1>7
    <3>3. Held[l + i] = data[front + (l + i) - 1]
      BY <1>1, <3>1
    <3>4. front' = front + l /\ data' = data
      BY <1>2 DEF l
    <3>. HIDE DEF q
    <3>. QED BY <3>1, <3>2, <3>3, <3>4
  <2>3. Held' = [i \in 1..(n - l) |-> data'[front' + i - 1]]
    BY <1>9 DEF Held
  <2>. HIDE DEF q, n
  <2>. QED BY <2>1, <2>2, <2>3
<1>11. ws \in Seq(Word) /\ Len(ws) = l /\ Held' \in Seq(Word) /\ Held = ws \o Held'
  <2>. HIDE DEF p, q, ws, m
  <2>. QED BY <1>6, <1>8, <1>10
<1>12. ws[2] = data[front + 1]
  <2>1. 2 \in 1..l
    BY <1>4
  <2>2. p[2] = Held[2]
    <3>. HIDE DEF p
    <3>. QED BY <1>7, <2>1
  <2>. HIDE DEF p, ws
  <2>. QED BY <1>3, <1>8, <2>2
<1>13. front' \in Nat /\ front' <= back
  <2>1. front' = front + l /\ front + l <= back
    BY <1>2 DEF l
  <2>. HIDE DEF n, m
  <2>. QED BY <1>1, <1>4, <2>1
<1>. QED BY <1>4, <1>11, <1>12, <1>13 DEF l

-----------------------------------------------------------------------------
(* What the steps do to the parts of the stream. *)

\* A chunk becomes the last segment of the socket, with its descriptors.
LEMMA SendEffect ==
    ASSUME Sender, sock \in Seq(Segment), SendChunk
    PROVE  /\ sock' \in Seq(Segment)
           /\ WordsOfSegments(sock') = WordsOfSegments(sock) \o chunks[1]
           /\ chunks[1] \in Seq(Word)
           /\ FlattenSeq(chunks) = chunks[1] \o FlattenSeq(chunks')
           /\ FlattenSeq(chunks') \in Seq(Word)
           /\ sent'.words = sent.words + Len(chunks[1])
           /\ sent'.fds \in Nat /\ sent'.fds <= accepted.fds
           /\ \E g \in Segment :
                 /\ sock' = sock \o <<g>> /\ g.words = chunks[1]
                 /\ g.fds \o fds' = fds /\ Len(g.fds) = sent'.fds - sent.fds
                 /\ g.fds \in Seq(Nat) /\ fds' \in Seq(Nat) /\ Len(g.fds) \in Nat
                 /\ g.words \in Seq(Early(sent'.fds))
<1> DEFINE d == Buffer!FdsPerSend
           g == [words |-> chunks[1], fds |-> SubSeq(fds, 1, d), whole |-> chunks[1]]
<1>1. Buffer!SendChunk /\ Buffer!IInv
  BY SameSteps DEF SendChunk, Sender
<1>2. /\ chunks[1] \in Seq(Word) /\ Len(chunks[1]) \in Nat
      /\ FlattenSeq(chunks') \in Seq(Word)
      /\ FlattenSeq(chunks) = chunks[1] \o FlattenSeq(chunks')
      /\ sent'.words = sent.words + Len(chunks[1])
  <2>1. /\ chunks[1] \in Seq(Buffer!Word) /\ Len(chunks[1]) \in Nat
        /\ Buffer!FlattenSeq(chunks') \in Seq(Buffer!Word)
        /\ Buffer!FlattenSeq(chunks) = chunks[1] \o Buffer!FlattenSeq(chunks')
        /\ sent'.words = sent.words + Len(chunks[1])
    BY <1>1, BufferAssumption, Buffer!SendTakesChunk DEF Buffer!OutAssumption
  <2>. QED BY <2>1, SameFlatten DEF Word
<1>3. /\ accepted.fds \in Nat /\ sent.fds \in Nat /\ sent.fds <= accepted.fds
      /\ fds = Buffer!Queue(sent.fds, accepted.fds)
  BY SenderFacts
<1>4. fds \in Seq(Nat) /\ Len(fds) = accepted.fds - sent.fds
  BY <1>3, BufferAssumption, Buffer!QueueProps DEF Buffer!OutAssumption
<1>5. /\ sock' = Append(sock, g)
      /\ fds' = SubSeq(fds, d + 1, Len(fds))
      /\ sent'.fds = sent.fds + d
  BY <1>1, SameOperators DEF SendChunk, Buffer!SendChunk
<1>6. d \in 0..Len(fds)
  <2>1. MaxFds \in Nat /\ Len(fds) \in Nat
    BY <1>3, <1>4, TransportAssumption
  <2>. QED BY <2>1 DEF Buffer!FdsPerSend
<1>. HIDE DEF d
<1>7. /\ fds = SubSeq(fds, 1, d) \o SubSeq(fds, d + 1, Len(fds))
      /\ SubSeq(fds, 1, d) \in Seq(Nat) /\ Len(SubSeq(fds, 1, d)) = d
      /\ SubSeq(fds, d + 1, Len(fds)) \in Seq(Nat)
  BY <1>4, <1>6, CutConcat
<1>8. g \in Segment /\ g.words = chunks[1] /\ g.fds = SubSeq(fds, 1, d)
  BY <1>2, <1>7 DEF Segment
<1>9. sent'.fds \in Nat /\ sent'.fds <= accepted.fds /\ d = sent'.fds - sent.fds /\ d \in Nat
  BY <1>3, <1>4, <1>5, <1>6, SMTT(60)
<1>10. chunks[1] \in Seq(Early(sent'.fds))
  <2>1. \A j \in 1..Len(chunks[1]) : chunks[1][j].msg.lastFd <= sent'.fds
    BY <1>1, BufferAssumption, Buffer!SendCarriesFds DEF Buffer!OutAssumption
  <2>2. \A j \in 1..Len(chunks[1]) : chunks[1][j] \in Early(sent'.fds)
    BY <1>2, <2>1, ElementOfSeq DEF Early
  <2> DEFINE s == chunks[1]
  <2>. HIDE DEF s
  <2>3. s \in Seq(Word) /\ \A j \in 1..Len(s) : s[j] \in Early(sent'.fds)
    BY <1>2, <2>2 DEF s
  <2>4. s \in Seq(Early(sent'.fds))
    BY <2>3
  <2>. QED BY <2>4 DEF s
<1>. HIDE DEF g
<1>11. sock' = sock \o <<g>>
  BY <1>5, <1>8, AppendIsConcat
<1>12. /\ <<g>> \in Seq(Segment) /\ WordsOfSegments(<<g>>) = g.words
  BY <1>8, SegmentsOne
<1>13. /\ sock' \in Seq(Segment)
       /\ WordsOfSegments(sock') = WordsOfSegments(sock) \o chunks[1]
  <2>1. /\ sock \o <<g>> \in Seq(Segment)
        /\ WordsOfSegments(sock \o <<g>>) = WordsOfSegments(sock) \o WordsOfSegments(<<g>>)
    BY <1>12, SegmentsConcat
  <2>. QED BY <1>8, <1>11, <1>12, <2>1
<1>14. /\ g \in Segment
       /\ sock' = sock \o <<g>> /\ g.words = chunks[1]
       /\ g.fds \o fds' = fds /\ Len(g.fds) = sent'.fds - sent.fds
       /\ g.fds \in Seq(Nat) /\ fds' \in Seq(Nat) /\ Len(g.fds) \in Nat
       /\ g.words \in Seq(Early(sent'.fds))
  BY <1>5, <1>7, <1>8, <1>9, <1>10, <1>11
<1>. QED BY <1>2, <1>9, <1>13, <1>14

\* What receive took is at the head of what the socket holds.
Took(ws, fs) ==
    /\ In!Receive(ws, fs)
    /\ ws \in Seq(Word) /\ Len(ws) \in 0..MaxWords /\ fs \in Seq(Nat)
    /\ sock' \in Seq(Segment)
    /\ WordsOfSegments(sock') \in Seq(Word) /\ FdsOfSegments(sock') \in Seq(Nat)
    /\ WordsOfSegments(sock) = ws \o WordsOfSegments(sock')
    /\ FdsOfSegments(sock) = fs \o FdsOfSegments(sock')
    /\ \A f \in Nat : Covers(sock, f) => /\ ws \in Seq(Early(f - Len(FdsOfSegments(sock'))))
                                         /\ Covers(sock', f)

LEMMA ReceiveEffect ==
    ASSUME sock \in Seq(Segment), Receive
    PROVE  /\ \E ws, fs : Took(ws, fs)
           /\ UNCHANGED <<outVars, popped, inEdge, owes, history>>
<1>1. CASE sock = <<>>
  <2>1. In!Receive(<<>>, <<>>) /\ UNCHANGED <<outVars, popped, kernelVars, owes, history>>
    BY <1>1 DEF Receive
  <2>2. sock' = <<>> /\ inEdge' = inEdge
    BY <1>1, <2>1 DEF kernelVars
  <2>3. /\ <<>> \in Seq(Segment) /\ <<>> \in Seq(Word) /\ <<>> \in Seq(Nat)
        /\ Len(<<>>) = 0 /\ 0 \in 0..MaxWords
        /\ \A f \in Nat : <<>> \in Seq(Early(f - 0))
    BY EmptySeq, TransportAssumption
  <2>4. <<>> \o <<>> = <<>>
    BY <2>3, ConcatEmptySeq
  <2>5. Took(<<>>, <<>>)
    BY <1>1, <2>1, <2>2, <2>3, <2>4, SegmentsEmpty DEF Took
  <2>. QED BY <2>1, <2>2, <2>5
<1>2. CASE sock # <<>>
  <2>1. PICK t \in 1..Len(sock) : \E c \in 1..Len(sock[t].words) :
               /\ MayRead(t, c)
               /\ In!Receive(ReadUpTo(t, c), sock[t].fds)
               /\ sock' = Unread(t, c)
    BY <1>2 DEF Receive
  <2>2. PICK c \in 1..Len(sock[t].words) :
               /\ MayRead(t, c)
               /\ In!Receive(ReadUpTo(t, c), sock[t].fds)
               /\ sock' = Unread(t, c)
    BY <2>1
  <2>3. /\ Unread(t, c) \in Seq(Segment)
        /\ ReadUpTo(t, c) \in Seq(Word) /\ Len(ReadUpTo(t, c)) \in 0..MaxWords
        /\ WordsOfSegments(Unread(t, c)) \in Seq(Word)
        /\ WordsOfSegments(sock) = ReadUpTo(t, c) \o WordsOfSegments(Unread(t, c))
        /\ sock[t].fds \in Seq(Nat)
        /\ FdsOfSegments(Unread(t, c)) \in Seq(Nat)
        /\ FdsOfSegments(sock) = sock[t].fds \o FdsOfSegments(Unread(t, c))
    BY <2>2, ReadSplits
  <2>4. \A f \in Nat : Covers(sock, f) =>
            /\ ReadUpTo(t, c) \in Seq(Early(f - Len(FdsOfSegments(Unread(t, c)))))
            /\ Covers(Unread(t, c), f)
    BY <2>2, ReadCovers
  <2>5. Took(ReadUpTo(t, c), sock[t].fds)
    BY <2>2, <2>3, <2>4 DEF Took
  <2>6. UNCHANGED <<outVars, popped, inEdge, owes, history>>
    BY <1>2 DEF Receive
  <2>. QED BY <2>5, <2>6
<1>. QED BY <1>1, <1>2

\* try_pop stops with less than a whole message left.
LEMMA PopDoneLeavesRoom ==
    ASSUME Receiver, In!PopDone
    PROVE  back - front < MaxWords
<1> DEFINE n == back - front
<1>1. n \in Nat /\ \A i \in 1..n : Held[i] = data[front + i - 1] /\ Held[i] \in Word
  BY HeldFacts
<1>2. front \in Nat /\ back \in Nat /\ MaxWords \in Nat /\ MaxWords >= 2
  BY TransportAssumption DEF Receiver
<1>3. ~(n >= 2) \/ ~(front + data[front + 1].msg.len <= back)
  BY DEF In!PopDone, In!CanPop, In!Available, In!MessageComplete
<1>4. CASE ~(n >= 2)
  <2>. HIDE DEF n
  <2>1. n < MaxWords
    BY <1>1, <1>2, <1>4
  <2>. QED BY <2>1 DEF n
<1>5. CASE n >= 2
  <2>1. 2 \in 1..n /\ front + 2 - 1 = front + 1
    BY <1>1, <1>2, <1>5
  <2>2. data[front + 1] \in Word
    BY <1>1, <2>1
  <2> DEFINE l == data[front + 1].msg.len
  <2>3. l \in 2..MaxWords
    BY <2>2, WordTypes
  <2>4. ~(front + l <= back)
    BY <1>3, <1>5
  <2>. HIDE DEF l, n
  <2>5. back - front < MaxWords
    BY <1>2, <2>3, <2>4
  <2>. QED BY <2>5
<1>. QED BY <1>4, <1>5

LEMMA ReceiverStep ==
    ASSUME Sender, Receiver, [Next]_vars
    PROVE  Receiver'
<1>. USE DEF Receiver
<1>1. CASE Receive
  <2>1. PICK ws, fs : Took(ws, fs)
    BY <1>1, ReceiveEffect
  <2>2. /\ In!Receive(ws, fs) /\ ws \in Seq(Word) /\ Len(ws) \in 0..MaxWords
        /\ fs \in Seq(Nat) /\ sock' \in Seq(Segment)
    BY <2>1 DEF Took
  <2>3. popped' = popped
    BY <1>1, ReceiveEffect
  <2>4. /\ front' \in Nat /\ back' \in Nat /\ front' <= back' /\ back' <= 2 * MaxWords
        /\ Held' \in Seq(Word)
        /\ inFds' = inFds \o fs
        /\ inPc' # "pop" => back' - front' < MaxWords
    BY <2>2, HeldGrows
  <2>5. inFds \o fs \in Seq(Nat)
    BY <2>2, ConcatProperties
  <2>. QED BY <2>2, <2>3, <2>4, <2>5
<1>2. CASE Pop
  <2> DEFINE m == data[front + 1].msg
  <2>1. In!Pop /\ sock' = sock /\ inPc' = inPc
    BY <1>2 DEF Pop, kernelVars, In!Pop
  <2>2. /\ m.len \in 2..MaxWords /\ m.nfds \in Nat
        /\ front' \in Nat /\ front' <= back /\ Held' \in Seq(Word)
    BY <2>1, HeldShrinks
  <2>3. /\ back' = back /\ inPc = "pop"
        /\ inFds' = SubSeq(inFds, m.nfds + 1, Len(inFds))
        /\ popped' = [msgs |-> popped.msgs + 1, words |-> popped.words + m.len,
                      fds |-> popped.fds + m.nfds]
    BY <2>1 DEF In!Pop, In!FdsTaken
  <2> DEFINE l == m.len
             k == m.nfds
  <2>4. l \in 2..MaxWords /\ k \in Nat
    BY <2>2
  <2>. HIDE DEF l, k
  <2>a. l \in Nat
    BY <2>4, TransportAssumption
  <2>b. popped' = [msgs |-> popped.msgs + 1, words |-> popped.words + l,
                   fds |-> popped.fds + k]
    BY <2>3 DEF l, k
  <2>. HIDE DEF m
  <2>5. popped' \in [msgs : Nat, words : Nat, fds : Nat]
    <3>1. popped.msgs \in Nat /\ popped.words \in Nat /\ popped.fds \in Nat
      BY HeldFacts
    <3>2. popped.msgs + 1 \in Nat /\ popped.words + l \in Nat /\ popped.fds + k \in Nat
      BY <2>4, <2>a, <3>1
    <3>. QED BY <2>b, <3>2
  <2>6. inFds' \in Seq(Nat)
    <3>1. Len(inFds) \in Int /\ m.nfds + 1 \in Int
      BY <2>2, LenProperties
    <3>2. \A i \in (m.nfds + 1)..Len(inFds) : i \in 1..Len(inFds)
      BY <2>2, LenProperties
    <3>3. \A i \in (m.nfds + 1)..Len(inFds) : inFds[i] \in Nat
      BY <3>2, ElementOfSeq
    <3>. QED BY <2>3, <3>1, <3>3, SubSeqProperties
  <2>. QED BY <2>1, <2>2, <2>3, <2>5, <2>6
<1>3. CASE PopDone
  <2>1. In!PopDone /\ sock' = sock /\ popped' = popped
    BY <1>3 DEF PopDone, kernelVars
  <2>2. data' = data /\ front' = front /\ back' = back /\ inFds' = inFds
    BY <2>1 DEF In!PopDone
  <2>3. Held' = Held
    BY <2>2 DEF Held
  <2>4. back - front < MaxWords
    BY <2>1, PopDoneLeavesRoom
  <2>. HIDE DEF Held
  <2>. QED BY <2>1, <2>2, <2>3, <2>4
<1>4. CASE InputEvent
  <2>1. In!HandleInput /\ sock' = sock /\ popped' = popped
    BY <1>4 DEF InputEvent
  <2>2. /\ data' = data /\ front' = front /\ back' = back /\ inFds' = inFds
        /\ inPc = "idle" /\ inPc' = "receive"
    BY <2>1 DEF In!HandleInput
  <2>3. Held' = Held
    BY <2>2 DEF Held
  <2>. HIDE DEF Held
  <2>. QED BY <2>1, <2>2, <2>3
<1>5. CASE SendChunk
  <2>1. sock' \in Seq(Segment)
    BY <1>5, SendEffect
  <2>2. UNCHANGED inVars
    BY <1>5 DEF SendChunk
  <2>3. /\ data' = data /\ front' = front /\ back' = back /\ inFds' = inFds
        /\ inPc' = inPc /\ popped' = popped
    BY <2>2 DEF inVars
  <2>4. Held' = Held
    BY <2>3 DEF Held
  <2>. HIDE DEF Held
  <2>. QED BY <2>1, <2>3, <2>4
<1>6. CASE \/ \E m \in Messages : Send(m)
           \/ Put \/ SendRefused \/ FlushReturn \/ InputEnds
           \/ OutputEvent \/ OutputEdgeSpent \/ UNCHANGED vars
  <2>1. UNCHANGED inVars /\ sock' = sock
    BY <1>6 DEF Send, Put, SendRefused, FlushReturn, InputEnds, OutputEvent, OutputEdgeSpent,
                vars, kernelVars
  <2>2. /\ data' = data /\ front' = front /\ back' = back /\ inFds' = inFds
        /\ inPc' = inPc /\ popped' = popped
    BY <2>1 DEF inVars
  <2>3. Held' = Held
    BY <2>2 DEF Held
  <2>. HIDE DEF Held
  <2>. QED BY <2>1, <2>2, <2>3
<1>. QED BY <1>1, <1>2, <1>3, <1>4, <1>5, <1>6 DEF Next

\* The words sent and not popped.
Wire == Held \o WordsOfSegments(sock)

LEMMA WireFacts ==
    ASSUME Receiver
    PROVE  /\ Held \in Seq(Word) /\ WordsOfSegments(sock) \in Seq(Word)
           /\ Wire \in Seq(Word) /\ Len(Wire) \in Nat
<1>1. Held \in Seq(Word) /\ WordsOfSegments(sock) \in Seq(Word)
  BY SegmentTypes DEF Receiver
<1>2. Wire \in Seq(Word)
  <2>. HIDE DEF Held
  <2>. QED BY <1>1, ConcatProperties DEF Wire
<1>. QED BY <1>1, <1>2, LenProperties

\* The steps that leave the wire and the descriptors on it alone.
Quiet ==
    \/ \E m \in Messages : Send(m)
    \/ Put \/ SendRefused \/ FlushReturn \/ InputEnds \/ OutputEvent \/ OutputEdgeSpent
    \/ InputEvent \/ PopDone \/ UNCHANGED vars

LEMMA StepCases == [Next]_vars => SendChunk \/ Receive \/ Pop \/ Quiet
BY DEF Next, Quiet

LEMMA QuietEffect ==
    ASSUME Quiet
    PROVE  /\ inFds' = inFds /\ sock' = sock /\ popped' = popped /\ sent' = sent
           /\ Held' = Held /\ Wire' = Wire
<1>1. /\ data' = data /\ front' = front /\ back' = back
      /\ inFds' = inFds /\ sock' = sock /\ popped' = popped
  BY SMTT(60) DEF Quiet, Send, Put, SendRefused, FlushReturn, InputEnds, OutputEvent, OutputEdgeSpent,
         InputEvent, PopDone, In!HandleInput, In!PopDone, vars, inVars, kernelVars
<1>2. sent' = sent
  BY DEF Quiet, Send, Put, SendRefused, FlushReturn, InputEnds, OutputEvent, OutputEdgeSpent,
         InputEvent, PopDone, Out!AddFds, Out!Put, Out!SendRefused, Out!FlushReturn,
         Out!ForceFlush, Out!GotOutputEvent, vars, outVars
<1>3. Held' = Held
  BY <1>1 DEF Held
<1>4. Wire' = Wire
  BY <1>1, <1>3 DEF Wire
<1>. QED BY <1>1, <1>2, <1>3, <1>4

LEMMA WireSent ==
    ASSUME Sender, Receiver, SendChunk
    PROVE  Wire' = Wire \o chunks[1] /\ Held' = Held
<1>1. Held' = Held
  BY DEF Held, SendChunk, inVars
<1>2. /\ WordsOfSegments(sock') = WordsOfSegments(sock) \o chunks[1]
      /\ chunks[1] \in Seq(Word)
  BY SendEffect DEF Receiver
<1> DEFINE h == Held
           w == WordsOfSegments(sock)
           c == chunks[1]
<1>3. h \in Seq(Word) /\ w \in Seq(Word) /\ c \in Seq(Word)
  BY <1>2, WireFacts
<1>4. Wire' = h \o (w \o c) /\ Wire = h \o w
  BY <1>1, <1>2 DEF Wire
<1>. HIDE DEF h, w
<1>5. (h \o w) \o c = h \o (w \o c)
  <2>. HIDE DEF c
  <2>. QED BY <1>3, ConcatAssociative
<1>. QED BY <1>1, <1>4, <1>5

LEMMA WireReceived ==
    ASSUME Receiver, NEW ws, NEW fs, Took(ws, fs)
    PROVE  Wire' = Wire /\ Held' = Held \o ws /\ inFds' = inFds \o fs
<1>1. Held' = Held \o ws /\ inFds' = inFds \o fs
  BY HeldGrows DEF Took
<1> DEFINE h == Held
           w == WordsOfSegments(sock')
<1>2. h \in Seq(Word) /\ w \in Seq(Word) /\ ws \in Seq(Word)
  BY WireFacts DEF Took
<1>3. Wire' = (h \o ws) \o w /\ Wire = h \o (ws \o w)
  BY <1>1 DEF Wire, Took
<1>. HIDE DEF h, w
<1>4. (h \o ws) \o w = h \o (ws \o w)
  BY <1>2, ConcatAssociative
<1>. QED BY <1>1, <1>3, <1>4

\* The message that is popped, as it stands in the array.
FirstHeld == [k \in 1..data[front + 1].msg.len |-> data[front + k - 1]]

LEMMA WirePopped ==
    ASSUME Receiver, Pop
    PROVE  /\ FirstHeld \in Seq(Word) /\ Len(FirstHeld) = data[front + 1].msg.len
           /\ FirstHeld[2] = data[front + 1] /\ Len(FirstHeld) \in 2..MaxWords
           /\ Held' \in Seq(Word) /\ Wire' \in Seq(Word)
           /\ Held = FirstHeld \o Held'
           /\ Wire = FirstHeld \o Wire'
           /\ popped'.words = popped.words + Len(FirstHeld)
           /\ popped'.fds = popped.fds + data[front + 1].msg.nfds
           /\ data[front + 1].msg.nfds \in Nat
           /\ sock' = sock
           /\ inFds' = SubSeq(inFds, data[front + 1].msg.nfds + 1, Len(inFds))
<1> DEFINE m == data[front + 1].msg
<1>1. In!Pop /\ sock' = sock
  BY SMTT(60) DEF Pop, kernelVars
<1>2. /\ m.len \in 2..MaxWords /\ m.nfds \in Nat
      /\ FirstHeld \in Seq(Word) /\ Len(FirstHeld) = m.len /\ FirstHeld[2] = data[front + 1]
      /\ Held' \in Seq(Word)
      /\ Held = FirstHeld \o Held'
  BY <1>1, HeldShrinks DEF FirstHeld
<1>3. /\ popped' = [msgs |-> popped.msgs + 1, words |-> popped.words + m.len,
                    fds |-> popped.fds + m.nfds]
      /\ inFds' = SubSeq(inFds, m.nfds + 1, Len(inFds))
  BY <1>1 DEF In!Pop, In!FdsTaken
<1>4. popped'.words = popped.words + Len(FirstHeld) /\ popped'.fds = popped.fds + m.nfds
  BY <1>2, <1>3
<1> DEFINE h == Held'
           w == WordsOfSegments(sock)
           f == FirstHeld
<1>5. h \in Seq(Word) /\ w \in Seq(Word) /\ f \in Seq(Word)
  BY <1>2, WireFacts
<1>6. Wire' = h \o w /\ Wire = (f \o h) \o w
  BY <1>1, <1>2 DEF Wire
<1>. HIDE DEF h, w, f
<1>7. (f \o h) \o w = f \o (h \o w)
  BY <1>5, ConcatAssociative
<1>8. h \o w \in Seq(Word)
  BY <1>5, ConcatProperties
<1>. QED BY <1>1, <1>2, <1>3, <1>4, <1>6, <1>7, <1>8 DEF f

\* Between what was popped and what was sent lie the words on the wire, in order.
WireInOrder ==
    /\ Buffer!Consecutive(Wire, popped.words)
    /\ popped.words + Len(Wire) = sent.words

LEMMA ConsecutiveSplit ==
    \A s \in Seq(Word) : \A t \in Seq(Word) : \A p \in Nat :
        Buffer!Consecutive(s \o t, p)
            <=> Buffer!Consecutive(s, p) /\ Buffer!Consecutive(t, p + Len(s))
BY BufferAssumption, Buffer!ConsecutiveConcat DEF Buffer!OutAssumption, Word

LEMMA WireStep ==
    ASSUME Sender, Receiver, WireInOrder, [Next]_vars
    PROVE  WireInOrder'
<1>0. /\ popped.words \in Nat /\ sent.words \in Nat
      /\ Wire \in Seq(Word) /\ Len(Wire) \in Nat
  BY HeldFacts, SenderFacts, WireFacts
<1>1. CASE SendChunk
  <2> DEFINE c == chunks[1]
             r == FlattenSeq(chunks')
  <2>1. /\ c \in Seq(Word) /\ r \in Seq(Word) /\ FlattenSeq(chunks) = c \o r
        /\ sent'.words = sent.words + Len(c) /\ Wire' = Wire \o c
    BY <1>1, SendEffect, WireSent DEF Receiver
  <2>2. popped' = popped
    BY <1>1 DEF SendChunk, inVars
  <2>3. Buffer!Consecutive(c \o r, sent.words)
    BY <2>1, SenderFacts
  <2>. HIDE DEF c, r
  <2>4. Buffer!Consecutive(c, sent.words)
    BY <1>0, <2>1, <2>3, ConsecutiveSplit
  <2>5. Buffer!Consecutive(c, popped.words + Len(Wire))
    BY <2>4 DEF WireInOrder
  <2>6. Buffer!Consecutive(Wire, popped.words)
    BY DEF WireInOrder
  <2>7. Buffer!Consecutive(Wire \o c, popped.words)
    BY <1>0, <2>1, <2>5, <2>6, ConsecutiveSplit
  <2>8. Len(Wire \o c) = Len(Wire) + Len(c) /\ Len(c) \in Nat
    BY <1>0, <2>1, ConcatProperties, LenProperties
  <2>9. popped.words + Len(Wire) = sent.words
    BY DEF WireInOrder
  <2>10. popped.words + (Len(Wire) + Len(c)) = sent.words + Len(c)
    BY <1>0, <2>8, <2>9
  <2>. QED BY <2>1, <2>2, <2>7, <2>8, <2>10 DEF WireInOrder
<1>2. CASE Receive
  <2>1. PICK ws, fs : Took(ws, fs)
    BY <1>2, ReceiveEffect DEF Receiver
  <2>2. Wire' = Wire
    BY <2>1, WireReceived
  <2>3. popped' = popped /\ sent' = sent
    BY <1>2, ReceiveEffect DEF Receiver, outVars
  <2>. QED BY <2>2, <2>3 DEF WireInOrder
<1>3. CASE Pop
  <2> DEFINE f == FirstHeld
             w == Wire'
  <2>1. /\ f \in Seq(Word) /\ w \in Seq(Word) /\ Wire = f \o w
        /\ popped'.words = popped.words + Len(f)
    BY <1>3, WirePopped
  <2>2. sent' = sent
    BY <1>3 DEF Pop, outVars
  <2>3. Buffer!Consecutive(Wire, popped.words) /\ popped.words + Len(Wire) = sent.words
    BY DEF WireInOrder
  <2>. HIDE DEF f, w
  <2>4. Buffer!Consecutive(w, popped.words + Len(f))
    <3>1. Buffer!Consecutive(f \o w, popped.words)
      BY <2>1, <2>3
    <3>. QED BY <1>0, <2>1, <3>1, ConsecutiveSplit
  <2>5. Len(f \o w) = Len(f) + Len(w) /\ Len(f) \in Nat /\ Len(w) \in Nat
    BY <2>1, ConcatProperties, LenProperties
  <2>6. (popped.words + Len(f)) + Len(w) = sent.words
    <3>1. Len(Wire) = Len(f) + Len(w)
      BY <2>1, <2>5
    <3>. QED BY <1>0, <2>3, <2>5, <3>1
  <2>. QED BY <2>1, <2>2, <2>4, <2>6 DEF WireInOrder, w
<1>4. CASE Quiet
  BY <1>4, QuietEffect DEF WireInOrder
<1>. QED BY <1>1, <1>2, <1>3, <1>4, StepCases

-----------------------------------------------------------------------------
(* The messages that were put.                                             *)

LEMMA TravelsProps ==
    ASSUME NEW x \in ChannelMessage
    PROVE  LET ws == x.words
               m  == x.words[1].msg
           IN  /\ ws \in Seq(Word) /\ Len(ws) = m.len /\ m.len \in 2..MaxWords
               /\ m.len \in Nat /\ m.len >= 2
               /\ m.nfds \in Nat /\ m.lastFd \in Nat
               /\ \A k \in 1..m.len : ws[k].msg = m
               /\ ws[1].pos = m.start
               /\ x = [words |-> ws, fds |-> [k \in 1..m.nfds |-> m.lastFd - m.nfds + k]]
<1>1. PICK mm \in Messages, n \in Nat, f \in Nat : x = Travels(mm, n, f)
  BY TransportAssumption DEF ChannelMessage
<1>2. mm.len \in 2..MaxWords /\ mm.nfds \in 0..MaxArgs /\ MaxWords \in Nat /\ MaxArgs \in Nat
  BY TransportAssumption
<1> DEFINE ws == Buffer!WordsOf(mm, n, f)
           h == [start |-> n + 1, len |-> mm.len, nfds |-> mm.nfds, lastFd |-> f]
<1>3. ws \in Seq(Word) /\ Len(ws) = mm.len
  BY BufferAssumption, Buffer!WordsOfProps DEF Buffer!OutAssumption, Buffer!Chunk, Word
<1>4. \A k \in 1..mm.len : ws[k] = [pos |-> n + k, msg |-> h]
  BY DEF Buffer!WordsOf
<1>5. x.words = ws /\ x = [words |-> ws, fds |-> [k \in 1..mm.nfds |-> f - mm.nfds + k]]
  BY <1>1, SameOperators DEF Travels
<1>6. /\ h.start = n + 1 /\ h.len = mm.len /\ h.nfds = mm.nfds /\ h.lastFd = f
      /\ 1 \in 1..mm.len
  BY <1>2
<1>. HIDE DEF ws, h
<1>7. ws[1].msg = h /\ ws[1].pos = n + 1 /\ \A k \in 1..mm.len : ws[k].msg = h
  <2>1. ASSUME NEW k \in 1..mm.len PROVE ws[k].msg = h /\ ws[k].pos = n + k
    <3>1. ws[k] = [pos |-> n + k, msg |-> h]
      BY <1>4
    <3>. QED BY <3>1
  <2>. QED BY <1>6, <2>1
<1>8. mm.len \in Nat /\ mm.len >= 2 /\ mm.nfds \in Nat
  BY <1>2
<1>. QED BY <1>2, <1>3, <1>5, <1>6, <1>7, <1>8

HeaderOf(i) == put[i].words[1].msg

\* The last descriptor of the first i messages.
LastFd(i) == IF i = 0 THEN 0 ELSE HeaderOf(i).lastFd

\* Each message has the descriptors behind those of the one before, and what is
\* put stays within the bounds of the model.
PutInOrder ==
    /\ put \in Seq(ChannelMessage)
    /\ \A i \in 1..Len(put) : LastFd(i) = LastFd(i - 1) + HeaderOf(i).nfds
    /\ LastFd(Len(put)) + msg.nfds = accepted.fds
    /\ pc \notin {"put", "fdsFlush"} => msg = Out!NoMsg
    /\ accepted.msgs = Len(put) + (IF pc \in {"put", "fdsFlush"} THEN 1 ELSE 0)
    /\ accepted.msgs <= MsgBound
    /\ accepted.words <= Len(put) * MaxWords
    /\ accepted.fds <= accepted.msgs * MaxArgs

LEMMA Products ==
    /\ \A a \in Nat : \A b \in Nat : \A c \in Nat : a <= b => a * c <= b * c
    /\ \A a \in Nat : \A c \in Nat : (a + 1) * c = a * c + c /\ a * c \in Nat
OBVIOUS

\* What put gets is the next message, with descriptors behind those of the last.
LEMMA PutEffect ==
    ASSUME Sender, PutInOrder, Put
    PROVE  LET x == Travels(msg, accepted.words, accepted.fds)
               n == Len(put)
           IN  /\ x \in ChannelMessage
               /\ put' = Append(put, x) /\ put' \in Seq(ChannelMessage)
               /\ n \in Nat /\ Len(put') = n + 1 /\ put'[n + 1] = x
               /\ \A i \in 1..n : put'[i] = put[i]
               /\ x.words = Out!WordsOf(msg, accepted.words, accepted.fds)
               /\ x.words[1].msg.lastFd = accepted.fds /\ x.words[1].msg.nfds = msg.nfds
               /\ FlattenSeq(chunks') = FlattenSeq(chunks) \o x.words
               /\ accepted.msgs = n + 1
               /\ accepted'.words = accepted.words + msg.len /\ msg.len \in 2..MaxWords
               /\ accepted'.fds = accepted.fds /\ accepted'.msgs = accepted.msgs
               /\ sent' = sent /\ delivered' = delivered
<1> DEFINE x == Travels(msg, accepted.words, accepted.fds)
           n == Len(put)
<1>1. Buffer!Put /\ Out!Put /\ pc = "put"
  BY SameSteps DEF Put, Out!Put
<1>2. /\ accepted.words \in Nat /\ accepted.fds \in Nat /\ accepted.msgs \in Nat
      /\ msg \in Messages /\ accepted \in [msgs : Nat, words : Nat, fds : Nat]
  BY <1>1, SenderFacts
<1>3. put \in Seq(ChannelMessage) /\ n \in Nat
  BY LenProperties DEF PutInOrder
<1>4. accepted.msgs = n + 1 /\ n + 1 <= MsgBound
  BY <1>1 DEF PutInOrder
<1>5. /\ MsgBound \in Nat /\ MaxWords \in Nat /\ MaxArgs \in Nat
  BY TransportAssumption
<1>6. accepted.words <= n * MaxWords /\ accepted.fds <= (n + 1) * MaxArgs
  BY <1>4 DEF PutInOrder
<1>. HIDE DEF n
<1>7. accepted.words \in 0..(MsgBound * MaxWords) /\ accepted.fds \in 0..(MsgBound * MaxArgs)
  <2>1. n <= MsgBound /\ n + 1 <= MsgBound /\ n + 1 \in Nat
    BY <1>3, <1>4, <1>5
  <2>2. n * MaxWords <= MsgBound * MaxWords /\ (n + 1) * MaxArgs <= MsgBound * MaxArgs
    BY <1>3, <1>5, <2>1, Products
  <2>3. n * MaxWords \in Nat /\ (n + 1) * MaxArgs \in Nat
        /\ MsgBound * MaxWords \in Nat /\ MsgBound * MaxArgs \in Nat
    BY <1>3, <1>5, <2>1, Products
  <2> DEFINE a == n * MaxWords
             b == (n + 1) * MaxArgs
             c == MsgBound * MaxWords
             d == MsgBound * MaxArgs
  <2>. HIDE DEF a, b, c, d
  <2>4. a <= c /\ b <= d /\ a \in Nat /\ b \in Nat /\ c \in Nat /\ d \in Nat
        /\ accepted.words <= a /\ accepted.fds <= b
    BY <1>6, <2>2, <2>3 DEF a, b, c, d
  <2>5. accepted.words \in 0..c /\ accepted.fds \in 0..d
    BY <1>2, <2>4
  <2>. QED BY <2>5 DEF c, d
<1>8. x \in ChannelMessage
  BY <1>2, <1>7 DEF ChannelMessage
<1>9. x.words = Out!WordsOf(msg, accepted.words, accepted.fds)
  BY DEF Travels
<1>10. /\ Buffer!FlattenSeq(chunks') =
              Buffer!FlattenSeq(chunks) \o Buffer!WordsOf(msg, accepted.words, accepted.fds)
       /\ sent' = sent /\ accepted'.words = accepted.words + msg.len
       /\ msg.len \in 2..MaxWords
  BY <1>1, BufferAssumption, Buffer!PutAddsWords DEF Sender, Buffer!OutAssumption
<1>11. FlattenSeq(chunks') = FlattenSeq(chunks) \o x.words
  BY <1>9, <1>10, SameFlatten, SameOperators
<1>12. /\ x.words[1].msg.lastFd = accepted.fds /\ x.words[1].msg.nfds = msg.nfds
  <2>1. 1 \in 1..msg.len
    BY <1>5, <1>10
  <2>2. x.words[1] = [pos |-> accepted.words + 1,
                      msg |-> [start |-> accepted.words + 1, len |-> msg.len,
                               nfds |-> msg.nfds, lastFd |-> accepted.fds]]
    BY <1>9, <2>1 DEF Out!WordsOf
  <2>. QED BY <2>2
<1>13. accepted'.fds = accepted.fds /\ accepted'.msgs = accepted.msgs
  BY <1>1, <1>2 DEF Out!Put
<1>14. put' = Append(put, x) /\ delivered' = delivered
  BY DEF Put
<1>. HIDE DEF x
<1>15. /\ put' \in Seq(ChannelMessage) /\ Len(put') = n + 1 /\ put'[n + 1] = x
       /\ \A i \in 1..n : put'[i] = put[i]
  BY <1>3, <1>8, <1>14, AppendProperties DEF n
<1>. QED BY <1>3, <1>4, <1>8, <1>9, <1>10, <1>11, <1>12, <1>13, <1>14, <1>15 DEF x, n

LEMMA PutOrderStep ==
    ASSUME Sender, PutInOrder, [Next]_vars
    PROVE  PutInOrder'
<1>0. /\ accepted.words \in Nat /\ accepted.fds \in Nat /\ accepted.msgs \in Nat
      /\ accepted \in [msgs : Nat, words : Nat, fds : Nat]
      /\ put \in Seq(ChannelMessage) /\ Len(put) \in Nat
      /\ MaxWords \in Nat /\ MaxArgs \in Nat /\ MsgBound \in Nat
  BY SenderFacts, LenProperties, TransportAssumption DEF PutInOrder
<1>a. \A i \in 0..Len(put) : LastFd(i) \in Nat
  <2>. SUFFICES ASSUME NEW i \in 1..Len(put) PROVE LastFd(i) \in Nat
    BY DEF LastFd
  <2>1. put[i] \in ChannelMessage
    BY <1>0, ElementOfSeq
  <2>2. put[i].words[1].msg.lastFd \in Nat
    BY <2>1, TravelsProps
  <2>. QED BY <2>2 DEF LastFd, HeaderOf
<1>1. CASE \E m \in Messages : Send(m)
  <2>1. PICK m \in Messages : Send(m)
    BY <1>1
  <2>2. /\ pc = "idle" /\ pc' \in {"fdsFlush", "put"} /\ msg' = m /\ put' = put
        /\ accepted.msgs < MsgBound
        /\ accepted' = [accepted EXCEPT !.msgs = @ + 1, !.fds = @ + m.nfds]
    BY <2>1 DEF Send, Out!AddFds, history
  <2>3. /\ accepted'.msgs = accepted.msgs + 1 /\ accepted'.words = accepted.words
        /\ accepted'.fds = accepted.fds + m.nfds
    BY <1>0, <2>2
  <2>4. m.nfds \in Nat /\ m.nfds <= MaxArgs
    BY <1>0, TransportAssumption
  <2>5. msg.nfds = 0
    BY <2>2 DEF PutInOrder, Out!NoMsg
  <2>6. LastFd(Len(put)) + m.nfds = accepted'.fds
    <3>1. LastFd(Len(put)) \in Nat /\ LastFd(Len(put)) + 0 = accepted.fds
      BY <1>0, <1>a, <2>5 DEF PutInOrder
    <3> DEFINE z == LastFd(Len(put))
    <3>. HIDE DEF z
    <3>2. z \in Nat /\ z + 0 = accepted.fds
      BY <3>1 DEF z
    <3>3. z + m.nfds = accepted'.fds
      BY <1>0, <2>3, <2>4, <3>2
    <3>. QED BY <3>3 DEF z
  <2>7. accepted'.fds <= accepted'.msgs * MaxArgs
    <3>1. (accepted.msgs + 1) * MaxArgs = accepted.msgs * MaxArgs + MaxArgs
          /\ accepted.msgs * MaxArgs \in Nat
      BY <1>0, Products
    <3>2. accepted.fds <= accepted.msgs * MaxArgs
      BY DEF PutInOrder
    <3> DEFINE y == accepted.msgs * MaxArgs
    <3>. HIDE DEF y
    <3>3. accepted.fds + m.nfds <= y + MaxArgs
      BY <1>0, <2>4, <3>1, <3>2 DEF y
    <3>. QED BY <2>3, <3>1, <3>3 DEF y
  <2>8. accepted.msgs = Len(put)
    BY <2>2 DEF PutInOrder
  <2>9. accepted'.msgs = Len(put) + 1 /\ accepted'.msgs <= MsgBound
    BY <1>0, <2>2, <2>3, <2>8
  <2>10. LastFd(Len(put))' = LastFd(Len(put)) /\ \A i : HeaderOf(i)' = HeaderOf(i) /\ LastFd(i)' = LastFd(i)
    BY <2>2 DEF LastFd, HeaderOf
  <2>. QED BY <2>2, <2>3, <2>6, <2>7, <2>9, <2>10 DEF PutInOrder
<1>2. CASE Put
  <2> DEFINE x == Travels(msg, accepted.words, accepted.fds)
  <2>0. PICK n \in Nat : n = Len(put)
    BY <1>0
  <2>1. /\ put' \in Seq(ChannelMessage)
        /\ n \in Nat /\ Len(put') = n + 1 /\ put'[n + 1] = x
        /\ \A i \in 1..n : put'[i] = put[i]
        /\ x.words[1].msg.lastFd = accepted.fds /\ x.words[1].msg.nfds = msg.nfds
        /\ accepted.msgs = n + 1
        /\ accepted'.words = accepted.words + msg.len /\ msg.len \in 2..MaxWords
        /\ accepted'.fds = accepted.fds /\ accepted'.msgs = accepted.msgs
    BY <1>2, <2>0, PutEffect
  <2>2. pc' \notin {"put", "fdsFlush"} /\ msg' = Out!NoMsg /\ Out!NoMsg.nfds = 0
    BY <1>2 DEF Put, Out!Put, Out!NoMsg
  <2>. HIDE DEF x
  <2>3. \A i \in 1..n : HeaderOf(i)' = HeaderOf(i)
    BY <2>1 DEF HeaderOf
  <2>4. HeaderOf(n + 1)'.lastFd = accepted.fds /\ HeaderOf(n + 1)'.nfds = msg.nfds
    BY <2>1 DEF HeaderOf
  <2>5. LastFd(n) + msg.nfds = accepted.fds
    BY <2>0 DEF PutInOrder
  <2>6. \A i \in 0..n : LastFd(i)' = LastFd(i)
    <3>. SUFFICES ASSUME NEW i \in 0..n PROVE LastFd(i)' = LastFd(i)
      OBVIOUS
    <3>1. i = 0 \/ i \in 1..n
      BY <2>1
    <3>. QED BY <2>3, <3>1 DEF LastFd
  <2>7. LastFd(n + 1)' = accepted.fds
    <3>1. n + 1 # 0
      BY <2>1
    <3>. QED BY <2>4, <3>1 DEF LastFd
  <2>8. ASSUME NEW i \in 1..(n + 1)
        PROVE  LastFd(i)' = LastFd(i - 1)' + HeaderOf(i)'.nfds
    <3>1. CASE i = n + 1
      <4>1. (n + 1) - 1 = n /\ n \in 0..n
        BY <2>1
      <4>. QED BY <2>4, <2>5, <2>6, <2>7, <3>1, <4>1
    <3>2. CASE i # n + 1
      <4>1. i \in 1..n /\ i \in 0..n /\ i - 1 \in 0..n
        BY <2>1, <3>2
      <4>2. LastFd(i) = LastFd(i - 1) + HeaderOf(i).nfds
        BY <2>0, <4>1 DEF PutInOrder
      <4>. QED BY <2>3, <2>6, <4>1, <4>2
    <3>. QED BY <3>1, <3>2
  <2>9. accepted'.words <= (n + 1) * MaxWords
    <3>1. accepted.words <= n * MaxWords
      BY <2>0 DEF PutInOrder
    <3>2. (n + 1) * MaxWords = n * MaxWords + MaxWords /\ n * MaxWords \in Nat
      BY <1>0, <2>1, Products
    <3> DEFINE y == n * MaxWords
               l == msg.len
    <3>. HIDE DEF y, l
    <3>3. accepted.words + l <= y + MaxWords
      <4>1. accepted.words <= y /\ y \in Nat /\ l \in 2..MaxWords
        BY <2>1, <3>1, <3>2 DEF y, l
      <4>. QED BY <1>0, <4>1
    <3>. QED BY <2>1, <3>2, <3>3 DEF y, l
  <2>10. accepted.msgs <= MsgBound /\ accepted.fds <= accepted.msgs * MaxArgs
    BY DEF PutInOrder
  <2>11. /\ \A i \in 1..Len(put') : LastFd(i)' = LastFd(i - 1)' + HeaderOf(i)'.nfds
         /\ (LastFd(Len(put)) + msg.nfds = accepted.fds)'
         /\ accepted'.msgs = Len(put') + 0
    <3>1. accepted.fds + 0 = accepted.fds /\ (n + 1) + 0 = n + 1
      BY <1>0, <2>1
    <3>2. \A i \in 1..Len(put') : LastFd(i)' = LastFd(i - 1)' + HeaderOf(i)'.nfds
      BY <2>1, <2>8
    <3>3. LastFd(Len(put))' = LastFd(n + 1)'
      BY <2>1 DEF LastFd, HeaderOf
    <3>4. msg'.nfds = 0
      BY <2>2
    <3>. QED BY <2>1, <2>7, <3>1, <3>2, <3>3, <3>4
  <2>. QED BY <2>1, <2>2, <2>9, <2>10, <2>11 DEF PutInOrder
<1>3. CASE FlushReturn
  <2>1. /\ put' = put /\ msg' = msg /\ accepted' = accepted
        /\ pc \in {"fdsFlush", "flush", "forcedFlush"}
        /\ pc' = IF pc = "fdsFlush" THEN "put" ELSE "idle"
    BY <1>3 DEF FlushReturn, Out!FlushReturn, Out!InFlush, history
  <2>2. pc' \in {"put", "fdsFlush"} <=> pc \in {"put", "fdsFlush"}
    BY <2>1
  <2>3. \A i : HeaderOf(i)' = HeaderOf(i) /\ LastFd(i)' = LastFd(i)
    BY <2>1 DEF LastFd, HeaderOf
  <2>. QED BY <2>1, <2>2, <2>3 DEF PutInOrder
<1>4. CASE \/ SendChunk \/ SendRefused \/ InputEnds \/ OutputEvent
           \/ OutputEdgeSpent \/ InputEvent \/ Receive \/ Pop \/ PopDone \/ UNCHANGED vars
  <2>1. /\ put' = put /\ msg' = msg /\ accepted' = accepted
        /\ (pc' = pc \/ (pc = "idle" /\ pc' = "forcedFlush"))
    <3>1. CASE SendChunk \/ SendRefused \/ InputEnds \/ OutputEvent
      BY <3>1 DEF SendChunk, SendRefused, InputEnds, OutputEvent, Out!SendChunk, Out!SendRefused,
                  Out!ForceFlush, Out!GotOutputEvent, history
    <3>2. CASE Receive
      BY <3>2 DEF Receive, outVars, history
    <3>3. CASE OutputEdgeSpent \/ InputEvent \/ Pop \/ PopDone \/ UNCHANGED vars
      BY <3>3 DEF OutputEdgeSpent, InputEvent, Pop, PopDone, vars, outVars, history
    <3>. QED BY <1>4, <3>1, <3>2, <3>3
  <2>2. pc' \in {"put", "fdsFlush"} <=> pc \in {"put", "fdsFlush"}
    BY <2>1
  <2>3. \A i : HeaderOf(i)' = HeaderOf(i) /\ LastFd(i)' = LastFd(i)
    BY <2>1 DEF LastFd, HeaderOf
  <2>. QED BY <2>1, <2>2, <2>3 DEF PutInOrder
<1>. QED BY <1>1, <1>2, <1>3, <1>4 DEF Next

-----------------------------------------------------------------------------
(* The messages that were put and not delivered.                           *)

Pending == [i \in 1..(Len(put) - Len(delivered)) |-> put[Len(delivered) + i].words]

\* The words not popped yet are those of the messages not delivered yet.
DeliveredInOrder ==
    /\ delivered \in Seq(ChannelMessage) /\ Len(delivered) <= Len(put)
    /\ Wire \o FlattenSeq(chunks) = FlattenSeq(Pending)
    /\ LastFd(Len(delivered)) = popped.fds

LEMMA PendingFacts ==
    ASSUME PutInOrder, DeliveredInOrder
    PROVE  /\ Len(put) \in Nat /\ Len(delivered) \in Nat /\ Len(put) - Len(delivered) \in Nat
           /\ Pending \in Seq(Seq(Word)) /\ Len(Pending) = Len(put) - Len(delivered)
           /\ \A i \in 1..(Len(put) - Len(delivered)) :
                 Pending[i] = put[Len(delivered) + i].words
<1> DEFINE n == Len(put)
           d == Len(delivered)
<1>1. n \in Nat /\ d \in Nat /\ d <= n
  BY LenProperties DEF PutInOrder, DeliveredInOrder
<1>2. \A i \in 1..n : put[i].words \in Seq(Word)
  BY ElementOfSeq, TravelsProps DEF PutInOrder
<1>3. Pending = [i \in 1..(n - d) |-> put[d + i].words]
  BY DEF Pending
<1>. HIDE DEF n, d
<1>4. n - d \in Nat /\ \A i \in 1..(n - d) : d + i \in 1..n
  BY <1>1
<1>5. Pending \in [1..(n - d) -> Seq(Word)]
  BY <1>2, <1>3, <1>4
<1> DEFINE k == n - d
<1>. HIDE DEF k
<1>6. k \in Nat /\ Pending \in [1..k -> Seq(Word)]
  BY <1>4, <1>5 DEF k
<1>7. \A S : \A f \in [1..k -> S] : f \in Seq(S) /\ Len(f) = k
  BY <1>6
<1>. HIDE DEF Pending
<1>8. Pending \in Seq(Seq(Word)) /\ Len(Pending) = k
  BY <1>6, <1>7
<1>. QED BY <1>1, <1>3, <1>4, <1>8 DEF n, d, k

LEMMA ConcatPrefix ==
    ASSUME NEW S, NEW s \in Seq(S), NEW t \in Seq(S)
    PROVE  Len(s \o t) >= Len(s) /\ \A i \in 1..Len(s) : (s \o t)[i] = s[i]
<1>1. /\ Len(s \o t) = Len(s) + Len(t) /\ Len(s) \in Nat /\ Len(t) \in Nat
      /\ \A i \in 1..(Len(s) + Len(t)) : (s \o t)[i] = IF i <= Len(s) THEN s[i] ELSE t[i - Len(s)]
  BY ConcatProperties, LenProperties
<1> DEFINE m == Len(s)
           n == Len(t)
           u == s \o t
<1>. HIDE DEF m, n, u
<1>2. Len(u) >= m /\ \A i \in 1..m : i \in 1..(m + n) /\ i <= m
  BY <1>1 DEF m, n, u
<1>3. \A i \in 1..m : u[i] = s[i]
  BY <1>1, <1>2 DEF m, n, u
<1>. QED BY <1>2, <1>3 DEF m, u

\* What is held begins with the message to be delivered next.
LEMMA HeldIsNext ==
    ASSUME Sender, Receiver, PutInOrder, DeliveredInOrder, Len(Held) >= 1
    PROVE  LET d == Len(delivered)
               x == put[d + 1]
           IN  /\ d < Len(put) /\ d + 1 \in 1..Len(put) /\ x \in ChannelMessage
               /\ Pending # <<>> /\ Pending[1] = x.words
               /\ Held[1] = x.words[1]
               /\ Len(Held) >= 2 => Held[2] = x.words[2]
<1> DEFINE d == Len(delivered)
           x == put[d + 1]
           h == Held
           w == WordsOfSegments(sock)
           c == FlattenSeq(chunks)
           P == Pending
<1>1. h \in Seq(Word) /\ w \in Seq(Word) /\ c \in Seq(Word) /\ Wire = h \o w
  BY WireFacts, SenderFacts DEF Wire
<1>2. /\ P \in Seq(Seq(Word)) /\ Len(P) = Len(put) - d /\ Len(put) \in Nat /\ d \in Nat
      /\ \A i \in 1..(Len(put) - d) : P[i] = put[d + i].words
  BY PendingFacts
<1>3. (h \o w) \o c = FlattenSeq(P)
  BY <1>1 DEF DeliveredInOrder
<1>4. Len(h) >= 1 /\ Len(h) \in Nat
  BY <1>1, LenProperties
<1>. HIDE DEF h, w, c, P
<1>5. /\ Len(h \o w) >= Len(h) /\ h \o w \in Seq(Word)
      /\ \A i \in 1..Len(h) : (h \o w)[i] = h[i]
  BY <1>1, ConcatPrefix, ConcatProperties
<1>6. /\ Len((h \o w) \o c) >= Len(h \o w)
      /\ \A i \in 1..Len(h \o w) : ((h \o w) \o c)[i] = (h \o w)[i]
  BY <1>1, <1>5, ConcatPrefix
<1>7. Len(h \o w) \in Nat /\ Len((h \o w) \o c) \in Nat
  <2>1. (h \o w) \o c \in Seq(Word)
    BY <1>1, <1>5, ConcatProperties
  <2>. QED BY <1>5, <2>1, LenProperties
<1>8. P # <<>>
  <2>. SUFFICES ASSUME P = <<>> PROVE FALSE
    OBVIOUS
  <2>1. Len((h \o w) \o c) = 0
    BY <1>3, FlattenEmpty, EmptySeq
  <2>. QED BY <1>4, <1>5, <1>6, <1>7, <2>1
<1>9. Len(P) \in Nat \ {0}
  BY <1>2, <1>8, EmptySeq
<1>10. d < Len(put) /\ d + 1 \in 1..Len(put) /\ 1 \in 1..(Len(put) - d)
  <2> DEFINE n == Len(put)
  <2>. HIDE DEF d, n
  <2>1. n - d \in Nat \ {0} /\ n \in Nat /\ d \in Nat
    BY <1>2, <1>9 DEF n
  <2>2. d < n /\ d + 1 \in 1..n /\ 1 \in 1..(n - d)
    BY <2>1
  <2>. QED BY <2>2 DEF n
<1>11. x \in ChannelMessage /\ P[1] = x.words
  BY <1>2, <1>10, ElementOfSeq DEF PutInOrder
<1>12. x.words \in Seq(Word) /\ Len(x.words) >= 2 /\ Len(x.words) \in Nat
  BY <1>11, TravelsProps, LenProperties
<1> DEFINE y == x.words
           r == FlattenSeq(Tail(P))
<1>13. FlattenSeq(P) = y \o r /\ r \in Seq(Word)
  <2>1. FlattenSeq(P) = P[1] \o FlattenSeq(Tail(P))
    BY <1>2, <1>8, FlattenHeadTail
  <2>2. Tail(P) \in Seq(Seq(Word))
    BY <1>2, <1>8, HeadTailProperties
  <2>3. r \in Seq(Word)
    BY <2>2, FlattenType
  <2>. QED BY <1>11, <2>1, <2>3
<1>. HIDE DEF y, r, x
<1>14. \A i \in 1..Len(y) : FlattenSeq(P)[i] = y[i]
  BY <1>12, <1>13, ConcatPrefix DEF y
<1>15. \A i \in 1..2 : i <= Len(h) => h[i] = y[i]
  <2>. SUFFICES ASSUME NEW i \in 1..2, i <= Len(h) PROVE h[i] = y[i]
    OBVIOUS
  <2>1. i \in 1..Len(h) /\ i \in 1..Len(h \o w) /\ i \in 1..Len(y)
    BY <1>4, <1>5, <1>7, <1>12 DEF y
  <2>2. FlattenSeq(P)[i] = h[i]
    BY <1>3, <1>5, <1>6, <2>1
  <2>. QED BY <1>14, <2>1, <2>2
<1>16. h[1] = y[1] /\ (Len(h) >= 2 => h[2] = y[2])
  <2>1. 1 \in 1..2 /\ 2 \in 1..2 /\ 1 <= Len(h) /\ (Len(h) >= 2 => 2 <= Len(h))
    BY <1>4
  <2>. QED BY <1>15, <2>1
<1>. QED BY <1>8, <1>10, <1>11, <1>16 DEF h, y, x, P

\* The header of the next message says which descriptors it takes.
LEMMA NextHeader ==
    ASSUME Sender, Receiver, PutInOrder, DeliveredInOrder, Len(Held) >= 2
    PROVE  LET m == data[front + 1].msg
           IN  /\ Held[2] = data[front + 1]
               /\ m = put[Len(delivered) + 1].words[1].msg
               /\ m.nfds \in Nat /\ popped.fds + m.nfds = m.lastFd
<1> DEFINE d == Len(delivered)
           x == put[d + 1]
           m == data[front + 1].msg
<1>1. Held[2] = data[front + 1]
  <2>1. Len(Held) = back - front /\ \A i \in 1..(back - front) : Held[i] = data[front + i - 1]
    BY HeldFacts
  <2>2. 2 \in 1..(back - front) /\ front + 2 - 1 = front + 1
    BY <2>1 DEF Receiver
  <2>. HIDE DEF Held
  <2>. QED BY <2>1, <2>2
<1>2. /\ d + 1 \in 1..Len(put) /\ x \in ChannelMessage /\ Held[2] = x.words[2]
  <2>1. Len(Held) >= 1
    <3>1. Len(Held) \in Nat
      BY HeldFacts
    <3>. HIDE DEF Held
    <3>. QED BY <3>1
  <2>. QED BY <2>1, HeldIsNext
<1>3. m = x.words[1].msg
  <2>1. /\ x.words[1].msg.len \in Nat /\ x.words[1].msg.len >= 2
        /\ \A k \in 1..x.words[1].msg.len : x.words[k].msg = x.words[1].msg
    BY <1>2, TravelsProps
  <2>2. 2 \in 1..x.words[1].msg.len
    BY <2>1
  <2>3. x.words[2].msg = x.words[1].msg
    BY <2>1, <2>2
  <2>. QED BY <1>1, <1>2, <2>3
<1>4. m.nfds \in Nat
  BY <1>2, <1>3, TravelsProps
<1>5. popped.fds + m.nfds = m.lastFd
  <2>1. LastFd(d) = popped.fds
    BY DEF DeliveredInOrder
  <2>2. d + 1 # 0 /\ (d + 1) - 1 = d
    <3>1. d \in Nat
      BY PendingFacts
    <3>. QED BY <3>1
  <2>3. LastFd(d + 1) = LastFd((d + 1) - 1) + HeaderOf(d + 1).nfds
    BY <1>2 DEF PutInOrder
  <2>4. HeaderOf(d + 1) = m /\ LastFd(d + 1) = m.lastFd
    BY <1>3, <2>2 DEF HeaderOf, LastFd
  <2>. QED BY <2>1, <2>2, <2>3, <2>4
<1>. QED BY <1>1, <1>3, <1>4, <1>5

\* What is popped is the message to be delivered next, whole.
LEMMA PopIsNext ==
    ASSUME Sender, Receiver, PutInOrder, DeliveredInOrder, Pop
    PROVE  LET d == Len(delivered)
               x == put[d + 1]
               m == data[front + 1].msg
           IN  /\ d < Len(put) /\ d + 1 \in 1..Len(put) /\ x \in ChannelMessage
               /\ FirstHeld = x.words /\ m = x.words[1].msg
               /\ Pending # <<>>
               /\ Wire' \o FlattenSeq(chunks) = FlattenSeq(Tail(Pending))
               /\ popped.fds + m.nfds = m.lastFd
<1> DEFINE d == Len(delivered)
           x == put[d + 1]
           m == data[front + 1].msg
           y == x.words
           f == FirstHeld
           v == Wire'
           c == FlattenSeq(chunks)
           P == Pending
           r == FlattenSeq(Tail(P))
<1>1. /\ f \in Seq(Word) /\ Len(f) = m.len /\ f[2] = data[front + 1] /\ Len(f) \in 2..MaxWords
      /\ Wire = f \o v /\ v \in Seq(Word)
      /\ Held = f \o Held' /\ Held' \in Seq(Word)
  BY WirePopped
<1>2. Len(f) \in Nat /\ Len(f) >= 2 /\ 2 \in 1..Len(f)
  BY <1>1, TransportAssumption
<1>3. Len(Held) >= 2 /\ Held[2] = f[2]
  <2> DEFINE h == Held
             g == Held'
  <2>. HIDE DEF f, h, g
  <2>1. h = f \o g /\ f \in Seq(Word) /\ g \in Seq(Word)
    BY <1>1 DEF h, g
  <2>2. Len(h) >= Len(f) /\ h[2] = f[2]
    BY <1>2, <2>1, ConcatPrefix
  <2>3. Len(h) \in Nat
    BY <2>1, ConcatProperties, LenProperties
  <2>4. Len(h) >= 2
    BY <1>2, <2>2, <2>3
  <2>. QED BY <2>2, <2>4 DEF h
<1>4. Len(Held) >= 1
  <2>1. Len(Held) \in Nat
    BY HeldFacts
  <2>. HIDE DEF Held
  <2>. QED BY <1>3, <2>1
<1>5. /\ d < Len(put) /\ d + 1 \in 1..Len(put) /\ x \in ChannelMessage
      /\ P # <<>> /\ P[1] = y /\ Held[2] = y[2]
  BY <1>3, <1>4, HeldIsNext
<1>6. /\ y \in Seq(Word) /\ Len(y) = x.words[1].msg.len
      /\ x.words[1].msg.len \in Nat /\ x.words[1].msg.len >= 2
      /\ \A k \in 1..x.words[1].msg.len : y[k].msg = x.words[1].msg
  BY <1>5, TravelsProps
<1>7. m = x.words[1].msg
  BY <1>3, NextHeader
<1>8. Len(f) = Len(y)
  BY <1>1, <1>6, <1>7
<1>9. FlattenSeq(P) = y \o r /\ r \in Seq(Word)
  <2>0. P \in Seq(Seq(Word))
    BY PendingFacts
  <2>. HIDE DEF P, y
  <2>1. FlattenSeq(P) = P[1] \o FlattenSeq(Tail(P))
    BY <1>5, <2>0, FlattenHeadTail
  <2>2. Tail(P) \in Seq(Seq(Word))
    BY <1>5, <2>0, HeadTailProperties
  <2>3. r \in Seq(Word)
    BY <2>2, FlattenType
  <2>. QED BY <1>5, <2>1, <2>3
<1>10. (f \o v) \o c = FlattenSeq(P) /\ c \in Seq(Word)
  BY <1>1, SenderFacts DEF DeliveredInOrder
<1>11. f = y /\ v \o c = r
  <2>. HIDE DEF f, v, c, y, r, P
  <2>1. f \o (v \o c) = y \o r
    <3>1. (f \o v) \o c = f \o (v \o c)
      <4>1. f \in Seq(Word) /\ v \in Seq(Word) /\ c \in Seq(Word)
        BY <1>1, <1>10
      <4>. QED BY <4>1, ConcatAssociative
    <3>. QED BY <1>9, <1>10, <3>1
  <2> DEFINE b == v \o c
  <2>2. b \in Seq(Word)
    BY <1>1, <1>10, ConcatProperties
  <2>3. f \o b = y \o r
    BY <2>1
  <2>. HIDE DEF b
  <2>4. SubSeq(f \o b, 1, Len(f)) = f /\ SubSeq(f \o b, Len(f) + 1, Len(f \o b)) = b
    BY <1>1, <2>2, CutAt
  <2>5. SubSeq(y \o r, 1, Len(y)) = y /\ SubSeq(y \o r, Len(y) + 1, Len(y \o r)) = r
    BY <1>6, <1>9, CutAt
  <2>6. f = y /\ b = r
    BY <1>8, <2>3, <2>4, <2>5
  <2>. QED BY <2>6 DEF b
<1>12. popped.fds + m.nfds = m.lastFd
  BY <1>3, NextHeader
<1>. QED BY <1>5, <1>7, <1>11, <1>12

\* The descriptors sent and not taken by a message, in order; no word that was
\* received is ahead of the descriptors received, nor one sent of those sent.
FdsOnWire ==
    /\ popped.fds <= sent.fds
    /\ inFds \o FdsOfSegments(sock) = Buffer!Queue(popped.fds, sent.fds)
    /\ Held \in Seq(Early(popped.fds + Len(inFds)))
    /\ Covers(sock, sent.fds)

LEMMA QueueFacts ==
    \A f \in Nat : \A a \in Nat : f <= a =>
        /\ Buffer!Queue(f, a) \in Seq(Nat) /\ Len(Buffer!Queue(f, a)) = a - f
        /\ \A k \in 1..(a - f) : Buffer!Queue(f, a)[k] = f + k
BY BufferAssumption, Buffer!QueueProps DEF Buffer!OutAssumption

LEMMA QueueCut ==
    \A f \in Nat : \A a \in Nat : \A n \in Nat : f <= a /\ n <= a - f =>
        LET q == Buffer!Queue(f, a)
        IN  SubSeq(q, n + 1, Len(q)) = Buffer!Queue(f + n, a)
<1>. SUFFICES ASSUME NEW f \in Nat, NEW a \in Nat, NEW n \in Nat, f <= a, n <= a - f
     PROVE  SubSeq(Buffer!Queue(f, a), n + 1, Len(Buffer!Queue(f, a))) = Buffer!Queue(f + n, a)
  OBVIOUS
<1>1. n \in 0..(a - f)
  OBVIOUS
<1>. QED BY <1>1, BufferAssumption, Buffer!QueueDrop DEF Buffer!OutAssumption

\* A queue followed by the next descriptors is a longer queue.
LEMMA QueueLonger ==
    \A f \in Nat : \A a \in Nat : \A b \in Nat : f <= a /\ a <= b =>
        Buffer!Queue(f, a) \o Buffer!Queue(a, b) = Buffer!Queue(f, b)
<1>. SUFFICES ASSUME NEW f \in Nat, NEW a \in Nat, NEW b \in Nat, f <= a, a <= b
     PROVE  Buffer!Queue(f, a) \o Buffer!Queue(a, b) = Buffer!Queue(f, b)
  OBVIOUS
<1>1. b - a \in Nat /\ a + (b - a) = b
  OBVIOUS
<1>2. Buffer!Queue(f, a) \o [k \in 1..(b - a) |-> a + k] = Buffer!Queue(f, a + (b - a))
  <2> DEFINE n == b - a
  <2>1. n \in Nat
    BY <1>1
  <2>. HIDE DEF n
  <2>2. Buffer!Queue(f, a) \o [k \in 1..n |-> a + k] = Buffer!Queue(f, a + n)
    BY <2>1, BufferAssumption, Buffer!QueueAdd DEF Buffer!OutAssumption
  <2>. QED BY <2>2 DEF n
<1>. QED BY <1>1, <1>2 DEF Buffer!Queue

LEMMA FdsAssociative ==
    ASSUME NEW a \in Seq(Nat), NEW b \in Seq(Nat), NEW c \in Seq(Nat)
    PROVE  (a \o b) \o c = a \o (b \o c)
BY ConcatAssociative, SMTT(60)

\* The descriptors at the head of the receiver's queue.
LEMMA QueueHead ==
    ASSUME Receiver, FdsOnWire, sent.fds \in Nat, NEW n \in Nat, n <= Len(inFds)
    PROVE  /\ Len(inFds) \in Nat /\ Len(inFds) <= sent.fds - popped.fds
           /\ \A i \in 1..Len(inFds) : inFds[i] = popped.fds + i
           /\ SubSeq(inFds, 1, n) = [k \in 1..n |-> popped.fds + k]
           /\ Len(SubSeq(inFds, n + 1, Len(inFds))) = Len(inFds) - n
           /\ SubSeq(inFds, n + 1, Len(inFds)) \o FdsOfSegments(sock)
                  = Buffer!Queue(popped.fds + n, sent.fds)
           /\ popped.fds + n <= sent.fds
<1> DEFINE p == popped.fds
           s == sent.fds
           q == inFds
           f == FdsOfSegments(sock)
           l == Len(inFds)
           a == SubSeq(q, 1, n)
           b == SubSeq(q, n + 1, l)
<1>1. p \in Nat /\ s \in Nat /\ p <= s /\ q \in Seq(Nat) /\ f \in Seq(Nat) /\ l \in Nat
  BY HeldFacts, SegmentTypes, LenProperties DEF Receiver, FdsOnWire
<1>2. q \o f = Buffer!Queue(p, s)
  BY DEF FdsOnWire
<1>. HIDE DEF p, s, f
<1>3. Len(q \o f) = s - p /\ \A k \in 1..(s - p) : (q \o f)[k] = p + k
  <2> DEFINE u == Buffer!Queue(p, s)
  <2>1. Len(u) = s - p /\ \A k \in 1..(s - p) : u[k] = p + k
    BY <1>1, QueueFacts
  <2>. HIDE DEF u
  <2>2. q \o f = u
    BY <1>2 DEF u
  <2>. QED BY <2>1, <2>2
<1>4. Len(q \o f) >= l /\ \A i \in 1..l : (q \o f)[i] = q[i]
  BY <1>1, ConcatPrefix
<1>5. l <= s - p
  BY <1>3, <1>4, <1>1
<1>6. \A i \in 1..l : q[i] = p + i
  <2>. SUFFICES ASSUME NEW i \in 1..l PROVE q[i] = p + i
    OBVIOUS
  <2>1. i \in 1..(s - p)
    BY <1>1, <1>5
  <2>. QED BY <1>3, <1>4, <2>1
<1>7. n \in 0..Len(q)
  BY <1>1
<1>8. /\ q = a \o b /\ a \in Seq(Nat) /\ Len(a) = n
      /\ b \in Seq(Nat) /\ Len(b) = l - n
  <2>1. q \in Seq(Nat) /\ n \in 0..Len(q)
    BY <1>1, <1>7
  <2>2. l = Len(q)
    OBVIOUS
  <2>. HIDE DEF q, l
  <2>3. /\ q = SubSeq(q, 1, n) \o SubSeq(q, n + 1, Len(q))
        /\ SubSeq(q, 1, n) \in Seq(Nat) /\ Len(SubSeq(q, 1, n)) = n
        /\ SubSeq(q, n + 1, Len(q)) \in Seq(Nat)
        /\ Len(SubSeq(q, n + 1, Len(q))) = Len(q) - n
    BY <2>1, CutConcat
  <2>. QED BY <2>2, <2>3
<1>9. a = [k \in 1..n |-> p + k]
  <2>. HIDE DEF a, b, q, l
  <2>1. a \in [1..n -> Nat]
    BY <1>8, LenProperties
  <2>2. ASSUME NEW k \in 1..n PROVE a[k] = p + k
    <3>1. (a \o b)[k] = a[k]
      BY <1>8, ConcatPrefix
    <3>2. k \in 1..l
      BY <1>1, <1>7 DEF l, q
    <3>. QED BY <1>6, <1>8, <3>1, <3>2
  <2>. QED BY <2>1, <2>2
<1>. HIDE DEF a, b, q
<1>10. b \o f = Buffer!Queue(p + n, s)
  <2>1. (a \o b) \o f = a \o (b \o f)
    <3>1. a \in Seq(Nat) /\ b \in Seq(Nat) /\ f \in Seq(Nat)
      BY <1>1, <1>8
    <3>. QED BY <3>1, FdsAssociative
  <2>2. b \o f \in Seq(Nat)
    BY <1>1, <1>8, ConcatProperties
  <2> DEFINE g == b \o f
             u == Buffer!Queue(p, s)
  <2>3. a \o g = u
    BY <1>2, <1>8, <2>1
  <2>. HIDE DEF g
  <2>4. SubSeq(a \o g, Len(a) + 1, Len(a \o g)) = g
    BY <1>8, <2>2, CutAt DEF g
  <2>5. n <= s - p
    BY <1>1, <1>5, <1>7 DEF q
  <2>6. SubSeq(u, n + 1, Len(u)) = Buffer!Queue(p + n, s)
    BY <1>1, <2>5, QueueCut
  <2>. HIDE DEF u
  <2>7. g = Buffer!Queue(p + n, s)
    BY <1>8, <2>3, <2>4, <2>6
  <2>. QED BY <2>7 DEF g
<1>11. p + n <= s
  BY <1>1, <1>5, <1>7 DEF q
<1>. QED BY <1>1, <1>5, <1>6, <1>8, <1>9, <1>10, <1>11 DEF p, s, q, f, l, a, b

\* The descriptors a message needs have come with it.
LEMMA NextHasFds ==
    ASSUME Sender, Receiver, PutInOrder, DeliveredInOrder, FdsOnWire, Len(Held) >= 2
    PROVE  data[front + 1].msg.nfds <= Len(inFds)
<1> DEFINE m == data[front + 1].msg
           n == popped.fds + Len(inFds)
           h == Held
<1>1. Held[2] = data[front + 1] /\ m.nfds \in Nat /\ popped.fds + m.nfds = m.lastFd
  BY NextHeader
<1>2. h \in Seq(Early(n)) /\ Len(h) \in Nat /\ Len(h) >= 2
  BY HeldFacts DEF FdsOnWire
<1>3. h[2] \in Early(n)
  <2>. HIDE DEF h, n
  <2>1. 2 \in 1..Len(h)
    BY <1>2
  <2>. QED BY <1>2, <2>1, ElementOfSeq
<1>4. m.lastFd <= n
  BY <1>1, <1>3 DEF Early
<1>5. popped.fds \in Nat /\ Len(inFds) \in Nat
  BY HeldFacts, LenProperties DEF Receiver
<1>. QED BY <1>1, <1>4, <1>5

LEMMA PopHasFds ==
    ASSUME Sender, Receiver, PutInOrder, DeliveredInOrder, FdsOnWire, Pop
    PROVE  data[front + 1].msg.nfds <= Len(inFds)
<1>1. back - front >= 2
  BY DEF Pop, In!Pop, In!CanPop, In!Available
<1>2. Len(Held) >= 2
  <2>1. Len(Held) = back - front
    BY HeldFacts
  <2>. QED BY <1>1, <2>1
<1>. QED BY <1>2, NextHasFds

\* The message that is popped leaves with its own words and descriptors.
LEMMA PopDelivers ==
    ASSUME Sender, Receiver, PutInOrder, DeliveredInOrder, FdsOnWire, Pop
    PROVE  /\ delivered' = Append(delivered, put[Len(delivered) + 1])
           /\ Len(delivered) < Len(put) /\ put[Len(delivered) + 1] \in ChannelMessage
<1> DEFINE m == data[front + 1].msg
           x == put[Len(delivered) + 1]
           n == m.nfds
<1>1. /\ delivered' = Append(delivered, [words |-> FirstHeld, fds |-> SubSeq(inFds, 1, n)])
  BY DEF Pop, FirstHeld
<1>2. /\ Len(delivered) < Len(put) /\ x \in ChannelMessage
      /\ FirstHeld = x.words /\ m = x.words[1].msg
      /\ popped.fds + n = m.lastFd
  BY PopIsNext, SMTT(60)
<1>3. x = [words |-> x.words, fds |-> [k \in 1..n |-> m.lastFd - n + k]]
  BY <1>2, TravelsProps
<1>4. n <= Len(inFds) /\ n \in Nat /\ popped.fds \in Nat /\ sent.fds \in Nat
  BY PopHasFds, WirePopped, HeldFacts, SenderFacts
<1>. HIDE DEF n
<1>5. SubSeq(inFds, 1, n) = [k \in 1..n |-> popped.fds + k]
  BY <1>4, QueueHead
<1>6. [k \in 1..n |-> m.lastFd - n + k] = [k \in 1..n |-> popped.fds + k]
  <2> DEFINE y == m.lastFd
  <2>. HIDE DEF y
  <2>1. popped.fds + n = y
    BY <1>2 DEF y
  <2>2. y - n = popped.fds
    BY <1>4, <2>1
  <2>. QED BY <2>2 DEF y
<1>7. x = [words |-> FirstHeld, fds |-> SubSeq(inFds, 1, n)]
  <2>. HIDE DEF m
  <2>. QED BY <1>2, <1>3, <1>5, <1>6
<1>. QED BY <1>1, <1>2, <1>7 DEF n

LEMMA FdsOnWireStep ==
    ASSUME Sender, Receiver, PutInOrder, DeliveredInOrder, FdsOnWire, [Next]_vars
    PROVE  FdsOnWire'
<1> DEFINE F == FdsOfSegments(sock)
           p == popped.fds
           s == sent.fds
           l == Len(inFds)
<1>0. /\ p \in Nat /\ s \in Nat /\ p <= s /\ l \in Nat /\ inFds \in Seq(Nat)
      /\ F \in Seq(Nat) /\ sock \in Seq(Segment)
      /\ inFds \o F = Buffer!Queue(p, s)
      /\ Held \in Seq(Early(p + l)) /\ Covers(sock, s)
  BY HeldFacts, SenderFacts, SegmentTypes, LenProperties DEF Receiver, FdsOnWire
<1>1. CASE SendChunk
  <2>1. /\ sent'.fds \in Nat /\ sent'.fds <= accepted.fds /\ accepted.fds \in Nat
        /\ fds = Buffer!Queue(sent.fds, accepted.fds)
    BY <1>0, <1>1, SendEffect, SenderFacts
  <2>2. PICK g : /\ g \in Segment
                 /\ sock' = sock \o <<g>> /\ g.words = chunks[1]
                 /\ g.fds \o fds' = fds /\ Len(g.fds) = sent'.fds - sent.fds
                 /\ g.fds \in Seq(Nat) /\ fds' \in Seq(Nat) /\ Len(g.fds) \in Nat
                 /\ g.words \in Seq(Early(sent'.fds))
    BY <1>0, <1>1, SendEffect
  <2>3. inFds' = inFds /\ popped' = popped /\ Held' = Held
    BY <1>1, WireSent DEF SendChunk, inVars
  <2> DEFINE t == sent'.fds
             e == g.fds
             a == accepted.fds
  <2>4. t = s + Len(e) /\ s <= t
    <3> DEFINE k == Len(e)
    <3>. HIDE DEF t, k, s
    <3>1. k = t - s /\ k \in Nat /\ t \in Nat
      BY <2>1, <2>2 DEF t, k, s
    <3>2. t = s + k /\ s <= t
      BY <1>0, <3>1
    <3>. QED BY <3>2 DEF k
  <2>5. e = Buffer!Queue(s, t)
    <3> DEFINE k == Len(e)
               u == Buffer!Queue(s, a)
    <3>1. u = e \o fds'
      BY <2>1, <2>2
    <3>2. s <= a /\ a \in Nat /\ k \in Nat /\ k <= a - s
      <4>1. k \in Nat /\ t \in Nat /\ t <= a /\ a \in Nat /\ t = s + k
        BY <2>1, <2>2, <2>4
      <4>. HIDE DEF k, t, a, s
      <4>. QED BY <1>0, <4>1
    <3>3. \A i \in 1..(a - s) : u[i] = s + i
      <4>. HIDE DEF s, a
      <4>. QED BY <1>0, <3>2, QueueFacts
    <3>4. e \in Seq(Nat) /\ fds' \in Seq(Nat)
      BY <2>2
    <3>. HIDE DEF e, u, s, a, t
    <3>5. \A i \in 1..Len(e) : u[i] = e[i]
      BY <3>1, <3>4, ConcatPrefix
    <3>6. \A i \in 1..k : e[i] = s + i
      <4>. SUFFICES ASSUME NEW i \in 1..k PROVE e[i] = s + i
        OBVIOUS
      <4>. HIDE DEF k
      <4>1. i \in 1..(a - s)
        BY <1>0, <3>2
      <4>2. i \in 1..Len(e)
        BY DEF k
      <4>. QED BY <3>3, <3>5, <4>1, <4>2
    <3>7. e = [i \in 1..k |-> e[i]]
      <4>1. e \in [1..Len(e) -> Nat]
        BY <3>4, LenProperties
      <4>. QED BY <4>1
    <3>8. k = t - s
      BY <2>2 DEF e, t, s
    <3>9. e = [i \in 1..k |-> s + i]
      BY <3>6, <3>7
    <3>. HIDE DEF k
    <3>. QED BY <3>8, <3>9 DEF Buffer!Queue
  <2>6. FdsOfSegments(sock') = F \o e
    <3>1. <<g>> \in Seq(Segment) /\ FdsOfSegments(<<g>>) = g.fds
      BY <2>2, SegmentsOne
    <3>2. FdsOfSegments(sock \o <<g>>) = FdsOfSegments(sock) \o FdsOfSegments(<<g>>)
      BY <1>0, <3>1, SegmentsConcat
    <3>. QED BY <2>2, <3>1, <3>2
  <2>7. inFds \o (F \o e) = Buffer!Queue(p, t)
    <3>1. inFds \in Seq(Nat) /\ F \in Seq(Nat) /\ e \in Seq(Nat)
      BY <1>0, <2>2
    <3>2. t \in Nat
      BY <2>1
    <3>. HIDE DEF F, e, p, s, t
    <3>3. (inFds \o F) \o e = inFds \o (F \o e)
      BY <3>1, FdsAssociative
    <3>4. Buffer!Queue(p, s) \o Buffer!Queue(s, t) = Buffer!Queue(p, t)
      BY <1>0, <2>4, <3>2, QueueLonger
    <3>. QED BY <1>0, <2>5, <3>3, <3>4
  <2>8. Covers(sock', t)
    <3>1. g.words \in Seq(Early(s + Len(e)))
      BY <2>2, <2>4
    <3>2. Covers(sock \o <<g>>, s + Len(e))
      BY <1>0, <2>2, <3>1, CoversAppend
    <3>. QED BY <2>2, <2>4, <3>2
  <2>9. p <= t
    <3>1. t \in Nat
      BY <2>1
    <3>. HIDE DEF p, s, t
    <3>. QED BY <1>0, <2>4, <3>1
  <2>. QED BY <1>0, <2>3, <2>6, <2>7, <2>8, <2>9 DEF FdsOnWire
<1>2. CASE Receive
  <2>1. PICK ws, fs : Took(ws, fs)
    BY <1>0, <1>2, ReceiveEffect
  <2>2. sent' = sent /\ popped' = popped
    BY <1>0, <1>2, ReceiveEffect DEF outVars
  <2>3. Held' = Held \o ws /\ inFds' = inFds \o fs
    BY <2>1, WireReceived
  <2> DEFINE G == FdsOfSegments(sock')
  <2>4. /\ fs \in Seq(Nat) /\ G \in Seq(Nat) /\ F = fs \o G
        /\ ws \in Seq(Early(s - Len(G))) /\ Covers(sock', s)
    BY <1>0, <2>1 DEF Took
  <2>. HIDE DEF F, G, p, s
  <2>5. (inFds \o fs) \o G = Buffer!Queue(p, s)
    <3>1. (inFds \o fs) \o G = inFds \o (fs \o G)
      BY <1>0, <2>4, FdsAssociative
    <3>. QED BY <1>0, <2>4, <3>1
  <2> DEFINE i == inFds \o fs
  <2>6. /\ i \in Seq(Nat) /\ Len(i) = l + Len(fs) /\ Len(fs) \in Nat /\ Len(G) \in Nat
        /\ Len(i \o G) = Len(i) + Len(G)
    <3>1. i \in Seq(Nat) /\ Len(i) = l + Len(fs)
      BY <1>0, <2>4, ConcatProperties
    <3>. HIDE DEF i, l
    <3>2. Len(i \o G) = Len(i) + Len(G)
      BY <2>4, <3>1, ConcatProperties
    <3>. QED BY <2>4, <3>1, <3>2, LenProperties
  <2>7. Len(i) + Len(G) = s - p
    <3>1. Len(Buffer!Queue(p, s)) = s - p
      BY <1>0, QueueFacts
    <3>. QED BY <2>5, <2>6, <3>1
  <2> DEFINE n == p + Len(i)
  <2>8. n = s - Len(G) /\ p + l <= n /\ n \in Int /\ p + l \in Int
    <3> DEFINE k == Len(i)
               j == Len(G)
               f == Len(fs)
    <3>1. k + j = s - p /\ k = l + f /\ f \in Nat /\ j \in Nat
      BY <2>6, <2>7
    <3>. HIDE DEF i, l, k, j, f
    <3>2. p + k = s - j /\ p + l <= p + k /\ p + k \in Int /\ p + l \in Int
      BY <1>0, <3>1
    <3>. QED BY <3>2 DEF k, j
  <2>9. Held \o ws \in Seq(Early(n))
    <3> DEFINE m == p + l
               h == Held
    <3>. HIDE DEF n, m, h
    <3>1. h \in Seq(Early(m)) /\ m <= n /\ m \in Int /\ n \in Int /\ ws \in Seq(Early(n))
      BY <1>0, <2>4, <2>8 DEF n, m, h
    <3>2. h \in Seq(Early(n))
      BY <3>1, EarlyMonotone
    <3>3. h \o ws \in Seq(Early(n))
      BY <3>1, <3>2, ConcatProperties
    <3>. QED BY <3>3 DEF h
  <2>. QED BY <1>0, <2>2, <2>3, <2>4, <2>5, <2>9 DEF FdsOnWire, p, s, G
<1>3. CASE Pop
  <2> DEFINE n == data[front + 1].msg.nfds
  <2>1. n \in Nat /\ n <= l
    BY <1>3, WirePopped, PopHasFds
  <2>2. /\ popped'.fds = p + n /\ sock' = sock
        /\ inFds' = SubSeq(inFds, n + 1, Len(inFds))
        /\ FirstHeld \in Seq(Word) /\ Held' \in Seq(Word) /\ Held = FirstHeld \o Held'
    BY <1>3, WirePopped
  <2>3. sent' = sent
    BY <1>3 DEF Pop, outVars
  <2>. HIDE DEF n
  <2>4. /\ Len(SubSeq(inFds, n + 1, Len(inFds))) = l - n
        /\ SubSeq(inFds, n + 1, Len(inFds)) \o F = Buffer!Queue(p + n, s)
        /\ p + n <= s
    BY <1>0, <2>1, QueueHead
  <2>5. Held' \in Seq(Early(p + l))
    <3> DEFINE f == FirstHeld
               h == Held'
               k == p + l
    <3>1. f \o h \in Seq(Early(k)) /\ f \in Seq(Word) /\ h \in Seq(Word)
      BY <1>0, <2>2
    <3>. HIDE DEF f, h, k
    <3>2. h \in Seq(Early(k))
      BY <3>1, ConcatParts
    <3>. QED BY <3>2 DEF h, k
  <2>6. (p + n) + (l - n) = p + l
    <3>. HIDE DEF p, l
    <3>. QED BY <1>0, <2>1
  <2>7. Held' \in Seq(Early(popped'.fds + Len(inFds')))
    BY <2>2, <2>4, <2>5, <2>6
  <2>. QED BY <1>0, <2>2, <2>3, <2>4, <2>7 DEF FdsOnWire
<1>4. CASE Quiet
  BY <1>4, QuietEffect DEF FdsOnWire
<1>. QED BY <1>1, <1>2, <1>3, <1>4, StepCases

LEMMA DeliveredStep ==
    ASSUME Sender, Receiver, PutInOrder, DeliveredInOrder, FdsOnWire, [Next]_vars
    PROVE  DeliveredInOrder'
<1> DEFINE c == FlattenSeq(chunks)
<1>0. /\ Wire \in Seq(Word) /\ c \in Seq(Word) /\ Buffer!IInv
      /\ Len(put) \in Nat /\ Len(delivered) \in Nat /\ Len(delivered) <= Len(put)
  BY WireFacts, SenderFacts, PendingFacts DEF Sender, DeliveredInOrder
<1>a. /\ delivered \in Seq(ChannelMessage)
      /\ Wire \o c = FlattenSeq(Pending)
      /\ LastFd(Len(delivered)) = popped.fds
  BY DEF DeliveredInOrder
<1>. HIDE DEF c
<1>1. CASE Put
  <2> DEFINE x == Travels(msg, accepted.words, accepted.fds)
  <2>0. PICK n \in Nat : n = Len(put)
    BY <1>0
  <2>b. PICK d \in Nat : d = Len(delivered)
    BY <1>0
  <2>1. /\ x \in ChannelMessage /\ Len(put') = n + 1 /\ put'[n + 1] = x
        /\ \A i \in 1..n : put'[i] = put[i]
        /\ FlattenSeq(chunks') = c \o x.words
        /\ delivered' = delivered
    BY <1>1, <2>0, PutEffect DEF c
  <2>2. Wire' = Wire /\ popped' = popped
    BY <1>1, QuietEffect DEF Quiet
  <2>3. d <= n
    BY <1>0, <2>0, <2>b
  <2>4. x.words \in Seq(Word)
    BY <2>1, TravelsProps
  <2>. HIDE DEF x
  <2>5. Pending' = Append(Pending, x.words)
    <3>1. /\ Pending \in Seq(Seq(Word)) /\ Len(Pending) = n - d
          /\ \A i \in 1..(n - d) : Pending[i] = put[d + i].words
      BY <2>0, <2>b, PendingFacts
    <3>2. Pending' = [i \in 1..((n + 1) - d) |-> put'[d + i].words]
      BY <2>1, <2>b DEF Pending
    <3> DEFINE p == Pending
               q == Append(p, x.words)
    <3>. HIDE DEF p
    <3>3. /\ q \in Seq(Seq(Word)) /\ Len(q) = (n - d) + 1
          /\ \A i \in 1..(n - d) : q[i] = p[i]
          /\ q[(n - d) + 1] = x.words
      <4>1. p \in Seq(Seq(Word)) /\ Len(p) = n - d
        BY <3>1 DEF p
      <4>2. /\ q \in Seq(Seq(Word)) /\ Len(q) = Len(p) + 1
            /\ \A i \in 1..Len(p) : q[i] = p[i]
            /\ q[Len(p) + 1] = x.words
        BY <2>4, <4>1, AppendProperties
      <4>. HIDE DEF q
      <4>. QED BY <4>1, <4>2
    <3>. HIDE DEF q
    <3>4. ASSUME NEW i \in 1..((n + 1) - d)
          PROVE  q[i] = put'[d + i].words
      <4>1. CASE i = (n - d) + 1
        <5>1. d + i = n + 1
          BY <2>3, <4>1
        <5>. QED BY <2>1, <3>3, <4>1, <5>1
      <4>2. CASE i # (n - d) + 1
        <5>1. i \in 1..(n - d) /\ d + i \in 1..n
          BY <2>3, <4>2
        <5>. QED BY <2>1, <3>1, <3>3, <5>1 DEF p
      <4>. QED BY <4>1, <4>2
    <3>5. q = [i \in 1..((n + 1) - d) |-> q[i]]
      <4>1. q \in [1..Len(q) -> Seq(Word)]
        BY <3>3, LenProperties
      <4>2. Len(q) = (n + 1) - d
        BY <2>3, <3>3
      <4>. QED BY <4>1, <4>2
    <3>6. Pending' = q
      BY <3>2, <3>4, <3>5
    <3>. QED BY <3>6 DEF q, p
  <2>6. FlattenSeq(Pending') = FlattenSeq(Pending) \o x.words
    <3>1. Pending \in Seq(Seq(Word))
      BY PendingFacts
    <3>. HIDE DEF Pending
    <3>2. FlattenSeq(Append(Pending, x.words)) = FlattenSeq(Pending) \o x.words
      BY <2>4, <3>1, FlattenAppend
    <3>. QED BY <2>5, <3>2
  <2>7. Wire' \o FlattenSeq(chunks') = FlattenSeq(Pending')
    <3> DEFINE w == Wire
               y == x.words
    <3>. HIDE DEF w, y
    <3>1. w \in Seq(Word) /\ c \in Seq(Word) /\ y \in Seq(Word)
      BY <1>0, <2>4 DEF w, y
    <3>2. (w \o c) \o y = w \o (c \o y)
      BY <3>1, ConcatAssociative
    <3>3. FlattenSeq(Pending') = (w \o c) \o y
      BY <1>a, <2>6 DEF w, y
    <3>. QED BY <2>1, <2>2, <3>2, <3>3 DEF w, y
  <2>8. LastFd(d)' = LastFd(d)
    <3>1. d = 0 \/ d \in 1..n
      BY <2>3
    <3>. QED BY <2>1, <3>1 DEF LastFd, HeaderOf
  <2>9. LastFd(Len(delivered))' = LastFd(d)'
    BY <2>1, <2>b DEF LastFd, HeaderOf
  <2>10. LastFd(Len(delivered))' = popped'.fds
    BY <1>a, <2>2, <2>8, <2>9, <2>b
  <2>11. delivered' \in Seq(ChannelMessage) /\ Len(delivered') <= Len(put')
    BY <1>a, <2>1, <2>3, <2>b
  <2>. QED BY <2>7, <2>10, <2>11 DEF DeliveredInOrder
<1>2. CASE Pop
  <2> DEFINE m == data[front + 1].msg
             e == put[Len(delivered) + 1]
  <2>b. PICK d \in Nat : d = Len(delivered)
    BY <1>0
  <2>1. /\ d < Len(put) /\ d + 1 \in 1..Len(put)
        /\ m = put[d + 1].words[1].msg
        /\ Wire' \o FlattenSeq(chunks) = FlattenSeq(Tail(Pending))
        /\ popped.fds + m.nfds = m.lastFd
        /\ Pending # <<>>
    BY <1>2, <2>b, PopIsNext
  <2>2. /\ delivered' = Append(delivered, e) /\ e \in ChannelMessage
        /\ put' = put /\ chunks' = chunks
    BY <1>2, PopDelivers DEF Pop, outVars
  <2>3. popped'.fds = popped.fds + m.nfds
    BY <1>2, WirePopped
  <2>. HIDE DEF e
  <2>4. Len(delivered') = d + 1
    BY <1>a, <2>2, <2>b
  <2>5. Pending' = Tail(Pending)
    <3>0. PICK n \in Nat : n = Len(put)
      BY <1>0
    <3>1. /\ Pending \in Seq(Seq(Word)) /\ Len(Pending) = n - d
          /\ \A i \in 1..(n - d) : Pending[i] = put[d + i].words
      BY <2>b, <3>0, PendingFacts
    <3>2. Pending' = [i \in 1..(n - (d + 1)) |-> put[(d + 1) + i].words]
      BY <2>2, <2>4, <3>0 DEF Pending
    <3> DEFINE p == Pending
               q == Tail(p)
    <3>. HIDE DEF p
    <3>3. /\ q \in Seq(Seq(Word)) /\ Len(q) = Len(p) - 1
          /\ \A i \in 1..Len(q) : q[i] = p[i + 1]
      <4>1. p \in Seq(Seq(Word)) /\ p # <<>>
        BY <2>1, <3>1 DEF p
      <4>. QED BY <4>1, HeadTailProperties
    <3>. HIDE DEF q
    <3>4. Len(q) = n - (d + 1) /\ d < n
      BY <2>1, <3>0, <3>1, <3>3 DEF p
    <3>5. ASSUME NEW i \in 1..(n - (d + 1))
          PROVE  q[i] = put[(d + 1) + i].words
      <4>1. i + 1 \in 1..(n - d) /\ d + (i + 1) = (d + 1) + i
        OBVIOUS
      <4>2. q[i] = p[i + 1]
        BY <3>3, <3>4
      <4>3. p[i + 1] = put[d + (i + 1)].words
        BY <3>1, <4>1 DEF p
      <4>. QED BY <4>1, <4>2, <4>3
    <3>6. q = [i \in 1..(n - (d + 1)) |-> q[i]]
      <4>1. q \in [1..Len(q) -> Seq(Word)]
        BY <3>3, LenProperties
      <4>. QED BY <3>4, <4>1
    <3>7. Pending' = q
      BY <3>2, <3>5, <3>6
    <3>. QED BY <3>7 DEF q, p
  <2>6. Wire' \o FlattenSeq(chunks') = FlattenSeq(Pending')
    BY <2>1, <2>2, <2>5
  <2>7. LastFd(Len(delivered))' = m.lastFd
    <3>1. d + 1 # 0
      OBVIOUS
    <3>. QED BY <2>1, <2>2, <2>4, <3>1 DEF LastFd, HeaderOf
  <2>8. LastFd(Len(delivered))' = popped'.fds
    BY <2>1, <2>3, <2>7
  <2>9. delivered' \in Seq(ChannelMessage)
    BY <1>a, <2>2, AppendProperties
  <2>10. d + 1 <= Len(put)
    BY <1>0, <2>1
  <2>. QED BY <2>2, <2>4, <2>6, <2>8, <2>9, <2>10 DEF DeliveredInOrder
<1>3. CASE ~Put /\ ~Pop
  <2>1. put' = put /\ delivered' = delivered
    <3>1. CASE Receive
      BY <3>1, ReceiveEffect DEF Receiver, history
    <3>2. CASE ~Receive
      BY <1>3, <3>2 DEF Next, Send, SendChunk, SendRefused, FlushReturn, InputEnds, OutputEvent,
         OutputEdgeSpent, InputEvent, PopDone, vars, history
    <3>. QED BY <3>1, <3>2
  <2>2. popped' = popped /\ Wire' \o FlattenSeq(chunks') = Wire \o c
    <3>1. CASE SendChunk
      <4> DEFINE w == Wire
                 x == chunks[1]
                 r == FlattenSeq(chunks')
      <4>1. x \in Seq(Word) /\ r \in Seq(Word) /\ c = x \o r /\ Wire' = w \o x
        BY <3>1, SendEffect, WireSent DEF Receiver, c
      <4>2. w \in Seq(Word)
        BY <1>0
      <4>. HIDE DEF w, x, r
      <4>3. (w \o x) \o r = w \o (x \o r)
        <5>1. w \in Seq(Word) /\ x \in Seq(Word) /\ r \in Seq(Word)
          BY <4>1, <4>2
        <5>. QED BY <5>1, ConcatAssociative, SMTT(60)
      <4>4. popped' = popped
        BY <3>1 DEF SendChunk, inVars
      <4>. QED BY <4>1, <4>3, <4>4 DEF w, r
    <3>2. CASE Receive
      <4>1. PICK ws, fs : Took(ws, fs)
        BY <3>2, ReceiveEffect DEF Receiver
      <4>2. Wire' = Wire
        BY <4>1, WireReceived
      <4>3. popped' = popped /\ chunks' = chunks
        BY <3>2, ReceiveEffect DEF Receiver, outVars
      <4>. QED BY <4>2, <4>3 DEF c
    <3>3. CASE Quiet
      <4>1. Wire' = Wire /\ popped' = popped
        BY <3>3, QuietEffect
      <4>2. FlattenSeq(chunks') = c
        <5>1. CASE FlushReturn
          <6>1. Buffer!FlushReturn
            BY <5>1, SameSteps DEF FlushReturn
          <6>2. Buffer!FlattenSeq(chunks') = Buffer!FlattenSeq(chunks)
            BY <1>0, <6>1, BufferAssumption, Buffer!FlushKeepsStream DEF Buffer!OutAssumption
          <6>. QED BY <6>2, SameFlatten DEF c
        <5>2. CASE ~FlushReturn
          <6>1. chunks' = chunks
            BY <1>3, <3>3, <5>2
               DEF Quiet, Send, SendRefused, InputEnds, OutputEvent, OutputEdgeSpent,
                   InputEvent, PopDone, Out!AddFds, Out!SendRefused, Out!ForceFlush,
                   Out!GotOutputEvent, vars, outVars
          <6>. QED BY <6>1, SMTT(60) DEF c
        <5>. QED BY <5>1, <5>2
      <4>. QED BY <4>1, <4>2
    <3>. QED BY <1>3, <3>1, <3>2, <3>3, StepCases
  <2>3. Pending' = Pending
    BY <2>1 DEF Pending
  <2>4. LastFd(Len(delivered))' = LastFd(Len(delivered))
    BY <2>1 DEF LastFd, HeaderOf
  <2>. QED BY <1>0, <1>a, <2>1, <2>2, <2>3, <2>4 DEF DeliveredInOrder
<1>. QED BY <1>1, <1>2, <1>3

-----------------------------------------------------------------------------
(* Flushes and edges.                                                      *)

\* A flush that is not forced runs within a handle_input, which will force one.
Flow ==
    /\ pc \in {"put", "fdsFlush", "flush"} => owes
    /\ NoLostWakeUp

\* A forced flush that is not refused leaves nothing.
LEMMA FlushEmpties ==
    ASSUME Sender, Sender', [Next]_vars, FlushReturn, pc = "forcedFlush", ~waitForOutput'
    PROVE  chunks' = << <<>> >> /\ fds' = <<>>
<1>1. pc' = "idle"
  BY DEF FlushReturn, Out!FlushReturn
<1>2. [Buffer!Next]_(Buffer!outVars)
  BY SenderSteps
<1>3. Len(chunks') <= 1 /\ chunks'[1] = <<>>
  BY <1>1, <1>2, BufferAssumption, Buffer!ReturnStep DEF Sender, Buffer!OutAssumption
<1>4. chunks' \in Seq(Buffer!Chunk) /\ chunks' # <<>>
  BY DEF Sender, Buffer!IInv, Buffer!TypeOK
<1>5. Len(chunks') = 1
  <2> DEFINE c == chunks'
  <2>. HIDE DEF c
  <2>1. c \in Seq(Buffer!Chunk) /\ c # <<>> /\ Len(c) <= 1
    BY <1>3, <1>4 DEF c
  <2>2. Len(c) \in Nat /\ Len(c) # 0
    BY <2>1, EmptySeq, LenProperties
  <2> DEFINE k == Len(c)
  <2>3. k \in Nat /\ k # 0 /\ k <= 1
    BY <2>1, <2>2
  <2>. HIDE DEF k
  <2>4. k = 1
    BY <2>3
  <2>. QED BY <2>4 DEF c, k
<1>6. chunks' = << <<>> >>
  BY <1>3, <1>4, <1>5
<1>7. fds' = <<>>
  BY <1>1, <1>3 DEF Sender, Buffer!IInv, Buffer!FdsFitChunks
<1>. QED BY <1>6, <1>7

LEMMA FlowStep ==
    ASSUME Sender, Sender', Receiver, Flow, [Next]_vars
    PROVE  Flow'
<1>. USE DEF Flow, NoLostWakeUp
<1>0. SockCap \in Nat /\ Mark \in Nat /\ Mark < SockCap /\ Used(sock) \in Nat
  BY TransportAssumption, SegmentTypes DEF Receiver
<1>1. CASE \E m \in Messages : Send(m)
  <2>1. /\ owes' /\ waitForOutput' = waitForOutput /\ outEdge' = outEdge /\ sock' = sock
        /\ pc' # "idle"
    BY <1>1 DEF Send, Out!AddFds, kernelVars
  <2>. QED BY <2>1 DEF Writable
<1>2. CASE Put
  <2>1. /\ owes' = owes /\ waitForOutput' = waitForOutput /\ outEdge' = outEdge /\ sock' = sock
        /\ pc = "put" /\ pc' # "idle"
    BY <1>2 DEF Put, Out!Put, kernelVars
  <2>. QED BY <2>1 DEF Writable
<1>3. CASE SendChunk
  <2>1. owes' = owes /\ ~waitForOutput' /\ pc' = pc /\ pc # "idle"
    BY <1>3 DEF SendChunk, Out!SendChunk, Out!MaySend, Out!InFlush
  <2>. QED BY <2>1
<1>4. CASE SendRefused
  <2>1. owes' = owes /\ waitForOutput' /\ pc' = pc /\ outEdge' = outEdge /\ sock' = sock
        /\ Used(sock) >= SockCap
    BY <1>4 DEF SendRefused, Out!SendRefused, kernelVars
  <2>2. ~Writable
    BY <1>0, <2>1 DEF Writable
  <2>. QED BY <2>1, <2>2 DEF Writable
<1>5. CASE FlushReturn
  <2>1. /\ owes' = owes /\ waitForOutput' = waitForOutput /\ outEdge' = outEdge /\ sock' = sock
        /\ pc \in {"fdsFlush", "flush", "forcedFlush"}
        /\ pc' = IF pc = "fdsFlush" THEN "put" ELSE "idle"
    BY <1>5 DEF FlushReturn, Out!FlushReturn, Out!InFlush, kernelVars
  <2>2. pc = "forcedFlush" /\ ~waitForOutput' => chunks' = << <<>> >> /\ fds' = <<>>
    BY <1>5, FlushEmpties
  <2>3. waitForOutput' => outEdge' \/ ~Writable'
    BY <2>1 DEF Writable
  <2>. QED BY <2>1, <2>2, <2>3
<1>6. CASE InputEnds
  <2>1. /\ waitForOutput' = waitForOutput /\ outEdge' = outEdge /\ sock' = sock
        /\ pc' = "forcedFlush"
    BY <1>6 DEF InputEnds, Out!ForceFlush, kernelVars
  <2>. QED BY <2>1 DEF Writable
<1>7. CASE OutputEvent
  <2>1. ~waitForOutput' /\ pc' = "forcedFlush"
    BY <1>7 DEF OutputEvent, Out!GotOutputEvent
  <2>. QED BY <2>1
<1>8. CASE OutputEdgeSpent
  <2>1. UNCHANGED outVars /\ owes' = owes /\ sock' = sock /\ ~Writable
    BY <1>8 DEF OutputEdgeSpent
  <2>2. waitForOutput' = waitForOutput /\ pc' = pc /\ chunks' = chunks /\ fds' = fds
    BY <2>1 DEF outVars
  <2>. QED BY <2>1, <2>2 DEF Writable
<1>9. CASE Receive
  <2>1. UNCHANGED outVars /\ owes' = owes
    BY <1>9, ReceiveEffect DEF Receiver
  <2>2. waitForOutput' = waitForOutput /\ pc' = pc /\ chunks' = chunks /\ fds' = fds
    BY <2>1 DEF outVars
  <2>3. outEdge \/ ~Writable => outEdge' \/ ~Writable'
    <3>1. CASE sock = <<>>
      BY <1>9, <3>1 DEF Receive, kernelVars, Writable
    <3>2. CASE sock # <<>>
      <4>1. outEdge' = (outEdge \/ (Len(sock') < Len(sock) /\ Writable'))
        BY <1>9, <3>2 DEF Receive
      <4>2. PICK t \in 1..Len(sock) : \E c \in 1..Len(sock[t].words) : sock' = Unread(t, c)
        BY <1>9, <3>2 DEF Receive
      <4>3. PICK c \in 1..Len(sock[t].words) : sock' = Unread(t, c)
        BY <4>2
      <4>4. Len(sock') < Len(sock) \/ Used(sock') = Used(sock)
        BY <4>3, ReadUsed DEF Receiver
      <4>5. Writable = (Used(sock) <= Mark) /\ Writable' = (Used(sock') <= Mark)
        BY DEF Writable
      <4>. QED BY <4>1, <4>4, <4>5
    <3>. QED BY <3>1, <3>2
  <2>. QED BY <2>1, <2>2, <2>3
<1>10. CASE InputEvent \/ Pop \/ PopDone \/ UNCHANGED vars
  <2>1. UNCHANGED outVars /\ owes' = owes /\ sock' = sock /\ outEdge' = outEdge
    BY <1>10 DEF InputEvent, Pop, PopDone, vars, kernelVars
  <2>2. waitForOutput' = waitForOutput /\ pc' = pc /\ chunks' = chunks /\ fds' = fds
    BY <2>1 DEF outVars
  <2>. QED BY <2>1, <2>2 DEF Writable
<1>. QED BY <1>1, <1>2, <1>3, <1>4, <1>5, <1>6, <1>7, <1>8, <1>9, <1>10 DEF Next

-----------------------------------------------------------------------------
(* The invariant, and what follows from it.  A word is followed from put   *)
(* to delivered: first it is in the chunks, then on the wire, and the two  *)
(* together are the messages put and not delivered.  Descriptors travel    *)
(* on their own and are never behind a word that needs them.               *)

IInv ==
    /\ Sender /\ Receiver
    /\ WireInOrder /\ FdsOnWire
    /\ PutInOrder /\ DeliveredInOrder
    /\ Flow

LEMMA IInvStep == IInv /\ [Next]_vars => IInv'
<1>. SUFFICES ASSUME IInv, [Next]_vars PROVE IInv'
  OBVIOUS
<1>. USE DEF IInv
<1>1. Sender'
  BY SenderStep
<1>2. Receiver'
  BY ReceiverStep
<1>3. WireInOrder'
  BY WireStep
<1>4. FdsOnWire'
  BY FdsOnWireStep
<1>5. PutInOrder'
  BY PutOrderStep
<1>6. DeliveredInOrder'
  BY DeliveredStep
<1>7. Flow'
  BY <1>1, FlowStep
<1>. QED BY <1>1, <1>2, <1>3, <1>4, <1>5, <1>6, <1>7

LEMMA InitIInv == Init => IInv
<1>. SUFFICES ASSUME Init PROVE IInv
  OBVIOUS
<1>1. /\ sock = <<>> /\ Out!Init /\ In!Init /\ put = <<>> /\ delivered = <<>> /\ ~owes /\ outEdge
  BY DEF Init, Channel!Init
<1>2. Sender
  BY <1>1, SenderInit
<1>3. /\ chunks = << <<>> >> /\ fds = <<>> /\ ~waitForOutput /\ pc = "idle" /\ msg = Out!NoMsg
      /\ accepted = [msgs |-> 0, words |-> 0, fds |-> 0] /\ sent = [words |-> 0, fds |-> 0]
      /\ front = 0 /\ back = 0 /\ inFds = <<>> /\ inPc = "idle"
      /\ popped = [msgs |-> 0, words |-> 0, fds |-> 0]
  BY <1>1 DEF Out!Init, In!Init
<1>4. /\ Len(<<>>) = 0 /\ \A S : <<>> \in Seq(S)
      /\ MaxWords \in Nat /\ MaxWords >= 2 /\ MsgBound \in Nat /\ MaxArgs \in Nat
  BY EmptySeq, TransportAssumption
<1>5. Held = <<>> /\ Held \in Seq(Word)
  <2>1. Held = [i \in 1..0 |-> data[0 + i - 1]]
    BY <1>3 DEF Held
  <2>. QED BY <1>4, <2>1
<1>6. Receiver
  <2>1. popped \in [msgs : Nat, words : Nat, fds : Nat]
    BY <1>3
  <2>. HIDE DEF Held
  <2>. QED BY <1>1, <1>3, <1>4, <1>5, <2>1 DEF Receiver
<1>7. Wire = <<>> /\ FlattenSeq(chunks) = <<>> /\ FdsOfSegments(sock) = <<>>
  <2>1. <<>> \o <<>> = <<>>
    BY <1>4, ConcatEmptySeq
  <2>2. FlattenSeq(<< <<>> >>) = <<>>
    BY <1>4, FlattenOne
  <2>. QED BY <1>1, <1>3, <1>5, <2>1, <2>2, SegmentsEmpty DEF Wire
<1>8. WireInOrder
  BY <1>3, <1>4, <1>7 DEF WireInOrder, Buffer!Consecutive
<1>9. FdsOnWire
  <2>1. Buffer!Queue(0, 0) = <<>>
    BY DEF Buffer!Queue
  <2>2. <<>> \o <<>> = <<>>
    BY <1>4, ConcatEmptySeq
  <2>3. Covers(sock, 0)
    BY <1>1, <1>4 DEF Covers
  <2>. HIDE DEF Held
  <2>. QED BY <1>3, <1>4, <1>5, <1>7, <2>1, <2>2, <2>3 DEF FdsOnWire
<1>10. PutInOrder
  <2>1. msg.nfds = 0
    BY <1>3 DEF Out!NoMsg
  <2>2. LastFd(Len(put)) = 0 /\ Len(put) = 0
    BY <1>1, <1>4 DEF LastFd
  <2>3. 0 <= 0 * MaxWords /\ 0 <= 0 * MaxArgs /\ 0 <= MsgBound
    BY <1>4
  <2>. QED BY <1>1, <1>3, <1>4, <2>1, <2>2, <2>3 DEF PutInOrder
<1>11. DeliveredInOrder
  <2>1. Pending = <<>>
    <3>1. Len(put) - Len(delivered) = 0
      BY <1>1, <1>4
    <3>. QED BY <3>1 DEF Pending
  <2>2. LastFd(Len(delivered)) = 0
    BY <1>1, <1>4 DEF LastFd
  <2>3. <<>> \o <<>> = <<>>
    BY <1>4, ConcatEmptySeq
  <2>4. Wire \o FlattenSeq(chunks) = FlattenSeq(Pending)
    BY <1>7, <2>1, <2>3, FlattenEmpty
  <2>. QED BY <1>1, <1>3, <1>4, <2>2, <2>4 DEF DeliveredInOrder
<1>12. Flow
  BY <1>3 DEF Flow, NoLostWakeUp
<1>. QED BY <1>2, <1>6, <1>8, <1>9, <1>10, <1>11, <1>12 DEF IInv

\* The steps of both buffers, of the socket and of the event loops keep it.
THEOREM Invariance == Spec => []IInv
<1>1. Init => IInv
  BY InitIInv
<1>2. IInv /\ [Next]_vars => IInv'
  BY IInvStep
<1>. QED BY <1>1, <1>2, PTL DEF Spec

\* Whatever the sizes of buffers and socket: a sender goes back to epoll_wait with
\* unsent data only if it was refused, and then an edge is certain.
THEOREM WakeUpNotLost == Spec => []NoLostWakeUp
<1>1. IInv => NoLostWakeUp
  BY DEF IInv, Flow
<1>. QED BY <1>1, Invariance, PTL

\* A receive never needs more room than make_room leaves it.
THEOREM AlwaysRoomToReceive == Spec => []RoomToReceive
<1>1. IInv => RoomToReceive
  <2>. SUFFICES ASSUME Receiver PROVE RoomToReceive
    BY DEF IInv
  <2>1. /\ front \in 0..back /\ back \in 0..In!Size
    BY TransportAssumption DEF Receiver, In!Size
  <2>2. inPc = "receive" => back - front < MaxWords
    BY DEF Receiver
  <2>3. back - front < MaxWords => In!MakeRoom.back + MaxWords <= In!Size
    BY RoomIsMade DEF In!Size
  <2>. QED BY <2>1, <2>2, <2>3 DEF RoomToReceive, In!RoomToReceive, In!Available
<1>. QED BY <1>1, Invariance, PTL

LEMMA UnreadFollows == IInv => UnreadIntact
<1>. SUFFICES ASSUME IInv PROVE In!UnreadIntact /\ In!FdsReady
  BY DEF UnreadIntact
<1>. USE DEF IInv
<1> DEFINE n == back - front
           p == popped.words
           h == Held
           w == WordsOfSegments(sock)
<1>1. /\ n \in Nat /\ Len(h) = n /\ p \in Nat /\ front \in Nat /\ back \in Nat /\ front <= back
      /\ \A i \in 1..n : h[i] = data[front + i - 1]
      /\ h \in Seq(Word) /\ w \in Seq(Word) /\ Wire = h \o w
      /\ sent.fds \in Nat /\ sent.words \in Nat
  BY HeldFacts, WireFacts, SenderFacts DEF Receiver, Wire
<1>2. /\ Len(h \o w) = n + Len(w) /\ Len(w) \in Nat
      /\ \A i \in 1..n : (h \o w)[i] = h[i]
  <2>. HIDE DEF h, w, n
  <2>1. Len(h \o w) = Len(h) + Len(w) /\ \A i \in 1..Len(h) : (h \o w)[i] = h[i]
    <3>1. h \in Seq(Word) /\ w \in Seq(Word)
      BY <1>1
    <3>2. Len(h \o w) = Len(h) + Len(w)
      BY <3>1, ConcatProperties
    <3>3. \A i \in 1..Len(h) : (h \o w)[i] = h[i]
      BY <3>1, ConcatPrefix
    <3>. QED BY <3>2, <3>3
  <2>. QED BY <1>1, <2>1, LenProperties
<1>3. \A i \in 1..n : h[i].pos = p + i
  <2>1. \A i \in 1..Len(h \o w) : (h \o w)[i].pos = p + i
    BY <1>1 DEF WireInOrder, Buffer!Consecutive
  <2>. HIDE DEF h, w, n, p
  <2>. SUFFICES ASSUME NEW i \in 1..n PROVE h[i].pos = p + i
    OBVIOUS
  <2>2. i \in 1..Len(h \o w)
    BY <1>1, <1>2
  <2>. QED BY <1>2, <2>1, <2>2
<1>4. \A i \in front..(back - 1) : data[i].pos = p + 1 + i - front
  <2>. SUFFICES ASSUME NEW i \in front..(back - 1) PROVE data[i].pos = p + 1 + i - front
    OBVIOUS
  <2> DEFINE k == i - front + 1
  <2>1. k \in 1..n /\ front + k - 1 = i /\ p + k = p + 1 + i - front
    <3>. HIDE DEF p
    <3>. QED BY <1>1
  <2>. HIDE DEF k, h, p
  <2>2. h[k].pos = p + k /\ h[k] = data[front + k - 1]
    BY <1>1, <1>3, <2>1
  <2>. QED BY <2>1, <2>2
<1>5. n > 0 => data[front].msg.start = p + 1
  <2>. SUFFICES ASSUME n > 0 PROVE data[front].msg.start = p + 1
    OBVIOUS
  <2>1. Len(Held) >= 1 /\ 1 \in 1..n /\ front + 1 - 1 = front
    <3>. HIDE DEF h, n
    <3>1. Len(h) >= 1 /\ 1 \in 1..n /\ front + 1 - 1 = front
      BY <1>1
    <3>. QED BY <3>1 DEF h
  <2>2. h[1] = put[Len(delivered) + 1].words[1] /\ put[Len(delivered) + 1] \in ChannelMessage
    BY <2>1, HeldIsNext
  <2>3. h[1].pos = h[1].msg.start
    BY <2>2, TravelsProps
  <2>4. h[1] = data[front] /\ h[1].pos = p + 1
    <3>. HIDE DEF h, p
    <3>1. h[1] = data[front + 1 - 1] /\ h[1].pos = p + 1
      BY <1>1, <1>3, <2>1
    <3>. QED BY <2>1, <3>1
  <2>. HIDE DEF h
  <2>. QED BY <2>3, <2>4
<1>6. p + n + Len(w) = sent.words
  <2>1. p + Len(Wire) = sent.words /\ Len(Wire) = n + Len(w)
    BY <1>1, <1>2 DEF WireInOrder
  <2>. HIDE DEF n, p, w
  <2>. QED BY <1>1, <1>2, <2>1
<1>7. In!UnreadIntact
  BY <1>4, <1>5, <1>6 DEF In!UnreadIntact, In!Available, WordsOfSegments
<1>8. \A i \in 1..Len(inFds) : inFds[i] = popped.fds + i
  <2>1. 0 \in Nat /\ 0 <= Len(inFds)
    BY LenProperties DEF Receiver
  <2>. QED BY <1>1, <2>1, QueueHead
<1>9. ASSUME In!CanPop
      PROVE  /\ data[front + 1].msg.nfds <= Len(inFds)
             /\ popped.fds + data[front + 1].msg.nfds = data[front + 1].msg.lastFd
  <2>1. Len(Held) >= 2
    BY <1>1, <1>9 DEF In!CanPop, In!Available
  <2>. QED BY <2>1, NextHasFds, NextHeader
<1>10. In!FdsReady
  BY <1>8, <1>9 DEF In!FdsReady
<1>. QED BY <1>7, <1>10

\* However the stream is cut into sends and receives, what is unread is intact, and
\* the descriptors of a whole message are there when it is popped.
THEOREM UnreadAlwaysIntact == Spec => []UnreadIntact
<1>1. IInv => UnreadIntact
  BY UnreadFollows
<1>. QED BY <1>1, Invariance, PTL

\* The steps of the two buffers and the socket are those of a channel: what is
\* popped is the first message put and not delivered, whole, with its descriptors.
LEMMA ChannelStep == IInv /\ [Next]_vars => [Channel!Next]_(Channel!channelVars)
<1>. SUFFICES ASSUME IInv, [Next]_vars
     PROVE  Channel!Next \/ UNCHANGED Channel!channelVars
  OBVIOUS
<1>. USE DEF IInv
<1>1. CASE Put
  <2> DEFINE x == Travels(msg, accepted.words, accepted.fds)
  <2>1. x \in ChannelMessage /\ put' = Append(put, x) /\ delivered' = delivered
    BY <1>1, PutEffect
  <2>. HIDE DEF x
  <2>. QED BY <2>1 DEF Channel!Next, Channel!PutMessage
<1>2. CASE Pop
  <2>1. /\ Len(delivered) < Len(put)
        /\ delivered' = Append(delivered, put[Len(delivered) + 1])
    BY <1>2, PopDelivers
  <2>2. put' = put
    BY <1>2 DEF Pop
  <2>. QED BY <2>1, <2>2 DEF Channel!Next, Channel!Deliver
<1>3. CASE Receive
  BY <1>3, ReceiveEffect DEF Receiver, history, Channel!channelVars
<1>4. CASE ~Put /\ ~Pop /\ ~Receive
  BY <1>4 DEF Next, Send, SendChunk, SendRefused, FlushReturn, InputEnds, OutputEvent,
     OutputEdgeSpent, InputEvent, PopDone, vars, history, Channel!channelVars
<1>. QED BY <1>1, <1>2, <1>3, <1>4

\* The safety part of Refines: whatever the sizes of buffers, chunks and socket,
\* messages arrive whole, once, in the order they were put, with their descriptors.
THEOREM ImplementsChannel == Spec => Channel!Safety
<1>1. Init => Channel!Init
  BY DEF Init
<1>2. IInv /\ [Next]_vars => [Channel!Next]_(Channel!channelVars)
  BY ChannelStep
<1>. QED BY <1>1, <1>2, Invariance, PTL DEF Spec, Channel!Safety

=============================================================================
