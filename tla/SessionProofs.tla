----------------------------- MODULE SessionProofs -----------------------------
(***************************************************************************)
(* Proofs about Session, for every size of chunk, receive and socket and   *)
(* every number of messages: no message is lost or reordered, and nothing  *)
(* is left behind by a session that waits or that a hang-up ended.         *)
(***************************************************************************)
EXTENDS Session, SequenceTheorems, SequenceLemmas, TLAPS

Call == [side : Sides, flag : {"out", "in", "hup"}]

\* The call at position k of todo has not done yet what its event asks for.
NotDone(k) ==
    k = 1 => CASE todo[1].flag = "out" -> pc = "next"
               [] todo[1].flag = "in"  -> pc # "flush"
               [] todo[1].flag = "hup" -> TRUE

\* Such a call is among the first n.
Due(i, flag, n) ==
    \E k \in 1..n : todo[k] = [side |-> i, flag |-> flag] /\ NotDone(k)

Live == pc # "over"

\* What a handler has of a batch is in todo, and messages wait to be mediated
\* within handle_input only, which never ends with something popped or half done.
InHandler ==
    /\ pc \in {"receive", "mediate", "lazy"} => Head(todo).flag = "in"
    /\ pc = "flush" => Head(todo).flag \in {"out", "in"}
    /\ pc \in {"mediate", "lazy"} => received \/ inbuf[Side] # <<>>
    /\ \A i \in Sides :
          inbuf[i] # <<>> /\ Live => pc \in {"mediate", "lazy"} /\ i = Side
    /\ why = "hangUp" /\ ~Live => \A i \in Sides : inbuf[i] = <<>>

\* Outside of what is yet to be flushed, only refused messages are queued.
Settled(i) == out[i] # <<>> => refused[i]

FlushedOrRefused ==
    \A i \in Sides :
        \/ pc \in {"next", "wait"}
        \/ pc = "receive" /\ ~received
        \/ pc = "flush" /\ \A k \in 1..Len(flushes) : flushes[k] # i
        \/ ~Live /\ why = "hangUp"
        => Settled(i)

\* No change is forgotten: it has an event to come, or a call due.
ChangesSeen ==
    Live => \A i \in Sides :
        /\ toUs[i] # <<>> => edge[i] \/ Due(i, "in", Len(todo))
        /\ ~open[i] => edge[i] \/ Due(i, "hup", Len(todo))
        /\ refused[i] /\ Writable(i) => edge[i] \/ Due(i, "out", Len(todo))

\* handle_error comes behind the handle_input that reads the last words.
ErrorsLast ==
    Live => \A k \in 1..Len(todo) : todo[k].flag = "hup" =>
        LET i == todo[k].side
        IN  ~open[i] /\ (toUs[i] # <<>> => Due(i, "in", k - 1))

LastWordsHeard == ~Live /\ why = "hangUp" => todo # <<>> /\ ~open[Side] /\ toUs[Side] = <<>>

QuietInv == InHandler /\ FlushedOrRefused /\ ChangesSeen /\ ErrorsLast /\ LastWordsHeard

-----------------------------------------------------------------------------
(* Types. *)

LEMMA SidesProps ==
    /\ 0 \in Sides /\ 1 \in Sides
    /\ \A i \in Sides : Other(i) \in Sides /\ Other(i) # i /\ Other(Other(i)) = i
    /\ \A i, j \in Sides : j = i \/ j = Other(i)
BY DEF Sides, Other

\* What a handler works on exists.
LEMMA AtWork ==
    ASSUME TypeOK, Live, pc # "wait"
    PROVE  /\ todo \in Seq(Call) /\ todo # <<>> /\ Len(todo) \in Nat \ {0}
           /\ Head(todo) = todo[1] /\ Head(todo) \in Call
           /\ Side \in Sides /\ Head(todo).flag \in {"out", "in", "hup"}
           /\ Tail(todo) \in Seq(Call) /\ Len(Tail(todo)) = Len(todo) - 1
           /\ \A k \in 1..Len(Tail(todo)) : Tail(todo)[k] = todo[k + 1]
<1>1. todo \in Seq(Call) /\ todo # <<>>
  BY DEF TypeOK, Live, Call
<1>2. Len(todo) \in Nat \ {0}
  BY <1>1, EmptySeq
<1>3. /\ Head(todo) \in Call /\ Head(todo) = todo[1]
      /\ Tail(todo) \in Seq(Call) /\ Len(Tail(todo)) = Len(todo) - 1
      /\ \A k \in 1..Len(Tail(todo)) : Tail(todo)[k] = todo[k + 1]
  BY <1>1, HeadTailProperties
<1>4. Head(todo).side \in Sides /\ Head(todo).flag \in {"out", "in", "hup"}
  BY <1>3 DEF Call
<1>. QED BY <1>1, <1>2, <1>3, <1>4 DEF Side

\* A handler that returns leaves the loop with calls, or waiting.
LEMMA ContinueProps ==
    ASSUME TypeOK, Live, pc # "wait", Continue
    PROVE  /\ todo' = Tail(todo) /\ todo' \in Seq(Call)
           /\ pc' \in {"wait", "next"}
           /\ pc' = "wait" <=> todo' = <<>>
<1>1. /\ todo' = Tail(todo) /\ pc' = IF Len(todo) = 1 THEN "wait" ELSE "next"
  BY DEF Continue
<1>2. /\ Len(todo) \in Nat \ {0} /\ Tail(todo) \in Seq(Call)
      /\ Len(Tail(todo)) = Len(todo) - 1
  BY AtWork
<1>3. Tail(todo) = <<>> <=> Len(todo) = 1
  <2>1. Tail(todo) = <<>> <=> Len(Tail(todo)) = 0
    BY <1>2, EmptySeq
  <2>. QED BY <1>2, <2>1
<1>. QED BY <1>1, <1>2, <1>3

LEMMA CallsProps ==
    ASSUME NEW i \in Sides, NEW F \in SUBSET {"out", "in", "hup"}
    PROVE  LET s == Calls(i, F)
           IN  /\ s \in Seq(Call) /\ Len(s) \in Nat
               /\ \A k \in 1..Len(s) : s[k].side = i /\ s[k].flag \in F
               /\ \A flag \in F : \E k \in 1..Len(s) : s[k] = [side |-> i, flag |-> flag]
               /\ \A k \in 1..Len(s) :
                     s[k].flag = "hup" /\ "in" \in F =>
                         \E j \in 1..(k - 1) : s[j] = [side |-> i, flag |-> "in"]
<1> DEFINE call(flag) == IF flag \in F THEN <<[side |-> i, flag |-> flag]>> ELSE <<>>
           a == call("out")
           b == call("in")
           c == call("hup")
           s == (a \o b) \o c
<1>1. Calls(i, F) = s
  BY DEF Calls
<1>2. ASSUME NEW flag \in {"out", "in", "hup"}
      PROVE  /\ call(flag) \in Seq(Call)
             /\ Len(call(flag)) = IF flag \in F THEN 1 ELSE 0
             /\ flag \in F => call(flag)[1] = [side |-> i, flag |-> flag]
  <2>1. [side |-> i, flag |-> flag] \in Call
    BY DEF Call
  <2> DEFINE e == [side |-> i, flag |-> flag]
             one == <<e>>
  <2>2. one \in Seq(Call) /\ Len(one) = 1 /\ one[1] = e
    BY <2>1
  <2>3. call(flag) = IF flag \in F THEN one ELSE <<>>
    OBVIOUS
  <2>. HIDE DEF call, one
  <2>. QED BY <2>2, <2>3, EmptySeq
<1>3. /\ a \in Seq(Call) /\ Len(a) = (IF "out" \in F THEN 1 ELSE 0)
      /\ "out" \in F => a[1] = [side |-> i, flag |-> "out"]
      /\ b \in Seq(Call) /\ Len(b) = (IF "in" \in F THEN 1 ELSE 0)
      /\ "in" \in F => b[1] = [side |-> i, flag |-> "in"]
      /\ c \in Seq(Call) /\ Len(c) = (IF "hup" \in F THEN 1 ELSE 0)
      /\ "hup" \in F => c[1] = [side |-> i, flag |-> "hup"]
  BY <1>2
<1>. HIDE DEF a, b, c
<1>4. /\ a \o b \in Seq(Call) /\ Len(a \o b) = Len(a) + Len(b)
      /\ \A k \in 1..(Len(a) + Len(b)) :
            (a \o b)[k] = IF k <= Len(a) THEN a[k] ELSE b[k - Len(a)]
  BY <1>3, ConcatProperties
<1>5. /\ s \in Seq(Call) /\ Len(s) = Len(a \o b) + Len(c)
      /\ \A k \in 1..(Len(a \o b) + Len(c)) :
            s[k] = IF k <= Len(a \o b) THEN (a \o b)[k] ELSE c[k - Len(a \o b)]
  BY <1>3, <1>4, ConcatProperties, SMTT(60)
<1> DEFINE m == Len(a)
           n == Len(b)
           l == Len(c)
<1>6. /\ m \in 0..1 /\ n \in 0..1 /\ l \in 0..1
      /\ m = 1 <=> "out" \in F
      /\ n = 1 <=> "in" \in F
      /\ l = 1 <=> "hup" \in F
      /\ Len(s) = m + n + l
  BY <1>3, <1>4, <1>5
<1>7. /\ "out" \in F => 1 \in 1..Len(s) /\ s[1] = [side |-> i, flag |-> "out"]
      /\ "in" \in F => m + 1 \in 1..Len(s) /\ s[m + 1] = [side |-> i, flag |-> "in"]
      /\ "hup" \in F => m + n + 1 \in 1..Len(s) /\ s[m + n + 1] = [side |-> i, flag |-> "hup"]
  BY <1>3, <1>4, <1>5, SMTT(60)
<1>. HIDE DEF s, m, n, l
<1>8. ASSUME NEW k \in 1..Len(s)
      PROVE  \/ "out" \in F /\ k = 1 /\ m = 1
             \/ "in" \in F /\ k = m + 1
             \/ "hup" \in F /\ k = m + n + 1
  BY <1>6
<1>9. ASSUME NEW k \in 1..Len(s)
      PROVE  /\ s[k].side = i /\ s[k].flag \in F
             /\ s[k].flag = "hup" => "hup" \in F /\ k = m + n + 1
  BY <1>7, <1>8
<1>10. \A flag \in F : \E k \in 1..Len(s) : s[k] = [side |-> i, flag |-> flag]
  BY <1>7
<1>11. ASSUME NEW k \in 1..Len(s), s[k].flag = "hup", "in" \in F
       PROVE  \E j \in 1..(k - 1) : s[j] = [side |-> i, flag |-> "in"]
  <2>1. n = 1 /\ m + 1 \in 1..(k - 1)
    BY <1>6, <1>9, <1>11
  <2>. QED BY <1>7, <1>11, <2>1
<1>. QED BY <1>1, <1>5, <1>6, <1>9, <1>10, <1>11

DataOK ==
    /\ out \in [Sides -> Seq(Messages)] /\ inbuf \in [Sides -> Seq(Messages)]
    /\ toUs \in [Sides -> Seq(Messages)] /\ toPeer \in [Sides -> Seq(Seq(Messages))]
    /\ given \in [Sides -> Seq(Messages)] /\ sentBy \in [Sides -> Nat]

SwitchesOK ==
    /\ refused \in [Sides -> BOOLEAN] /\ open \in [Sides -> BOOLEAN]
    /\ reset \in [Sides -> BOOLEAN] /\ edge \in [Sides -> BOOLEAN]
    /\ received \in BOOLEAN

ControlOK ==
    /\ pc \in {"wait", "next", "receive", "mediate", "lazy", "flush", "over"}
    /\ todo \in Seq(Call) /\ flushes \in Seq(Sides)
    /\ why \in {"none", "hangUp", "error", "panic"}
    /\ Live => /\ pc = "wait" <=> todo = <<>>
               /\ pc = "flush" <=> flushes # <<>>

LEMMA TypeParts == TypeOK <=> DataOK /\ SwitchesOK /\ ControlOK
BY DEF TypeOK, DataOK, SwitchesOK, ControlOK, Call, Live

LEMMA TargetProps ==
    ASSUME TypeOK, Flushing
    PROVE  Target \in Sides /\ Live /\ pc # "wait" /\ (pc = "lazy" => Target = Other(Side))
<1>1. Live /\ pc # "wait"
  BY DEF Flushing, Live
<1>2. CASE pc = "lazy"
  <2>1. Side \in Sides
    BY <1>1, AtWork
  <2>. QED BY <1>1, <1>2, <2>1, SidesProps DEF Target
<1>3. CASE pc = "flush" /\ flushes # <<>>
  <2>1. Head(flushes) \in Sides
    BY <1>3, HeadTailProperties DEF TypeOK
  <2>. QED BY <1>1, <1>3, <2>1 DEF Target
<1>. QED BY <1>2, <1>3 DEF Flushing

\* What a send takes is the beginning of what is queued.
LEMMA FirstChunkProps ==
    ASSUME NEW s \in Seq(Messages)
    PROVE  LET chunk == FirstChunk(s)
               rest  == SubSeq(s, Len(chunk) + 1, Len(s))
           IN  chunk \in Seq(Messages) /\ rest \in Seq(Messages) /\ s = chunk \o rest
<1> DEFINE n == IF Len(s) < ChunkLen THEN Len(s) ELSE ChunkLen
<1>1. Len(s) \in Nat /\ ChunkLen \in Nat
  BY LenProperties, SessionAssumption
<1>2. n \in 0..Len(s)
  BY <1>1
<1>3. FirstChunk(s) = SubSeq(s, 1, n)
  BY SubSeqFull DEF FirstChunk
<1>. HIDE DEF n
<1>4. /\ s = SubSeq(s, 1, n) \o SubSeq(s, n + 1, Len(s))
      /\ SubSeq(s, 1, n) \in Seq(Messages) /\ Len(SubSeq(s, 1, n)) = n
      /\ SubSeq(s, n + 1, Len(s)) \in Seq(Messages)
  BY <1>2, CutConcat
<1>. QED BY <1>3, <1>4

LEMMA DataStep ==
    ASSUME TypeOK, [Next]_vars
    PROVE  DataOK'
<1>. USE TypeParts DEF DataOK
<1>1. ASSUME NEW i \in Sides, PeerSends(i)
      PROVE  DataOK'
  <2>1. sentBy[i] + 1 \in Messages /\ sentBy[i] \in Nat
    <3>1. sentBy[i] \in Nat /\ sentBy[i] < MsgBound[i]
      BY <1>1 DEF PeerSends
    <3>2. MsgBound[0] \in Nat /\ MsgBound[1] \in Nat /\ (i = 0 \/ i = 1)
      BY SessionAssumption DEF Sides
    <3>. QED BY <3>1, <3>2 DEF Messages
  <2>2. Append(toUs[i], sentBy[i] + 1) \in Seq(Messages)
    BY <2>1, AppendProperties
  <2>. QED BY <1>1, <2>1, <2>2 DEF PeerSends, bufVars
<1>2. ASSUME NEW i \in Sides, PeerReads(i)
      PROVE  DataOK'
  <2>1. Tail(toPeer[i]) \in Seq(Seq(Messages))
    BY <1>2, HeadTailProperties DEF PeerReads
  <2>. QED BY <1>2, <2>1 DEF PeerReads, bufVars
<1>3. ASSUME NEW i \in Sides, PeerCloses(i)
      PROVE  DataOK'
  <2>1. <<>> \in Seq(Seq(Messages))
    BY EmptySeq
  <2>. QED BY <1>3, <2>1 DEF PeerCloses, bufVars
<1>4. CASE Receive
  <2>1. Side \in Sides
    BY <1>4, AtWork DEF Receive, Live
  <2>2. PICK n \in 1..RecvMax :
          /\ n <= Len(toUs[Side])
          /\ inbuf' = [inbuf EXCEPT ![Side] = @ \o SubSeq(toUs[Side], 1, n)]
          /\ toUs' = [toUs EXCEPT ![Side] = SubSeq(@, n + 1, Len(@))]
    BY <1>4 DEF Receive
  <2>3. toUs[Side] \in Seq(Messages) /\ inbuf[Side] \in Seq(Messages)
    BY <2>1
  <2>4. n \in 0..Len(toUs[Side])
    BY <2>2, <2>3, LenProperties, SessionAssumption
  <2>5. SubSeq(toUs[Side], 1, n) \in Seq(Messages)
        /\ SubSeq(toUs[Side], n + 1, Len(toUs[Side])) \in Seq(Messages)
    BY <2>3, <2>4, CutConcat
  <2>6. inbuf[Side] \o SubSeq(toUs[Side], 1, n) \in Seq(Messages)
    BY <2>3, <2>5, ConcatProperties
  <2>7. inbuf' \in [Sides -> Seq(Messages)] /\ toUs' \in [Sides -> Seq(Messages)]
    BY <2>1, <2>2, <2>5, <2>6
  <2>. QED BY <1>4, <2>7 DEF Receive
<1>5. CASE Mediate
  <2>1. Side \in Sides /\ Other(Side) \in Sides
    BY <1>5, AtWork, SidesProps DEF Mediate, Live
  <2>2. inbuf[Side] \in Seq(Messages) /\ inbuf[Side] # <<>> /\ out[Other(Side)] \in Seq(Messages)
    BY <1>5, <2>1 DEF Mediate
  <2>3. Tail(inbuf[Side]) \in Seq(Messages) /\ Head(inbuf[Side]) \in Messages
    BY <2>2, HeadTailProperties
  <2>4. Append(out[Other(Side)], Head(inbuf[Side])) \in Seq(Messages)
    BY <2>2, <2>3, AppendProperties
  <2>5. inbuf' \in [Sides -> Seq(Messages)] /\ out' \in [Sides -> Seq(Messages)]
    BY <1>5, <2>1, <2>3, <2>4 DEF Mediate
  <2>. QED BY <1>5, <2>5 DEF Mediate, kernelVars
<1>6. CASE SendChunk
  <2> DEFINE i == Target
             chunk == FirstChunk(out[i])
             rest == SubSeq(out[i], Len(chunk) + 1, Len(out[i]))
  <2>1. i \in Sides
    BY <1>6, TargetProps DEF SendChunk
  <2>2. /\ toPeer' = [toPeer EXCEPT ![i] = Append(@, chunk)]
        /\ given' = [given EXCEPT ![i] = @ \o chunk]
        /\ out' = [out EXCEPT ![i] = rest]
        /\ inbuf' = inbuf /\ toUs' = toUs /\ sentBy' = sentBy
    BY <1>6 DEF SendChunk
  <2>. HIDE DEF i
  <2>3. chunk \in Seq(Messages) /\ rest \in Seq(Messages)
    BY <2>1, FirstChunkProps
  <2>. HIDE DEF chunk, rest
  <2>4. Append(toPeer[i], chunk) \in Seq(Seq(Messages))
    BY <2>1, <2>3, AppendProperties
  <2>5. given[i] \o chunk \in Seq(Messages)
    BY <2>1, <2>3, ConcatProperties
  <2>. QED BY <2>1, <2>2, <2>3, <2>4, <2>5
<1>7. CASE \/ UNCHANGED vars \/ Wait \/ HandleError \/ HandleOutput \/ HandleInput
           \/ ReceiveFails \/ InputEnds \/ MediatePanics \/ PopDone
           \/ SendRefused \/ SendFails \/ FlushReturns
  <2>1. /\ out' = out /\ inbuf' = inbuf /\ toUs' = toUs /\ toPeer' = toPeer
        /\ given' = given /\ sentBy' = sentBy
    BY <1>7 DEF vars, bufVars, kernelVars, Wait, HandleError, HandleOutput, HandleInput,
                ReceiveFails, InputEnds, MediatePanics, PopDone, SendRefused, SendFails,
                FlushReturns
  <2>. QED BY <2>1
<1>. QED BY <1>1, <1>2, <1>3, <1>4, <1>5, <1>6, <1>7 DEF Next, SessionStep

LEMMA SwitchesStep ==
    ASSUME TypeOK, [Next]_vars
    PROVE  SwitchesOK'
<1>. USE TypeParts DEF SwitchesOK
<1>1. ASSUME NEW i \in Sides, PeerSends(i) \/ PeerReads(i) \/ PeerCloses(i)
      PROVE  SwitchesOK'
  BY <1>1 DEF PeerSends, PeerReads, PeerCloses, bufVars, ctlVars
<1>2. CASE Wait
  BY <1>2 DEF Wait, bufVars
<1>3. CASE HandleOutput \/ SendRefused
  BY <1>3 DEF HandleOutput, SendRefused, kernelVars, ctlVars
<1>4. CASE ReceiveFails
  BY <1>4 DEF ReceiveFails, bufVars
<1>5. CASE Mediate \/ HandleInput \/ InputEnds \/ PopDone
  BY <1>5 DEF Mediate, HandleInput, InputEnds, PopDone, kernelVars, bufVars
<1>6. CASE Receive \/ SendChunk
  BY <1>6 DEF Receive, SendChunk, ctlVars
<1>7. CASE HandleError \/ MediatePanics \/ SendFails \/ FlushReturns
  BY <1>7 DEF HandleError, MediatePanics, SendFails, FlushReturns, kernelVars, bufVars
<1>8. CASE UNCHANGED vars
  BY <1>8 DEF vars, kernelVars, bufVars, ctlVars
<1>. QED BY <1>1, <1>2, <1>3, <1>4, <1>5, <1>6, <1>7, <1>8 DEF Next, SessionStep

LEMMA FlagsProps ==
    ASSUME NEW i \in Sides
    PROVE  Flags(i) \in SUBSET {"out", "in", "hup"}
BY DEF Flags

\* What epoll_wait returns: the calls for either side, one side after the other.
LEMMA WaitProps ==
    ASSUME TypeOK, Wait
    PROVE  \E i \in Sides : \E s, t \in Seq(Call) :
               /\ s = IF edge[i] THEN Calls(i, Flags(i)) ELSE <<>>
               /\ t = IF edge[Other(i)] THEN Calls(Other(i), Flags(Other(i))) ELSE <<>>
               /\ todo' = s \o t
<1> DEFINE calls(i) == IF edge[i] THEN Calls(i, Flags(i)) ELSE <<>>
<1>1. PICK i \in Sides : todo' = calls(i) \o calls(Other(i))
  BY DEF Wait
<1>2. ASSUME NEW j \in Sides PROVE calls(j) \in Seq(Call)
  BY CallsProps, FlagsProps, EmptySeq
<1>. QED BY <1>1, <1>2, SidesProps

LEMMA ControlStep ==
    ASSUME TypeOK, [Next]_vars
    PROVE  ControlOK'
<1>. USE TypeParts DEF ControlOK
<1>1. CASE Wait
  <2>1. todo' \in Seq(Call)
    BY <1>1, WaitProps, ConcatProperties
  <2>2. pc' = (IF todo' = <<>> THEN "wait" ELSE "next") /\ flushes' = flushes /\ why' = why
        /\ Live /\ pc # "flush"
    BY <1>1 DEF Wait, Live
  <2>. QED BY <2>1, <2>2 DEF Live
<1>2. CASE HandleError \/ MediatePanics \/ SendFails \/ ReceiveFails
  <2>1. /\ pc' = "over" /\ why' \in {"hangUp", "error", "panic"}
        /\ todo' = todo /\ flushes' = flushes
    BY <1>2 DEF HandleError, MediatePanics, SendFails, ReceiveFails, End
  <2>. QED BY <2>1 DEF Live
<1>3. CASE HandleOutput
  <2>1. Side \in Sides /\ pc = "next" /\ todo # <<>>
    BY <1>3, AtWork DEF HandleOutput, At, Live
  <2>2. pc' = "flush" /\ flushes' = <<Side>> /\ todo' = todo /\ why' = why
    BY <1>3 DEF HandleOutput
  <2>. QED BY <2>1, <2>2 DEF Live
<1>4. CASE HandleInput \/ Receive \/ Mediate \/ PopDone
  <2>1. /\ pc \in {"next", "receive", "mediate"} /\ pc' \in {"receive", "mediate", "lazy"}
        /\ todo' = todo /\ flushes' = flushes /\ why' = why
    BY <1>4 DEF HandleInput, Receive, Mediate, PopDone, At
  <2>. QED BY <2>1 DEF Live
<1>5. CASE InputEnds
  <2>1. pc = "receive" /\ why' = why
    BY <1>5 DEF InputEnds
  <2>2. CASE received
    <3>1. pc' = "flush" /\ flushes' = <<0, 1>> /\ todo' = todo
      BY <1>5, <2>2 DEF InputEnds
    <3>2. <<0, 1>> \in Seq(Sides) /\ <<0, 1>> # <<>>
      BY DEF Sides
    <3>. QED BY <2>1, <3>1, <3>2 DEF Live
  <2>3. CASE ~received
    <3>1. Continue /\ flushes' = flushes
      BY <1>5, <2>3 DEF InputEnds
    <3>2. todo' \in Seq(Call) /\ pc' \in {"wait", "next"} /\ (pc' = "wait" <=> todo' = <<>>)
      BY <2>1, <3>1, ContinueProps DEF Live
    <3>. QED BY <2>1, <3>1, <3>2 DEF Live
  <2>. QED BY <2>2, <2>3
<1>6. CASE FlushReturns
  <2>1. why' = why /\ Live /\ pc # "wait"
    BY <1>6, TargetProps DEF FlushReturns
  <2>2. CASE pc = "lazy"
    BY <1>6, <2>1, <2>2 DEF FlushReturns, Live
  <2>3. CASE pc # "lazy"
    <3>1. pc = "flush" /\ flushes # <<>> /\ flushes' = Tail(flushes)
          /\ IF Len(flushes) = 1 THEN Continue ELSE UNCHANGED <<pc, todo>>
      BY <1>6, <2>3 DEF FlushReturns, Flushing
    <3>2. Len(flushes) \in Nat \ {0} /\ flushes' \in Seq(Sides) /\ Len(flushes') = Len(flushes) - 1
      BY <3>1, EmptySeq, HeadTailProperties
    <3>3. flushes' = <<>> <=> Len(flushes) = 1
      <4>1. flushes' = <<>> <=> Len(flushes') = 0
        BY <3>2, EmptySeq
      <4>. QED BY <3>2, <4>1
    <3>4. CASE Len(flushes) = 1
      <4>1. todo' \in Seq(Call) /\ pc' \in {"wait", "next"} /\ (pc' = "wait" <=> todo' = <<>>)
        BY <2>1, <3>1, <3>4, ContinueProps
      <4>. QED BY <2>1, <3>2, <3>3, <3>4, <4>1
    <3>5. CASE Len(flushes) # 1
      BY <2>1, <3>1, <3>2, <3>3, <3>5 DEF Live
    <3>. QED BY <3>4, <3>5
  <2>. QED BY <2>2, <2>3
<1>7. CASE \/ UNCHANGED vars \/ SendChunk \/ SendRefused
           \/ \E i \in Sides : PeerSends(i) \/ PeerReads(i) \/ PeerCloses(i)
  <2>1. pc' = pc /\ todo' = todo /\ flushes' = flushes /\ why' = why
    BY <1>7 DEF vars, ctlVars, SendChunk, SendRefused, PeerSends, PeerReads, PeerCloses
  <2>. QED BY <2>1 DEF Live
<1>. QED BY <1>1, <1>2, <1>3, <1>4, <1>5, <1>6, <1>7 DEF Next, SessionStep

LEMMA TypeStep == TypeOK /\ [Next]_vars => TypeOK'
<1>. SUFFICES ASSUME TypeOK, [Next]_vars PROVE TypeOK'
  OBVIOUS
<1>1. DataOK' /\ SwitchesOK' /\ ControlOK'
  BY DataStep, SwitchesStep, ControlStep
<1>2. TypeOK' <=> DataOK' /\ SwitchesOK' /\ ControlOK'
  BY TypeParts, PTL
<1>. QED BY <1>1, <1>2

LEMMA InitTypeOK == Init => TypeOK
<1>. SUFFICES ASSUME Init PROVE TypeOK
  OBVIOUS
<1>1. <<>> \in Seq(Messages) /\ <<>> \in Seq(Seq(Messages)) /\ <<>> \in Seq(Sides)
  BY EmptySeq
<1>2. DataOK
  BY <1>1 DEF Init, DataOK
<1>3. SwitchesOK
  BY DEF Init, SwitchesOK
<1>4. ControlOK
  BY <1>1, SidesProps DEF Init, ControlOK, Call, Live
<1>. QED BY <1>2, <1>3, <1>4, TypeParts

\* Types, for any number of messages and any size of chunk, receive and socket.
THEOREM TypeCorrect == Spec => []TypeOK
BY InitTypeOK, TypeStep, PTL DEF Spec

-----------------------------------------------------------------------------
(* No message is lost. *)

Numbers(n) == [k \in 1..n |-> k]

\* The messages of side i where they are.
Trail(i) == ((given[Other(i)] \o out[Other(i)]) \o inbuf[i]) \o toUs[i]

LEMMA NothingLostIsTrail == NothingLost <=> \A i \in Sides : Trail(i) = Numbers(sentBy[i])
BY DEF NothingLost, Trail, Numbers

LEMMA TrailType ==
    ASSUME TypeOK, NEW i \in Sides
    PROVE  /\ given[Other(i)] \in Seq(Messages) /\ out[Other(i)] \in Seq(Messages)
           /\ inbuf[i] \in Seq(Messages) /\ toUs[i] \in Seq(Messages)
           /\ given[Other(i)] \o out[Other(i)] \in Seq(Messages)
           /\ (given[Other(i)] \o out[Other(i)]) \o inbuf[i] \in Seq(Messages)
<1>1. /\ given[Other(i)] \in Seq(Messages) /\ out[Other(i)] \in Seq(Messages)
      /\ inbuf[i] \in Seq(Messages) /\ toUs[i] \in Seq(Messages)
  BY SidesProps DEF TypeOK
<1>2. given[Other(i)] \o out[Other(i)] \in Seq(Messages)
  BY <1>1, ConcatProperties
<1>3. (given[Other(i)] \o out[Other(i)]) \o inbuf[i] \in Seq(Messages)
  BY <1>1, <1>2, ConcatProperties
<1>. QED BY <1>1, <1>2, <1>3

LEMMA NumbersNext ==
    ASSUME NEW n \in Nat
    PROVE  Numbers(n + 1) = Append(Numbers(n), n + 1)
<1> DEFINE s == Numbers(n)
           t == Numbers(n + 1)
           u == Append(s, n + 1)
<1>1. s \in Seq(Nat) /\ Len(s) = n /\ (\A k \in 1..n : s[k] = k)
  BY DEF Numbers
<1>2. t \in Seq(Nat) /\ Len(t) = n + 1 /\ (\A k \in 1..(n + 1) : t[k] = k)
  BY DEF Numbers
<1>. HIDE DEF s, t
<1>3. /\ u \in Seq(Nat) /\ Len(u) = n + 1 /\ u[n + 1] = n + 1
      /\ \A k \in 1..n : u[k] = k
  BY <1>1, AppendProperties
<1>. HIDE DEF u
<1>4. \A k \in 1..(n + 1) : t[k] = u[k]
  BY <1>2, <1>3
<1>5. t = u
  BY <1>2, <1>3, <1>4, SeqEqual
<1>. QED BY <1>5 DEF s, t, u

LEMMA TrailStep ==
    ASSUME TypeOK, [Next]_vars, NEW i \in Sides, Trail(i) = Numbers(sentBy[i])
    PROVE  Trail(i)' = Numbers(sentBy'[i])
<1> DEFINE o == Other(i)
<1>0. o \in Sides /\ o # i
  BY SidesProps
<1>1. ASSUME NEW j \in Sides, PeerSends(j), j = i
      PROVE  Trail(i)' = Numbers(sentBy'[i])
  <2>1. /\ toUs'[i] = Append(toUs[i], sentBy[i] + 1) /\ sentBy'[i] = sentBy[i] + 1
        /\ given' = given /\ out' = out /\ inbuf' = inbuf
    BY <1>1 DEF PeerSends, bufVars, TypeOK
  <2> DEFINE a == (given[o] \o out[o]) \o inbuf[i]
             m == sentBy[i] + 1
             b == toUs[i]
  <2>2. m \in Nat /\ m \in Messages
    <3>1. sentBy[i] \in Nat /\ sentBy[i] < MsgBound[i]
      BY <1>1 DEF PeerSends, TypeOK
    <3>2. MsgBound[0] \in Nat /\ MsgBound[1] \in Nat /\ (i = 0 \/ i = 1)
      BY SessionAssumption DEF Sides
    <3>. QED BY <3>1, <3>2 DEF Messages
  <2>3. a \in Seq(Messages) /\ b \in Seq(Messages)
    BY TrailType
  <2>4. Trail(i)' = a \o Append(b, m)
    BY <2>1 DEF Trail
  <2>5. Trail(i) = a \o b /\ a \o b \in Seq(Messages)
    BY <2>3, ConcatProperties DEF Trail
  <2>. HIDE DEF a, b, m
  <2>6. a \o (b \o <<m>>) = (a \o b) \o <<m>>
    <3>1. a \in Seq(Messages) /\ b \in Seq(Messages) /\ <<m>> \in Seq(Messages)
      BY <2>2, <2>3
    <3>. QED BY <3>1, ConcatAssociative, SMTT(60)
  <2>7. b \o <<m>> = Append(b, m) /\ (a \o b) \o <<m>> = Append(a \o b, m)
    BY <2>2, <2>3, <2>5, AppendIsConcat
  <2>8. Numbers(sentBy[i] + 1) = Append(Numbers(sentBy[i]), sentBy[i] + 1)
    BY NumbersNext DEF TypeOK
  <2>. QED BY <2>1, <2>4, <2>5, <2>6, <2>7, <2>8 DEF m
<1>2. ASSUME Receive, Side = i
      PROVE  Trail(i)' = Numbers(sentBy'[i])
  <2>1. PICK n \in 1..RecvMax :
          /\ n <= Len(toUs[i])
          /\ inbuf' = [inbuf EXCEPT ![i] = @ \o SubSeq(toUs[i], 1, n)]
          /\ toUs' = [toUs EXCEPT ![i] = SubSeq(@, n + 1, Len(@))]
    BY <1>2 DEF Receive
  <2> DEFINE x == SubSeq(toUs[i], 1, n)
             c == SubSeq(toUs[i], n + 1, Len(toUs[i]))
             a == given[o] \o out[o]
             b == inbuf[i]
  <2>2. a \in Seq(Messages) /\ b \in Seq(Messages) /\ toUs[i] \in Seq(Messages)
    BY TrailType
  <2>3. n \in 0..Len(toUs[i])
    BY <2>1, <2>2, LenProperties, SessionAssumption
  <2>4. toUs[i] = x \o c /\ x \in Seq(Messages) /\ c \in Seq(Messages)
    BY <2>2, <2>3, CutConcat
  <2>5. inbuf'[i] = b \o x /\ toUs'[i] = c
    BY <2>1 DEF TypeOK
  <2>6. given' = given /\ out' = out /\ sentBy' = sentBy
    BY <1>2 DEF Receive
  <2>7. Trail(i)' = (a \o (b \o x)) \o c
    BY <2>5, <2>6 DEF Trail
  <2>8. Trail(i) = (a \o b) \o (x \o c)
    BY <2>4 DEF Trail
  <2>. HIDE DEF a, b, c, x
  <2>9. (a \o (b \o x)) \o c = (a \o b) \o (x \o c)
    <3>1. a \in Seq(Messages) /\ b \in Seq(Messages) /\ x \in Seq(Messages) /\ c \in Seq(Messages)
      BY <2>2, <2>4
    <3>2. b \o x \in Seq(Messages) /\ a \o b \in Seq(Messages)
      BY <3>1, ConcatProperties
    <3>3. a \o (b \o x) = (a \o b) \o x
      <4>1. a \in Seq(Messages) /\ b \in Seq(Messages) /\ x \in Seq(Messages)
        BY <3>1
      <4>. QED BY <4>1, ConcatAssociative, SMTT(60)
    <3>4. ((a \o b) \o x) \o c = (a \o b) \o (x \o c)
      <4>1. a \o b \in Seq(Messages) /\ x \in Seq(Messages) /\ c \in Seq(Messages)
        BY <3>1, <3>2
      <4>. QED BY <4>1, ConcatAssociative, SMTT(60)
    <3>. QED BY <3>3, <3>4
  <2>. QED BY <2>6, <2>7, <2>8, <2>9
<1>3. ASSUME Mediate, Side = i
      PROVE  Trail(i)' = Numbers(sentBy'[i])
  <2> DEFINE h == Head(inbuf[i])
             x == <<h>>
             t == Tail(inbuf[i])
             g == given[o]
             b == out[o]
             u == toUs[i]
  <2>1. /\ inbuf[i] # <<>> /\ inbuf' = [inbuf EXCEPT ![i] = t]
        /\ out' = [out EXCEPT ![o] = Append(@, h)]
        /\ given' = given /\ toUs' = toUs /\ sentBy' = sentBy
    BY <1>3 DEF Mediate, kernelVars
  <2>2. /\ g \in Seq(Messages) /\ b \in Seq(Messages) /\ inbuf[i] \in Seq(Messages)
        /\ u \in Seq(Messages)
    BY TrailType
  <2>3. inbuf[i] = x \o t /\ x \in Seq(Messages) /\ t \in Seq(Messages) /\ h \in Messages
    BY <2>1, <2>2, HeadTailConcat
  <2>4. Append(b, h) = b \o x
    BY <2>2, <2>3, AppendIsConcat
  <2>5. inbuf'[i] = t /\ out'[o] = b \o x
    BY <1>0, <2>1, <2>4 DEF TypeOK
  <2>6. Trail(i)' = ((g \o (b \o x)) \o t) \o u
    BY <2>1, <2>5 DEF Trail
  <2>7. Trail(i) = ((g \o b) \o (x \o t)) \o u
    BY <2>3 DEF Trail
  <2>. HIDE DEF g, b, x, t, u
  <2>8. (g \o (b \o x)) \o t = (g \o b) \o (x \o t)
    <3>1. g \in Seq(Messages) /\ b \in Seq(Messages) /\ x \in Seq(Messages) /\ t \in Seq(Messages)
      BY <2>2, <2>3
    <3>2. b \o x \in Seq(Messages) /\ g \o b \in Seq(Messages)
      BY <3>1, ConcatProperties
    <3>3. g \o (b \o x) = (g \o b) \o x
      <4>1. g \in Seq(Messages) /\ b \in Seq(Messages) /\ x \in Seq(Messages)
        BY <3>1
      <4>. QED BY <4>1, ConcatAssociative, SMTT(60)
    <3>4. ((g \o b) \o x) \o t = (g \o b) \o (x \o t)
      <4>1. g \o b \in Seq(Messages) /\ x \in Seq(Messages) /\ t \in Seq(Messages)
        BY <3>1, <3>2
      <4>. QED BY <4>1, ConcatAssociative, SMTT(60)
    <3>. QED BY <3>3, <3>4
  <2>. QED BY <2>1, <2>6, <2>7, <2>8
<1>4. ASSUME SendChunk, Target = o
      PROVE  Trail(i)' = Numbers(sentBy'[i])
  <2> DEFINE x == FirstChunk(out[o])
             rest == SubSeq(out[o], Len(x) + 1, Len(out[o]))
             g == given[o]
  <2>1. /\ given' = [given EXCEPT ![o] = @ \o x]
        /\ out' = [out EXCEPT ![o] = rest]
        /\ inbuf' = inbuf /\ toUs' = toUs /\ sentBy' = sentBy
    BY <1>4 DEF SendChunk
  <2>2. g \in Seq(Messages) /\ out[o] \in Seq(Messages)
    BY TrailType
  <2>3. out[o] = x \o rest /\ x \in Seq(Messages) /\ rest \in Seq(Messages)
    BY <2>2, FirstChunkProps
  <2>. HIDE DEF x, rest
  <2>4. given'[o] = g \o x /\ out'[o] = rest
    BY <1>0, <2>1 DEF TypeOK
  <2>. HIDE DEF g
  <2>5. (g \o x) \o rest = g \o (x \o rest)
    <3>1. g \in Seq(Messages) /\ x \in Seq(Messages) /\ rest \in Seq(Messages)
      BY <2>2, <2>3
    <3>. QED BY <3>1, ConcatAssociative, SMTT(60)
  <2>6. given'[o] \o out'[o] = g \o out[o]
    BY <2>3, <2>4, <2>5
  <2>7. Trail(i)' = ((given'[o] \o out'[o]) \o inbuf[i]) \o toUs[i]
    BY <2>1 DEF Trail
  <2>. QED BY <2>1, <2>6, <2>7 DEF Trail, g
<1>5. ASSUME /\ given'[o] = given[o] /\ out'[o] = out[o]
             /\ inbuf'[i] = inbuf[i] /\ toUs'[i] = toUs[i] /\ sentBy'[i] = sentBy[i]
      PROVE  Trail(i)' = Numbers(sentBy'[i])
  BY <1>5 DEF Trail
<1>. USE <1>5
<1>6. ASSUME NEW j \in Sides, PeerSends(j), j # i
      PROVE  Trail(i)' = Numbers(sentBy'[i])
  BY <1>6 DEF PeerSends, bufVars, TypeOK
<1>7. ASSUME Receive, Side # i
      PROVE  Trail(i)' = Numbers(sentBy'[i])
  BY <1>7 DEF Receive, TypeOK
<1>8. ASSUME Mediate, Side # i
      PROVE  Trail(i)' = Numbers(sentBy'[i])
  <2>1. Side \in Sides
    BY <1>8, AtWork DEF Mediate, Live
  <2>2. Other(Side) # o
    BY <1>8, <2>1, SidesProps
  <2>. QED BY <1>8, <2>2 DEF Mediate, TypeOK, kernelVars
<1>9. ASSUME SendChunk, Target # o
      PROVE  Trail(i)' = Numbers(sentBy'[i])
  BY <1>9 DEF SendChunk, TypeOK
<1>10. CASE \/ UNCHANGED vars \/ Wait \/ HandleError \/ HandleOutput \/ HandleInput
            \/ ReceiveFails \/ InputEnds \/ MediatePanics \/ PopDone
            \/ SendRefused \/ SendFails \/ FlushReturns
            \/ \E j \in Sides : PeerReads(j) \/ PeerCloses(j)
  <2>1. /\ given' = given /\ out' = out /\ inbuf' = inbuf /\ toUs' = toUs
        /\ sentBy' = sentBy
    BY <1>10 DEF vars, bufVars, kernelVars, Wait, HandleError, HandleOutput, HandleInput,
                 ReceiveFails, InputEnds, MediatePanics, PopDone, SendRefused, SendFails,
                 FlushReturns, PeerReads, PeerCloses
  <2>. QED BY <2>1
<1>. QED BY <1>1, <1>2, <1>3, <1>4, <1>6, <1>7, <1>8, <1>9, <1>10 DEF Next, SessionStep

\* Whatever is refused, cut, left half received or ended early, each message a side
\* sent is at one place, and in order.
THEOREM NoMessageLost == Spec => []NothingLost
<1>1. Init => NothingLost
  <2>. SUFFICES ASSUME Init, NEW i \in Sides PROVE Trail(i) = Numbers(sentBy[i])
    BY NothingLostIsTrail
  <2>1. /\ given[Other(i)] = <<>> /\ out[Other(i)] = <<>> /\ inbuf[i] = <<>> /\ toUs[i] = <<>>
        /\ sentBy[i] = 0
    BY SidesProps DEF Init
  <2>2. <<>> \o <<>> = <<>>
    BY ConcatEmptySeq, EmptySeq
  <2>3. Numbers(0) = <<>>
    BY DEF Numbers
  <2>. QED BY <2>1, <2>2, <2>3 DEF Trail
<1>2. TypeOK /\ NothingLost /\ [Next]_vars => NothingLost'
  <2>. SUFFICES ASSUME TypeOK, NothingLost, [Next]_vars PROVE NothingLost'
    OBVIOUS
  <2>1. ASSUME NEW i \in Sides PROVE Trail(i)' = Numbers(sentBy'[i])
    BY NothingLostIsTrail, TrailStep
  <2>. QED BY <2>1 DEF NothingLost, Trail, Numbers
<1>. QED BY <1>1, <1>2, TypeCorrect, PTL DEF Spec

-----------------------------------------------------------------------------
(* Nothing is left behind. *)

\* What goes on without the session.
Peers == \E i \in Sides : PeerSends(i) \/ PeerReads(i) \/ PeerCloses(i)

LEMMA PeersKeep ==
    ASSUME Peers \/ UNCHANGED vars
    PROVE  /\ out' = out /\ refused' = refused /\ inbuf' = inbuf
           /\ pc' = pc /\ todo' = todo /\ received' = received /\ flushes' = flushes /\ why' = why
BY DEF Peers, PeerSends, PeerReads, PeerCloses, bufVars, ctlVars, vars

\* A session that ends by anything but a hang-up.
Breaks == MediatePanics \/ ReceiveFails \/ SendFails

LEMMA BreaksProps ==
    ASSUME Breaks
    PROVE  pc' = "over" /\ why' # "hangUp"
BY DEF Breaks, MediatePanics, ReceiveFails, SendFails, End

LEMMA Steps ==
    ASSUME [Next]_vars
    PROVE  \/ Peers \/ UNCHANGED vars \/ Breaks \/ Wait
           \/ HandleError \/ HandleOutput \/ HandleInput
           \/ Receive \/ InputEnds \/ Mediate \/ PopDone
           \/ SendChunk \/ SendRefused \/ FlushReturns
BY DEF Next, SessionStep, Peers, Breaks

\* The two ways in which a flush returns.
LEMMA FlushReturnsProps ==
    ASSUME TypeOK, FlushReturns
    PROVE  /\ out' = out /\ refused' = refused /\ inbuf' = inbuf /\ received' = received
           /\ toUs' = toUs /\ toPeer' = toPeer /\ open' = open /\ edge' = edge /\ why' = why
           /\ \/ pc = "lazy" /\ pc' = "mediate" /\ todo' = todo /\ flushes' = flushes
              \/ /\ pc = "flush" /\ flushes # <<>> /\ flushes' = Tail(flushes) /\ Len(flushes) # 1
                 /\ pc' = pc /\ todo' = todo
              \/ /\ pc = "flush" /\ Len(flushes) = 1 /\ flushes' = Tail(flushes)
                 /\ Continue /\ pc' \in {"next", "wait"}
BY DEF FlushReturns, Flushing, bufVars, kernelVars, Continue

LEMMA InHandlerStep ==
    ASSUME TypeOK, InHandler, [Next]_vars
    PROVE  InHandler'
<1>1. CASE Peers \/ UNCHANGED vars \/ SendChunk \/ SendRefused
  <2>1. inbuf' = inbuf /\ pc' = pc /\ todo' = todo /\ received' = received /\ why' = why
    BY <1>1, PeersKeep DEF SendChunk, SendRefused, ctlVars
  <2>. QED BY <2>1 DEF InHandler, Live, Side
<1>2. CASE Breaks
  BY <1>2, BreaksProps DEF InHandler, Live
<1>3. CASE Wait \/ HandleError
  <2>1. /\ pc \in {"wait", "next"} /\ pc' \in {"wait", "next", "over"} /\ inbuf' = inbuf
    BY <1>3 DEF Wait, HandleError, At, End, bufVars
  <2>2. \A i \in Sides : inbuf[i] = <<>>
    BY <2>1 DEF InHandler, Live
  <2>. QED BY <2>1, <2>2 DEF InHandler, Live
<1>4. CASE HandleOutput \/ HandleInput
  <2>1. /\ pc = "next" /\ todo' = todo /\ inbuf' = inbuf
        /\ \/ Head(todo).flag = "out" /\ pc' = "flush"
           \/ Head(todo).flag = "in" /\ pc' = "receive"
    BY <1>4 DEF HandleOutput, HandleInput, At, bufVars
  <2>2. \A i \in Sides : inbuf[i] = <<>>
    BY <2>1 DEF InHandler, Live
  <2>. QED BY <2>1, <2>2 DEF InHandler, Live
<1>5. CASE Receive
  <2>1. Side \in Sides /\ pc = "receive" /\ pc' = "mediate" /\ todo' = todo
    BY <1>5, AtWork DEF Receive, Live
  <2>2. PICK n \in 1..RecvMax :
          /\ n <= Len(toUs[Side])
          /\ inbuf' = [inbuf EXCEPT ![Side] = @ \o SubSeq(toUs[Side], 1, n)]
    BY <1>5 DEF Receive
  <2>3. \A i \in Sides : inbuf[i] = <<>>
    BY <2>1 DEF InHandler, Live
  <2>4. inbuf'[Side] # <<>>
    <3> DEFINE s == inbuf[Side]
               u == SubSeq(toUs[Side], 1, n)
    <3>1. toUs[Side] \in Seq(Messages) /\ s \in Seq(Messages) /\ Len(toUs[Side]) \in Nat
      BY <2>1, LenProperties DEF TypeOK
    <3>2. n \in 1..Len(toUs[Side])
      BY <2>2, <3>1, SessionAssumption
    <3>3. u \in Seq(Messages) /\ Len(u) = n
      BY <3>1, <3>2, CutConcat
    <3>. HIDE DEF s, u
    <3>4. Len(s \o u) = Len(s) + Len(u) /\ Len(s) \in Nat /\ s \o u \in Seq(Messages)
      BY <3>1, <3>3, ConcatProperties, LenProperties
    <3>5. s \o u # <<>>
      BY <3>2, <3>3, <3>4, EmptySeq
    <3>. QED BY <2>1, <2>2, <3>5 DEF TypeOK, s, u
  <2>5. \A i \in Sides : i # Side => inbuf'[i] = inbuf[i]
    BY <2>1, <2>2 DEF TypeOK
  <2>6. Side' = Side
    BY <2>1 DEF Side
  <2>. QED BY <2>1, <2>3, <2>4, <2>5, <2>6 DEF InHandler, Live
<1>6. CASE InputEnds
  <2>1. pc = "receive" /\ inbuf' = inbuf
    BY <1>6 DEF InputEnds, bufVars
  <2>2. \A i \in Sides : inbuf[i] = <<>>
    BY <2>1 DEF InHandler, Live
  <2>3. \/ pc' = "flush" /\ todo' = todo
        \/ pc' \in {"wait", "next"}
    BY <1>6 DEF InputEnds, Continue
  <2>. QED BY <2>1, <2>2, <2>3 DEF InHandler, Live
<1>7. CASE Mediate
  <2>1. Side \in Sides /\ pc = "mediate" /\ pc' = "lazy" /\ todo' = todo /\ received' = TRUE
        /\ inbuf' = [inbuf EXCEPT ![Side] = Tail(@)]
    BY <1>7, AtWork DEF Mediate, Live
  <2>2. Side' = Side
    BY <2>1 DEF Side
  <2>3. \A i \in Sides : i # Side => inbuf'[i] = inbuf[i]
    BY <2>1 DEF TypeOK
  <2>. QED BY <2>1, <2>2, <2>3 DEF InHandler, Live
<1>8. CASE PopDone
  <2>1. pc = "mediate" /\ pc' = "receive" /\ todo' = todo /\ inbuf' = inbuf /\ inbuf[Side] = <<>>
    BY <1>8 DEF PopDone, bufVars
  <2>2. \A i \in Sides : inbuf[i] = <<>>
    BY <2>1 DEF InHandler, Live
  <2>. QED BY <2>1, <2>2 DEF InHandler, Live
<1>9. CASE FlushReturns
  <2>1. CASE pc = "lazy"
    <3>1. pc' = "mediate" /\ todo' = todo /\ inbuf' = inbuf /\ received' = received
      BY <1>9, <2>1, FlushReturnsProps
    <3>2. Side' = Side
      BY <3>1 DEF Side
    <3>. QED BY <2>1, <3>1, <3>2 DEF InHandler, Live
  <2>2. CASE pc # "lazy"
    <3>1. /\ pc = "flush" /\ inbuf' = inbuf
          /\ \/ pc' = "flush" /\ todo' = todo
             \/ pc' \in {"wait", "next"}
      BY <1>9, <2>2, FlushReturnsProps
    <3>2. \A i \in Sides : inbuf[i] = <<>>
      BY <3>1 DEF InHandler, Live
    <3>. QED BY <3>1, <3>2 DEF InHandler, Live
  <2>. QED BY <2>1, <2>2
<1>. QED BY <1>1, <1>2, <1>3, <1>4, <1>5, <1>6, <1>7, <1>8, <1>9, Steps

LEMMA FlushedStep ==
    ASSUME TypeOK, InHandler, FlushedOrRefused, [Next]_vars
    PROVE  FlushedOrRefused'
<1>1. CASE Peers \/ UNCHANGED vars
  <2>1. /\ out' = out /\ refused' = refused /\ pc' = pc /\ received' = received
        /\ flushes' = flushes /\ why' = why
    BY <1>1, PeersKeep
  <2>. QED BY <2>1 DEF FlushedOrRefused, Settled, Live
<1>2. CASE Breaks
  BY <1>2, BreaksProps DEF FlushedOrRefused, Live
<1>3. CASE Wait \/ HandleError \/ HandleInput
  <2>1. pc \in {"wait", "next"} /\ out' = out /\ refused' = refused
    BY <1>3 DEF Wait, HandleError, HandleInput, At, bufVars
  <2>2. \A i \in Sides : Settled(i)
    BY <2>1 DEF FlushedOrRefused
  <2>. QED BY <2>1, <2>2 DEF FlushedOrRefused, Settled
<1>4. CASE HandleOutput
  <2>1. /\ Side \in Sides /\ pc = "next" /\ pc' = "flush" /\ flushes' = <<Side>> /\ out' = out
        /\ refused' = [refused EXCEPT ![Side] = FALSE]
    BY <1>4, AtWork DEF HandleOutput, At, Live
  <2>2. \A i \in Sides : Settled(i)
    BY <2>1 DEF FlushedOrRefused
  <2>3. Len(flushes') = 1 /\ flushes'[1] = Side
    BY <2>1
  <2>4. \A i \in Sides : i # Side => Settled(i)'
    BY <2>1, <2>2 DEF Settled, TypeOK
  <2>. QED BY <2>1, <2>3, <2>4 DEF FlushedOrRefused, Live
<1>5. CASE Receive \/ Mediate
  <2>1. pc' \in {"mediate", "lazy"}
    BY <1>5 DEF Receive, Mediate
  <2>. QED BY <2>1 DEF FlushedOrRefused, Live
<1>6. CASE InputEnds
  <2>1. pc = "receive" /\ out' = out /\ refused' = refused
    BY <1>6 DEF InputEnds, bufVars
  <2>2. CASE received
    <3>1. pc' = "flush" /\ flushes' = <<0, 1>>
      BY <1>6, <2>2 DEF InputEnds
    <3>2. Len(flushes') = 2 /\ flushes'[1] = 0 /\ flushes'[2] = 1
      BY <3>1
    <3>. QED BY <3>1, <3>2 DEF FlushedOrRefused, Live, Sides
  <2>3. CASE ~received
    <3>1. \A i \in Sides : Settled(i)
      BY <2>1, <2>3 DEF FlushedOrRefused
    <3>. QED BY <2>1, <3>1 DEF FlushedOrRefused, Settled
  <2>. QED BY <2>2, <2>3
<1>7. CASE PopDone
  <2>1. pc = "mediate" /\ pc' = "receive" /\ inbuf[Side] = <<>> /\ received' = received
    BY <1>7 DEF PopDone
  <2>2. received'
    BY <2>1 DEF InHandler
  <2>. QED BY <2>1, <2>2 DEF FlushedOrRefused, Live
<1>8. CASE SendChunk \/ SendRefused
  <2>1. Target \in Sides /\ Live
    BY <1>8, TargetProps DEF SendChunk, SendRefused
  <2>2. pc' = pc /\ flushes' = flushes /\ received' = received /\ why' = why
    BY <1>8 DEF SendChunk, SendRefused, ctlVars
  <2>3. \A i \in Sides : i # Target => out'[i] = out[i] /\ refused'[i] = refused[i]
    BY <1>8, <2>1 DEF SendChunk, SendRefused, TypeOK
  <2>4. CASE pc = "lazy"
    BY <2>2, <2>4 DEF FlushedOrRefused, Live
  <2>5. CASE pc = "flush" /\ flushes # <<>>
    <3>1. Target = flushes[1] /\ 1 \in 1..Len(flushes)
      <4>1. flushes \in Seq(Sides)
        BY DEF TypeOK
      <4>2. Head(flushes) = flushes[1] /\ Len(flushes) \in Nat \ {0}
        BY <2>5, <4>1, HeadTailProperties, EmptySeq
      <4>. QED BY <2>5, <4>2 DEF Target
    <3>2. ASSUME NEW i \in Sides, \A k \in 1..Len(flushes) : flushes[k] # i
          PROVE  Settled(i)'
      <4>1. i # Target /\ Settled(i)
        BY <2>5, <3>1, <3>2 DEF FlushedOrRefused
      <4>. QED BY <2>3, <4>1 DEF Settled
    <3>. QED BY <2>2, <2>5, <3>2 DEF FlushedOrRefused, Live
  <2>. QED BY <1>8, <2>4, <2>5 DEF SendChunk, SendRefused, Flushing
<1>9. CASE FlushReturns
  <2>1. CASE pc = "lazy"
    <3>1. pc' = "mediate"
      BY <1>9, <2>1, FlushReturnsProps
    <3>. QED BY <3>1 DEF FlushedOrRefused, Live
  <2>2. CASE pc # "lazy"
    <3>1. /\ pc = "flush" /\ flushes # <<>> /\ flushes' = Tail(flushes)
          /\ out' = out /\ refused' = refused
          /\ pc' = "flush" \/ Len(flushes) = 1
      BY <1>9, <2>2, FlushReturnsProps DEF TypeOK, Live
    <3>2. /\ Len(flushes) \in Nat \ {0} /\ Target = flushes[1]
          /\ Len(flushes') = Len(flushes) - 1
          /\ \A k \in 1..Len(flushes') : flushes'[k] = flushes[k + 1]
      <4>1. flushes \in Seq(Sides)
        BY DEF TypeOK
      <4>. QED BY <3>1, <4>1, HeadTailProperties, EmptySeq DEF Target
    <3>3. Settled(Target)
      BY <1>9, <3>1 DEF FlushReturns, ToSend, Settled
    <3>4. ASSUME NEW i \in Sides, Len(flushes) = 1 \/ \A k \in 1..Len(flushes') : flushes'[k] # i
          PROVE  Settled(i)
      <4>1. ASSUME i # Target, NEW k \in 1..Len(flushes) PROVE flushes[k] # i
        <5>1. CASE k = 1
          BY <3>2, <4>1, <5>1
        <5>2. CASE k # 1
          <6>1. k - 1 \in 1..Len(flushes') /\ Len(flushes) # 1
            BY <3>2, <4>1, <5>2
          <6>2. flushes'[k - 1] = flushes[k]
            BY <3>2, <6>1
          <6>. QED BY <3>4, <6>1, <6>2
        <5>. QED BY <5>1, <5>2
      <4>2. i # Target => Settled(i)
        BY <3>1, <4>1 DEF FlushedOrRefused
      <4>. QED BY <3>3, <4>2
    <3>5. \A i \in Sides : Settled(i)' <=> Settled(i)
      BY <3>1 DEF Settled
    <3>6. pc' # "flush" => \A i \in Sides : Settled(i)'
      BY <3>1, <3>4, <3>5
    <3>7. \A i \in Sides : (\A k \in 1..Len(flushes') : flushes'[k] # i) => Settled(i)'
      BY <3>4, <3>5
    <3>. QED BY <3>6, <3>7 DEF FlushedOrRefused, Live
  <2>. QED BY <2>1, <2>2
<1>. QED BY <1>1, <1>2, <1>3, <1>4, <1>5, <1>6, <1>7, <1>8, <1>9, Steps

LEMMA NotDoneProps ==
    ASSUME TypeOK, Live, pc # "wait"
    PROVE  /\ todo[1].flag = "out" => (NotDone(1) <=> pc = "next")
           /\ todo[1].flag = "in" => (NotDone(1) <=> pc # "flush")
           /\ todo[1].flag = "hup" => NotDone(1)
           /\ todo[1].flag \in {"out", "in", "hup"}
<1>1. todo[1].flag \in {"out", "in", "hup"}
  BY AtWork
<1>. QED BY <1>1 DEF NotDone

\* A call that is due stays so while the handler at hand does not do it.
LEMMA DueStays ==
    ASSUME TypeOK, Live, pc # "wait", todo' = todo,
           NEW i \in Sides, NEW flag, NEW n \in Nat, n <= Len(todo), Due(i, flag, n),
           \/ todo[1] # [side |-> i, flag |-> flag]
           \/ flag = "hup"
           \/ flag = "in" /\ pc' # "flush"
           \/ flag = "out" /\ pc' = pc
    PROVE  Due(i, flag, n)'
<1>1. PICK k \in 1..n : todo[k] = [side |-> i, flag |-> flag] /\ NotDone(k)
  BY DEF Due
<1>2. todo'[k] = [side |-> i, flag |-> flag]
  BY <1>1
<1>3. NotDone(k)'
  <2>1. CASE k # 1
    BY <2>1 DEF NotDone
  <2>2. CASE k = 1
    <3>1. todo[1].flag = flag /\ todo'[1].flag = flag
      BY <1>1, <2>2
    <3>2. flag = "out" => pc = "next"
      BY <1>1, <2>2, <3>1, NotDoneProps
    <3>3. \/ flag = "hup"
          \/ flag = "in" /\ pc' # "flush"
          \/ flag = "out" /\ pc' = "next"
      BY <1>1, <2>2, <3>2
    <3>. QED BY <3>1, <3>3 DEF NotDone
  <2>. QED BY <2>1, <2>2
<1>. QED BY <1>2, <1>3 DEF Due

\* Calls behind one that is done come forward.
LEMMA DueForward ==
    ASSUME TypeOK, Live, pc # "wait", Continue,
           NEW i \in Sides, NEW flag \in {"out", "in", "hup"},
           NEW n \in Nat, n <= Len(todo), Due(i, flag, n),
           ~NotDone(1) \/ todo[1] # [side |-> i, flag |-> flag]
    PROVE  Due(i, flag, n - 1)'
<1>1. PICK k \in 1..n : todo[k] = [side |-> i, flag |-> flag] /\ NotDone(k)
  BY DEF Due
<1>2. k # 1
  BY <1>1
<1>3. /\ todo' = Tail(todo) /\ Len(todo) \in Nat \ {0} /\ Len(todo') = Len(todo) - 1
      /\ \A j \in 1..Len(todo') : todo'[j] = todo[j + 1]
  BY AtWork, ContinueProps
<1>4. k - 1 \in 1..(n - 1) /\ k - 1 \in 1..Len(todo') /\ k - 1 + 1 = k
  BY <1>1, <1>2, <1>3
<1>5. todo'[k - 1] = [side |-> i, flag |-> flag]
  BY <1>1, <1>3, <1>4
<1>6. pc' = "next"
  BY <1>3, <1>4 DEF Continue
<1>7. NotDone(k - 1)'
  <2>1. CASE k - 1 = 1
    <3>1. todo'[1] = [side |-> i, flag |-> flag]
      BY <1>5, <2>1
    <3>2. todo'[1].flag = flag
      BY <3>1
    <3>3. NotDone(1)'
      BY <1>6, <3>2 DEF NotDone
    <3>. QED BY <2>1, <3>3
  <2>2. CASE k - 1 # 1
    <3>1. \A m \in Nat : m # 1 => NotDone(m)'
      BY DEF NotDone
    <3>. QED BY <1>4, <2>2, <3>1
  <2>. QED BY <2>1, <2>2
<1>. QED BY <1>4, <1>5, <1>7 DEF Due

\* The calls that a wait brings, each behind those of its descriptor that come before.
LEMMA WaitBrings ==
    ASSUME TypeOK, Wait
    PROVE  /\ \A i \in Sides : edge[i] =>
                 \A flag \in Flags(i) : \E k \in 1..Len(todo') :
                     todo'[k] = [side |-> i, flag |-> flag]
           /\ \A k \in 1..Len(todo') : todo'[k].flag = "hup" =>
                 LET i == todo'[k].side
                 IN  /\ i \in Sides /\ "hup" \in Flags(i)
                     /\ "in" \in Flags(i) =>
                           \E j \in 1..(k - 1) : todo'[j] = [side |-> i, flag |-> "in"]
           /\ Len(todo') \in Nat
<1>1. PICK i \in Sides : \E s, t \in Seq(Call) :
               /\ s = IF edge[i] THEN Calls(i, Flags(i)) ELSE <<>>
               /\ t = IF edge[Other(i)] THEN Calls(Other(i), Flags(Other(i))) ELSE <<>>
               /\ todo' = s \o t
  BY WaitProps
<1>2. PICK s, t \in Seq(Call) :
               /\ s = IF edge[i] THEN Calls(i, Flags(i)) ELSE <<>>
               /\ t = IF edge[Other(i)] THEN Calls(Other(i), Flags(Other(i))) ELSE <<>>
               /\ todo' = s \o t
  BY <1>1
<1> DEFINE o == Other(i)
           Fits(q, j) ==
               /\ Len(q) \in Nat
               /\ edge[j] => \A flag \in Flags(j) : \E k \in 1..Len(q) :
                                 q[k] = [side |-> j, flag |-> flag]
               /\ \A k \in 1..Len(q) : q[k].side = j /\ q[k].flag \in Flags(j)
               /\ \A k \in 1..Len(q) : q[k].flag = "hup" /\ "in" \in Flags(j) =>
                     \E m \in 1..(k - 1) : q[m] = [side |-> j, flag |-> "in"]
<1>3. ASSUME NEW j \in Sides, NEW q, q = IF edge[j] THEN Calls(j, Flags(j)) ELSE <<>>
      PROVE  Fits(q, j)
  <2>1. CASE edge[j]
    <3>1. q = Calls(j, Flags(j))
      BY <1>3, <2>1
    <3>. QED BY <3>1, CallsProps, FlagsProps, SMTT(60)
  <2>2. CASE ~edge[j]
    <3>1. q = <<>> /\ Len(q) = 0
      BY <1>3, <2>2
    <3>. QED BY <2>2, <3>1
  <2>. QED BY <2>1, <2>2
<1>4. Fits(s, i) /\ Fits(t, o) /\ o \in Sides
  BY <1>2, <1>3, SidesProps
<1> DEFINE a == Len(s)
           b == Len(t)
<1>5. /\ Len(todo') = a + b /\ a \in Nat /\ b \in Nat
      /\ \A k \in 1..(a + b) : todo'[k] = IF k <= a THEN s[k] ELSE t[k - a]
  <2>1. s \in Seq(Call) /\ t \in Seq(Call)
    OBVIOUS
  <2>2. /\ Len(s \o t) = Len(s) + Len(t)
        /\ \A k \in 1..(Len(s) + Len(t)) : (s \o t)[k] = IF k <= Len(s) THEN s[k] ELSE t[k - Len(s)]
    BY <2>1, ConcatProperties
  <2>. QED BY <1>2, <1>4, <2>2
<1>. HIDE DEF a, b, o
<1>6. ASSUME NEW j \in Sides, edge[j], NEW flag \in Flags(j)
      PROVE  \E k \in 1..Len(todo') : todo'[k] = [side |-> j, flag |-> flag]
  <2>1. CASE j = i
    <3>1. PICK k \in 1..a : s[k] = [side |-> i, flag |-> flag]
      BY <1>4, <1>6, <2>1 DEF a
    <3>2. k \in 1..(a + b) /\ k <= a
      BY <1>5
    <3>. QED BY <1>5, <2>1, <3>1, <3>2
  <2>2. CASE j = o
    <3>1. PICK k \in 1..b : t[k] = [side |-> o, flag |-> flag]
      BY <1>4, <1>6, <2>2 DEF b
    <3>2. k + a \in 1..(a + b) /\ ~(k + a <= a) /\ k + a - a = k
      BY <1>5
    <3>3. todo'[k + a] = t[k]
      BY <1>5, <3>2
    <3>. QED BY <1>5, <2>2, <3>1, <3>2, <3>3
  <2>. QED BY <2>1, <2>2, SidesProps DEF o
<1>7. ASSUME NEW k \in 1..Len(todo'), todo'[k].flag = "hup"
      PROVE  LET j == todo'[k].side
             IN  /\ j \in Sides /\ "hup" \in Flags(j)
                 /\ "in" \in Flags(j) =>
                       \E m \in 1..(k - 1) : todo'[m] = [side |-> j, flag |-> "in"]
  <2>1. CASE k <= a
    <3>1. todo'[k] = s[k] /\ k \in 1..a
      BY <1>5, <2>1
    <3>2. todo'[k].side = i /\ "hup" \in Flags(i)
      BY <1>4, <1>7, <3>1 DEF a
    <3>3. ASSUME "in" \in Flags(i)
          PROVE  \E m \in 1..(k - 1) : todo'[m] = [side |-> i, flag |-> "in"]
      <4>1. PICK m \in 1..(k - 1) : s[m] = [side |-> i, flag |-> "in"]
        BY <1>4, <1>7, <3>1, <3>3 DEF a
      <4>2. m \in 1..(a + b) /\ m <= a
        BY <1>5, <3>1
      <4>. QED BY <1>5, <4>1, <4>2
    <3>. QED BY <3>2, <3>3
  <2>2. CASE ~(k <= a)
    <3>1. todo'[k] = t[k - a] /\ k - a \in 1..b
      BY <1>5, <2>2
    <3>2. todo'[k].side = o /\ "hup" \in Flags(o)
      BY <1>4, <1>7, <3>1 DEF b
    <3>3. ASSUME "in" \in Flags(o)
          PROVE  \E m \in 1..(k - 1) : todo'[m] = [side |-> o, flag |-> "in"]
      <4>1. PICK m \in 1..(k - a - 1) : t[m] = [side |-> o, flag |-> "in"]
        BY <1>4, <1>7, <3>1, <3>3 DEF b
      <4>2. m + a \in 1..(a + b) /\ ~(m + a <= a) /\ m + a - a = m /\ m + a \in 1..(k - 1)
        BY <1>5, <3>1
      <4>3. todo'[m + a] = t[m]
        BY <1>5, <4>2
      <4>. QED BY <4>1, <4>2, <4>3
    <3>. QED BY <1>4, <3>2, <3>3
  <2>. QED BY <2>1, <2>2
<1>. QED BY <1>5, <1>6, <1>7, SMTT(60)

LEMMA UsedType ==
    ASSUME TypeOK, NEW i \in Sides
    PROVE  Used(i) \in Nat
<1>1. toPeer[i] \in Seq(Seq(Messages))
  BY DEF TypeOK
<1>2. FlattenSeq(toPeer[i]) \in Seq(Messages)
  BY <1>1, FlattenType
<1>. QED BY <1>2, LenProperties DEF Used

LEMMA DueSame ==
    ASSUME pc' = pc, todo' = todo, NEW i, NEW flag, NEW n, Due(i, flag, n)
    PROVE  Due(i, flag, n)'
<1>1. PICK k \in 1..n : todo[k] = [side |-> i, flag |-> flag] /\ NotDone(k)
  BY DEF Due
<1>2. NotDone(k)'
  BY <1>1 DEF NotDone
<1>. QED BY <1>1, <1>2 DEF Due

\* What a side has to be told of, and a call that is due to it.
Told(i, flag) == edge[i] \/ Due(i, flag, Len(todo))

LEMMA ChangesStep ==
    ASSUME TypeOK, QuietInv, [Next]_vars
    PROVE  ChangesSeen'
<1>. SUFFICES ASSUME Live', NEW i \in Sides
             PROVE  /\ toUs'[i] # <<>> => Told(i, "in")'
                    /\ ~open'[i] => Told(i, "hup")'
                    /\ refused'[i] /\ Writable(i)' => Told(i, "out")'
  BY DEF ChangesSeen, Told
<1>1. Live
  BY PeersKeep, Steps DEF Live, Breaks, MediatePanics, ReceiveFails, SendFails, Flushing, Wait,
         HandleError, HandleOutput, HandleInput, At, Receive, InputEnds, Mediate, PopDone,
         SendChunk, SendRefused, FlushReturns
<1>2. /\ toUs[i] # <<>> => Told(i, "in")
      /\ ~open[i] => Told(i, "hup")
      /\ refused[i] /\ Writable(i) => Told(i, "out")
  BY <1>1 DEF QuietInv, ChangesSeen, Told
<1>3. CASE Peers \/ UNCHANGED vars
  <2>1. pc' = pc /\ todo' = todo /\ refused' = refused
    BY <1>3, PeersKeep
  <2>2. \A flag : Told(i, flag) => Told(i, flag)' \/ edge[i]
    BY <2>1, DueSame DEF Told
  <2>3. /\ edge[i] => edge'[i]
        /\ toUs'[i] # <<>> => toUs[i] # <<>> \/ edge'[i]
        /\ ~open'[i] => ~open[i] \/ edge'[i]
        /\ Writable(i)' => Writable(i) \/ edge'[i]
    <3>1. CASE UNCHANGED vars
      BY <3>1 DEF vars, kernelVars, Writable, Used
    <3>2. ASSUME NEW j \in Sides, PeerSends(j)
          PROVE  <2>3!:
      BY <3>2 DEF PeerSends, TypeOK, Writable, Used
    <3>3. ASSUME NEW j \in Sides, PeerCloses(j)
          PROVE  <2>3!:
      BY <3>3 DEF PeerCloses, TypeOK, Writable, Used
    <3>4. ASSUME NEW j \in Sides, PeerReads(j)
          PROVE  <2>3!:
      <4>1. /\ toUs' = toUs /\ open' = open
            /\ toPeer' = [toPeer EXCEPT ![j] = Tail(@)]
            /\ edge' = [edge EXCEPT ![j] = @ \/ Writable(j)']
        BY <3>4 DEF PeerReads
      <4>2. edge'[j] <=> edge[j] \/ Writable(j)'
        BY <4>1 DEF TypeOK
      <4>3. i # j => toPeer'[i] = toPeer[i] /\ edge'[i] = edge[i]
        BY <4>1 DEF TypeOK
      <4>4. i # j => (Writable(i)' <=> Writable(i))
        BY <4>3 DEF Writable, Used
      <4>. QED BY <4>1, <4>2, <4>3, <4>4
    <3>. QED BY <1>3, <3>1, <3>2, <3>3, <3>4 DEF Peers
  <2>. QED BY <1>2, <2>1, <2>2, <2>3 DEF Told
<1>4. CASE SendChunk \/ SendRefused
  <2>1. /\ Target \in Sides /\ pc' = pc /\ todo' = todo /\ edge' = edge
        /\ toUs' = toUs /\ open' = open
    BY <1>4, TargetProps DEF SendChunk, SendRefused, ctlVars, kernelVars
  <2>2. \A flag : Told(i, flag) => Told(i, flag)'
    BY <2>1, DueSame DEF Told
  <2>3. refused'[i] /\ Writable(i)' => refused[i] /\ Writable(i)
    <3>1. CASE i # Target
      <4>1. refused'[i] = refused[i] /\ toPeer'[i] = toPeer[i]
        BY <1>4, <2>1, <3>1 DEF SendChunk, SendRefused, TypeOK, kernelVars
      <4>. QED BY <4>1 DEF Writable, Used
    <3>2. CASE i = Target /\ SendChunk
      BY <3>2 DEF SendChunk, ToSend
    <3>3. CASE i = Target /\ SendRefused
      <4>1. Used(i) >= SockCap /\ toPeer' = toPeer
        BY <3>3 DEF SendRefused, kernelVars
      <4>2. ~(Used(i) <= Mark)
        BY <4>1, UsedType, SessionAssumption
      <4>3. ~Writable(i)'
        BY <4>1, <4>2 DEF Writable, Used
      <4>. QED BY <4>3
    <3>. QED BY <1>4, <3>1, <3>2, <3>3
  <2>. QED BY <1>2, <2>1, <2>2, <2>3
<1>5. ASSUME Live, pc # "wait", edge' = edge, toPeer' = toPeer, open' = open,
             toUs'[i] # <<>> => toUs[i] # <<>>,
             refused'[i] => refused[i],
             \A flag \in {"out", "in", "hup"} : Due(i, flag, Len(todo)) =>
                 \/ Due(i, flag, Len(todo))'
                 \/ flag = "in" /\ toUs'[i] = <<>>
                 \/ flag = "out" /\ ~refused'[i],
             todo' = todo
      PROVE  /\ toUs'[i] # <<>> => Told(i, "in")'
             /\ ~open'[i] => Told(i, "hup")'
             /\ refused'[i] /\ Writable(i)' => Told(i, "out")'
  <2>1. Writable(i)' <=> Writable(i)
    BY <1>5 DEF Writable, Used
  <2>. QED BY <1>2, <1>5, <2>1 DEF Told
<1>6. ASSUME pc # "wait", Continue, Head(todo).flag = "in" \/ pc = "flush",
             Head(todo).flag = "in" /\ pc # "flush" => toUs[Side] = <<>>,
             pc = "flush" => Head(todo).flag \in {"in", "out"},
             edge' = edge, toPeer' = toPeer, open' = open, toUs' = toUs, refused' = refused
      PROVE  /\ toUs'[i] # <<>> => Told(i, "in")'
             /\ ~open'[i] => Told(i, "hup")'
             /\ refused'[i] /\ Writable(i)' => Told(i, "out")'
  <2>1. Len(todo) \in Nat \ {0} /\ Len(todo') = Len(todo) - 1 /\ todo[1] = Head(todo)
    BY <1>1, <1>6, AtWork, ContinueProps
  <2>2. ASSUME NEW flag \in {"out", "in", "hup"}, Due(i, flag, Len(todo)),
               flag = "in" => toUs[i] # <<>>
        PROVE  Due(i, flag, Len(todo))'
    <3>1. ~NotDone(1) \/ todo[1] # [side |-> i, flag |-> flag]
      <4>1. CASE pc = "flush"
        BY <1>1, <1>6, <2>1, <4>1, NotDoneProps
      <4>2. CASE pc # "flush"
        <5>1. todo[1] = [side |-> i, flag |-> flag] => flag = "in" /\ i = Side
          BY <1>6, <2>1, <4>2 DEF Side
        <5>. QED BY <1>6, <2>2, <4>2, <5>1
      <4>. QED BY <4>1, <4>2
    <3>2. PICK n \in Nat : n = Len(todo)
      BY <2>1
    <3>3. Due(i, flag, n) /\ n <= Len(todo)
      BY <2>2, <3>2
    <3>4. Due(i, flag, n - 1)'
      BY <1>1, <1>6, <3>1, <3>3, DueForward
    <3>5. Len(todo') = n - 1
      BY <2>1, <3>2
    <3>. QED BY <3>4, <3>5 DEF Due
  <2>3. Writable(i)' <=> Writable(i)
    BY <1>6 DEF Writable, Used
  <2>4. \A flag \in {"out", "in", "hup"} : (flag = "in" => toUs[i] # <<>>) /\ Told(i, flag) => Told(i, flag)'
    BY <1>6, <2>2 DEF Told
  <2>. QED BY <1>2, <1>6, <2>3, <2>4
<1>7. CASE HandleOutput
  <2>1. /\ pc = "next" /\ pc' = "flush" /\ todo' = todo /\ edge' = edge /\ toPeer' = toPeer
        /\ open' = open /\ toUs' = toUs /\ refused' = [refused EXCEPT ![Side] = FALSE]
        /\ Side \in Sides /\ Head(todo).flag = "out"
        /\ todo[1] = Head(todo) /\ Len(todo) \in Nat
    BY <1>1, <1>7, AtWork DEF HandleOutput, At, kernelVars
  <2>2. refused'[i] => refused[i] /\ i # Side
    BY <2>1 DEF TypeOK
  <2>3. ASSUME NEW flag \in {"out", "in", "hup"}, Due(i, flag, Len(todo)), flag = "out" => refused'[i]
        PROVE  Due(i, flag, Len(todo))'
    <3>1. todo[1] # [side |-> i, flag |-> flag]
      BY <2>1, <2>2, <2>3 DEF Side
    <3>. QED BY <1>1, <2>1, <2>3, <3>1, DueStays
  <2>4. \A flag \in {"out", "in", "hup"} : Due(i, flag, Len(todo)) =>
            Due(i, flag, Len(todo))' \/ (flag = "out" /\ ~refused'[i])
    BY <2>1, <2>3
  <2>. QED BY <1>1, <1>5, <2>1, <2>2, <2>4
<1>8. CASE HandleInput \/ Receive \/ Mediate \/ PopDone
  <2>1. /\ pc # "wait" /\ pc' # "flush" /\ todo' = todo /\ edge' = edge /\ toPeer' = toPeer
        /\ open' = open /\ refused' = refused
    BY <1>8 DEF HandleInput, At, Receive, Mediate, PopDone, kernelVars, bufVars
  <2>2. toUs'[i] # <<>> => toUs[i] # <<>>
    <3>1. CASE Receive
      BY <1>1, <2>1, <3>1, AtWork DEF Receive, TypeOK
    <3>2. CASE HandleInput \/ Mediate \/ PopDone
      BY <3>2 DEF HandleInput, Mediate, PopDone, kernelVars
    <3>. QED BY <1>8, <3>1, <3>2
  <2>3. /\ Head(todo).flag = "in" /\ todo[1] = Head(todo) /\ Len(todo) \in Nat
    BY <1>1, <1>8, <2>1, AtWork DEF HandleInput, At, Receive, Mediate, PopDone, QuietInv, InHandler
  <2>4. ASSUME NEW flag \in {"out", "in", "hup"}, Due(i, flag, Len(todo))
        PROVE  Due(i, flag, Len(todo))'
    <3>1. flag # "in" => todo[1] # [side |-> i, flag |-> flag]
      BY <2>3
    <3>. QED BY <1>1, <2>1, <2>3, <2>4, <3>1, DueStays
  <2>. QED BY <1>1, <1>5, <2>1, <2>2, <2>4
<1>9. CASE InputEnds
  <2>1. /\ pc = "receive" /\ toUs[Side] = <<>> /\ edge' = edge /\ toPeer' = toPeer
        /\ open' = open /\ refused' = refused /\ toUs' = toUs
    BY <1>9 DEF InputEnds, kernelVars, bufVars
  <2>2. Head(todo).flag = "in" /\ todo[1] = Head(todo) /\ Len(todo) \in Nat
    BY <1>1, <2>1, AtWork DEF QuietInv, InHandler
  <2>3. CASE received
    <3>1. pc' = "flush" /\ todo' = todo
      BY <1>9, <2>3 DEF InputEnds
    <3>2. ASSUME NEW flag \in {"out", "in", "hup"}, Due(i, flag, Len(todo)), flag = "in" => toUs'[i] # <<>>
          PROVE  Due(i, flag, Len(todo))'
      <4>1. todo[1] # [side |-> i, flag |-> flag]
        BY <2>1, <2>2, <3>2 DEF Side
      <4>. QED BY <1>1, <2>1, <2>2, <3>1, <3>2, <4>1, DueStays
    <3>3. \A flag \in {"out", "in", "hup"} : Due(i, flag, Len(todo)) =>
              Due(i, flag, Len(todo))' \/ (flag = "in" /\ toUs'[i] = <<>>)
      BY <3>1, <3>2
    <3>. QED BY <1>1, <1>5, <2>1, <3>1, <3>3
  <2>4. CASE ~received
    <3>1. Continue
      BY <1>9, <2>4 DEF InputEnds
    <3>. QED BY <1>6, <2>1, <2>2, <3>1
  <2>. QED BY <2>3, <2>4
<1>10. CASE FlushReturns
  <2>1. /\ pc \in {"lazy", "flush"} /\ edge' = edge /\ toPeer' = toPeer /\ open' = open
        /\ refused' = refused /\ toUs' = toUs
    BY <1>10, FlushReturnsProps
  <2>2. /\ pc = "lazy" => Head(todo).flag = "in"
        /\ pc = "flush" => Head(todo).flag \in {"in", "out"}
        /\ todo[1] = Head(todo) /\ Len(todo) \in Nat
    BY <1>1, <2>1, AtWork DEF QuietInv, InHandler
  <2>3. CASE pc = "lazy" /\ pc' = "mediate" /\ todo' = todo
    <3>1. ASSUME NEW flag \in {"out", "in", "hup"}, Due(i, flag, Len(todo))
          PROVE  Due(i, flag, Len(todo))'
      <4>1. flag # "in" => todo[1] # [side |-> i, flag |-> flag]
        BY <2>2, <2>3
      <4>. QED BY <1>1, <2>2, <2>3, <3>1, <4>1, DueStays
    <3>. QED BY <1>1, <1>5, <2>1, <2>3, <3>1
  <2>4. CASE pc' = pc /\ todo' = todo
    BY <1>1, <1>5, <2>1, <2>4, DueSame
  <2>5. CASE pc = "flush" /\ Continue
    BY <1>6, <2>1, <2>2, <2>5
  <2>. QED BY <1>10, <2>3, <2>4, <2>5, FlushReturnsProps
<1>11. CASE Wait
  <2>1. /\ pc = "wait" /\ toUs' = toUs /\ open' = open /\ refused' = refused /\ toPeer' = toPeer
        /\ pc' = IF todo' = <<>> THEN "wait" ELSE "next"
    BY <1>11 DEF Wait, bufVars
  <2>2. \A flag : ~Due(i, flag, Len(todo))
    <3>1. todo = <<>> /\ Len(todo) = 0
      BY <2>1 DEF TypeOK
    <3>. QED BY <3>1 DEF Due
  <2>3. ASSUME edge[i], NEW flag \in Flags(i)
        PROVE  Told(i, flag)'
    <3>1. PICK k \in 1..Len(todo') : todo'[k] = [side |-> i, flag |-> flag]
      BY <1>11, <2>3, WaitBrings
    <3>2. todo' # <<>> /\ pc' = "next"
      <4>1. Len(todo') # 0
        BY <1>11, <3>1, WaitBrings
      <4>2. todo' # <<>>
        BY <4>1
      <4>. QED BY <2>1, <4>2
    <3>3. NotDone(k)'
      <4>1. k = 1 => todo'[1].flag = flag /\ flag \in {"out", "in", "hup"}
        BY <2>3, <3>1, FlagsProps
      <4>. QED BY <3>2, <4>1 DEF NotDone
    <3>. QED BY <3>1, <3>3 DEF Told, Due
  <2>4. /\ toUs[i] # <<>> => "in" \in Flags(i)
        /\ ~open[i] => "hup" \in Flags(i)
        /\ Writable(i) => "out" \in Flags(i)
    BY DEF Flags, Readable
  <2>5. Writable(i)' <=> Writable(i)
    BY <2>1 DEF Writable, Used
  <2>. QED BY <1>2, <2>1, <2>2, <2>3, <2>4, <2>5 DEF Told
<1>12. CASE Breaks \/ HandleError
  BY <1>12, BreaksProps DEF Live, HandleError, End
<1>. QED BY <1>3, <1>4, <1>7, <1>8, <1>9, <1>10, <1>11, <1>12, Steps

\* handle_error is called behind what its peer said last.
LEMMA ErrorsStep ==
    ASSUME TypeOK, QuietInv, [Next]_vars
    PROVE  ErrorsLast'
<1> DEFINE Heard(k) == LET i == todo[k].side
                     IN  ~open[i] /\ (toUs[i] # <<>> => Due(i, "in", k - 1))
<1>. SUFFICES ASSUME Live', NEW k \in 1..Len(todo'), todo'[k].flag = "hup"
             PROVE  Heard(k)'
  BY DEF ErrorsLast
<1>1. Live
  BY PeersKeep, Steps DEF Live, Breaks, MediatePanics, ReceiveFails, SendFails, Flushing, Wait,
         HandleError, HandleOutput, HandleInput, At, Receive, InputEnds, Mediate, PopDone,
         SendChunk, SendRefused, FlushReturns
<1>2. \A m \in 1..Len(todo) : todo[m].flag = "hup" => Heard(m)
  BY <1>1 DEF QuietInv, ErrorsLast
<1>3. todo \in Seq(Call) /\ Len(todo) \in Nat
  BY LenProperties DEF TypeOK, Call
<1>4. ASSUME todo' = todo, open' = open,
             LET i == todo[k].side
             IN  toUs'[i] # <<>> /\ toUs[i] # <<>> /\ Due(i, "in", k - 1) => Due(i, "in", k - 1)',
             LET i == todo[k].side IN toUs'[i] # <<>> => toUs[i] # <<>>
      PROVE  Heard(k)'
  BY <1>2, <1>4
<1>5. ASSUME pc # "wait", todo' = todo, open' = open, toUs' = toUs,
             Head(todo).flag = "in" => pc' # "flush" \/ toUs[Side] = <<>>
      PROVE  Heard(k)'
  <2>1. todo[k] \in Call /\ k - 1 \in Nat /\ k - 1 <= Len(todo)
    BY <1>3, <1>5, ElementOfSeq
  <2>2. PICK i \in Sides : i = todo[k].side
    BY <2>1 DEF Call
  <2>3. PICK n \in Nat : n = k - 1
    BY <2>1
  <2>4. ASSUME toUs'[i] # <<>>, Due(i, "in", n)
        PROVE  Due(i, "in", n)'
    <3>1. todo[1] = Head(todo)
      BY <1>1, <1>5, AtWork
    <3>2. todo[1] # [side |-> i, flag |-> "in"] \/ pc' # "flush"
      BY <1>5, <2>4, <3>1 DEF Side
    <3>. QED BY <1>1, <1>5, <2>1, <2>3, <2>4, <3>2, DueStays
  <2>. QED BY <1>4, <1>5, <2>2, <2>3, <2>4
<1>6. CASE Peers \/ UNCHANGED vars \/ SendChunk \/ SendRefused
  <2>1. pc' = pc /\ todo' = todo
    BY <1>6, PeersKeep DEF SendChunk, SendRefused, ctlVars
  <2>2. PICK i : i = todo[k].side
    OBVIOUS
  <2>3. ~open[i] /\ (toUs[i] # <<>> => Due(i, "in", k - 1))
    BY <1>2, <2>1, <2>2
  <2>4. ~open'[i] /\ toUs'[i] = toUs[i]
    <3>1. CASE UNCHANGED vars \/ SendChunk \/ SendRefused
      BY <2>3, <3>1 DEF vars, kernelVars, SendChunk, SendRefused
    <3>2. ASSUME NEW j \in Sides, PeerSends(j) \/ PeerReads(j) \/ PeerCloses(j)
          PROVE  <2>4!:
      <4>1. i \in Sides
        <5>1. todo[k] \in Call
          BY <1>3, <2>1, ElementOfSeq
        <5>. QED BY <2>2, <5>1 DEF Call
      <4>2. i # j
        BY <2>3, <3>2 DEF PeerSends, PeerReads, PeerCloses
      <4>. QED BY <2>3, <3>2, <4>1, <4>2 DEF PeerSends, PeerReads, PeerCloses, TypeOK
    <3>. QED BY <1>6, <3>1, <3>2 DEF Peers
  <2>5. Due(i, "in", k - 1) => Due(i, "in", k - 1)'
    BY <2>1, DueSame
  <2>6. todo'[k].side = i
    BY <2>1, <2>2
  <2>. QED BY <2>3, <2>4, <2>5, <2>6
<1>7. CASE HandleOutput \/ HandleInput \/ Mediate \/ PopDone
  <2>1. /\ pc # "wait" /\ todo' = todo /\ open' = open /\ toUs' = toUs
        /\ Head(todo).flag = "in" => pc' # "flush"
    BY <1>7 DEF HandleOutput, HandleInput, Mediate, PopDone, At, kernelVars
  <2>. QED BY <1>5, <2>1
<1>8. CASE Receive
  <2>1. pc # "wait" /\ pc' # "flush" /\ todo' = todo /\ open' = open /\ Side \in Sides
    BY <1>1, <1>8, AtWork DEF Receive
  <2>2. todo[k] \in Call /\ k - 1 \in Nat /\ k - 1 <= Len(todo)
    BY <1>3, <2>1, ElementOfSeq
  <2>3. PICK i \in Sides : i = todo[k].side
    BY <2>2 DEF Call
  <2>4. PICK n \in Nat : n = k - 1
    BY <2>2
  <2>5. toUs'[i] # <<>> => toUs[i] # <<>>
    BY <1>8, <2>1 DEF Receive, TypeOK
  <2>6. Due(i, "in", n) => Due(i, "in", n)'
    BY <1>1, <2>1, <2>2, <2>4, DueStays
  <2>. QED BY <1>4, <2>1, <2>3, <2>4, <2>5, <2>6
<1>9. ASSUME pc # "wait", Continue, open' = open, toUs' = toUs,
             pc = "flush" => Head(todo).flag \in {"in", "out"},
             pc # "flush" => Head(todo).flag = "in" /\ toUs[Side] = <<>>
      PROVE  Heard(k)'
  <2>1. /\ Len(todo) \in Nat \ {0} /\ Len(todo') = Len(todo) - 1 /\ todo[1] = Head(todo)
        /\ \A m \in 1..Len(todo') : todo'[m] = todo[m + 1]
    BY <1>1, <1>9, AtWork, ContinueProps
  <2>2. k + 1 \in 1..Len(todo) /\ todo'[k] = todo[k + 1] /\ k \in Nat /\ k <= Len(todo) /\ k + 1 - 1 = k
    BY <2>1
  <2>3. todo[k + 1] \in Call
    BY <1>3, <2>2, ElementOfSeq
  <2>4. PICK i \in Sides : i = todo[k + 1].side
    BY <2>3 DEF Call
  <2>5. ~open[i] /\ (toUs[i] # <<>> => Due(i, "in", k))
    BY <1>2, <2>2, <2>4
  <2>6. ASSUME toUs[i] # <<>>
        PROVE  Due(i, "in", k - 1)'
    <3>1. ~NotDone(1) \/ todo[1] # [side |-> i, flag |-> "in"]
      <4>1. CASE pc = "flush"
        BY <1>1, <1>9, <2>1, <4>1, NotDoneProps
      <4>2. CASE pc # "flush"
        BY <1>9, <2>1, <2>6, <4>2 DEF Side
      <4>. QED BY <4>1, <4>2
    <3>. QED BY <1>1, <1>9, <2>2, <2>5, <2>6, <3>1, DueForward
  <2>7. todo'[k].side = i
    BY <2>2, <2>4
  <2>. QED BY <1>9, <2>5, <2>6, <2>7
<1>10. CASE InputEnds
  <2>1. /\ pc = "receive" /\ toUs[Side] = <<>> /\ open' = open /\ toUs' = toUs
    BY <1>10 DEF InputEnds, kernelVars
  <2>2. Head(todo).flag = "in"
    BY <2>1 DEF QuietInv, InHandler
  <2>3. CASE received
    <3>1. todo' = todo
      BY <1>10, <2>3 DEF InputEnds
    <3>. QED BY <1>5, <2>1, <3>1
  <2>4. CASE ~received
    <3>1. Continue
      BY <1>10, <2>4 DEF InputEnds
    <3>. QED BY <1>9, <2>1, <2>2, <3>1
  <2>. QED BY <2>3, <2>4
<1>11. CASE FlushReturns
  <2>1. pc \in {"lazy", "flush"} /\ open' = open /\ toUs' = toUs
    BY <1>11, FlushReturnsProps
  <2>2. pc = "flush" => Head(todo).flag \in {"in", "out"}
    BY DEF QuietInv, InHandler
  <2>3. CASE pc = "lazy" /\ pc' = "mediate" /\ todo' = todo
    BY <1>5, <2>1, <2>3
  <2>4. CASE pc' = pc /\ todo' = todo
    <3>1. PICK i : i = todo[k].side
      OBVIOUS
    <3>2. ~open[i] /\ (toUs[i] # <<>> => Due(i, "in", k - 1))
      BY <1>2, <2>4, <3>1
    <3>3. Due(i, "in", k - 1) => Due(i, "in", k - 1)'
      BY <2>4, DueSame
    <3>. QED BY <2>1, <2>4, <3>1, <3>2, <3>3
  <2>5. CASE pc = "flush" /\ Continue
    BY <1>9, <2>1, <2>2, <2>5
  <2>. QED BY <1>11, <2>3, <2>4, <2>5, FlushReturnsProps
<1>12. CASE Wait
  <2>1. /\ pc = "wait" /\ toUs' = toUs /\ open' = open
        /\ pc' = IF todo' = <<>> THEN "wait" ELSE "next"
    BY <1>12 DEF Wait
  <2>2. PICK i \in Sides :
          /\ i = todo'[k].side /\ "hup" \in Flags(i)
          /\ "in" \in Flags(i) => \E m \in 1..(k - 1) : todo'[m] = [side |-> i, flag |-> "in"]
    BY <1>12, WaitBrings
  <2>3. ~open[i]
    BY <2>2 DEF Flags
  <2>4. "in" \in Flags(i)
    BY <2>3 DEF Flags, Readable
  <2>5. PICK m \in 1..(k - 1) : todo'[m] = [side |-> i, flag |-> "in"]
    BY <2>2, <2>4
  <2>6. todo' # <<>> /\ pc' = "next"
    <3>1. Len(todo') # 0
      OBVIOUS
    <3>2. todo' # <<>>
      BY <3>1
    <3>. QED BY <2>1, <3>2
  <2>7. NotDone(m)'
    <3>1. m = 1 => todo'[1].flag = "in"
      BY <2>5
    <3>. QED BY <2>6, <3>1 DEF NotDone
  <2>8. Due(i, "in", k - 1)'
    BY <2>5, <2>7 DEF Due
  <2>. QED BY <2>1, <2>2, <2>3, <2>8
<1>13. CASE Breaks \/ HandleError
  BY <1>13, BreaksProps DEF Live, HandleError, End
<1>. QED BY <1>6, <1>7, <1>8, <1>10, <1>11, <1>12, <1>13, Steps

LEMMA LastWordsStep ==
    ASSUME TypeOK, QuietInv, [Next]_vars
    PROVE  LastWordsHeard'
<1>1. CASE HandleError
  <2>1. /\ pc = "next" /\ Head(todo).flag = "hup" /\ todo' = todo /\ open' = open /\ toUs' = toUs
    BY <1>1 DEF HandleError, At, kernelVars
  <2>2. todo # <<>> /\ todo[1] = Head(todo) /\ 1 \in 1..Len(todo) /\ Live
    BY <2>1, AtWork DEF Live
  <2>3. ~open[Side] /\ (toUs[Side] # <<>> => Due(Side, "in", 1 - 1))
    BY <2>1, <2>2 DEF QuietInv, ErrorsLast, Side
  <2>4. ~Due(Side, "in", 1 - 1)
    BY DEF Due
  <2>. QED BY <2>1, <2>2, <2>3, <2>4 DEF LastWordsHeard, Side
<1>2. CASE Breaks
  BY <1>2, BreaksProps DEF LastWordsHeard, Live
<1>3. CASE Live' /\ ~HandleError /\ ~Breaks
  BY <1>3 DEF LastWordsHeard
<1>4. CASE ~Live' /\ ~HandleError /\ ~Breaks
  <2>1. pc = "over" /\ (Peers \/ UNCHANGED vars)
    BY <1>4, Steps, PeersKeep, FlushReturnsProps
       DEF Live, Wait, HandleOutput, HandleInput, At, Receive, InputEnds, Mediate, PopDone,
           SendChunk, SendRefused, Flushing, Continue, ctlVars
  <2>2. open' = open /\ toUs' = toUs
    BY <2>1 DEF Peers, PeerSends, PeerReads, PeerCloses, vars, kernelVars
  <2>3. pc' = pc /\ todo' = todo /\ why' = why
    BY <2>1, PeersKeep
  <2>. QED BY <2>2, <2>3 DEF QuietInv, LastWordsHeard, Live, Side
<1>. QED BY <1>1, <1>2, <1>3, <1>4

LEMMA InitQuiet == Init => QuietInv
<1>. SUFFICES ASSUME Init PROVE QuietInv
  OBVIOUS
<1> DEFINE c(i) == [side |-> i, flag |-> "in"]
<1>1. /\ todo = <<c(0), c(1)>> /\ Len(todo) = 2 /\ todo[1] = c(0) /\ todo[2] = c(1)
      /\ pc = "next" /\ why = "none"
  BY DEF Init
<1>2. \A i \in Sides : out[i] = <<>> /\ inbuf[i] = <<>> /\ edge[i]
  BY DEF Init
<1>3. \A k \in 1..Len(todo) : todo[k].flag = "in"
  BY <1>1
<1>4. InHandler /\ FlushedOrRefused
  BY <1>1, <1>2 DEF InHandler, FlushedOrRefused, Settled, Live
<1>5. ChangesSeen
  BY <1>2 DEF ChangesSeen
<1>6. ErrorsLast /\ LastWordsHeard
  BY <1>1, <1>3 DEF ErrorsLast, LastWordsHeard
<1>. QED BY <1>4, <1>5, <1>6 DEF QuietInv

\* Whether the session waits or a hang-up has ended it, what it could have read,
\* forwarded or sent is read, forwarded and sent.
THEOREM NothingForgotten == Spec => []NothingLeftBehind
<1>1. TypeOK /\ QuietInv /\ [Next]_vars => QuietInv'
  BY InHandlerStep, FlushedStep, ChangesStep, ErrorsStep, LastWordsStep DEF QuietInv
<1>2. TypeOK /\ QuietInv => NothingLeftBehind
  <2>. SUFFICES ASSUME TypeOK, QuietInv PROVE NothingLeftBehind
    OBVIOUS
  <2>1. ASSUME pc = "wait", NEW i \in Sides, ~edge[i]
        PROVE  /\ toUs[i] = <<>> /\ inbuf[i] = <<>> /\ open[i]
               /\ out[i] # <<>> => refused[i] /\ ~Writable(i)
    <3>1. todo = <<>> /\ Len(todo) = 0 /\ Live
      BY <2>1 DEF TypeOK, Live
    <3>2. \A flag : ~Due(i, flag, Len(todo))
      BY <3>1 DEF Due
    <3>3. toUs[i] = <<>> /\ open[i] /\ ~(refused[i] /\ Writable(i))
      BY <2>1, <3>1, <3>2 DEF QuietInv, ChangesSeen
    <3>4. inbuf[i] = <<>>
      BY <2>1, <3>1 DEF QuietInv, InHandler
    <3>5. out[i] # <<>> => refused[i]
      BY <2>1 DEF QuietInv, FlushedOrRefused, Settled
    <3>. QED BY <3>3, <3>4, <3>5
  <2>2. ASSUME pc = "over", why = "hangUp"
        PROVE  HeardOut(Side)
    <3>1. todo \in Seq(Call) /\ todo # <<>> /\ toUs[Side] = <<>>
      BY <2>2 DEF QuietInv, LastWordsHeard, Live, TypeOK, Call
    <3>2. Side \in Sides /\ Other(Side) \in Sides
      <4>1. Head(todo) \in Call
        BY <3>1, HeadTailProperties
      <4>. QED BY <4>1, SidesProps DEF Call, Side
    <3>3. inbuf[Side] = <<>>
      BY <2>2, <3>2 DEF QuietInv, InHandler, Live
    <3>4. out[Other(Side)] # <<>> => refused[Other(Side)]
      BY <2>2, <3>2 DEF QuietInv, FlushedOrRefused, Settled, Live
    <3>. QED BY <3>1, <3>3, <3>4 DEF HeardOut
  <2>3. QuietMeansForwarded
    BY <2>1 DEF QuietMeansForwarded
  <2>. QED BY <2>2, <2>3 DEF NothingLeftBehind, LastWordsForwarded
<1>. QED BY <1>1, <1>2, InitQuiet, TypeCorrect, PTL DEF Spec

=============================================================================
