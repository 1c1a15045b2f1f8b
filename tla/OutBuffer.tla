------------------------------ MODULE OutBuffer ------------------------------
(***************************************************************************)
(* The output side of one stream of a session: OutBuffer of                *)
(* src/src/buffers.rs.  Messages are appended to a list of chunks, their   *)
(* file descriptors to one queue; a flush sends the chunks one by one,     *)
(* each send carrying a whole chunk and at most MaxFds of the queued       *)
(* descriptors, all or nothing.                                            *)
(*                                                                         *)
(* One step of this module is one system call of flush_first_chunk, or the *)
(* code between two of them, so that a module which composes this one can  *)
(* let the peer run wherever the kernel can.  pc says where the caller is: *)
(*                                                                         *)
(*   idle         no call in progress                                      *)
(*   fdsFlush     in add_fds, inside its flush(true)                       *)
(*   put          add_fds returned, the message is not in a chunk yet      *)
(*   flush        in flush(false) at the end of send or send_raw           *)
(*   forcedFlush  in a flush(true)                                         *)
(*   failed       a send failed and the error ends the session             *)
(*                                                                         *)
(* A word of the byte stream is its position in the stream and the message *)
(* it belongs to; a descriptor is its rank among all those ever queued.    *)
(***************************************************************************)
EXTENDS Integers, Sequences, SequencesExt

CONSTANTS MaxWords,       \* MAX_WORDS_OUT: the longest message, half a chunk
          MaxFds,         \* MAX_FDS_OUT: descriptors one send can carry
          MaxArgs,        \* MAX_ARGS: descriptors one message can carry
          AllowedExcess,  \* ALLOWED_EXCESS_CHUNKS
          LimitSends,     \* feature limit_sends
          FlushEverySend, \* option flush_every_send
          Messages,       \* the shapes of message callers send
          MsgBound        \* bound: messages sent in one behaviour

ASSUME OutAssumption ==
    /\ MaxWords \in Nat /\ MaxWords >= 2
    /\ MaxFds \in Nat \ {0}
    /\ MaxArgs \in 0..MaxFds
    /\ AllowedExcess \in Nat
    /\ LimitSends \in BOOLEAN
    /\ FlushEverySend \in BOOLEAN
    /\ Messages \subseteq [len : 2..MaxWords, nfds : 0..MaxArgs, raw : BOOLEAN]
    /\ MsgBound \in Nat

ChunkSize == 2 * MaxWords

NoMsg == [len |-> 0, nfds |-> 0, raw |-> FALSE]

VARIABLES chunks,         \* the active chunks, oldest first
          freeChunks,     \* cleared chunks kept for reuse
          fds,            \* descriptors not yet sent
          waitForOutput,  \* a send was refused, no output event since
          pc,             \* where the call in progress is
          msg,            \* the message not yet put in a chunk
          accepted,       \* history: messages, words and fds callers handed over
          sent            \* history: words and fds the kernel took

outVars == <<chunks, freeChunks, fds, waitForOutput, pc, msg, accepted, sent>>

-----------------------------------------------------------------------------
Header == [start : Nat, len : 2..MaxWords, nfds : 0..MaxArgs, lastFd : Nat]
Word == [pos : Nat, msg : Header]
Chunk == Seq(Word)

\* The words of message m when n words and f descriptors were accepted up to
\* and including its own descriptors.
WordsOf(m, n, f) ==
    [k \in 1..m.len |->
        [pos |-> n + k,
         msg |-> [start |-> n + 1, len |-> m.len, nfds |-> m.nfds, lastFd |-> f]]]

\* The two chunk lists the put operations work on.
Buffered == [active |-> chunks, free |-> freeChunks]

Room(b) == ChunkSize - Len(Last(b.active))

Extend(b, ws) ==
    [b EXCEPT !.active[Len(b.active)] = @ \o ws]

\* Broken variant: what limit_sends cuts off the old end is dropped.
LosingStartNextChunk(b) ==
    [active |-> Append([b.active EXCEPT ![Len(b.active)] =
                           SubSeq(@, 1, IF LimitSends /\ Len(@) > MaxWords THEN MaxWords ELSE Len(@))],
                       <<>>),
     free   |-> b.free]

\* start_next_chunk opens a new end chunk, a recycled one if there is one, and
\* under limit_sends moves to it what the old end holds beyond MaxWords.
StartNextChunk(b) ==
    LET old  == Last(b.active)
        keep == IF LimitSends /\ Len(old) > MaxWords THEN MaxWords ELSE Len(old)
        new  == IF b.free = <<>> THEN <<>> ELSE Last(b.free)
    IN  [active |-> Append([b.active EXCEPT ![Len(b.active)] = SubSeq(old, 1, keep)],
                           new \o SubSeq(old, keep + 1, Len(old))),
         free   |-> IF b.free = <<>> THEN <<>> ELSE Front(b.free)]

\* Broken variant: a chunk is started although the message ended just in time.
HastyPutMarshalled(b, ws) ==
    LET filled == Extend(IF Room(b) < MaxWords THEN StartNextChunk(b) ELSE b, ws)
    IN  IF LimitSends /\ Room(filled) <= MaxWords THEN StartNextChunk(filled) ELSE filled

\* send: the message is marshalled whole into the end chunk, which is left with
\* room for a maximal message before, and under limit_sends also after.
PutMarshalled(b, ws) ==
    LET ready  == IF Room(b) < MaxWords THEN StartNextChunk(b) ELSE b
        filled == Extend(ready, ws)
    IN  IF LimitSends /\ Room(filled) < MaxWords
        THEN StartNextChunk(filled)
        ELSE filled

\* Broken variant: the room ignores limit_sends.
UnlimitedRawRoom(b) == Room(b)

\* send_raw: the message is copied and split when the end chunk cannot take it.
RawRoom(b) == IF LimitSends THEN MaxWords - Len(Last(b.active)) ELSE Room(b)

PutRaw(b, ws) ==
    LET room == RawRoom(b)
    IN  IF room >= Len(ws)
        THEN Extend(b, ws)
        ELSE Extend(StartNextChunk(Extend(b, SubSeq(ws, 1, room))),
                    SubSeq(ws, room + 1, Len(ws)))

\* Broken variant: the queue's initial capacity is taken for its limit.
LateTooManyFds(nfds, nchunks) == nfds > nchunks * MaxFds + MaxArgs

TooManyFds(nfds, nchunks) == nfds > nchunks * MaxFds

-----------------------------------------------------------------------------
Init ==
    /\ chunks = << <<>> >>
    /\ freeChunks = <<>>
    /\ fds = <<>>
    /\ waitForOutput = FALSE
    /\ pc = "idle"
    /\ msg = NoMsg
    /\ accepted = [msgs |-> 0, words |-> 0, fds |-> 0]
    /\ sent = [words |-> 0, fds |-> 0]

\* send and send_raw begin with add_fds, which queues the descriptors and
\* flushes when the chunks could not carry them all.
AddFds(m) ==
    /\ pc = "idle"
    /\ accepted.msgs < MsgBound
    /\ fds' = fds \o [k \in 1..m.nfds |-> accepted.fds + k]
    /\ pc' = IF TooManyFds(Len(fds'), Len(chunks)) THEN "fdsFlush" ELSE "put"
    /\ msg' = m
    /\ accepted' = [accepted EXCEPT !.msgs = @ + 1, !.fds = @ + m.nfds]
    /\ UNCHANGED <<chunks, freeChunks, waitForOutput, sent>>

\* The rest of send or send_raw up to its flush.
Put ==
    /\ pc = "put"
    /\ LET ws    == WordsOf(msg, accepted.words, accepted.fds)
           after == IF msg.raw THEN PutRaw(Buffered, ws) ELSE PutMarshalled(Buffered, ws)
       IN  /\ chunks' = after.active
           /\ freeChunks' = after.free
    /\ accepted' = [accepted EXCEPT !.words = @ + msg.len]
    /\ pc' = IF FlushEverySend THEN "forcedFlush" ELSE "flush"
    /\ msg' = NoMsg
    /\ UNCHANGED <<fds, waitForOutput, sent>>

-----------------------------------------------------------------------------
InFlush == pc \in {"fdsFlush", "flush", "forcedFlush"}

\* Broken variant: force is ignored.
MaySendExcess == InFlush /\ Len(chunks) > 1 /\ ~waitForOutput /\ chunks[1] # <<>>

\* The loop of flush goes on: there is a chunk it may send and a reason to.
MaySend ==
    /\ InFlush
    /\ Len(chunks) > 1 \/ pc # "flush"
    /\ ~waitForOutput
    /\ chunks[1] # <<>>

FdsPerSend == IF Len(fds) < MaxFds THEN Len(fds) ELSE MaxFds

\* Broken variant: the only chunk leaves the list.
PopAlways == Tail(chunks)

\* A chunk that was sent is cleared; unless it is the only one it leaves the
\* list, and is kept for reuse while there are few spare ones.
ChunksLeft == IF Len(chunks) > 1 THEN Tail(chunks) ELSE << <<>> >>
FreeWithSent ==
    IF Len(freeChunks) < AllowedExcess THEN Append(freeChunks, <<>>) ELSE freeChunks

\* send_msg took the whole chunk and its descriptors.
SendChunk ==
    /\ MaySend
    /\ fds' = SubSeq(fds, FdsPerSend + 1, Len(fds))
    /\ sent' = [words |-> sent.words + Len(chunks[1]), fds |-> sent.fds + FdsPerSend]
    /\ chunks' = ChunksLeft
    /\ freeChunks' = IF Len(chunks) > 1 THEN FreeWithSent ELSE freeChunks
    /\ UNCHANGED <<waitForOutput, pc, msg, accepted>>

\* send_msg returned 0: the kernel had no room for the chunk.
SendRefused ==
    /\ MaySend
    /\ waitForOutput' = TRUE
    /\ UNCHANGED <<chunks, freeChunks, fds, pc, msg, accepted, sent>>

\* send_msg failed; the error leaves flush, its caller and the event loop.
SendFailed ==
    /\ MaySend
    /\ pc' = "failed"
    /\ UNCHANGED <<chunks, freeChunks, fds, waitForOutput, msg, accepted, sent>>

FlushDone == ~MaySend

\* The loop of flush ends.  In add_fds a new chunk is started if the flush did
\* not help.
FlushReturn ==
    /\ InFlush
    /\ FlushDone
    /\ IF pc = "fdsFlush" /\ TooManyFds(Len(fds), Len(chunks))
       THEN LET next == StartNextChunk(Buffered)
            IN  chunks' = next.active /\ freeChunks' = next.free
       ELSE UNCHANGED <<chunks, freeChunks>>
    /\ pc' = IF pc = "fdsFlush" THEN "put" ELSE "idle"
    /\ UNCHANGED <<fds, waitForOutput, msg, accepted, sent>>

\* handle_output of session.rs: got_output_event, then flush(true).
GotOutputEvent ==
    /\ pc = "idle"
    /\ waitForOutput' = FALSE
    /\ pc' = "forcedFlush"
    /\ UNCHANGED <<chunks, freeChunks, fds, msg, accepted, sent>>

\* handle_input of session.rs ends with flush(true).
ForceFlush ==
    /\ pc = "idle"
    /\ pc' = "forcedFlush"
    /\ UNCHANGED <<chunks, freeChunks, fds, waitForOutput, msg, accepted, sent>>

-----------------------------------------------------------------------------
Running == Put \/ SendChunk \/ SendRefused \/ SendFailed \/ FlushReturn

Next ==
    \/ \E m \in Messages : AddFds(m)
    \/ Put
    \/ SendChunk
    \/ SendRefused
    \/ SendFailed
    \/ FlushReturn
    \/ GotOutputEvent
    \/ ForceFlush

\* A call that has begun keeps running: its thread does nothing else.
Spec == Init /\ [][Next]_outVars /\ WF_outVars(Running)

-----------------------------------------------------------------------------
\* Types.  chunks is never empty: MUST_HAVE1 of the code.
TypeOK ==
    /\ chunks \in Seq(Chunk) /\ chunks # <<>>
    /\ freeChunks \in Seq(Chunk)
    /\ fds \in Seq(Nat)
    /\ waitForOutput \in BOOLEAN
    /\ pc \in {"idle", "fdsFlush", "put", "flush", "forcedFlush", "failed"}
    /\ msg \in Messages \cup {NoMsg}
    /\ pc \in {"fdsFlush", "put"} => msg \in Messages
    /\ accepted \in [msgs : Nat, words : Nat, fds : Nat]
    /\ sent \in [words : Nat, fds : Nat]

\* No chunk outgrows what it may hold: its capacity (a push past it panics), and
\* under limit_sends the MaxWords a peer reads in one receive, on which the
\* subtraction that computes the room of send_raw relies.
ChunksFit ==
    \A i \in 1..Len(chunks) :
        Len(chunks[i]) <= IF LimitSends THEN MaxWords ELSE ChunkSize

\* A recycled chunk is empty when it is reused (the assert of start_next_chunk),
\* and no more than AllowedExcess of them are kept.
RecycledAreEmpty ==
    /\ Len(freeChunks) <= AllowedExcess
    /\ \A i \in 1..Len(freeChunks) : freeChunks[i] = <<>>

\* An empty chunk in front of others would stop every later flush, which looks
\* at the first one only.  A chunk started by add_fds is filled by the put that
\* follows it.
NoEmptyChunkAhead ==
    /\ \A i \in 1..(Len(chunks) - 1) : chunks[i] # <<>>
    /\ Len(chunks) > 1 /\ pc # "put" => chunks[Len(chunks)] # <<>>

\* The buffer waits for an output event only while it has something to send:
\* otherwise the next messages would wait for an event that need not come.
WaitMeansPending == waitForOutput => chunks[1] # <<>>

\* Neither an empty chunk nor an idle wait can hold back what is queued.
NoStall == NoEmptyChunkAhead /\ WaitMeansPending

\* Between calls the queued descriptors fit in the sends that the queued chunks
\* will make, so that none is left behind without a word to travel with.
FdsFitChunks ==
    /\ pc \in {"idle", "flush", "forcedFlush"} =>
           /\ Len(fds) <= Len(chunks) * MaxFds
           /\ chunks[1] = <<>> => fds = <<>>
    /\ pc = "put" => Len(fds) <= Len(chunks) * MaxFds
    /\ pc = "fdsFlush" =>
           /\ Len(fds) <= Len(chunks) * MaxFds + MaxArgs
           /\ chunks[1] = <<>> => Len(fds) <= MaxArgs

\* The queue holds the descriptors not sent, in the order they were queued.
FdsInOrder ==
    /\ sent.fds <= accepted.fds
    /\ fds = [k \in 1..(accepted.fds - sent.fds) |-> sent.fds + k]

\* The chunks hold, in order and without a gap or a copy, the words accepted
\* and not sent: splitting, starting and recycling chunks lose nothing.
StreamInOrder ==
    LET words == FlattenSeq(chunks)
    IN  /\ Len(words) = accepted.words - sent.words
        /\ \A k \in 1..Len(words) : words[k].pos = sent.words + k

\* The i-th chunk is sent with the i-th group of MaxFds descriptors; every
\* message with a word in it has its descriptors in that group or before.
FdsTravelWithData ==
    \A i \in 1..Len(chunks) : \A j \in 1..Len(chunks[i]) :
        /\ chunks[i][j].msg.lastFd <= sent.fds + i * MaxFds
        /\ chunks[i][j].msg.lastFd <= accepted.fds

\* What add_fds is for: descriptors keep up with chunks and words with
\* descriptors.
FdsKeepUp == FdsFitChunks /\ FdsTravelWithData

\* Nothing accepted is lost, copied or reordered before it is sent.
StreamIntact == StreamInOrder /\ FdsInOrder

\* What FdsTravelWithData is for: no word of a message leaves before the last
\* descriptor of the message, or the receiver would be starved of it.
FdsSentWithWords ==
    [][sent'.words > sent.words =>
          \A j \in 1..Len(chunks[1]) : chunks[1][j].msg.lastFd <= sent'.fds]_outVars

\* A call returns with at most the end chunk unsent, and a forced flush with
\* nothing unsent, unless the kernel refused a chunk.
ReturnsDrained ==
    [][/\ pc # "idle" /\ pc' = "idle"
       /\ ~waitForOutput'
       => Len(chunks') <= 1 /\ (pc = "forcedFlush" => chunks'[1] = <<>>)]_outVars

=============================================================================
