------------------------------- MODULE Transport -------------------------------
(***************************************************************************)
(* One stream between two processes that both use the buffers of           *)
(* src/src/buffers.rs under the event loop of src/src/session.rs and       *)
(* src/src/event_loop.rs: an OutBuffer, a socket of the kernel, and an     *)
(* InBuffer.  Readiness is reported by edges: an event comes when the      *)
(* socket's state changed, and never again if nothing happens.  The module *)
(* shows that the lazy flushes, refused sends and edges together make a    *)
(* MessageChannel.                                                         *)
(*                                                                         *)
(* The socket is the kernel's, external to the code: a queue of segments,  *)
(* one for each send.  It refuses a send when SockCap words or more are in *)
(* it, and calls itself writable again only when it is down to Mark words; *)
(* a segment counts until it is read whole.  One receive ends with the     *)
(* first segment that brings descriptors.                                  *)
(***************************************************************************)
EXTENDS Integers, Sequences, SequencesExt, FiniteSetsExt

CONSTANTS MaxWords, MaxFds, MaxArgs, AllowedExcess, LimitSends, FlushEverySend,
          AlwaysCompact, Messages, MsgBound,
          SockCap,   \* words in the socket that make it refuse a send
          Mark       \* words in the socket at which it is writable again

ASSUME TransportAssumption ==
    /\ MaxWords \in Nat /\ MaxWords >= 2
    /\ MaxFds \in Nat \ {0} /\ MaxArgs \in 0..MaxFds
    /\ AllowedExcess \in Nat /\ MsgBound \in Nat
    /\ LimitSends \in BOOLEAN /\ FlushEverySend \in BOOLEAN /\ AlwaysCompact \in BOOLEAN
    /\ Messages \subseteq [len : 2..MaxWords, nfds : 0..MaxArgs, raw : BOOLEAN]
    /\ Mark \in Nat /\ SockCap \in Nat /\ Mark < SockCap

VARIABLES chunks, freeChunks, fds, waitForOutput, pc, msg, accepted, sent,
          data, front, back, inFds, inPc, popped,
          sock,      \* segments sent and not read
          outEdge,   \* the sender has an output event to come
          inEdge,    \* the receiver has an input event to come
          owes,      \* the sender is in handle_input and has put something
          put, delivered   \* history, for MessageChannel

outVars == <<chunks, freeChunks, fds, waitForOutput, pc, msg, accepted, sent>>
inVars == <<data, front, back, inFds, inPc, popped>>
kernelVars == <<sock, outEdge, inEdge>>
history == <<put, delivered>>
vars == <<outVars, inVars, kernelVars, owes, history>>

Out == INSTANCE OutBuffer

In == INSTANCE InBuffer WITH
    inFlight <- FlattenSeq([i \in 1..Len(sock) |-> sock[i].words]),
    came     <- [msgs |-> accepted.msgs, words |-> sent.words, fds |-> sent.fds]

\* What travels of the message m: its words and its descriptors, when n words and
\* f descriptors were accepted up to its words and its last descriptor.
Travels(m, n, f) ==
    [words |-> Out!WordsOf(m, n, f), fds |-> [k \in 1..m.nfds |-> f - m.nfds + k]]

ChannelMessage ==
    {Travels(m, n, f) :
        m \in Messages, n \in 0..(MsgBound * MaxWords), f \in 0..(MsgBound * MaxArgs)}

Channel == INSTANCE MessageChannel WITH Message <- ChannelMessage

-----------------------------------------------------------------------------
(* The socket. *)

WordsOfSegments(s) == FlattenSeq([i \in 1..Len(s) |-> s[i].words])

\* A segment takes up the room of all the words it was sent with.
Used(s) == Len(FlattenSeq([i \in 1..Len(s) |-> s[i].whole]))

Writable == Used(sock) <= Mark

\* What is read when a receive ends with word c of segment t, and what is not.
ReadUpTo(t, c) == WordsOfSegments(SubSeq(sock, 1, t - 1)) \o SubSeq(sock[t].words, 1, c)

Unread(t, c) ==
    LET rest == SubSeq(sock[t].words, c + 1, Len(sock[t].words))
        cut  == [sock[t] EXCEPT !.words = rest, !.fds = <<>>]
    IN  (IF rest = <<>> THEN <<>> ELSE <<cut>>) \o SubSeq(sock, t + 1, Len(sock))

\* A receive brings up to MaxWords words, and none behind the first segment that
\* brings descriptors.  A peer may have sent less at a time: it may bring fewer.
MayRead(t, c) ==
    /\ Len(ReadUpTo(t, c)) <= MaxWords
    /\ \A k \in 1..(t - 1) : sock[k].fds = <<>>

-----------------------------------------------------------------------------
(* The sender. *)

\* The mediator puts a message, within a handle_input of the other stream.
Send(m) ==
    /\ Out!AddFds(m)
    /\ owes' = TRUE
    /\ UNCHANGED <<inVars, kernelVars, history>>

Put ==
    /\ Out!Put
    /\ put' = Append(put, Travels(msg, accepted.words, accepted.fds))
    /\ UNCHANGED <<inVars, kernelVars, owes, delivered>>

SendChunk ==
    /\ Used(sock) < SockCap
    /\ Out!SendChunk
    /\ sock' = Append(sock, [words |-> chunks[1], fds |-> SubSeq(fds, 1, Out!FdsPerSend),
                             whole |-> chunks[1]])
    /\ inEdge' = TRUE
    /\ UNCHANGED <<inVars, outEdge, owes, history>>

SendRefused ==
    /\ Used(sock) >= SockCap
    /\ Out!SendRefused
    /\ UNCHANGED <<inVars, kernelVars, owes, history>>

FlushReturn ==
    /\ Out!FlushReturn
    /\ UNCHANGED <<inVars, kernelVars, owes, history>>

\* Broken variant: handle_input ends without forcing.
LazyInputEnds ==
    /\ owes
    /\ pc = "idle"
    /\ owes' = FALSE
    /\ UNCHANGED <<outVars, inVars, kernelVars, history>>

\* handle_input has no more input and ends with flush(true).
InputEnds ==
    /\ owes
    /\ Out!ForceFlush
    /\ owes' = FALSE
    /\ UNCHANGED <<inVars, kernelVars, history>>

\* Broken variant: handle_output does not force the flush.
UnforcedOutput ==
    /\ ~owes
    /\ Writable
    /\ pc = "idle"
    /\ pc' = "flush"
    /\ waitForOutput' = FALSE
    /\ outEdge' = FALSE
    /\ UNCHANGED <<chunks, freeChunks, fds, msg, accepted, sent, inVars, sock, inEdge, owes, history>>

\* epoll_wait finds the socket writable, after an edge or along with another
\* event of the same descriptor: handle_output.
OutputEvent ==
    /\ ~owes
    /\ Writable
    /\ Out!GotOutputEvent
    /\ outEdge' = FALSE
    /\ UNCHANGED <<inVars, sock, inEdge, owes, history>>

\* epoll_wait finds the socket not writable after all: the edge is spent.
OutputEdgeSpent ==
    /\ pc = "idle" /\ ~owes
    /\ outEdge /\ ~Writable
    /\ outEdge' = FALSE
    /\ UNCHANGED <<outVars, inVars, sock, inEdge, owes, history>>

-----------------------------------------------------------------------------
(* The receiver. *)

\* An input event, or the first handle_input, which precedes all events.
InputEvent ==
    /\ inEdge
    /\ In!HandleInput
    /\ inEdge' = FALSE
    /\ UNCHANGED <<outVars, popped, sock, outEdge, owes, history>>

\* receive reads from the socket; reading a segment to its end may make the
\* socket writable, which is an edge for the sender.
Receive ==
    IF sock = <<>>
    THEN In!Receive(<<>>, <<>>) /\ UNCHANGED <<outVars, popped, kernelVars, owes, history>>
    ELSE /\ \E t \in 1..Len(sock) : \E c \in 1..Len(sock[t].words) :
               /\ MayRead(t, c)
               /\ In!Receive(ReadUpTo(t, c), sock[t].fds)
               /\ sock' = Unread(t, c)
         /\ outEdge' = (outEdge \/ (Len(sock') < Len(sock) /\ Writable'))
         /\ UNCHANGED <<outVars, popped, inEdge, owes, history>>

Pop ==
    /\ In!Pop
    /\ LET m == data[front + 1].msg
       IN  delivered' = Append(delivered, [words |-> [k \in 1..m.len |-> data[front + k - 1]],
                                           fds   |-> SubSeq(inFds, 1, m.nfds)])
    /\ UNCHANGED <<outVars, kernelVars, owes, put>>

PopDone ==
    /\ In!PopDone
    /\ UNCHANGED <<outVars, popped, kernelVars, owes, history>>

-----------------------------------------------------------------------------
\* epoll_ctl reports what is ready when the descriptor is added.
Init ==
    /\ sock = <<>>
    /\ Out!Init
    /\ In!Init
    /\ outEdge = TRUE /\ inEdge = TRUE
    /\ owes = FALSE
    /\ Channel!Init

SenderRuns == Put \/ SendChunk \/ SendRefused \/ FlushReturn
ReceiverRuns == Receive \/ Pop \/ PopDone

Next ==
    \/ \E m \in Messages : Send(m)
    \/ Put
    \/ SendChunk
    \/ SendRefused
    \/ FlushReturn
    \/ InputEnds
    \/ OutputEvent
    \/ OutputEdgeSpent
    \/ InputEvent
    \/ Receive
    \/ Pop
    \/ PopDone

\* Both processes run, and epoll_wait reports an edge.  Nothing makes the sender
\* send, nor an output event come that no edge announced.
Spec ==
    /\ Init /\ [][Next]_vars
    /\ WF_vars(SenderRuns) /\ WF_vars(InputEnds)
    /\ WF_vars(outEdge /\ OutputEvent)
    /\ WF_vars(InputEvent) /\ WF_vars(ReceiverRuns)

-----------------------------------------------------------------------------
\* What is put is not kept back.  A sender goes back to epoll_wait with something in
\* its buffer only if it was refused; and then a wakeup is not lost: an edge is on
\* its way, or the socket holds so much that reading it must raise one.
NoLostWakeUp ==
    /\ pc = "idle" /\ ~owes /\ ~waitForOutput => chunks = << <<>> >> /\ fds = <<>>
    /\ waitForOutput => outEdge \/ ~Writable

\* receive is called with less than one message left, and its slice is in the array.
RoomToReceive == In!RoomToReceive

\* However the stream is cut, nothing unread is skipped, repeated or stale, and a
\* message that is popped finds its own descriptors at the head of the queue.
UnreadIntact == In!UnreadIntact /\ In!FdsReady

\* The two buffers and the event loop implement MessageChannel.
Refines == Channel!Spec

=============================================================================
