-------------------------------- MODULE Session --------------------------------
(***************************************************************************)
(* One session: the loop of src/src/event_loop.rs over the streams of a    *)
(* client (side 0) and of the server (side 1), with the handlers of        *)
(* src/src/session.rs, up to the hang-up of a peer, which ends it.         *)
(*                                                                         *)
(* A message is its number among those of its sender.  The buffers of a    *)
(* stream are the channels that Transport shows them to be, down to what   *)
(* the end of a session makes visible: an output buffer is cut into chunks *)
(* of ChunkLen messages, keeps the last until a flush is forced, and stops *)
(* after a refused send until the next output event.                       *)
(*                                                                         *)
(* The sockets are the kernel's.  One that holds SockCap messages refuses  *)
(* a send, and is writable again at Mark.  epoll_wait reports a descriptor *)
(* once for each change of its state, with the flags that hold by then.  A *)
(* peer that closes with messages unread resets the connection: the other  *)
(* end reads what is there and then an error, instead of the end.          *)
(***************************************************************************)
EXTENDS Integers, Sequences, SequencesExt

CONSTANTS ChunkLen,  \* messages in a chunk
          RecvMax,   \* messages one receive can bring
          SockCap,   \* messages in a socket that make it refuse a send
          Mark,      \* messages in a socket at which it is writable again
          MsgBound   \* bound: messages from each side in one behaviour

Sides == {0, 1}
Other(i) == 1 - i

ASSUME SessionAssumption ==
    /\ ChunkLen \in Nat \ {0} /\ RecvMax \in Nat \ {0}
    /\ Mark \in Nat /\ SockCap \in Nat /\ Mark < SockCap
    /\ MsgBound \in [Sides -> Nat]

VARIABLES out,       \* OutBuffer of each side
          refused,   \* its wait_for_output_event
          inbuf,     \* messages received from a side and not mediated
          pc,        \* wait, next, receive, mediate, lazy, flush or over
          todo,      \* calls of handlers that the events at hand call for
          received,  \* the local of handle_input
          flushes,   \* sides left to flush with force in the call at hand
          why,       \* what ended the session: hangUp, error or panic
          toUs,      \* sent by a peer and not received
          toPeer,    \* chunks sent to a peer and not read by it
          open,      \* the peer has not closed its end
          reset,     \* the kernel has a reset to report
          edge,      \* a change that epoll_wait has not reported
          sentBy,    \* history: messages a peer has sent
          given      \* history: messages handed to the socket of a side

bufVars == <<out, refused, inbuf>>
ctlVars == <<pc, todo, received, flushes, why>>
kernelVars == <<toUs, toPeer, open, reset, edge>>
vars == <<bufVars, ctlVars, kernelVars, sentBy, given>>

-----------------------------------------------------------------------------
(* The kernel. *)

Used(i) == Len(FlattenSeq(toPeer[i]))
Writable(i) == Used(i) <= Mark

Readable(i) == toUs[i] # <<>> \/ ~open[i]

\* The events of a descriptor: a closed peer makes all of them hold.
Flags(i) ==
    (IF Writable(i) THEN {"out"} ELSE {})
    \cup (IF Readable(i) THEN {"in"} ELSE {})
    \cup (IF open[i] THEN {} ELSE {"hup"})

PeerSends(i) ==
    /\ open[i] /\ pc # "over"
    /\ sentBy[i] < MsgBound[i]
    /\ sentBy' = [sentBy EXCEPT ![i] = @ + 1]
    /\ toUs' = [toUs EXCEPT ![i] = Append(@, sentBy[i] + 1)]
    /\ edge' = [edge EXCEPT ![i] = TRUE]
    /\ UNCHANGED <<bufVars, ctlVars, toPeer, open, reset, given>>

PeerReads(i) ==
    /\ open[i] /\ toPeer[i] # <<>>
    /\ toPeer' = [toPeer EXCEPT ![i] = Tail(@)]
    /\ edge' = [edge EXCEPT ![i] = @ \/ Writable(i)']
    /\ UNCHANGED <<bufVars, ctlVars, toUs, open, reset, sentBy, given>>

PeerCloses(i) ==
    /\ open[i] /\ pc # "over"
    /\ open' = [open EXCEPT ![i] = FALSE]
    /\ reset' = [reset EXCEPT ![i] = toPeer[i] # <<>>]
    /\ toPeer' = [toPeer EXCEPT ![i] = <<>>]
    /\ edge' = [edge EXCEPT ![i] = TRUE]
    /\ UNCHANGED <<bufVars, ctlVars, toUs, sentBy, given>>

-----------------------------------------------------------------------------
(* The event loop. *)

\* Broken variant: errors before input.
CallsErrorFirst(i, flags) ==
    LET call(flag) == IF flag \in flags THEN <<[side |-> i, flag |-> flag]>> ELSE <<>>
    IN  call("out") \o call("hup") \o call("in")

\* One event: output first, then input, then errors.
Calls(i, flags) ==
    LET call(flag) == IF flag \in flags THEN <<[side |-> i, flag |-> flag]>> ELSE <<>>
    IN  call("out") \o call("in") \o call("hup")

\* epoll_wait returns the events of both descriptors in any order.
Wait ==
    /\ pc = "wait"
    /\ \E i \in Sides : edge[i]
    /\ LET calls(i) == IF edge[i] THEN Calls(i, Flags(i)) ELSE <<>>
       IN  \E i \in Sides : todo' = calls(i) \o calls(Other(i))
    /\ pc' = IF todo' = <<>> THEN "wait" ELSE "next"
    /\ edge' = [i \in Sides |-> FALSE]
    /\ UNCHANGED <<bufVars, received, flushes, why, toUs, toPeer, open, reset, sentBy, given>>

\* Broken variant: the first handler's return ends the batch.
LeaveBatch ==
    /\ todo' = Tail(todo)
    /\ pc' = "wait"

\* The handler at hand returns Ok(Continue).
Continue ==
    /\ todo' = Tail(todo)
    /\ pc' = IF Len(todo) = 1 THEN "wait" ELSE "next"

\* An error or a panic: client_session returns and drops both streams.
End(reason) ==
    /\ pc' = "over"
    /\ why' = reason

At(flag) == pc = "next" /\ Head(todo).flag = flag

Side == Head(todo).side

HandleError ==
    /\ At("hup")
    /\ End("hangUp")
    /\ UNCHANGED <<bufVars, todo, received, flushes, kernelVars, sentBy, given>>

\* Broken variant: without got_output_event.
ForgetfulHandleOutput ==
    /\ At("out")
    /\ pc' = "flush"
    /\ flushes' = <<Side>>
    /\ UNCHANGED <<refused, out, inbuf, todo, received, why, kernelVars, sentBy, given>>

HandleOutput ==
    /\ At("out")
    /\ refused' = [refused EXCEPT ![Side] = FALSE]
    /\ pc' = "flush"
    /\ flushes' = <<Side>>
    /\ UNCHANGED <<out, inbuf, todo, received, why, kernelVars, sentBy, given>>

HandleInput ==
    /\ At("in")
    /\ pc' = "receive"
    /\ received' = FALSE
    /\ UNCHANGED <<bufVars, todo, flushes, why, kernelVars, sentBy, given>>

-----------------------------------------------------------------------------
(* handle_input *)

Receive ==
    /\ pc = "receive"
    /\ toUs[Side] # <<>>
    /\ \E n \in 1..RecvMax :
          /\ n <= Len(toUs[Side])
          /\ inbuf' = [inbuf EXCEPT ![Side] = @ \o SubSeq(toUs[Side], 1, n)]
          /\ toUs' = [toUs EXCEPT ![Side] = SubSeq(@, n + 1, Len(@))]
    /\ pc' = "mediate"
    /\ UNCHANGED <<out, refused, todo, received, flushes, why, toPeer, open, reset, edge, sentBy, given>>

\* The question mark behind receive: the flushes at the end are not reached.
ReceiveFails ==
    /\ pc = "receive"
    /\ toUs[Side] = <<>> /\ reset[Side]
    /\ reset' = [reset EXCEPT ![Side] = FALSE]
    /\ End("error")
    /\ UNCHANGED <<bufVars, todo, received, flushes, toUs, toPeer, open, edge, sentBy, given>>

\* Broken variant: only the buffer of the other side is flushed, lazily.
NoFlushAtEnd ==
    /\ pc = "receive"
    /\ toUs[Side] = <<>> /\ ~reset[Side]
    /\ Continue
    /\ UNCHANGED <<bufVars, received, flushes, why, kernelVars, sentBy, given>>

\* Nothing left, or the end of the stream: force what is queued for either side.
InputEnds ==
    /\ pc = "receive"
    /\ toUs[Side] = <<>> /\ ~reset[Side]
    /\ IF received
       THEN pc' = "flush" /\ flushes' = <<0, 1>> /\ UNCHANGED todo
       ELSE Continue /\ UNCHANGED flushes
    /\ UNCHANGED <<bufVars, received, why, kernelVars, sentBy, given>>

\* Broken variant: the message goes back where it came from.
MediateBack ==
    /\ pc = "mediate"
    /\ inbuf[Side] # <<>>
    /\ inbuf' = [inbuf EXCEPT ![Side] = Tail(@)]
    /\ out' = [out EXCEPT ![Side] = Append(@, Head(inbuf[Side]))]
    /\ received' = TRUE
    /\ pc' = "lazy"
    /\ UNCHANGED <<refused, todo, flushes, why, kernelVars, sentBy, given>>

\* try_pop and mediate: the message is queued for the other side.
Mediate ==
    /\ pc = "mediate"
    /\ inbuf[Side] # <<>>
    /\ inbuf' = [inbuf EXCEPT ![Side] = Tail(@)]
    /\ out' = [out EXCEPT ![Other(Side)] = Append(@, Head(inbuf[Side]))]
    /\ received' = TRUE
    /\ pc' = "lazy"
    /\ UNCHANGED <<refused, todo, flushes, why, kernelVars, sentBy, given>>

\* The mediator, a handler or the demarshaller panics.
MediatePanics ==
    /\ pc = "mediate"
    /\ inbuf[Side] # <<>>
    /\ End("panic")
    /\ UNCHANGED <<bufVars, todo, received, flushes, kernelVars, sentBy, given>>

PopDone ==
    /\ pc = "mediate"
    /\ inbuf[Side] = <<>>
    /\ pc' = "receive"
    /\ UNCHANGED <<bufVars, todo, received, flushes, why, kernelVars, sentBy, given>>

-----------------------------------------------------------------------------
(* flush: without force in send and send_raw, with force in the handlers. *)

\* The side being flushed, and whether flush_first_chunk has something to do.
Target == IF pc = "lazy" THEN Other(Side) ELSE Head(flushes)

ToSend(i) ==
    /\ ~refused[i] /\ out[i] # <<>>
    /\ pc = "lazy" => Len(out[i]) > ChunkLen

FirstChunk(s) == IF Len(s) < ChunkLen THEN s ELSE SubSeq(s, 1, ChunkLen)

Flushing == \/ pc = "lazy"
            \/ pc = "flush" /\ flushes # <<>>

SendChunk ==
    /\ Flushing
    /\ LET i == Target
           chunk == FirstChunk(out[i])
       IN  /\ ToSend(i) /\ open[i] /\ Used(i) < SockCap
           /\ toPeer' = [toPeer EXCEPT ![i] = Append(@, chunk)]
           /\ given' = [given EXCEPT ![i] = @ \o chunk]
           /\ out' = [out EXCEPT ![i] = SubSeq(@, Len(chunk) + 1, Len(@))]
    /\ UNCHANGED <<refused, inbuf, ctlVars, toUs, open, reset, edge, sentBy>>

SendRefused ==
    /\ Flushing
    /\ LET i == Target
       IN  /\ ToSend(i) /\ open[i] /\ Used(i) >= SockCap
           /\ refused' = [refused EXCEPT ![i] = TRUE]
    /\ UNCHANGED <<out, inbuf, ctlVars, kernelVars, sentBy, given>>

\* A send to a closed peer is an error, which ends the session.
SendFails ==
    /\ Flushing
    /\ ToSend(Target) /\ ~open[Target]
    /\ End("error")
    /\ UNCHANGED <<bufVars, todo, received, flushes, kernelVars, sentBy, given>>

FlushReturns ==
    /\ Flushing
    /\ ~ToSend(Target)
    /\ IF pc = "lazy"
       THEN pc' = "mediate" /\ UNCHANGED <<todo, flushes>>
       ELSE /\ flushes' = Tail(flushes)
            /\ IF Len(flushes) = 1 THEN Continue ELSE UNCHANGED <<pc, todo>>
    /\ UNCHANGED <<bufVars, received, why, kernelVars, sentBy, given>>

-----------------------------------------------------------------------------
\* A descriptor is reported when it is added, and handle_input is called for both
\* before the first epoll_wait.
Init ==
    /\ out = [i \in Sides |-> <<>>]
    /\ refused = [i \in Sides |-> FALSE]
    /\ inbuf = [i \in Sides |-> <<>>]
    /\ pc = "next"
    /\ todo = <<[side |-> 0, flag |-> "in"], [side |-> 1, flag |-> "in"]>>
    /\ received = FALSE
    /\ flushes = <<>>
    /\ why = "none"
    /\ toUs = [i \in Sides |-> <<>>]
    /\ toPeer = [i \in Sides |-> <<>>]
    /\ open = [i \in Sides |-> TRUE]
    /\ reset = [i \in Sides |-> FALSE]
    /\ edge = [i \in Sides |-> TRUE]
    /\ sentBy = [i \in Sides |-> 0]
    /\ given = [i \in Sides |-> <<>>]

SessionStep ==
    \/ Wait
    \/ HandleError \/ HandleOutput \/ HandleInput
    \/ Receive \/ ReceiveFails \/ InputEnds \/ Mediate \/ PopDone
    \/ SendChunk \/ SendRefused \/ SendFails \/ FlushReturns

Next ==
    \/ \E i \in Sides : PeerSends(i)
    \/ \E i \in Sides : PeerReads(i)
    \/ \E i \in Sides : PeerCloses(i)
    \/ MediatePanics
    \/ SessionStep

\* The thread runs, and epoll_wait reports changes.  Peers read what they are
\* sent; nothing makes one send or close.
Spec ==
    /\ Init /\ [][Next]_vars
    /\ WF_vars(SessionStep)
    /\ \A i \in Sides : WF_vars(PeerReads(i))

-----------------------------------------------------------------------------
Messages == 1..(IF MsgBound[0] < MsgBound[1] THEN MsgBound[1] ELSE MsgBound[0])

\* Types; the loop waits when no calls are left of the events at hand, and no
\* handler returns before its flushes are done.
TypeOK ==
    /\ out \in [Sides -> Seq(Messages)] /\ inbuf \in [Sides -> Seq(Messages)]
    /\ toUs \in [Sides -> Seq(Messages)] /\ toPeer \in [Sides -> Seq(Seq(Messages))]
    /\ given \in [Sides -> Seq(Messages)] /\ sentBy \in [Sides -> Nat]
    /\ refused \in [Sides -> BOOLEAN] /\ open \in [Sides -> BOOLEAN]
    /\ reset \in [Sides -> BOOLEAN] /\ edge \in [Sides -> BOOLEAN]
    /\ pc \in {"wait", "next", "receive", "mediate", "lazy", "flush", "over"}
    /\ todo \in Seq([side : Sides, flag : {"out", "in", "hup"}])
    /\ received \in BOOLEAN /\ flushes \in Seq(Sides)
    /\ why \in {"none", "hangUp", "error", "panic"}
    /\ pc # "over" => /\ pc = "wait" <=> todo = <<>>
                      /\ pc = "flush" <=> flushes # <<>>

\* Whatever a side sent is at one place, in order: with the other side's socket, in
\* the buffer for it, or still to be mediated or received.  (What a panic was
\* raised for is still in the last but one.)
NothingLost ==
    \A i \in Sides :
        given[Other(i)] \o out[Other(i)] \o inbuf[i] \o toUs[i] = [n \in 1..sentBy[i] |-> n]

\* A session that goes back to epoll_wait leaves a descriptor without an event to
\* come only when there is nothing to read from it, its peer is there, and all
\* that is queued for it was refused by a socket that is still too full.
QuietMeansForwarded ==
    pc = "wait" => \A i \in Sides :
        ~edge[i] => /\ toUs[i] = <<>> /\ inbuf[i] = <<>> /\ open[i]
                    /\ out[i] # <<>> => refused[i] /\ ~Writable(i)

\* All that i had sent was handed to the other side, or refused by its socket.
HeardOut(i) ==
    /\ toUs[i] = <<>> /\ inbuf[i] = <<>>
    /\ out[Other(i)] # <<>> => refused[Other(i)]

\* A hang-up is reported along with the last messages of the peer: the session does
\* not end by it before it has read and forwarded them.
LastWordsForwarded == pc = "over" /\ why = "hangUp" => HeardOut(Side)

\* Whether the session waits or has ended with a hang-up, nothing that could have gone
\* on is left behind.
NothingLeftBehind == QuietMeansForwarded /\ LastWordsForwarded

\* handle_input forces a flush of what it has queued, "because we don't know when we
\* will be back here", so that no receiver starves: also when the input ends with an
\* error, nothing being queued for the peer that hung up.
InputAlwaysFlushed ==
    \A i \in Sides :
        pc = "over" /\ why # "panic" /\ ~open[i] /\ open[Other(i)] /\ out[i] = <<>> => HeardOut(i)

\* Every message is handed to the other side's socket in the end, and a hang-up ends
\* the session, whatever is still queued.
Served ==
    /\ \A i \in Sides, n \in Messages :
          sentBy[i] >= n ~> Len(given[Other(i)]) >= n \/ pc = "over"
    /\ \A i \in Sides : ~open[i] ~> pc = "over"

=============================================================================
