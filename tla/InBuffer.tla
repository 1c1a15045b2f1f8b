------------------------------- MODULE InBuffer -------------------------------
(***************************************************************************)
(* The input side of one stream of a session: InBuffer of                  *)
(* src/src/buffers.rs, under the loop of handle_input of                   *)
(* src/src/session.rs, which receives until nothing is left and pops every *)
(* complete message between two receives.  The array keeps what was read   *)
(* or moved away: a slice that is off by one finds stale words.            *)
(*                                                                         *)
(* A word is its position in the stream and the message it belongs to, as  *)
(* in OutBuffer.  Transport puts the module behind a socket and checks the *)
(* properties stated here.                                                 *)
(***************************************************************************)
EXTENDS Integers, Sequences, SequencesExt

CONSTANTS MaxWords,       \* MAX_WORDS_OUT: the longest message and receive
          AlwaysCompact   \* feature always_compact

VARIABLES data,      \* the array of 2 * MaxWords words
          front,     \* where the next message starts in it
          back,      \* where the next receive goes
          inFds,     \* descriptors received and not yet taken
          inPc,      \* idle, receive or pop: where handle_input is
          inFlight,  \* words sent and not received
          came,      \* history: messages, words and fds sent
          popped     \* history: messages, words and fds handed to the mediator

Size == 2 * MaxWords
NoWord == [pos |-> 0, msg |-> [start |-> 0, len |-> 0, nfds |-> 0, lastFd |-> 0]]

-----------------------------------------------------------------------------
(* The operations on the array. *)

Available == back - front

\* try_pop finds the length in the second word, and then the whole message.
MessageComplete == front + data[front + 1].msg.len <= back

CanPop == Available >= 2 /\ MessageComplete

\* Broken variants: the move is one short; nothing is ever moved.
CompactShort(i) == IF i < Available - 1 THEN data[front + i] ELSE data[i]
NeverCompact == FALSE

Moved(i) == IF i < Available THEN data[front + i] ELSE data[i]

NeedsCompact == AlwaysCompact \/ back > MaxWords

\* make_room: an empty buffer starts over, and what is left of a message moves
\* to the front when there is not room for a whole receive behind it.
MakeRoom ==
    IF Available = 0
    THEN [data |-> data, front |-> 0, back |-> 0]
    ELSE IF NeedsCompact
         THEN [data |-> [i \in 0..(Size - 1) |-> Moved(i)], front |-> 0, back |-> Available]
         ELSE [data |-> data, front |-> front, back |-> back]

NextAfter(ws) == IF ws = <<>> THEN "idle" ELSE "pop"

\* receive with words ws and descriptors fs from the kernel, or with neither.
Receive(ws, fs) ==
    LET room == MakeRoom
    IN  /\ inPc = "receive"
        /\ data' = [i \in 0..(Size - 1) |->
                       IF i \in room.back..(room.back + Len(ws) - 1)
                       THEN ws[i - room.back + 1] ELSE room.data[i]]
        /\ front' = room.front
        /\ back' = room.back + Len(ws)
        /\ inFds' = inFds \o fs
        /\ inPc' = NextAfter(ws)

\* An input event: handle_input begins.
HandleInput ==
    /\ inPc = "idle"
    /\ inPc' = "receive"
    /\ UNCHANGED <<data, front, back, inFds>>

\* Broken variant: the handler leaves the descriptors.
NoneTaken(m) == 0

FdsTaken(m) == m.nfds

\* try_pop, and the mediator, which takes the message's descriptors.
Pop ==
    /\ inPc = "pop"
    /\ CanPop
    /\ LET m == data[front + 1].msg
       IN  /\ front' = front + m.len
           /\ inFds' = SubSeq(inFds, FdsTaken(m) + 1, Len(inFds))
           /\ popped' = [msgs |-> popped.msgs + 1, words |-> popped.words + m.len,
                         fds |-> popped.fds + m.nfds]
    /\ UNCHANGED <<data, back, inPc>>

\* Nothing more to pop: receive again.
PopDone ==
    /\ inPc = "pop"
    /\ ~CanPop
    /\ inPc' = "receive"
    /\ UNCHANGED <<data, front, back, inFds>>

-----------------------------------------------------------------------------
Init ==
    /\ data = [i \in 0..(Size - 1) |-> NoWord]
    /\ front = 0 /\ back = 0
    /\ inFds = <<>>
    /\ inPc = "idle"
    /\ inFlight = <<>>
    /\ came = [msgs |-> 0, words |-> 0, fds |-> 0]
    /\ popped = [msgs |-> 0, words |-> 0, fds |-> 0]

-----------------------------------------------------------------------------
\* receive is called with less than one message left, so that once it made room
\* there are MaxWords words behind what is left: its slice is in the array.
RoomToReceive ==
    /\ front \in 0..back /\ back \in 0..Size
    /\ inPc = "receive" => Available < MaxWords /\ MakeRoom.back + MaxWords <= Size

\* What lies between front and back is the stream from where the last message
\* ended: no word is skipped, repeated or stale, however often the rest of a
\* message was moved and the stream was cut.
UnreadIntact ==
    /\ \A i \in front..(back - 1) : data[i].pos = popped.words + 1 + i - front
    /\ Available > 0 => data[front].msg.start = popped.words + 1
    /\ popped.words + Available + Len(inFlight) = came.words

\* The mediator finds a popped message's own descriptors at the head of the queue:
\* it drains as many as the message has, and would panic on fewer.
FdsReady ==
    /\ \A i \in 1..Len(inFds) : inFds[i] = popped.fds + i
    /\ inPc = "pop" /\ CanPop =>
          LET m == data[front + 1].msg
          IN  m.nfds <= Len(inFds) /\ popped.fds + m.nfds = m.lastFd

=============================================================================
