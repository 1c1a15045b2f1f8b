------------------------------- MODULE SafeClip -------------------------------
(***************************************************************************)
(* The safeclip addon (src/src/addons.rs) in the handler queues of the     *)
(* mediator (src/src/handlers.rs, src/src/mediator.rs): clients, each      *)
(* behind a waydapt with any number of safeclip groups or behind none,     *)
(* offer names (mime types), see the names of others, ask for them, and    *)
(* set titles.  A request gets the prefixes of the groups; an event loses  *)
(* them, or is dropped.                                                    *)
(*                                                                         *)
(* A string is a sequence of characters.  Messages have the name or title  *)
(* as their only argument with words in it.  The server and the sockets    *)
(* between it and the clients are external; each message passes one        *)
(* session in one step, as the session's thread does nothing else.         *)
(***************************************************************************)
EXTENDS Integers, SequencesExt

CONSTANTS Clients,
          Chars,      \* what strings are made of
          Line,       \* the prefixes on a client's command line, in their order
          Names,      \* what clients offer and put in titles
          MaxBytes,   \* MAX_BYTES_OUT
          Null,       \* a null string
          Dropped,    \* no message: a handler returned Drop
          Panic,      \* no message: the session panicked
          NameBound   \* how many names there may be in all, and how many titles

round4(n) == ((n + 3) \div 4) * 4

\* Two words of header, the length of the string, and the string with its
\* terminator.
Size(s) == 12 + round4(Len(s) + 1)

\* A message is made of words.  Nobody checks the prefixes.
ASSUME SafeClipAssumption ==
    /\ Null \notin Seq(Chars) /\ Dropped \notin Seq(Chars) /\ Panic \notin Seq(Chars)
    /\ Null # Dropped /\ Null # Panic /\ Dropped # Panic
    /\ MaxBytes \in Nat /\ MaxBytes % 4 = 0
    /\ Names \subseteq Seq(Chars) /\ \A n \in Names : Size(n) <= MaxBytes
    /\ Line \in [Clients -> Seq(Seq(Chars))]

VARIABLES running,     \* whether the session of a client goes on
          endedBy,     \* history: the name that ended it
          named,       \* history: the names a client offered
          source,      \* the names the server holds for a client
          titles,      \* the titles the server holds for a client
          advertised,  \* the names the server sent to a client, and whose they are
          seen,        \* those that came, and as what
          asked,       \* names that the server is to ask a client for
          got          \* names that a client was asked for

vars == <<running, endedBy, named, source, titles, advertised, seen, asked, got>>
sessions == <<running, endedBy>>

-----------------------------------------------------------------------------
(* Handlers.  One per group in each queue; the groups are numbered in the  *)
(* order of the command line, and index the session states.                *)

Groups(c) == [g \in DOMAIN Line[c] |-> g]

PushBack(queue, g) == Append(queue, g)
PushFront(queue, g) == <<g>> \o queue

\* Broken variant: event_push_back in place of event_push_front.
BackQueue(c) == FoldLeft(PushBack, <<>>, Groups(c))

RequestQueue(c) == FoldLeft(PushBack, <<>>, Groups(c))
EventQueue(c) == FoldLeft(PushFront, <<>>, Groups(c))

\* The state SessionInit makes for a group.
State(c, g) == Line[c][g]

\* Broken variant: one byte is left too many.
OneByteMore(size, prefix) == size + Len(prefix) - MaxBytes - 1

Over(size, prefix) == size + Len(prefix) - MaxBytes

\* add_prefix: get_size is the size of the message as it came in, whatever the
\* handlers before this one made of it.
AddPrefix(s, size, prefix) ==
    IF Over(size, prefix) <= 0 THEN prefix \o s
    ELSE IF Over(size, prefix) > Len(s) THEN Panic
    ELSE prefix \o SubSeq(s, 1, Len(s) - Over(size, prefix))

\* Broken variant: what has another prefix is passed on.
PassOn(s, prefix) == IF IsPrefix(prefix, s) THEN SubSeq(s, Len(prefix) + 1, Len(s)) ELSE s

RemovePrefix(s, prefix) ==
    IF IsPrefix(prefix, s) THEN SubSeq(s, Len(prefix) + 1, Len(s)) ELSE Dropped

\* Broken variant: the length of a marshalled message is not checked.
AnyLength(s) == FALSE

\* The assertion of OutBuffer::send, on what marshal wrote.
TooLong(s) == Size(s) > MaxBytes

\* A null string has no terminator, so that the CStr of demarshal fails.
Demarshals(s) == s # Null

\* mediate: a message with handlers is demarshalled, goes through them until one
\* drops it, and is marshalled.
Request(c, s) ==
    IF Line[c] = <<>> THEN s
    ELSE IF ~Demarshals(s) THEN Panic
    ELSE LET step(t, g) == IF t = Panic THEN Panic ELSE AddPrefix(t, Size(s), State(c, g))
             out == FoldLeft(step, s, RequestQueue(c))
         IN  IF out # Panic /\ TooLong(out) THEN Panic ELSE out

Event(c, s) ==
    IF Line[c] = <<>> THEN s
    ELSE IF ~Demarshals(s) THEN Panic
    ELSE LET step(t, g) == IF t = Dropped THEN Dropped ELSE RemovePrefix(t, State(c, g))
         IN  FoldLeft(step, s, EventQueue(c))

-----------------------------------------------------------------------------
Init ==
    /\ running = [c \in Clients |-> TRUE]
    /\ endedBy = [c \in Clients |-> {}]
    /\ named = [c \in Clients |-> {}]
    /\ source = [c \in Clients |-> {}]
    /\ titles = [c \in Clients |-> {}]
    /\ advertised = [c \in Clients |-> {}]
    /\ seen = [c \in Clients |-> {}]
    /\ asked = [c \in Clients |-> {}]
    /\ got = [c \in Clients |-> {}]

With(f, c, x) == [f EXCEPT ![c] = @ \union {x}]

\* The session of c panics on the name s; the server forgets what it had of c.
SessionEnds(c, s) ==
    /\ running' = [running EXCEPT ![c] = FALSE]
    /\ endedBy' = [endedBy EXCEPT ![c] = {s}]
    /\ source' = [source EXCEPT ![c] = {}]
    /\ titles' = [titles EXCEPT ![c] = {}]
    /\ asked' = [asked EXCEPT ![c] = {}]

InBounds(strings) ==
    FoldFunction(+, 0, [c \in Clients |-> Cardinality(strings[c])]) < NameBound

\* The request offer of a source.
Offer(c, n) ==
    /\ InBounds(named)
    /\ running[c] /\ n \notin named[c]
    /\ named' = With(named, c, n)
    /\ IF Request(c, n) = Panic
       THEN SessionEnds(c, n)
       ELSE /\ source' = With(source, c, Request(c, n))
            /\ UNCHANGED <<sessions, titles, asked>>
    /\ UNCHANGED <<advertised, seen, got>>

\* The request set_title.
SetTitle(c, n) ==
    /\ InBounds(titles)
    /\ running[c]
    /\ IF Request(c, n) = Panic
       THEN SessionEnds(c, n)
       ELSE /\ Request(c, n) \notin titles[c]
            /\ titles' = With(titles, c, Request(c, n))
            /\ UNCHANGED <<sessions, source, asked>>
    /\ UNCHANGED <<named, advertised, seen, got>>

\* The event offer: the server shows c a name of the client o.
Advertise(o, c, s) ==
    /\ running[c] /\ s \in source[o]
    /\ <<o, s>> \notin advertised[c]
    /\ advertised' = With(advertised, c, <<o, s>>)
    /\ seen' = IF Event(c, s) = Dropped THEN seen ELSE With(seen, c, <<o, Event(c, s)>>)
    /\ UNCHANGED <<sessions, named, source, titles, asked, got>>

\* The requests receive and accept, the second of which may say Null, for
\* nothing of what c has seen of o will do; the server relays them to o.
Ask(c, o, s) ==
    /\ running[c]
    /\ IF Request(c, s) = Panic
       THEN SessionEnds(c, s)
       ELSE /\ running[o] /\ Request(c, s) \notin asked[o]
            /\ asked' = With(asked, o, Request(c, s))
            /\ UNCHANGED <<sessions, source, titles>>
    /\ UNCHANGED <<named, advertised, seen, got>>

\* The events send and target.
Asked(o, s) ==
    /\ running[o] /\ s \in asked[o]
    /\ IF Event(o, s) = Panic
       THEN SessionEnds(o, s) /\ UNCHANGED got
       ELSE /\ asked' = [asked EXCEPT ![o] = @ \ {s}]
            /\ got' = IF Event(o, s) = Dropped THEN got ELSE With(got, o, Event(o, s))
            /\ UNCHANGED <<sessions, source, titles>>
    /\ UNCHANGED <<named, advertised, seen>>

Next ==
    \/ \E c \in Clients, n \in Names : Offer(c, n)
    \/ \E c \in Clients, n \in Names : SetTitle(c, n)
    \/ \E o, c \in Clients : \E s \in source[o] : Advertise(o, c, s)
    \/ \E c \in Clients : \E p \in seen[c] : Ask(c, p[1], p[2]) \/ Ask(c, p[1], Null)
    \/ \E o \in Clients : \E s \in asked[o] : Asked(o, s)

Spec == Init /\ [][Next]_vars

-----------------------------------------------------------------------------
\* What stands in front of a name of c once all groups of its waydapt saw it.
Mark(c) == FoldLeft(LAMBDA m, prefix : prefix \o m, <<>>, Line[c])

\* The prefixes of a command line leave room for a string in a message; no prefix of
\* a few bytes comes near that, and nothing checks it.
Fits(c) == Len(Mark(c)) + 16 <= MaxBytes

\* A name that no group has a reason to truncate, wherever it comes from.
Short(c, n) == Len(Mark(c)) + Len(n) + 16 <= MaxBytes

\* Types; no session sends the server more than a message may hold.
TypeOK ==
    /\ running \in [Clients -> BOOLEAN]
    /\ \A c \in Clients :
         /\ named[c] \subseteq Names
         /\ running[c] <=> endedBy[c] = {}
         /\ \A s \in (source[c] \union titles[c]) : Size(s) <= MaxBytes
         /\ \A s \in asked[c] : s # Null => Size(s) <= MaxBytes
         /\ seen[c] \subseteq {<<p[1], Event(c, p[2])>> : p \in advertised[c]}

\* "the windows of those applications will be clearly marked": whatever is cut off, titles
\* and names reach the server with every prefix.
AllMarked ==
    \A c \in Clients : Fits(c) =>
        \A s \in (source[c] \union titles[c]) : IsPrefix(Mark(c), s)

\* A string that the waydapt of o made of a name of o; a long one may be cut off.
Carries(o, s) ==
    \E n \in named[o] : IsPrefix(s, Mark(o) \o n) /\ (Short(o, n) => s = Mark(o) \o n)

\* A client sees of what the server shows it exactly what begins with its own mark, and
\* that with this mark in front is a name of the client it comes from, behind the mark of
\* that one.  So names come from one mark to another only if one of the two begins with
\* the other: all of them to the shorter mark, and to the longer those that go on like it.
\* That is less than src/src/addons.rs:39-41 promises, "they won't have any access to the
\* clipboard contents of external clients or clients of waydapt+SafeClip using a different
\* prefix": see the README.
SeenByMark ==
    /\ \A c \in Clients : \A p \in advertised[c] :
         IsPrefix(Mark(c), p[2]) => \E q \in seen[c] : q[1] = p[1] /\ Mark(c) \o q[2] = p[2]
    /\ \A c \in Clients : \A p \in seen[c] :
         /\ Carries(p[1], Mark(c) \o p[2])
         /\ Fits(p[1]) => IsPrefix(Mark(p[1]), Mark(c) \o p[2])

\* "clients served by waydapt+SafeClip using the same prefix will act as though
\* they share a clipboard": they see all the names the server shows them, and as
\* they were offered; and a client is asked only for names it offered.  Long
\* names come truncated.
Beginning(c, s, n) == IsPrefix(s, n) /\ (Short(c, n) => s = n)

SharedClipboard ==
    /\ \A c \in Clients : \A p \in advertised[c] :
         Fits(c) /\ Mark(c) = Mark(p[1]) =>
             \E q \in seen[c] : q[1] = p[1] /\ Mark(c) \o q[2] = p[2]
    /\ \A c \in Clients : \A p \in seen[c] :
         Mark(c) = Mark(p[1]) => \E n \in named[p[1]] : Beginning(c, p[2], n)
    /\ \A o \in Clients : \A s \in got[o] : s # Null =>
           \E n \in named[o] : Beginning(o, s, n)

\* Who sees which names, for any two clients, and that clients of one prefix share a
\* clipboard.
Clipboards == AllMarked /\ SeenByMark /\ SharedClipboard

\* A session without the addon goes on.  One with it is ended by a null string, or by a
\* name too long for it together with two prefixes or more: one prefix makes a name
\* shorter, never too long.
OnlyOverlongEnds ==
    \A c \in Clients : \A s \in endedBy[c] :
        /\ Line[c] # <<>>
        /\ Fits(c) /\ s # Null =>
              Len(Line[c]) > 1 /\ 12 + round4(Len(Mark(c)) + Len(s) + 1) > MaxBytes

=============================================================================
