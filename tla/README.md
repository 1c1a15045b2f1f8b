# waydapt: TLA+ models, checks and proofs

waydapt is a proxy for the Wayland protocol.  It listens on a socket of its own,
and for each client that connects opens a connection to the Wayland server and
relays messages both ways, looking into them, and letting handlers of addons
change or drop them.  This directory holds TLA+ modules of its parts, TLC
configurations that check them on small instances, and proofs for all instances.
Source paths below are relative to `src/src/`; `PROJECT.json` maps each definition
to the lines it translates.

## The system

| part | state | operations | interacts with |
|---|---|---|---|
| `OutBuffer` (`buffers.rs`) | list of chunks, spare chunks, queued descriptors, wait flag | `send`, `send_raw`, `flush`, `got_output_event` | called by the mediator and the session; calls `send_msg` |
| `InBuffer` (`buffers.rs`) | array with front and back, received descriptors | `receive`, `try_pop`, `make_room`, `compact` | called by the session; calls `recv_msg` |
| streams (`streams.rs`) | none | `recv_msg`, `send_msg`: nonblocking, all or nothing | the kernel |
| session (`session.rs`, `event_loop.rs`) | two in buffers, two out buffers, a mediator, addon states | `handle_input`, `handle_output`, `handle_error`, edge-triggered event loop | one thread or process per session |
| mediator (`mediator.rs`, `map.rs`, `builtin.rs`) | map from object ids to interfaces | `mediate`, `add`, `delete`, `lookup` | pops from an in buffer, puts in the other side's out buffer |
| handlers (`handlers.rs`, `for_handlers.rs`) | the queue of handlers per message, addon states by group | `push_front`, `push_back`, `handle` | called by the mediator |
| safeclip (`addons.rs`) | a prefix per group | `add_prefix`, `remove_prefix` | a handler |
| messages (`message.rs`, `header.rs`) | arguments of one message | `demarshal`, `marshal`, `set_arg` | mediator, handlers |
| protocol (`parse.rs`, `protocol.rs`, `postparse.rs`) | interfaces, parents, active ones and their versions | built once at startup | read by all sessions |
| listener (`listener.rs`, `forking.rs`) | lock file and its descriptor, socket file, `init_pid` | `new`, `lock_file`, `drop`, `daemonize`, `double_fork` | other waydapt processes, over the file system |
| main event loop (`socket_events.rs`, `setup.rs`) | signalfd, listener, watched server | `handle_input`, `drop`, `startup` | starts sessions; ends the process |
| terminator (`terminator.rs`) | two atomic counters | `new`, `drop` | sessions, the main thread (by a signal) |

The code has no threads within a session.  Sessions share nothing but the
counters of the terminator and protocol data that does not change once they run.

What is hard here, and what each part has to get right:

- *Out buffer.*  A send takes one whole chunk and at most `MAX_FDS_OUT`
  descriptors.  The chunks must never run ahead of the descriptors of the
  messages in them, whatever the history of refused sends; nothing may be lost or
  reordered where messages are split; and the lazy flushing may never leave
  something behind with no event to come that would send it.
- *In buffer.*  The stream is cut anywhere; the rest of a message is moved in an
  array that holds stale words, and there must be room for a whole receive.
- *Both ends together.*  Readiness comes as edges.  Flags, forced flushes and edges
  must combine so that no wakeup is lost.
- *Session.*  One loop serves both streams, and each side's input fills the other's
  buffer.  It must leave nothing behind when it waits, whatever the sockets refuse and
  in whatever order events come, and read a peer's last words before its hang-up.
- *Messages.*  Three ways through the mediator, with handlers, with debug output and with
  neither, must come to the same words, descriptors and ids.
- *Object ids.*  Four message queues lie between client, proxy and server.  The
  proxy must know the interface of every id as its sender does, over destruction
  and reuse of ids, or it panics or misreads the messages that follow.
- *Protocol.*  The passes over the interfaces go in the order of HashMaps, which
  differs in each run of the program; the outcome should not.
- *Safeclip.*  All names go through one server, and what belongs to a prefix is found
  by comparing strings alone.  A name must come to exactly the clients it is for, with
  several prefixes on a command line, and where names are as long as a message may be.
- *Listener.*  Several processes race for one display name with `flock`, `unlink`
  and `bind` as separate steps; any of them may be killed at any step; forked
  children share the lock.
- *Ending.*  Sessions count themselves in two atomic counters, and the last one
  ends the process after a pause unless a new one came; the main thread handles
  signals through a signalfd and unmasks them before it runs destructors.

## Modules

| module | models | proofs | TLC |
|---|---|---|---|
| `OutBuffer` | `OutBuffer` of `buffers.rs` | `OutBufferProofs` | `MCOutBuffer` |
| `InBuffer` | `InBuffer` of `buffers.rs`, under the loop of `Session::handle_input` | `TransportProofs` | `MCTransport` |
| `Transport` | `OutBuffer`, a socket and `InBuffer` under the event loop | `TransportProofs` | `MCTransport` |
| `MessageChannel` | abstract: what `send` and `try_pop` promise | its safety, by `TransportProofs` | by `MCTransport` |
| `Session` | `session.rs`, `event_loop.rs`: both streams to the end of a session | `SessionProofs` | `MCSession` |
| `Mediator` | `mediator.rs`, `message.rs`, `builtin.rs`: a message's words, descriptors and handlers | `MediatorProofs` | `MCMediator` |
| `ObjectIds` | `map.rs`, `mediator.rs`, `builtin.rs` between a client and a server | `ObjectIdsProofs` | `MCObjectIds` |
| `SafeClip` | `addons.rs` in the queues of `handlers.rs` | `SafeClipProofs` | `MCSafeClip` |
| `ActiveInterfaces` | `postparse.rs`, `gather_handlers` of `handlers.rs` | | `MCActiveInterfaces` |
| `Listener` | `listener.rs`, `forking.rs` | `ProcessProofs` | `MCListener` |
| `Daemon` | `socket_events.rs`, `terminator.rs`, the end of `startup` in `setup.rs` | `ProcessProofs` | `MCDaemon` |

`SequenceLemmas` holds lemmas about folds, flattened sequences and prefixes, without a line of the model.
`Transport` composes `OutBuffer` and `InBuffer` by named instances and implements
`MessageChannel`.  `Session` takes two such streams, with buffers cut down to what
`Transport` shows of them, and puts them under one event loop.  `ObjectIds` takes the whole
session as a pair of channels, and `Mediator` looks into the step that `Mediate` is in both.

Definitions marked *Broken variant* are not part of any specification.  Each is a
plausible mistake in the definition after it; put in its place, it makes TLC find a
property violated, which shows that the property depends on the code.

### OutBuffer

The variables are the fields of the struct: `chunks`, `freeChunks`
(`free_chunks`), `fds`, `waitForOutput` (`wait_for_output_event`).  `pc` and `msg`
are the call in progress and its argument.  A word is its position in the stream
and its message's place, length and last descriptor; a descriptor is its rank.
`accepted` and `sent` are history.  `AddFds` is `add_fds` up to its flush; `Put` is
the rest of `send` or `send_raw` up to theirs; `SendChunk`, `SendRefused` and
`SendFailed` are one round of `flush_first_chunk` with the three results of
`send_msg`; `FlushReturn` is the end of a flush, with the `start_next_chunk` of
`add_fds`.  Any call may come at any time between others, `got_output_event`
included, which is more than the session does and covers spurious events.
Feature `limit_sends` and option `flush_every_send` are constants.

### InBuffer

`data`, `front`, `back` and `inFds` are the fields.  `Receive` is `receive` with
`make_room` and `compact`; `Pop` is `try_pop` and what the mediator takes;
`HandleInput` and `PopDone` are the loops of `handle_input`.  The module has no behaviour
of its own: `Transport` lets a kernel cut the stream anywhere and hand over at least
the descriptors that belong to the words.

### Transport and MessageChannel

One stream between two processes that use the same code.  `Send` puts a message
from within `handle_input` of the sender, which `InputEnds` with the forced flush;
`OutputEvent` is `handle_output` on an edge, `OutputEdgeSpent` an edge that
`epoll_wait` finds untrue.  The socket is external: segments, one for each send,
refused from `SockCap` words on and writable again at `Mark`; a segment takes the room of all
its words (`whole`) until the last is read.  A `Receive` ends with word `c` of segment `t`,
which is not behind one that brings descriptors (`MayRead`).  `put` and `delivered`
are history, and the refinement mapping is the identity on them: a message of the channel is its
words together with its descriptors (`Travels`), so that one delivered with the
descriptors of another is none.

### Session

Side 0 is the client, side 1 the server.  `todo` holds the calls of handlers that the events
of one `epoll_wait` amount to (`Calls`): output, input, then errors for each descriptor, the
descriptors in any order.  `Receive` to `PopDone` are `handle_input`; `pc = "lazy"` is the
unforced flush in `send` and `send_raw`, `pc = "flush"` the forced flushes that `flushes` lists.
A message is a number.  `ReceiveFails` is `ECONNRESET`, which the kernel reports, after what
it still has, to the peer of a socket that was closed with data unread.  `End` is the return
of `client_session`, or a panic.

### Mediator

`FastTrack`; `StartMessage` with `Relay`; and `StartMessage` with handlers and `Marshal` are the
three ways of `mediate`.  Words are modelled one by one: `Demarshal` reads them and
`MarshalModified` and `AddArray` write them, while `Wire` says what the protocol has for the
same arguments.  Types of one word are one type, `Uint`, but for new ids.  `LookAddon` and
`ChangeAddon` are what an addon's handler may do with `MessageInfo`: look, `set_arg`,
`get_arg_mut`, and answer `Next`, `Send` or `Drop`.  They leave new ids and descriptors
alone, and send no messages of their own, for which the traits have no means.  `meant` follows what handlers did,
beside the code's own data.  Whether an id may be added is left to `ObjectIds`.

### ObjectIds

`clientMap` and `serverMap` are the two vectors of `IdMap`, with their entries and
index arithmetic.  `Mediate` is `mediate` for one message: lookup, the built-in
handlers, `add` or `delete`, relay.  `MediateDropped` is the case of an addon's handler that
drops the message: any but those that `mediate` or a built-in handler in front protects
(`MayBeDropped`), the request that destroys an object included.  `withheld` is history: the ids
whose destruction the server was never told of.  Client and server are external and follow the
id rules of the Wayland library, including ids reused after `delete_id`, callbacks
the server destroys, ids the server allocates, and the handshake of wayland-idfix.
A message carries the interface its sender takes the target to have.

### SafeClip

A client is behind a waydapt with the safeclip groups of its command line, or behind
none.  `RequestQueue` and `EventQueue` are the queues that `init_handlers` makes;
`Request` and `Event` are `mediate` on a message with them.  Clients offer names, see
those the server shows them, ask for them, or for nothing (a null string, as
`wl_data_offer.accept` may), and set titles.  A string is a sequence of characters, and sizes are in
bytes with padding and terminator as in the code.  `AddPrefix` uses the size of the
message as it came in, as `get_size` does.  A prefix may be of any length; a command line
whose prefixes together leave room in a message (`Fits`) is what the properties ask for.

### ActiveInterfaces

The passes of `active_interfaces` in turn (`phase`), each visiting its interfaces in
any order where the code walks a HashMap.  `parent`, `new_id_interface`,
`limited_version`, `active_interfaces` and `active_messages` are what the passes
set.  Panics end the run, as does a walk up a circle of parents.  The files are
chosen in `Init`, and the lines of the globals file as they are read, malformed
lines included.  `AddBuiltinHandlers` is where `gather_handlers` needs `wl_display` to be
in the map; `wl_registry`, which `wl_display` makes, is active with it.

### Listener

Processes run `SocketListener::new` and `drop` step by step, each system call a
step.  Inodes are a finite set and are reused as soon as the kernel may.  Open
file descriptions are shared by forks.  A process may be killed at any step.
Initially old files of a killed process may lie at either path.  That a program
other than waydapt touches the two paths is left out.

### Daemon

One process: the main thread, its signals, and the sessions it starts, with each
access to a counter of the terminator a step.  `mode` is the choice between option
`-t`, option `-s`, option `-c` and neither.  With `-c` the main thread waits while an
intermediate process forks the session's; either fork may fail.  The counters are taken to be sequentially
consistent, although the code uses weaker orderings: the load of
`CLIENT_SESSION_TOTAL` is Relaxed, and on a weakly ordered machine might return a
total older than the count says, so that the process lingers.  Clients, signals and
the end of the server come at any time.  Sessions end when they like.

## Runs

| run | shows |
|---|---|
| `out_buffer` | stream and descriptors in order (`StreamIntact`), chunks within bounds (`ChunksFit`), no word leaves before its message's descriptors (`FdsSentWithWords`), nothing can hold the queue back (`NoStall`), calls return with the queue drained (`ReturnsDrained`) |
| `transport` | room for every receive (`RoomToReceive`), no word lost or stale and descriptors there when popped (`UnreadIntact`), no lost wakeup (`NoLostWakeUp`), and `MessageChannel` implemented, liveness included (`Refines`) |
| `session` | every message at one place and in order (`NothingLost`), nothing left behind by a session that waits or that a hang-up ended (`NothingLeftBehind`), everything handed on unless the session ends (`Served`) |
| `session_reset` | finding: a reset connection skips the forced flush |
| `mediator` | what is sent reads as the handlers left it, with its own descriptors (`SentAsMeant`), ids are the same by each way (`IdsTracked`), and only two things make the mediator itself panic (`PanicsCalledFor`) |
| `object_ids` | no panic (`NeverPanics`), each message read as meant (`InterfacesAgree`), an id comes back to the client that destroyed its object, unless an addon dropped that request (`IdsComeBack`) |
| `safe_clip` | which clients see which names, and that those of one prefix share a clipboard (`Clipboards`), and what can end a session (`OnlyOverlongEnds`) |
| `active_interfaces` | the result is what the files say and what active messages create is active (`ResultIsReference`), startup's verdict depends on the files alone (`SameVerdict`), and it ends (`Ends`) |
| `parents` | finding: the check that creators agree compares a value with itself |
| `listener` | one owner (`OneOwner`), its socket in place (`ServesItsSocket`), no failed unwrap (`NothingBroken`), nothing left behind (`NoLeftovers`), `lock_file` ends and old files block nobody (`StartsOrGivesUp`) |
| `daemon` | who is struck by `-t` (`SparesSessions`), that the process does end (`QuietEndsProcess`), that signals and the server's end stop the loop (`LoopEnds`), that clients of `-s` and `-c` are served (`AcceptedServed`) |
| `daemon_race` | finding: the terminate option may strike a new session |

Bounds, and why they are enough:

- *Buffers.*  Messages of 2 and 3 words with 3 the maximum meet every case of
  `send_raw` and `start_next_chunk`: a message fits, fits exactly, is split after
  each of its words, or leaves too little room for the next.  With 2 descriptors per
  send and per message one refused flush makes `too_many_fds` true.  Four messages
  (`MsgBound`) fill a chunk twice.  `transport` has `always_compact` off, the harder case,
  where what is left of a message moves only when it must; three messages fill the array twice,
  with one descriptor per send and a socket that refuses a send from 3 words on.
- *Session.*  With one message per chunk (`ChunkLen`) the second of a batch goes lazily and the last waits for
  force; a socket that holds one refuses the next; three messages one way and two the other.
- *Mediator.*  Two messages (`MsgBound`): one whose descriptors, id or version the next needs.  Strings
  of one and of three bytes, which with the terminator fill their word, arrays with a zero
  in them and of a full word; two handlers of addons, so that one can undo or cut off another's
  work; `MaxWords` that one of their values exceeds and another does not.
- *Object ids.*  Two client ids besides the display, one server id and two messages in
  flight per direction (`QueueBound`): an id can be destroyed on one side while
  messages for it come from the other, and be reused with old messages still about.
- *Safeclip.*  One name and one title at a time (`NameBound`) from five clients:
  outside, two in A, one in B, one in A and B.  The mark of the last begins with that of B,
  and so names do come from one to the other in this run.  Names do not influence one another except
  by ending a session.  Their lengths fit with both prefixes, with either but not
  with both, and with none; one begins with a prefix already.
- *Interfaces.*  Two protocols, seven interfaces, two messages of choice, two lines:
  see `MCActiveInterfaces`.
- *Listener.*  Three processes and one inode more, since a process holds at most one
  open lock file: one that owns, one that waits at a step, one that starts.
- *Daemon.*  Three sessions are one that ends, one that starts meanwhile and one that
  goes on.

### Fairness

A call of the buffers that has begun goes on: its thread does nothing else
(`OutBuffer`, `Transport`, `Session`).  The kernel reports an edge that it has; none
is repeated, so output events are fair only while an edge is pending.  The mediator goes on, by relaying a message or by dropping it, and
the peers of `ObjectIds`, and the peers of `Session`, read what arrives; nothing makes a client or server send.
`lock_file` and the rest of `SocketListener::new` run on; nothing makes a process stop
or start.  In `Daemon` threads run, the level-triggered epoll of `socket_events.rs`
reports each ready descriptor in every round and the code handles all of them, which
is weak fairness of each; nothing makes a session end or a client connect.
`ActiveInterfaces` is one sequential computation that goes on.  `SafeClip` and `Mediator` state no
liveness and need no fairness.

## Findings

- `daemon_race` (`terminator.rs:40`): the decision to be last and the load of the
  total are two steps.  A session that starts between them is in the saved total,
  the comparison succeeds, and the process is ended with that session alive, although
  the comment says that there are "No new sessions since we decided above we were
  last".  What does hold, and is proved, is `SparesSessions`: only sessions counted in
  that window are struck.
- `session_reset` (`session.rs:64`): a peer that sends its last words and closes with
  something unread resets the connection.  `handle_input` receives the words and queues them,
  the next receive fails, and the question mark skips the forced flush, so that the other
  side never gets them: a protocol error, say, that a server sends to a client before it cuts
  it off.  The comment there says that the flush is forced because "waiting to flush any part might
  starve the receiver".  What does hold is `NothingLeftBehind`, for peers that have read all.
- `parents` (`postparse.rs:262`): the `Err` of `OnceLock::set` holds the value that was not
  set, so the panic on creators that disagree cannot happen.  An interface with two
  creators keeps the one visited first, which differs between runs of the program.  The
  properties of `active_interfaces` that need it are stated under `SingleParents`.

Met on the way, and part of the models:

- *Safeclip gives less than its documentation promises* (`addons.rs:183`).  It says of clients of one
  prefix that "they won't have any access to the clipboard contents of external clients or clients of
  waydapt+SafeClip using a different prefix" (`addons.rs:39`).  A prefix is whatever the option says,
  and nothing in a mime type says where the prefix ends.  When one begins with another, clients of the
  shorter see all names of the longer, with the rest of that prefix in front, and may ask for
  them; and a client of any prefix sees a name of an outside client, or of one with a shorter
  prefix, that goes on like its own.  `Clipboards` therefore does not say that different prefixes are apart.
  It says exactly who sees what (`SeenByMark`), and in `safe_clip` such names do cross, from A and B to B
  and from outside to A.  Prefixes, one to a command line, that all end in a
  character found nowhere else in them do not begin with one another; what two prefixes make together always begins with the second.
- An addon may drop any request that makes no object, destructors included (`mediator.rs:98`).  The server
  then never sends the `delete_id`, and the client cannot use the id again: the
  exception in `IdsComeBack`.  Relaying goes on unharmed (`NeverPanics`, `InterfacesAgree`).

- `SocketEventHandler::drop` unblocks signals before the socket and the lock file are removed, so a
  second signal kills the process with both in place (`socket_events.rs:101`).  The next
  waydapt copes with such files (`StartsOrGivesUp`).
- `Send` ends the loop over the handlers, so the built-in handler of `delete_id`, pushed back, does not
  "always run last" (`builtin.rs:57`): the map then keeps the id (`IdsTracked`), and the session panics when it is used again.
- An event loop that handles output before input sends to a peer that is gone, when something
  is queued for it, and ends with that error before it reads the peer's last words (`event_loop.rs:101`).
  A peer that never stops sending keeps `handle_input` from returning.
- Without a line for any global of the base protocol in the globals file `wl_display` is in no map
  although it counts as active, and adding the built-in handlers panics at startup (`postparse.rs:41`).
- A null string goes the fast track unharmed but cannot be demarshalled (`message.rs:74`): whether a
  session survives it depends on `WAYLAND_DEBUG` and on whether the message has a handler.  A client
  behind safeclip that accepts nothing of an offer loses its session, and so does a client behind
  safeclip whose offer it was.
- Two safeclip groups can grow a message past the maximum, because the size they look at is the one
  before either (`addons.rs:153`); and names that would just fit with their prefix are truncated,
  because the padding is counted too.
- Nobody checks that the prefixes of a command line leave room for a string.  When they do not,
  the prefix added last cuts those before it, or the subtraction that computes how much to keep
  underflows (`addons.rs:168`); hence `Fits` in the properties of `SafeClip`.

## Proofs

All theorems hold for every value of the constants that the named assumption of the
module allows.

- `SequenceLemmas`.  `FlattenSeq` is a fold, whose value is a function that CHOOSE picks.
  `FlattenSeqRecursion` shows that one exists, by an induction whose hypothesis
  is a set, and so that flattening unrolls; from it come the lemmas on what flattening keeps
  when an element is appended, removed or replaced at either end.  `FoldLeft` is treated the same
  way: `FoldExists` shows, for a set that the step stays in, that a fold has values that go from
  one element to the next, and `FoldSteps` hands them to a proof one at a time.

- `OutBufferProofs`.  `IInv` is the type invariant with `ChunksFit`,
  `RecycledAreEmpty`, `NoEmptyChunkAhead`, `WaitMeansPending`, `FdsFitChunks`,
  `FdsInOrder` and `FdsTravelWithData`.  The heart is the last two but one: between
  calls the queued descriptors fit in the sends of the queued chunks, and the i-th
  chunk needs no descriptor beyond the i-th group of `MaxFds`.  Neither is inductive
  alone, since `add_fds` breaks the first until its one `start_next_chunk`; hence its
  weaker form for `pc = "fdsFlush"`.  From `IInv` follow `TypeCorrect`,
  `ChunksAlwaysFit`, `NeverStalls`, `FdsAlwaysKeepUp`, and the action properties
  `NoFdStarvation` and `FlushDrains`.  `StreamAlwaysIntact` is inductive with `IInv`, given the
  lemmas on `FlattenSeq`: `Put` extends the last chunks by exactly the words of the message,
  wherever it is cut, and `SendChunk` moves the first chunk and its descriptors to what was sent.
- `SessionProofs`.  `TypeCorrect`, then `NoMessageLost`: each step moves messages between
  neighbours of the four places.  `NothingForgotten` rests on `QuietInv`, of five parts:
  where in `handle_input` the program counter may be and for which side (`InHandler`); that outside
  of it all that is queued was refused or waits for a flush to come (`FlushedOrRefused`); that whatever
  changed since the last edge of a side has an edge pending or its handler still to run
  (`ChangesSeen`); that errors come after the input of their side (`ErrorsLast`); and that a side about to
  be closed for a hang-up has nothing left to be read (`LastWordsHeard`).  Each alone is broken by a step that
  another part excludes, such as an edge that comes while `todo` holds calls for an older one.
- `ProcessProofs`, on `Listener`.  `IInv` adds to the type invariant and `NothingBroken` that a process
  which starts has a description of its own (`OwnDescription`), that of those who share a
  description one at most acts as its owner (`OneMain`), that the lock of an owner's
  inode is held through its description while that inode is at the lock path
  (`LockHeld`), and what an owner knows of the socket path (`SocketKnown`).
  `OwnerIsUnique`, `SocketIsServers` and `UnwrapsJustified` follow, for any number of
  processes.  `NothingIsLeft` needs more (`Attended`): while no process was killed, a file at the
  lock path has one that will remove it, each held lock has a process behind it, and a socket
  goes before the lock file.  It assumes that there is a process at all.
- `ObjectIdsProofs`.  What is under way in a direction is one sequence, with the mediator at a cut in
  it, so that relaying a message only moves the cut.  `IInv` gives each id of the client one life at a
  time: its creation goes up and nothing else is known of it (`Coming`); the server has it and all three
  agree on its interface (`Held`); its delete_id comes down behind all that is said of it (`Going`);
  requests (`Asked`) and events (`Told`) lie inside that life.  The mediator's map follows the cut: it
  has the id from when the creation passes to when the delete_id does.  The ids of the server are
  simpler, because it forgets them when the client destroys them (`ServerIdInv`); `NoGap`
  and `NoGapAbove` keep both ranges dense, with the queued creations counted in.  A step is about
  one or two ids, and `Keeps` says what it must leave of the messages about the others (`Frame`).
  A dropped `destroy` is covered, for `Held` never asks that the client still has the object; the history
  of such ids (`Withheld`) stays out of `IInv`.
  `TypeCorrect`, `NoPanic` and `MessagesReadAsMeant` follow, for any numbers of ids, sets of interfaces
  and lengths of the queues.  `IdsAssumption` is what the code has of it: the ranges do not
  meet, the handshake's id is beyond both, and `wl_display` and `wl_callback` are interfaces of neither kind.
- `TransportProofs`.  `OutBufferProofs` is taken as it is, through an instance of it: each step of
  `Transport` is one of `OutBuffer` or leaves it alone, which gives its `IInv` (`Sender`).  Five
  parts follow the words.  `Receiver` has the bounds of the array: outside of `make_room` what is unread is less than
  a message when `receive` is called.  `WireInOrder` says that the array's unread words, the segments and the
  chunks make up one stretch of the stream (`Wire`), so that a receive only moves a cut in it, as a send does.
  `FdsOnWire` does the same for descriptors: the receiver's queue, the segments' and the sender's are
  one run of ranks, and no word is ahead of its descriptors (`Covers`), because a receive ends with the
  first segment that brings some and `FdsTravelWithData` holds behind it.  `PutInOrder` ranks the
  descriptors of the messages put one after the other, and `DeliveredInOrder` says that the wire and the chunks together
  are exactly the words of the messages put and not delivered (`Pending`): the next to be popped is then the next that was put.  The sixth, `Flow`, is about
  edges and flushes: a word in the buffer has a refusal or a flush to come, and a refusal has a
  full socket or an edge.  `WakeUpNotLost`, `AlwaysRoomToReceive` and `UnreadAlwaysIntact` follow for any
  sizes of messages, chunks, array and socket, and `ImplementsChannel` is the safety half of `Refines`.
  `TransportAssumption` is what the code has of the sizes: a message fits in `MAX_WORDS_OUT` and
  carries no more descriptors than one send can.
- `SafeClipProofs`.  A request and an event go through a queue of handlers, which is a fold over the
  command line's groups.  `RequestMarks`: what comes out of a request's queue has all prefixes of
  the command line in front (`Mark`), in the order that nests, and behind them the string or the front of it,
  all of it if the message has room.  `EventStrips`: an event loses exactly that mark, or is dropped when it
  does not begin with it.  `IInv` then says of each string under way, with whichever peer it is,
  whose name it is (`TitlesOK`, `AdvertisedOK`, `SeenOK`, `AskedOK`, `GotOK`) and that it bears the mark
  of the client that gave it.  `ShownByMark` and `Seeing` turn that into who sees which
  name: no theorem assumes anything of how prefixes relate to one another.  `TypeCorrect`, `ClipboardsKept` and `EndsExplained`
  follow, for any clients, command lines, names and titles.
- `MediatorProofs`.  First the round trip of the wire format, for any declaration and any values.
  `ArgStands` finds the k-th argument in a message (`At`), `ArgRead` reads it there, and `DemarshalAll`
  does so for all of them along the fold of `DemarshalArgs`: what comes out are the arguments that
  went in, new ids added with their interfaces, unless there is a null string.  `NewIdFound` is
  the same for the fast track.  In the other direction `WholeAndRest` shows that the whole words and
  the rest that `AddArray` writes are the padded bytes of the protocol, and `Marshalled` that a
  message made anew has the words of its arguments with waydapt's padding.  `TrackSteps` unrolls the
  history of ids (`IdsSentAppend`).
  Then `IInv`.  `MessageOK` says that the message at hand is the one that came, with its descriptors,
  and that its arguments are those in `meant` up to the tag of a handshake's id (`AllKept`), and are
  the original ones while it is not marked as modified.  `FdsOK` says that a side's queue is exactly
  the descriptors of its messages that were not begun (`FdsFrom`), so that each finds its own at the
  front.  `IdsOK` has `IdsTracked`, and with a message in hand the map one step ahead of what was sent.
  `TodoOK` places the built-in handlers in the queue, `OutOK` keeps what was shown within its limit,
  and `CameOK` counts the ids of the peers.  `Steps` reads each action as what it does to a message
  (`Passed`, `Started`, `Given`, `Lost`, `GoesOn` and so on), one lemma for each.  `TypeCorrect`, `SentWhole`,
  `IdsKept` and `PanicsExplained` follow, for any declarations, values, limits and numbers of
  messages and handlers.  `MediatorAssumption` is what the code has of a declaration: one new id at most,
  with an interface except in bind, and the arguments that `global`, `bind` and `delete_id` have in the
  base protocol; and the bound on messages keeps a client's ids below the server's.
- `ProcessProofs`, on `Daemon`.  `COUNT` is exactly the number of sessions with a terminator, so one
  that finds 1 is alone; each session that runs while it is last or asleep was counted
  later, with a ticket above what the total then was (`Tickets`).  From it follow
  `CountExact` and `OnlyWindowSessionsEnd`.  The two are in one module, and what both have (`DaemonInit`,
  `DaemonSpec`) says in `Daemon` whose it is.

Only model-checked: all liveness (`Served`, `IdsComeBack`, `Ends`, `StartsOrGivesUp`, three of
`Daemon`, and the half of `Refines` that says that what is put arrives), which is out of the prover's
reach under fairness; and the module `ActiveInterfaces`, whose invariants say what six passes over one
graph come to in any order, against a reference that is a closure over that graph.

## Not modelled

- The XML parser (`parse.rs`), option parsing, logging, debug output and version strings:
  no state that later behaviour hangs on, beyond what modules take as inputs.
- `EINTR` and the parsing of control messages in `streams.rs`: retried or total.
- The errors that `AddHandler` returns to addons for messages that are missing or inactive, and the
  addons' own state but for safeclip's.
- What an addon may do that would break the protocol by itself: changing new ids, or calling
  `add` and `delete` of `SessionInfo`.
- Test support, `multithread_exit.rs`, which is not compiled, and `#session.rs#`, an
  editor's autosave file.

## Plan

Model next:
1. `Daemon` over `Listener`, where the drop of the listener meets forked children.
2. Addons that call `add` and `delete`, in `ObjectIds`.

Prove next: the type invariant of `ActiveInterfaces`, then `ResultIsReference` pass by pass.
