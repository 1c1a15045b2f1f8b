-------------------------------- MODULE Daemon --------------------------------
(***************************************************************************)
(* One waydapt process: the main thread's event loop over the listener,    *)
(* the signalfd and the watched server (src/src/socket_events.rs), the     *)
(* client sessions it runs as threads (src/src/session.rs), and the        *)
(* terminate option, which ends the process some time after its last       *)
(* session (src/src/terminator.rs).  Each access to one of the two atomic  *)
(* counters is one step; they are taken to be sequentially consistent.     *)
(* No name is one of Listener's, whose proofs are beside these.            *)
(*                                                                         *)
(* The main thread is in its event loop, or there in waitpid (forking);    *)
(* has returned from it; in the drop of the event handler, with signals    *)
(* unblocked, then with the socket and at last the lock file removed       *)
(* (cleaned); runs the one session of single mode itself (serving); or is  *)
(* gone, by itself (exited) or by the default action of a signal (killed). *)
(*                                                                         *)
(* A client is absent, in the listener's backlog, in fork mode with the    *)
(* intermediate process (forking), then a session: spawned, connected to   *)
(* the server, counted in COUNT, running (counted in TOTAL as well), and   *)
(* after its event loop last (it took COUNT to 0), sleeping and gone.      *)
(***************************************************************************)
EXTENDS Integers, FiniteSets

CONSTANTS Clients,
          Signals,      \* the signals somebody may send: SIGTERM, SIGHUP, SIGINT
          Modes,        \* the modes of the process to choose from
          WatchServer   \* option -w was given

SIGUSR1 == "SIGUSR1"

ASSUME DaemonAssumption ==
    /\ IsFiniteSet(Clients)
    /\ SIGUSR1 \notin Signals
    /\ Modes \subseteq {"threads", "terminate", "single", "fork"}
    /\ WatchServer \in BOOLEAN

VARIABLES mode,        \* the options: none, -t, -s or -c, which exclude each other
          main, client,
          pending,     \* blocked signals that wait for the signalfd
          serverGone,
          count,       \* CLIENT_SESSION_COUNT
          total,       \* CLIENT_SESSION_TOTAL
          saved,       \* saved_client_session_total of a session
          lastAt,      \* history: total when a session found it was the last
          ticket       \* history: what total became when a session was counted

sessionVars == <<count, total, saved, lastAt, ticket>>
world == <<mode, serverGone>>
daemonVars == <<world, main, client, pending, sessionVars>>

Terminate == mode = "terminate"
Single == mode = "single"
ForkMode == mode = "fork"

Dead == main \in {"exited", "killed"}

-----------------------------------------------------------------------------
DaemonInit ==
    /\ mode \in Modes
    /\ main = "loop"
    /\ client = [c \in Clients |-> "absent"]
    /\ pending = {}
    /\ serverGone = FALSE
    /\ count = 0 /\ total = 0
    /\ saved = [c \in Clients |-> 0]
    /\ lastAt = [c \in Clients |-> 0]
    /\ ticket = [c \in Clients |-> 0]

Become(c, stage) == client' = [client EXCEPT ![c] = stage]

\* A signal waits for the signalfd while it is blocked and else kills.
Raise(s) ==
    IF main \in {"loop", "forking", "returned"}
    THEN pending' = pending \cup {s} /\ UNCHANGED main
    ELSE main' = "killed" /\ UNCHANGED pending

-----------------------------------------------------------------------------
(* The world outside. *)

Connect(c) ==
    /\ main = "loop"
    /\ client[c] = "absent"
    /\ Become(c, "backlog")
    /\ UNCHANGED <<main, pending, world, sessionVars>>

SendSignal(s) ==
    /\ ~Dead
    /\ Raise(s)
    /\ UNCHANGED <<client, world, sessionVars>>

ServerGoes ==
    /\ ~serverGone
    /\ serverGone' = TRUE
    /\ UNCHANGED <<mode, main, client, pending, sessionVars>>

-----------------------------------------------------------------------------
(* The main thread. *)

\* handle_listener_input: a thread per client; in single mode the event loop
\* returns the client; in fork mode double_fork forks and waits for the child.
Accept(c) ==
    /\ main = "loop"
    /\ client[c] = "backlog"
    /\ Become(c, IF ForkMode THEN "forking" ELSE "spawned")
    /\ main' = CASE Single -> "returned" [] ForkMode -> "forking" [] OTHER -> "loop"
    /\ UNCHANGED <<pending, world, sessionVars>>

\* Any error of accept but WouldBlock ends the event loop.
AcceptFails ==
    /\ main = "loop"
    /\ \E c \in Clients : client[c] = "backlog"
    /\ main' = "returned"
    /\ UNCHANGED <<client, pending, world, sessionVars>>

\* The first fork fails, which ends the event loop; the client is dropped.
FirstForkFails(c) ==
    /\ main = "loop" /\ ForkMode
    /\ client[c] = "backlog"
    /\ Become(c, "gone")
    /\ main' = "returned"
    /\ UNCHANGED <<pending, world, sessionVars>>

\* The intermediate process forks again and exits.  The grandchild returns from the
\* event loop, drops the handler, whose files are its grandparent's, and runs the
\* session.  A second fork that fails leaves no trace: the client is dropped.
SecondFork(c) ==
    /\ client[c] = "forking"
    /\ Become(c, "spawned") \/ Become(c, "gone")
    /\ UNCHANGED <<main, pending, world, sessionVars>>

\* waitpid returns, whatever the status of the intermediate process.
Reap ==
    /\ main = "forking"
    /\ \A c \in Clients : client[c] # "forking"
    /\ main' = "loop"
    /\ UNCHANGED <<client, pending, world, sessionVars>>

\* Broken variant: the handler lets the event loop go on.
SignalIgnored ==
    /\ main = "loop"
    /\ \E s \in pending : pending' = pending \ {s}
    /\ UNCHANGED <<main, client, world, sessionVars>>

\* handle_signal_input reads one signal and returns it as an error.
ReadSignal ==
    /\ main = "loop"
    /\ \E s \in pending : pending' = pending \ {s}
    /\ main' = "returned"
    /\ UNCHANGED <<client, world, sessionVars>>

\* Input from the watched server, which is its end.
ServerEvent ==
    /\ main = "loop"
    /\ WatchServer /\ serverGone
    /\ main' = "returned"
    /\ UNCHANGED <<client, pending, world, sessionVars>>

\* SocketEventHandler::drop unblocks all signals: one that waits strikes now.
UnblockSignals ==
    /\ main = "returned"
    /\ main' = IF pending = {} THEN "unblocked" ELSE "killed"
    /\ UNCHANGED <<client, pending, world, sessionVars>>

\* Then its listener is dropped, which removes the socket and the lock file.
DropSocket ==
    /\ main = "unblocked"
    /\ main' = "socketRemoved"
    /\ UNCHANGED <<client, pending, world, sessionVars>>

DropLock ==
    /\ main = "socketRemoved"
    /\ main' = "cleaned"
    /\ UNCHANGED <<client, pending, world, sessionVars>>

\* Broken variant: single mode is forgotten.
AlwaysExit ==
    /\ main = "cleaned"
    /\ main' = "exited"
    /\ UNCHANGED <<client, pending, world, sessionVars>>

\* startup returns, and all threads end with it; but after accepting a client
\* in single mode it calls client_session first.
Return ==
    /\ main = "cleaned"
    /\ main' = IF Single /\ \E c \in Clients : client[c] = "spawned"
               THEN "serving" ELSE "exited"
    /\ UNCHANGED <<client, pending, world, sessionVars>>

SessionReturned ==
    /\ main = "serving"
    /\ \A c \in Clients : client[c] \in {"absent", "backlog", "gone"}
    /\ main' = "exited"
    /\ UNCHANGED <<client, pending, world, sessionVars>>

-----------------------------------------------------------------------------
(* The sessions. *)

\* A session runs in a thread, in the main thread, or in a process of its own.
Runs(c) == ForkMode \/ (~Dead /\ (Single => main = "serving"))

\* get_server_stream, before there is a SessionTerminator, panics when it fails.
ConnectServer(c) ==
    /\ Runs(c)
    /\ client[c] = "spawned"
    /\ Become(c, IF serverGone THEN "gone" ELSE IF Terminate THEN "connected" ELSE "running")
    /\ UNCHANGED <<main, pending, world, sessionVars>>

\* Broken variant: the session is in one counter only.
NotCounted(c) ==
    /\ Runs(c)
    /\ client[c] = "connected"
    /\ Become(c, "counted")
    /\ UNCHANGED <<main, pending, world, sessionVars>>

\* SessionTerminator::new
AddToCount(c) ==
    /\ Runs(c)
    /\ client[c] = "connected"
    /\ count' = count + 1
    /\ Become(c, "counted")
    /\ UNCHANGED <<main, pending, world, total, saved, lastAt, ticket>>

AddToTotal(c) ==
    /\ Runs(c)
    /\ client[c] = "counted"
    /\ total' = total + 1
    /\ ticket' = [ticket EXCEPT ![c] = total + 1]
    /\ Become(c, "running")
    /\ UNCHANGED <<main, pending, world, count, saved, lastAt>>

\* Broken variant: whoever ends takes itself for the last.
AnyoneLast == TRUE

FoundLast == count = 1

\* The event loop of the session returned or panicked: SessionTerminator::drop.
EndSession(c) ==
    /\ Runs(c)
    /\ client[c] = "running"
    /\ IF Terminate
       THEN /\ count' = count - 1
            /\ Become(c, IF FoundLast THEN "last" ELSE "gone")
            /\ lastAt' = [lastAt EXCEPT ![c] = total]
       ELSE /\ Become(c, "gone")
            /\ UNCHANGED <<count, lastAt>>
    /\ UNCHANGED <<main, pending, world, total, saved, ticket>>

LoadTotal(c) ==
    /\ Runs(c)
    /\ client[c] = "last"
    /\ saved' = [saved EXCEPT ![c] = total]
    /\ Become(c, "sleeping")
    /\ UNCHANGED <<main, pending, world, count, total, lastAt, ticket>>

\* Broken variant: the comparison is with the wrong counter.
ComparesCount(c) == saved[c] = count

NoneSince(c) == saved[c] = total

\* The timeout is over: pthread_kill of the main thread, or nothing.
WakeUp(c) ==
    /\ Runs(c)
    /\ client[c] = "sleeping"
    /\ Become(c, "gone")
    /\ IF NoneSince(c)
       THEN Raise(SIGUSR1)
       ELSE UNCHANGED <<main, pending>>
    /\ UNCHANGED <<world, sessionVars>>

-----------------------------------------------------------------------------
MainStep ==
    \/ Reap \/ UnblockSignals \/ DropSocket \/ DropLock \/ Return \/ SessionReturned

ThreadStep(c) ==
    SecondFork(c) \/ ConnectServer(c) \/ AddToCount(c) \/ AddToTotal(c) \/ LoadTotal(c) \/ WakeUp(c)

DaemonNext ==
    \/ \E c \in Clients : Connect(c)
    \/ \E s \in Signals : SendSignal(s)
    \/ ServerGoes
    \/ \E c \in Clients : Accept(c)
    \/ AcceptFails
    \/ \E c \in Clients : FirstForkFails(c)
    \/ \E c \in Clients : SecondFork(c)
    \/ Reap
    \/ ReadSignal
    \/ ServerEvent
    \/ UnblockSignals
    \/ DropSocket
    \/ DropLock
    \/ Return
    \/ SessionReturned
    \/ \E c \in Clients : ConnectServer(c)
    \/ \E c \in Clients : AddToCount(c)
    \/ \E c \in Clients : AddToTotal(c)
    \/ \E c \in Clients : EndSession(c)
    \/ \E c \in Clients : LoadTotal(c)
    \/ \E c \in Clients : WakeUp(c)

\* Threads run, and a level-triggered epoll reports every ready descriptor in
\* each round.  Nothing makes a session end or a client connect.
DaemonSpec ==
    /\ DaemonInit /\ [][DaemonNext]_daemonVars
    /\ WF_daemonVars(MainStep)
    /\ WF_daemonVars(ReadSignal) /\ WF_daemonVars(ServerEvent)
    /\ \A c \in Clients : WF_daemonVars(Accept(c)) /\ WF_daemonVars(ThreadStep(c))

-----------------------------------------------------------------------------
HasTerminator == {c \in Clients : Terminate /\ client[c] \in {"counted", "running"}}

\* Types; COUNT counts the sessions that have a SessionTerminator.
DaemonTypeOK ==
    /\ mode \in Modes
    /\ main \in {"loop", "forking", "returned", "unblocked", "socketRemoved", "cleaned",
                 "serving", "exited", "killed"}
    /\ client \in [Clients -> {"absent", "backlog", "forking", "spawned", "connected",
                               "counted", "running", "last", "sleeping", "gone"}]
    /\ pending \subseteq Signals \cup {SIGUSR1}
    /\ serverGone \in BOOLEAN
    /\ count \in Nat /\ total \in Nat
    /\ saved \in [Clients -> Nat] /\ lastAt \in [Clients -> Nat]
    /\ ticket \in [Clients -> Nat]
    /\ count = Cardinality(HasTerminator)

Terminates(c) == client[c] = "sleeping" /\ client'[c] = "gone" /\ NoneSince(c)

\* The terminate option ends no session that was there before the last one ended
\* nor one that came while it slept: those alive when it strikes were counted
\* between its last fetch_sub and its load of TOTAL.
SparesSessions ==
    [][\A c, d \in Clients :
          Terminates(c) /\ client[d] = "running" =>
              lastAt[c] < ticket[d] /\ ticket[d] <= saved[c]]_daemonVars

\* "No new sessions since we decided above we were last, so exit."
NoNewSessions ==
    [][\A c \in Clients : Terminates(c) => total = lastAt[c]]_daemonVars

\* When the last session has ended the process does, unless a client comes.
Coming == \E c \in Clients :
              client[c] \in {"backlog", "spawned", "connected", "counted", "running"}

QuietEndsProcess == total > 0 /\ ~Coming ~> main # "loop" \/ Coming

\* A signal ends the event loop, and so does the end of the watched server,
\* however many clients come and whatever sessions do.
LoopEnds ==
    /\ pending # {} ~> main \notin {"loop", "forking"}
    /\ WatchServer /\ serverGone ~> main \notin {"loop", "forking"}

\* A client that was accepted gets its session unless a fork fails: in single mode
\* after the listener is gone, in fork mode whatever becomes of the process that
\* accepted it.  (A signal may kill the first, in the drop of the handler.)
AcceptedServed ==
    \A c \in Clients :
        (Single \/ ForkMode) /\ client[c] \in {"forking", "spawned"} ~>
            client[c] \in {"running", "gone"} \/ (Single /\ main = "killed")

=============================================================================
