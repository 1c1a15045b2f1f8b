------------------------------- MODULE Listener -------------------------------
(***************************************************************************)
(* Starting and stopping waydapt processes that use one display name:      *)
(* SocketListener of src/src/listener.rs, with the forked children of      *)
(* src/src/forking.rs.  Processes coordinate through the file system only: *)
(* a lock file that is created, locked, checked and in the end unlinked,   *)
(* and the socket it protects.  Each system call is one step, and any      *)
(* process may be killed between two of them.                              *)
(*                                                                         *)
(*   start     not started                                                 *)
(*   retry     back at the top of the loop of lock_file                    *)
(*   opened    has a descriptor for the lock file                          *)
(*   flocked   holds the lock, of a file that may be unlinked by now       *)
(*   owner     returned from lock_file                                     *)
(*   stale     found a socket to remove                                    *)
(*   cleaned   ready to bind                                               *)
(*   serving   bound the socket; the listener is in its event loop         *)
(*   closing   in drop, the socket removed                                 *)
(*   unlinked  in drop, the lock file removed, its descriptor still open   *)
(*   child     forked from a serving process, has not dropped the listener *)
(*   leaving   daemonized: its child is the listener's process now         *)
(*   stopped   the listener is dropped                                     *)
(*   locked    panicked: the lock file is already locked                   *)
(*   broken    panicked: an unwrap failed                                  *)
(*   killed    did not get to run drop                                     *)
(***************************************************************************)
EXTENDS Integers

CONSTANTS Procs,    \* the processes
          Inodes,   \* inode numbers; one is free again when its file is gone
          Old,      \* the name of a socket that was left there before
          None

ASSUME ListenerAssumption ==
    /\ Procs # {}
    /\ None \notin Procs \cup Inodes \cup {Old}
    /\ Old \notin Procs

VARIABLES pc,
          lockPath,    \* the inode at lock_path
          socketPath,  \* the description whose owner bound the socket at socket_path
          file,        \* the inode a process has open as its lock_file
          descr,       \* the open file description it has it through
          flock        \* the description that holds the lock of an inode

vars == <<pc, lockPath, socketPath, file, descr, flock>>

\* A description is named after the process that opened it; children share it.
Holders(d) == {p \in Procs : descr[p] = d}

InUse == {file[p] : p \in Procs} \cup {lockPath}

\* Broken variant: a panic leaks the descriptor.
LeakyClose(p) == UNCHANGED <<file, descr, flock>>

\* p closes its descriptor; the last close of a description gives up its lock.
Close(p) ==
    /\ file' = [file EXCEPT ![p] = None]
    /\ descr' = [descr EXCEPT ![p] = None]
    /\ flock' = IF Holders(descr[p]) = {p}
                THEN [i \in Inodes |-> IF flock[i] = descr[p] THEN None ELSE flock[i]]
                ELSE flock

Go(p, where) == pc' = [pc EXCEPT ![p] = where]

-----------------------------------------------------------------------------
\* Files of an earlier process that was killed may be there.
Init ==
    /\ pc = [p \in Procs |-> "start"]
    /\ lockPath \in Inodes \cup {None}
    /\ socketPath \in {None, Old}
    /\ file = [p \in Procs |-> None]
    /\ descr = [p \in Procs |-> None]
    /\ flock = [i \in Inodes |-> None]

\* open with O_CREAT, not O_EXCL: the file at lock_path, or a new one.
Open(p) ==
    /\ pc[p] \in {"start", "retry"}
    /\ \E i \in Inodes :
          /\ IF lockPath = None THEN i \notin InUse ELSE i = lockPath
          /\ lockPath' = i
          /\ file' = [file EXCEPT ![p] = i]
          /\ descr' = [descr EXCEPT ![p] = p]
    /\ Go(p, "opened")
    /\ UNCHANGED <<socketPath, flock>>

\* The non-blocking flock; when it fails lock_file panics and the file closes.
Flock(p) ==
    /\ pc[p] = "opened"
    /\ flock[file[p]] = None
    /\ flock' = [flock EXCEPT ![file[p]] = descr[p]]
    /\ Go(p, "flocked")
    /\ UNCHANGED <<lockPath, socketPath, file, descr>>

AlreadyLocked(p) ==
    /\ pc[p] = "opened"
    /\ flock[file[p]] # None
    /\ Go(p, "locked")
    /\ Close(p)
    /\ UNCHANGED <<lockPath, socketPath>>

\* Broken variants: only the existence is checked, or nothing ever passes.
SomeFileAtPath(p) == lockPath # None
NoFileAtPath(p) == lockPath = None

FileStillAtPath(p) == lockPath = file[p]

Check(p) ==
    /\ pc[p] = "flocked"
    /\ FileStillAtPath(p)
    /\ Go(p, "owner")
    /\ UNCHANGED <<lockPath, socketPath, file, descr, flock>>

\* The file was unlinked between open and flock: drop it and try again.
TryAgain(p) ==
    /\ pc[p] = "flocked"
    /\ ~FileStillAtPath(p)
    /\ Go(p, "retry")
    /\ Close(p)
    /\ UNCHANGED <<lockPath, socketPath>>

\* Broken variant: with the lock held, no socket is expected.
NeverExists == FALSE

SocketExists == socketPath # None

\* try_exists, and the decision to remove.
FindStale(p) ==
    /\ pc[p] = "owner"
    /\ Go(p, IF SocketExists THEN "stale" ELSE "cleaned")
    /\ UNCHANGED <<lockPath, socketPath, file, descr, flock>>

\* remove_file(&socket_path).unwrap()
RemoveStale(p) ==
    /\ pc[p] = "stale"
    /\ IF socketPath = None THEN Go(p, "broken") /\ Close(p)
                            ELSE Go(p, "cleaned") /\ UNCHANGED <<file, descr, flock>>
    /\ socketPath' = None
    /\ UNCHANGED lockPath

\* UnixListener::bind(&socket_path).unwrap() fails if a file is in its place.
Bind(p) ==
    /\ pc[p] = "cleaned"
    /\ IF socketPath = None
       THEN /\ socketPath' = descr[p]
            /\ Go(p, "serving")
            /\ UNCHANGED <<file, descr, flock>>
       ELSE /\ Go(p, "broken")
            /\ Close(p)
            /\ UNCHANGED socketPath
    /\ UNCHANGED lockPath

-----------------------------------------------------------------------------
\* Broken variants of drop: a child cleans up as well; the lock file may stay.
EveryProcess(p) == pc[p] \in {"serving", "child"}
EarlyClose(p) == pc[p] \in {"closing", "unlinked", "child"}

MadeListener(p) == pc[p] = "serving"
BodyDone(p) == pc[p] \in {"unlinked", "child"}

\* drop in the process that made the listener: the socket goes first.
RemoveSocket(p) ==
    /\ MadeListener(p)
    /\ IF socketPath = None THEN Go(p, "broken") /\ Close(p)
                            ELSE Go(p, "closing") /\ UNCHANGED <<file, descr, flock>>
    /\ socketPath' = None
    /\ UNCHANGED lockPath

\* Then the lock file, while its lock is still held.
RemoveLock(p) ==
    /\ pc[p] = "closing"
    /\ IF lockPath = None THEN Go(p, "broken") /\ Close(p)
                          ELSE Go(p, "unlinked") /\ UNCHANGED <<file, descr, flock>>
    /\ lockPath' = None
    /\ UNCHANGED socketPath

\* The fields are dropped after drop's body: the descriptor closes last.  A
\* child, whose pid is not init_pid, does nothing else.
DropFields(p) ==
    /\ BodyDone(p)
    /\ Go(p, "stopped")
    /\ Close(p)
    /\ UNCHANGED <<lockPath, socketPath>>

\* double_fork for a client, in fork mode: the child inherits the descriptor.
Fork(p, c) ==
    /\ pc[p] = "serving"
    /\ pc[c] = "start"
    /\ Go(c, "child")
    /\ file' = [file EXCEPT ![c] = file[p]]
    /\ descr' = [descr EXCEPT ![c] = descr[p]]
    /\ UNCHANGED <<lockPath, socketPath, flock>>

\* daemonize: the child goes on as the listener's process (reset_init_pid), the
\* parent is about to _exit, which runs no drop.
Daemonize(p, c) ==
    /\ pc[p] = "serving"
    /\ pc[c] = "start"
    /\ pc' = [pc EXCEPT ![c] = "serving", ![p] = "leaving"]
    /\ file' = [file EXCEPT ![c] = file[p]]
    /\ descr' = [descr EXCEPT ![c] = descr[p]]
    /\ UNCHANGED <<lockPath, socketPath, flock>>

Leave(p) ==
    /\ pc[p] = "leaving"
    /\ Go(p, "stopped")
    /\ Close(p)
    /\ UNCHANGED <<lockPath, socketPath>>

Ended == {"stopped", "locked", "broken", "killed"}

\* A process is killed: its files stay, its descriptor closes.
Kill(p) ==
    /\ pc[p] \notin Ended \cup {"start"}
    /\ Go(p, "killed")
    /\ Close(p)
    /\ UNCHANGED <<lockPath, socketPath>>

-----------------------------------------------------------------------------
\* What a process that was started does until it serves, without being asked.
Starting(p) ==
    \/ pc[p] # "start" /\ Open(p)
    \/ Flock(p) \/ AlreadyLocked(p)
    \/ Check(p) \/ TryAgain(p)
    \/ FindStale(p) \/ RemoveStale(p) \/ Bind(p)

Next ==
    \E p \in Procs :
        \/ Open(p)
        \/ Flock(p)
        \/ AlreadyLocked(p)
        \/ Check(p)
        \/ TryAgain(p)
        \/ FindStale(p)
        \/ RemoveStale(p)
        \/ Bind(p)
        \/ RemoveSocket(p)
        \/ RemoveLock(p)
        \/ DropFields(p)
        \/ Leave(p)
        \/ Kill(p)
        \/ \E c \in Procs : Fork(p, c) \/ Daemonize(p, c)

\* A started process runs until it serves; nothing makes a server stop.
Spec == Init /\ [][Next]_vars /\ \A p \in Procs : WF_vars(Starting(p))

-----------------------------------------------------------------------------
Owning == {"owner", "stale", "cleaned", "serving", "closing"}

Steps ==
    Owning \cup Ended
        \cup {"start", "retry", "opened", "flocked", "unlinked", "child", "leaving"}

\* Types.  A process has the file open exactly while it is in between.
TypeOK ==
    /\ pc \in [Procs -> Steps]
    /\ lockPath \in Inodes \cup {None}
    /\ socketPath \in Procs \cup {Old, None}
    /\ file \in [Procs -> Inodes \cup {None}]
    /\ descr \in [Procs -> Procs \cup {None}]
    /\ flock \in [Inodes -> Procs \cup {None}]
    /\ \A p \in Procs :
          /\ file[p] = None <=> pc[p] \in Ended \cup {"start", "retry"}
          /\ descr[p] = None <=> pc[p] \in Ended \cup {"start", "retry"}

\* Two processes never both believe that the display name is theirs.
OneOwner == \A p, q \in Procs : pc[p] \in Owning /\ pc[q] \in Owning => p = q

\* The socket clients find is the one of the process that serves: nobody takes it
\* for a stale one, and no child's drop removes it.
ServesItsSocket == \A p \in Procs : pc[p] = "serving" => socketPath = descr[p]

\* Every unwrap of new and drop is justified: files are where they were left.
NothingBroken == \A p \in Procs : pc[p] # "broken"

\* When all processes ended and none was killed, no file is left, not even one
\* that was there before or that a process which gave up had created.
NoLeftovers ==
    (\A p \in Procs : pc[p] \in {"stopped", "locked"})
        => lockPath = None /\ socketPath = None

\* A process that is starting comes to an end of it: the loop of lock_file ends,
\* whatever the others do, and files left behind by a killed process lock nobody
\* out: a process that is alone when it opens the lock file serves, unless others
\* come.
Alone(p) == \A q \in Procs \ {p} : pc[q] \in Ended \cup {"start"}

StartsOrGivesUp ==
    \A p \in Procs :
        /\ pc[p] = "flocked" ~> pc[p] \in {"serving"} \cup Ended
        /\ pc[p] = "opened" /\ Alone(p) ~> pc[p] \in {"serving", "killed"} \/ ~Alone(p)

=============================================================================
