----------------------------- MODULE ProcessProofs -----------------------------
(***************************************************************************)
(* Proofs about the processes of waydapt: for Listener, how any number of  *)
(* them share a display name, and for Daemon, how the terminate option     *)
(* ends one of them, with any finite number of clients.                    *)
(***************************************************************************)
EXTENDS Listener, Daemon, FiniteSetTheorems, TLAPS

-----------------------------------------------------------------------------
(* Listener.  What makes the owner unique is LockHeld: an owner's file is  *)
(* the one at lock_path and its lock is held through the owner's           *)
(* description, which no other process but a forked child has.  What       *)
(* leaves no files behind is Attended: each of them has a process that     *)
(* will still remove it.                                                   *)

\* Up to Bind a process has its own description; only a process that served,
\* or ended since, may share it.
Early == {"opened", "flocked", "owner", "stale", "cleaned"}
Late == {"serving", "closing", "unlinked", "leaving"} \cup Ended

OwnDescription ==
    /\ \A p \in Procs : pc[p] \in Early => descr[p] = p
    /\ \A p, d \in Procs : descr[p] = d /\ p # d => pc[d] \in Late

\* The processes that are not mere holders of a description they were given.
Main == Owning \cup {"opened", "flocked", "unlinked"}

OneMain ==
    \A p, q \in Procs :
        pc[p] \in Main /\ pc[q] \in Main /\ descr[p] = descr[q] => p = q

HasLock(p) == file[p] \in Inodes /\ flock[file[p]] = descr[p] /\ descr[p] \in Procs

LockHeld ==
    \A p \in Procs :
        /\ pc[p] \in Owning \cup {"flocked"} => HasLock(p)
        /\ pc[p] \in Owning => lockPath = file[p]

SocketKnown ==
    \A p \in Procs :
        /\ pc[p] = "stale" => socketPath # None
        /\ pc[p] = "cleaned" => socketPath = None
        /\ pc[p] = "serving" => socketPath = descr[p]

IInv ==
    /\ TypeOK
    /\ OwnDescription
    /\ OneMain
    /\ LockHeld
    /\ SocketKnown
    /\ NothingBroken

-----------------------------------------------------------------------------
\* Closing a descriptor takes no lock from anyone else: whoever has the lock is
\* a holder of the description that is closed for the last time only by the last.
LEMMA CloseKeepsLocks ==
    ASSUME TypeOK, NEW p \in Procs, Close(p), NEW q \in Procs, q # p
    PROVE  /\ file'[q] = file[q]
           /\ descr'[q] = descr[q]
           /\ HasLock(q) => file[q] \in Inodes /\ flock'[file[q]] = descr[q] /\ descr[q] \in Procs
<1>1. file'[q] = file[q] /\ descr'[q] = descr[q]
  BY DEF Close, TypeOK
<1>2. ASSUME HasLock(q)
      PROVE  file[q] \in Inodes /\ flock'[file[q]] = descr[q] /\ descr[q] \in Procs
  <2>1. descr[p] = descr[q] => Holders(descr[p]) # {p}
    BY DEF Holders
  <2>2. flock'[file[q]] = flock[file[q]]
    BY <1>2, <2>1 DEF Close, HasLock, TypeOK
  <2>. QED BY <1>2, <2>2 DEF HasLock
<1>. QED BY <1>1, <1>2

LEMMA CloseTypes ==
    ASSUME TypeOK, NEW p \in Procs, Close(p)
    PROVE  /\ file' \in [Procs -> Inodes \cup {None}]
           /\ descr' \in [Procs -> Procs \cup {None}]
           /\ flock' \in [Inodes -> Procs \cup {None}]
           /\ file'[p] = None /\ descr'[p] = None
BY DEF Close, TypeOK

\* A process that leaves for good, or for another try, takes nothing with it.
LEMMA LeaveInv ==
    ASSUME IInv, NEW p \in Procs, NEW s \in Ended \cup {"retry"}, s # "broken",
           pc[p] \notin Ended \cup {"start"},
           s = "retry" => pc[p] = "flocked",
           Go(p, s), Close(p), UNCHANGED <<lockPath, socketPath>>
    PROVE  IInv'
<1>. USE ListenerAssumption
<1>1. TypeOK /\ pc' = [pc EXCEPT ![p] = s] /\ pc \in [Procs -> Steps] /\ s \in Steps
  BY DEF IInv, Go, TypeOK, Steps
<1>3. \A q \in Procs : q # p => /\ pc'[q] = pc[q]
                                /\ file'[q] = file[q]
                                /\ descr'[q] = descr[q]
                                /\ HasLock(q) => HasLock(q)'
  BY <1>1, CloseKeepsLocks DEF HasLock
<1>4. pc'[p] = s /\ file'[p] = None /\ descr'[p] = None
  BY <1>1, CloseTypes
<1>5. TypeOK'
  <2>1. /\ file' \in [Procs -> Inodes \cup {None}]
        /\ descr' \in [Procs -> Procs \cup {None}]
        /\ flock' \in [Inodes -> Procs \cup {None}]
    BY <1>1, CloseTypes
  <2>2. pc' \in [Procs -> Steps]
    BY <1>1
  <2>3. \A q \in Procs :
          /\ file'[q] = None <=> pc'[q] \in Ended \cup {"start", "retry"}
          /\ descr'[q] = None <=> pc'[q] \in Ended \cup {"start", "retry"}
    BY <1>1, <1>3, <1>4 DEF TypeOK
  <2>. QED BY <1>1, <2>1, <2>2, <2>3 DEF TypeOK
<1>6. OwnDescription'
  <2>1. \A q \in Procs : pc'[q] \in Early => descr'[q] = q
    BY <1>3, <1>4 DEF IInv, OwnDescription, Early, Ended
  <2>2. ASSUME NEW q \in Procs, NEW d \in Procs, descr'[q] = d, q # d
        PROVE  pc'[d] \in Late
    <3>1. q # p
      BY <1>4, <2>2
    <3>2. pc[d] \in Late
      BY <1>3, <2>2, <3>1 DEF IInv, OwnDescription
    <3>. QED BY <1>3, <1>4, <3>2 DEF Late, Ended
  <2>. QED BY <2>1, <2>2 DEF OwnDescription
<1>7. OneMain'
  BY <1>3, <1>4 DEF IInv, OneMain, Main, Owning, Ended
<1>8. LockHeld'
  BY <1>3, <1>4 DEF IInv, LockHeld, Owning, Ended
<1>9. SocketKnown' /\ NothingBroken'
  BY <1>3, <1>4 DEF IInv, SocketKnown, NothingBroken, Ended
<1>. QED BY <1>5, <1>6, <1>7, <1>8, <1>9 DEF IInv

\* A step of an owner that touches neither descriptors nor locks.
LEMMA OwnerUnique ==
    ASSUME IInv, NEW p \in Procs, NEW q \in Procs, pc[p] \in Owning, pc[q] \in Owning
    PROVE  p = q
BY DEF IInv, LockHeld, HasLock, OneMain, Main

LEMMA OwnerStepInv ==
    ASSUME IInv, NEW p \in Procs, NEW s \in Owning \cup {"unlinked"},
           pc[p] \in Owning \cup {"flocked"},
           pc[p] = "flocked" => lockPath = file[p] /\ s = "owner",
           pc[p] \in {"serving", "closing"} => s \in {"closing", "unlinked"},
           Go(p, s), UNCHANGED <<file, descr, flock>>,
           s # "unlinked" => lockPath' = lockPath, lockPath' \in {lockPath, None},
           pc[p] \in Owning \/ socketPath' = socketPath,
           socketPath' \in Procs \cup {Old, None},
           s = "stale" => socketPath' # None,
           s = "cleaned" => socketPath' = None,
           s = "serving" => socketPath' = descr[p]
    PROVE  IInv'
<1>. USE ListenerAssumption
<1>1. TypeOK /\ pc' = [pc EXCEPT ![p] = s] /\ pc \in [Procs -> Steps] /\ s \in Steps
  BY DEF IInv, Go, TypeOK, Steps, Owning
<1>2. pc'[p] = s /\ \A q \in Procs : q # p => pc'[q] = pc[q]
  BY <1>1
<1>3. TypeOK'
  <2>1. pc' \in [Procs -> Steps]
    BY <1>1
  <2>2. \A q \in Procs :
          /\ file'[q] = None <=> pc'[q] \in Ended \cup {"start", "retry"}
          /\ descr'[q] = None <=> pc'[q] \in Ended \cup {"start", "retry"}
    BY <1>1, <1>2 DEF TypeOK, Owning, Ended
  <2>. QED BY <1>1, <2>1, <2>2 DEF TypeOK
<1>4. OwnDescription'
  <2>1. \A q \in Procs : pc'[q] \in Early => descr'[q] = q
    BY <1>2 DEF IInv, OwnDescription, Early, Owning
  <2>2. \A q, d \in Procs : descr'[q] = d /\ q # d => pc'[d] \in Late
    BY <1>2 DEF IInv, OwnDescription, Late, Owning, Ended
  <2>. QED BY <2>1, <2>2 DEF OwnDescription
<1>5. OneMain'
  BY <1>2 DEF IInv, OneMain, Main, Owning
<1>6. ASSUME pc[p] \in Owning
      PROVE  \A q \in Procs : q # p => pc[q] \notin Owning
  BY <1>6, OwnerUnique
<1>7. LockHeld'
  BY <1>2, <1>6 DEF IInv, LockHeld, HasLock, Owning
<1>8. SocketKnown'
  BY <1>2, <1>6 DEF IInv, SocketKnown, Owning
<1>9. NothingBroken'
  BY <1>2 DEF IInv, NothingBroken, Owning
<1>. QED BY <1>3, <1>4, <1>5, <1>7, <1>8, <1>9 DEF IInv

\* A new description is nobody else's.
LEMMA OpenInv ==
    ASSUME IInv, NEW p \in Procs, Open(p)
    PROVE  IInv'
<1>. USE ListenerAssumption
<1>1. PICK i \in Inodes :
        /\ IF lockPath = None THEN i \notin InUse ELSE i = lockPath
        /\ lockPath' = i
        /\ file' = [file EXCEPT ![p] = i]
        /\ descr' = [descr EXCEPT ![p] = p]
  BY DEF Open
<1>2. TypeOK /\ pc' = [pc EXCEPT ![p] = "opened"] /\ pc[p] \in {"start", "retry"}
      /\ UNCHANGED <<socketPath, flock>>
  BY DEF IInv, Open, Go
<1>3. /\ pc'[p] = "opened" /\ file'[p] = i /\ descr'[p] = p
      /\ \A q \in Procs : q # p => pc'[q] = pc[q] /\ file'[q] = file[q] /\ descr'[q] = descr[q]
  BY <1>1, <1>2 DEF TypeOK
<1>4. TypeOK'
  <2>1. /\ pc' \in [Procs -> Steps] /\ lockPath' \in Inodes \cup {None}
        /\ file' \in [Procs -> Inodes \cup {None}]
        /\ descr' \in [Procs -> Procs \cup {None}]
    BY <1>1, <1>2 DEF TypeOK, Steps
  <2>2. \A q \in Procs :
          /\ file'[q] = None <=> pc'[q] \in Ended \cup {"start", "retry"}
          /\ descr'[q] = None <=> pc'[q] \in Ended \cup {"start", "retry"}
    BY <1>2, <1>3 DEF TypeOK, Ended
  <2>. QED BY <1>2, <2>1, <2>2 DEF TypeOK
<1>5. \A q \in Procs : q # p => descr[q] # p
  BY <1>2 DEF IInv, OwnDescription, Late, Ended
<1>6. OwnDescription'
  <2>1. \A q \in Procs : pc'[q] \in Early => descr'[q] = q
    BY <1>3 DEF IInv, OwnDescription
  <2>2. ASSUME NEW q \in Procs, NEW d \in Procs, descr'[q] = d, q # d
        PROVE  pc'[d] \in Late
    BY <1>3, <1>5, <2>2 DEF IInv, OwnDescription
  <2>. QED BY <2>1, <2>2 DEF OwnDescription
<1>7. OneMain'
  BY <1>3, <1>5 DEF IInv, OneMain, Main, Owning
<1>8. LockHeld'
  <2>1. \A q \in Procs : pc[q] \in Owning => lockPath' = lockPath
    BY <1>1 DEF IInv, LockHeld, HasLock, Owning
  <2>. QED BY <1>2, <1>3, <2>1 DEF IInv, LockHeld, HasLock, Owning
<1>9. SocketKnown' /\ NothingBroken'
  BY <1>2, <1>3 DEF IInv, SocketKnown, NothingBroken
<1>. QED BY <1>4, <1>6, <1>7, <1>8, <1>9 DEF IInv

\* A lock is taken only from a file that has none.
LEMMA FlockInv ==
    ASSUME IInv, NEW p \in Procs, Flock(p)
    PROVE  IInv'
<1>. USE ListenerAssumption
<1>1. /\ TypeOK /\ pc' = [pc EXCEPT ![p] = "flocked"] /\ pc[p] = "opened"
      /\ flock[file[p]] = None /\ flock' = [flock EXCEPT ![file[p]] = descr[p]]
      /\ UNCHANGED <<lockPath, socketPath, file, descr>>
  BY DEF IInv, Flock, Go
<1>2. pc'[p] = "flocked" /\ \A q \in Procs : q # p => pc'[q] = pc[q]
  BY <1>1 DEF TypeOK
<1>3. file[p] \in Inodes /\ descr[p] \in Procs
  BY <1>1 DEF TypeOK, Ended
<1>4. /\ flock'[file[p]] = descr[p]
      /\ \A q \in Procs : HasLock(q) => HasLock(q)'
  BY <1>1, <1>3 DEF TypeOK, HasLock
<1>5. TypeOK'
  <2>1. pc' \in [Procs -> Steps] /\ flock' \in [Inodes -> Procs \cup {None}]
    BY <1>1, <1>3 DEF TypeOK, Steps
  <2>2. \A q \in Procs :
          /\ file'[q] = None <=> pc'[q] \in Ended \cup {"start", "retry"}
          /\ descr'[q] = None <=> pc'[q] \in Ended \cup {"start", "retry"}
    BY <1>1, <1>2 DEF TypeOK, Ended
  <2>. QED BY <1>1, <2>1, <2>2 DEF TypeOK
<1>6. OwnDescription'
  <2>1. \A q \in Procs : pc'[q] \in Early => descr'[q] = q
    BY <1>1, <1>2 DEF IInv, OwnDescription, Early
  <2>2. \A q, d \in Procs : descr'[q] = d /\ q # d => pc'[d] \in Late
    BY <1>1, <1>2 DEF IInv, OwnDescription, Late, Ended
  <2>. QED BY <2>1, <2>2 DEF OwnDescription
<1>7. OneMain'
  BY <1>1, <1>2 DEF IInv, OneMain, Main, Owning
<1>8. LockHeld'
  BY <1>1, <1>2, <1>3, <1>4 DEF IInv, LockHeld, HasLock, Owning
<1>9. SocketKnown' /\ NothingBroken'
  BY <1>1, <1>2 DEF IInv, SocketKnown, NothingBroken
<1>. QED BY <1>5, <1>6, <1>7, <1>8, <1>9 DEF IInv

\* A child shares its parent's description; a daemon's child takes its place.
LEMMA ForkInv ==
    ASSUME IInv, NEW p \in Procs, NEW c \in Procs, Fork(p, c) \/ Daemonize(p, c)
    PROVE  IInv'
<1>. USE ListenerAssumption
<1> DEFINE there == IF Fork(p, c) THEN "serving" ELSE "leaving"
           here  == IF Fork(p, c) THEN "child" ELSE "serving"
<1>1. /\ TypeOK /\ pc[p] = "serving" /\ pc[c] = "start" /\ p # c
      /\ file' = [file EXCEPT ![c] = file[p]]
      /\ descr' = [descr EXCEPT ![c] = descr[p]]
      /\ UNCHANGED <<lockPath, socketPath, flock>>
  BY DEF IInv, Fork, Daemonize
<1>2. pc' = [pc EXCEPT ![c] = here, ![p] = there]
  BY <1>1 DEF Fork, Daemonize, Go, TypeOK
<1>3. (here = "child" /\ there = "serving") \/ (here = "serving" /\ there = "leaving")
  OBVIOUS
<1> HIDE DEF here, there
<1>4. /\ pc'[c] = here /\ pc'[p] = there
      /\ \A q \in Procs : q \notin {p, c} => pc'[q] = pc[q]
      /\ file'[c] = file[p] /\ descr'[c] = descr[p]
      /\ \A q \in Procs : q # c => file'[q] = file[q] /\ descr'[q] = descr[q]
  BY <1>1, <1>2 DEF TypeOK
<1>5. file[p] \in Inodes /\ descr[p] \in Procs
  BY <1>1 DEF TypeOK, Ended
<1>6. TypeOK'
  <2>1. /\ pc' \in [Procs -> Steps]
        /\ file' \in [Procs -> Inodes \cup {None}]
        /\ descr' \in [Procs -> Procs \cup {None}]
    BY <1>1, <1>2, <1>3 DEF TypeOK, Steps, Owning
  <2>2. \A q \in Procs :
          /\ file'[q] = None <=> pc'[q] \in Ended \cup {"start", "retry"}
          /\ descr'[q] = None <=> pc'[q] \in Ended \cup {"start", "retry"}
    BY <1>1, <1>3, <1>4, <1>5 DEF TypeOK, Ended
  <2>. QED BY <1>1, <2>1, <2>2 DEF TypeOK
<1>7. OwnDescription'
  <2>1. \A q \in Procs : pc'[q] \in Early => descr'[q] = q
    BY <1>1, <1>3, <1>4 DEF IInv, OwnDescription, Early
  <2>2. ASSUME NEW q \in Procs, NEW d \in Procs, descr'[q] = d, q # d
        PROVE  pc'[d] \in Late
    <3>1. pc[d] \in Late
      BY <1>1, <1>4, <2>2 DEF IInv, OwnDescription, Late
    <3>. QED BY <1>1, <1>3, <1>4, <3>1 DEF Late, Ended
  <2>. QED BY <2>1, <2>2 DEF OwnDescription
<1>8. OneMain'
  <2>1. \A q \in Procs : pc[q] \in Main /\ descr[q] = descr[p] => q = p
    BY <1>1 DEF IInv, OneMain, Main, Owning
  <2>. QED BY <1>1, <1>3, <1>4, <2>1 DEF IInv, OneMain, Main, Owning
<1>9. LockHeld'
  BY <1>1, <1>3, <1>4 DEF IInv, LockHeld, HasLock, Owning
<1>10. SocketKnown' /\ NothingBroken'
  BY <1>1, <1>3, <1>4 DEF IInv, SocketKnown, NothingBroken
<1>. QED BY <1>6, <1>7, <1>8, <1>9, <1>10 DEF IInv

-----------------------------------------------------------------------------
LEMMA InitInv == Init => IInv
<1>. USE ListenerAssumption
<1> SUFFICES ASSUME Init PROVE IInv
  OBVIOUS
<1>1. TypeOK
  BY DEF Init, TypeOK, Steps, Ended
<1>2. OwnDescription /\ OneMain /\ LockHeld /\ SocketKnown /\ NothingBroken
  BY DEF Init, OwnDescription, OneMain, LockHeld, SocketKnown, NothingBroken,
         Early, Late, Main, Owning, Ended
<1>. QED BY <1>1, <1>2 DEF IInv

LEMMA NextInv == IInv /\ [Next]_vars => IInv'
<1>. USE ListenerAssumption
<1> SUFFICES ASSUME IInv, [Next]_vars PROVE IInv'
  OBVIOUS
<1>t. TypeOK /\ LockHeld /\ SocketKnown
  BY DEF IInv
<1>1. CASE UNCHANGED vars
  <2>1. TypeOK' /\ OwnDescription' /\ OneMain' /\ LockHeld' /\ SocketKnown' /\ NothingBroken'
    BY <1>1 DEF vars, IInv, TypeOK, OwnDescription, OneMain, LockHeld, HasLock, SocketKnown,
                NothingBroken
  <2>. QED BY <2>1 DEF IInv
<1>2. ASSUME NEW p \in Procs, Open(p) PROVE IInv'
  BY <1>2, OpenInv
<1>3. ASSUME NEW p \in Procs, Flock(p) PROVE IInv'
  BY <1>3, FlockInv
<1>4. ASSUME NEW p \in Procs, AlreadyLocked(p) PROVE IInv'
  BY <1>4, LeaveInv DEF AlreadyLocked, Ended
<1>5. ASSUME NEW p \in Procs, Check(p) PROVE IInv'
  <2>1. socketPath \in Procs \cup {Old, None}
    BY <1>t DEF TypeOK
  <2>. QED BY <1>5, <2>1, OwnerStepInv DEF Check, FileStillAtPath, Owning
<1>6. ASSUME NEW p \in Procs, TryAgain(p) PROVE IInv'
  BY <1>6, LeaveInv DEF TryAgain, Ended
<1>7. ASSUME NEW p \in Procs, FindStale(p) PROVE IInv'
  <2>1. socketPath \in Procs \cup {Old, None}
    BY <1>t DEF TypeOK
  <2>2. CASE SocketExists
    BY <1>7, <2>1, <2>2, OwnerStepInv DEF FindStale, SocketExists, Owning
  <2>3. CASE ~SocketExists
    BY <1>7, <2>1, <2>3, OwnerStepInv DEF FindStale, SocketExists, Owning
  <2>. QED BY <2>2, <2>3
<1>8. ASSUME NEW p \in Procs, RemoveStale(p) PROVE IInv'
  <2>1. socketPath # None
    BY <1>8, <1>t DEF RemoveStale, SocketKnown
  <2>. QED BY <1>8, <2>1, OwnerStepInv DEF RemoveStale, Owning
<1>9. ASSUME NEW p \in Procs, Bind(p) PROVE IInv'
  <2>1. socketPath = None
    BY <1>9, <1>t DEF Bind, SocketKnown
  <2>2. descr[p] \in Procs
    BY <1>9, <1>t DEF Bind, LockHeld, HasLock, Owning
  <2>. QED BY <1>9, <2>1, <2>2, OwnerStepInv DEF Bind, Owning
<1>10. ASSUME NEW p \in Procs, RemoveSocket(p) PROVE IInv'
  <2>1. pc[p] = "serving"
    BY <1>10 DEF RemoveSocket, MadeListener
  <2>2. socketPath = descr[p] /\ descr[p] \in Procs
    BY <2>1, <1>t DEF SocketKnown, LockHeld, HasLock, Owning
  <2>3. socketPath # None
    BY <2>2
  <2>. QED BY <1>10, <2>1, <2>3, OwnerStepInv DEF RemoveSocket, Owning
<1>11. ASSUME NEW p \in Procs, RemoveLock(p) PROVE IInv'
  <2>1. pc[p] = "closing"
    BY <1>11 DEF RemoveLock
  <2>2. lockPath # None /\ socketPath \in Procs \cup {Old, None}
    BY <2>1, <1>t DEF LockHeld, HasLock, Owning, TypeOK
  <2>. QED BY <1>11, <2>1, <2>2, OwnerStepInv DEF RemoveLock, Owning
<1>12. ASSUME NEW p \in Procs, DropFields(p) \/ Leave(p) \/ Kill(p) PROVE IInv'
  <2>1. CASE DropFields(p)
    BY <2>1, LeaveInv DEF DropFields, BodyDone, Ended
  <2>2. CASE Leave(p)
    BY <2>2, LeaveInv DEF Leave, Ended
  <2>3. CASE Kill(p)
    BY <2>3, LeaveInv DEF Kill, Ended
  <2>. QED BY <1>12, <2>1, <2>2, <2>3
<1>13. ASSUME NEW p \in Procs, NEW c \in Procs, Fork(p, c) \/ Daemonize(p, c) PROVE IInv'
  BY <1>13, ForkInv
<1>. QED
  BY <1>1, <1>2, <1>3, <1>4, <1>5, <1>6, <1>7, <1>8, <1>9, <1>10, <1>11, <1>12, <1>13 DEF Next

-----------------------------------------------------------------------------
THEOREM Invariance == Spec => []IInv
<1>1. Init => IInv
  BY InitInv
<1>2. IInv /\ [Next]_vars => IInv'
  BY NextInv
<1>. QED BY <1>1, <1>2, PTL DEF Spec

\* A process has the lock file open exactly from open to the end, and every
\* variable has its type.
THEOREM TypeCorrect == Spec => []TypeOK
<1>1. IInv => TypeOK
  BY DEF IInv
<1>. QED BY <1>1, Invariance, PTL

\* lock_file returns in at most one process at a time, whatever number of them
\* start, stop, fork and are killed: the loop around flock is enough.
THEOREM OwnerIsUnique == Spec => []OneOwner
<1>1. IInv => OneOwner
  BY OwnerUnique DEF OneOwner
<1>. QED BY <1>1, Invariance, PTL

\* The socket at the display name belongs to the process that serves.
THEOREM SocketIsServers == Spec => []ServesItsSocket
<1>1. IInv => ServesItsSocket
  BY DEF IInv, SocketKnown, ServesItsSocket
<1>. QED BY <1>1, Invariance, PTL

\* No unwrap of remove_file or bind ever fails for want of, or because of, a file.
THEOREM UnwrapsJustified == Spec => []NothingBroken
<1>1. IInv => NothingBroken
  BY DEF IInv
<1>. QED BY <1>1, Invariance, PTL

-----------------------------------------------------------------------------
(* What is left of files.  As long as nobody was killed, the file at         *)
(* lock_path has somebody who will lock or unlink it: a process that gives   *)
(* up found it locked by one that goes on.                                   *)

NoneKilled == \A p \in Procs : pc[p] # "killed"
AllToStart == \A p \in Procs : pc[p] = "start"

HasItLocked(p) == pc[p] \in Owning \cup {"flocked"} /\ file[p] = lockPath
Attends(p) == HasItLocked(p) \/ (pc[p] = "opened" /\ file[p] = lockPath)

LockFileAttended ==
    NoneKilled /\ lockPath # None =>
        /\ AllToStart \/ \E p \in Procs : Attends(p)
        /\ flock[lockPath] # None => \E p \in Procs : HasItLocked(p)

\* A lock has a holder, and the holders of a description have one file.
LocksHaveHolders ==
    /\ \A i \in Inodes : flock[i] # None =>
          \E p \in Procs : file[p] = i /\ descr[p] = flock[i]
    /\ \A p, q \in Procs : descr[p] = descr[q] /\ descr[p] # None => file[p] = file[q]

\* The socket goes before the lock file.
SocketFirst ==
    /\ NoneKilled /\ socketPath # None => AllToStart \/ lockPath # None
    /\ \A p \in Procs : pc[p] = "closing" => socketPath = None

Attended == LockFileAttended /\ LocksHaveHolders /\ SocketFirst

\* The last holder of a description takes its locks along.
LEMMA CloseHolders ==
    ASSUME IInv, LocksHaveHolders, NEW p \in Procs, Close(p)
    PROVE  LocksHaveHolders'
<1>1. TypeOK /\ descr'[p] = None /\ \A q \in Procs : q # p => file'[q] = file[q] /\ descr'[q] = descr[q]
  BY CloseTypes DEF IInv, Close, TypeOK
<1>2. ASSUME NEW i \in Inodes, flock'[i] # None
      PROVE  \E q \in Procs : file'[q] = i /\ descr'[q] = flock'[i]
  <2>1. flock'[i] = flock[i] /\ (flock[i] = descr[p] => Holders(descr[p]) # {p})
    BY <1>1, <1>2 DEF Close, TypeOK
  <2>2. PICK q \in Procs : file[q] = i /\ descr[q] = flock[i]
    BY <1>2, <2>1 DEF LocksHaveHolders
  <2>3. CASE q # p
    BY <1>1, <2>1, <2>2, <2>3
  <2>4. CASE q = p
    <3>1. PICK r \in Procs : r # p /\ descr[r] = descr[p]
      BY <2>1, <2>2, <2>4 DEF Holders
    <3>2. file[r] = file[p]
      BY <1>2, <2>1, <2>2, <2>4, <3>1 DEF LocksHaveHolders
    <3>. QED BY <1>1, <2>1, <2>2, <2>4, <3>1, <3>2
  <2>. QED BY <2>3, <2>4
<1>3. \A q, r \in Procs : descr'[q] = descr'[r] /\ descr'[q] # None => file'[q] = file'[r]
  BY <1>1 DEF LocksHaveHolders
<1>. QED BY <1>2, <1>3 DEF LocksHaveHolders

\* Who leaves unkilled leaves no lock file unattended: it had none, or not the one
\* at the path, or found that locked.
LEMMA LeaveAttended ==
    ASSUME IInv, Attended, NEW p \in Procs, NEW s \in Ended \cup {"retry"},
           pc[p] \notin Ended \cup {"start"},
           s # "killed" => /\ ~HasItLocked(p)
                           /\ Attends(p) => flock[lockPath] # None,
           Go(p, s), Close(p), UNCHANGED <<lockPath, socketPath>>
    PROVE  Attended'
<1>. USE ListenerAssumption
<1>1. /\ TypeOK /\ pc'[p] = s
      /\ \A q \in Procs : q # p => pc'[q] = pc[q] /\ file'[q] = file[q]
  BY CloseTypes DEF IInv, Go, Close, TypeOK
<1>2. LocksHaveHolders'
  BY CloseHolders DEF Attended
<1>3. SocketFirst'
  <2>1. NoneKilled' => NoneKilled /\ ~AllToStart
    BY <1>1 DEF NoneKilled, AllToStart, Ended
  <2>2. \A q \in Procs : pc'[q] = "closing" => pc[q] = "closing"
    BY <1>1 DEF Ended
  <2>. QED BY <2>1, <2>2 DEF Attended, SocketFirst
<1>4. ASSUME NoneKilled', lockPath' # None
      PROVE  /\ AllToStart' \/ \E q \in Procs : Attends(q)'
             /\ flock'[lockPath'] # None => \E q \in Procs : HasItLocked(q)'
  <2>1. NoneKilled /\ s # "killed" /\ lockPath # None /\ lockPath \in Inodes /\ ~AllToStart
    BY <1>1, <1>4 DEF NoneKilled, AllToStart, Ended, TypeOK
  <2>2. \A q \in Procs : q # p => /\ HasItLocked(q) => HasItLocked(q)'
                                  /\ Attends(q) => Attends(q)'
    BY <1>1 DEF HasItLocked, Attends
  <2>3. flock[lockPath] # None => \E q \in Procs : q # p /\ HasItLocked(q)
    BY <2>1 DEF Attended, LockFileAttended
  <2>4. flock'[lockPath] # None => flock[lockPath] # None
    BY <1>1, <2>1 DEF Close, TypeOK
  <2>5. \E q \in Procs : q # p /\ Attends(q)
    <3>1. PICK q \in Procs : Attends(q)
      BY <2>1 DEF Attended, LockFileAttended
    <3>2. CASE q = p
      BY <2>1, <2>3, <3>1, <3>2 DEF Attends
    <3>. QED BY <3>1, <3>2
  <2>. QED BY <2>2, <2>3, <2>4, <2>5
<1>. QED BY <1>2, <1>3, <1>4 DEF Attended, LockFileAttended

LEMMA OwnerAttended ==
    ASSUME IInv, IInv', Attended, NEW p \in Procs, NEW s \in Owning \cup {"unlinked"},
           pc[p] \in Owning \cup {"flocked"},
           pc[p] = "flocked" => socketPath' = socketPath,
           s = "closing" => socketPath' = None,
           s # "unlinked" => lockPath' = lockPath,
           s = "unlinked" => pc[p] = "closing" /\ lockPath' = None /\ socketPath' = socketPath,
           Go(p, s), UNCHANGED <<file, descr, flock>>
    PROVE  Attended'
<1>. USE ListenerAssumption
<1>1. TypeOK /\ pc'[p] = s /\ \A q \in Procs : q # p => pc'[q] = pc[q]
  BY DEF IInv, Go, TypeOK
<1>2. LocksHaveHolders'
  BY DEF Attended, LocksHaveHolders
<1>3. NoneKilled' => NoneKilled /\ ~AllToStart
  BY <1>1 DEF NoneKilled, AllToStart, Owning
<1>4. SocketFirst'
  <2>1. ASSUME NoneKilled', socketPath' # None PROVE lockPath' # None
    <3>1. CASE s = "unlinked"
      BY <2>1, <3>1 DEF Attended, SocketFirst
    <3>2. CASE s \in Owning
      BY <1>1, <3>2 DEF IInv, LockHeld, HasLock
    <3>. QED BY <3>1, <3>2
  <2>2. ASSUME NEW q \in Procs, pc'[q] = "closing" PROVE socketPath' = None
    <3>1. CASE q = p
      BY <1>1, <2>2, <3>1
    <3>2. CASE q # p
      <4>1. pc[q] = "closing" /\ socketPath = None
        BY <1>1, <2>2, <3>2 DEF Attended, SocketFirst
      <4>2. pc[p] = "flocked"
        BY <3>2, <4>1, OwnerUnique DEF Owning
      <4>. QED BY <4>1, <4>2
    <3>. QED BY <3>1, <3>2
  <2>. QED BY <2>1, <2>2 DEF SocketFirst
<1>5. ASSUME NoneKilled', lockPath' # None
      PROVE  /\ \E q \in Procs : Attends(q)'
             /\ flock'[lockPath'] # None => \E q \in Procs : HasItLocked(q)'
  <2>1. s # "unlinked" /\ lockPath' = lockPath /\ NoneKilled /\ ~AllToStart
    BY <1>3, <1>5
  <2>2. \A q \in Procs : /\ HasItLocked(q) => HasItLocked(q)'
                         /\ Attends(q) => Attends(q)'
    BY <1>1, <2>1 DEF HasItLocked, Attends, Owning
  <2>. QED BY <1>5, <2>1, <2>2 DEF Attended, LockFileAttended
<1>. QED BY <1>2, <1>4, <1>5 DEF Attended, LockFileAttended

LEMMA OpenAttended ==
    ASSUME IInv, Attended, NEW p \in Procs, Open(p)
    PROVE  Attended'
<1>. USE ListenerAssumption
<1>1. PICK i \in Inodes :
        /\ IF lockPath = None THEN i \notin InUse ELSE i = lockPath
        /\ lockPath' = i
        /\ file' = [file EXCEPT ![p] = i]
        /\ descr' = [descr EXCEPT ![p] = p]
  BY DEF Open
<1>2. TypeOK /\ pc[p] \in {"start", "retry"} /\ UNCHANGED <<socketPath, flock>>
  BY DEF IInv, Open
<1>3. /\ pc'[p] = "opened" /\ file'[p] = i /\ descr'[p] = p
      /\ \A q \in Procs : q # p => pc'[q] = pc[q] /\ file'[q] = file[q] /\ descr'[q] = descr[q]
  BY <1>1, <1>2 DEF Open, Go, TypeOK
<1>4. descr[p] = None /\ \A q \in Procs : q # p => descr[q] # p
  BY <1>2 DEF IInv, TypeOK, OwnDescription, Late, Ended
<1>5. LocksHaveHolders'
  <2>1. ASSUME NEW j \in Inodes, flock[j] # None
        PROVE  \E q \in Procs : file'[q] = j /\ descr'[q] = flock[j]
    BY <1>3, <1>4, <2>1 DEF Attended, LocksHaveHolders
  <2>2. \A q, r \in Procs : descr'[q] = descr'[r] /\ descr'[q] # None => file'[q] = file'[r]
    BY <1>3, <1>4 DEF Attended, LocksHaveHolders
  <2>. QED BY <1>2, <2>1, <2>2 DEF LocksHaveHolders
<1>6. NoneKilled' => NoneKilled
  BY <1>2, <1>3 DEF NoneKilled
<1>7. SocketFirst'
  <2>1. lockPath' # None
    BY <1>1
  <2>2. \A q \in Procs : pc'[q] = "closing" => pc[q] = "closing"
    BY <1>3
  <2>. QED BY <1>2, <2>1, <2>2 DEF Attended, SocketFirst
<1>8. Attends(p)'
  BY <1>1, <1>3 DEF Attends
<1>9. ASSUME NoneKilled', flock'[lockPath'] # None
      PROVE  \E q \in Procs : HasItLocked(q)'
  <2>1. lockPath = i
    <3>1. PICK q \in Procs : file[q] = i
      BY <1>1, <1>2, <1>9 DEF Attended, LocksHaveHolders
    <3>2. i \in InUse
      BY <3>1 DEF InUse
    <3>. QED BY <1>1, <3>2
  <2>2. PICK q \in Procs : HasItLocked(q)
    BY <1>1, <1>2, <1>6, <1>9, <2>1 DEF Attended, LockFileAttended
  <2>3. q # p
    BY <1>2, <2>2 DEF HasItLocked, Owning
  <2>. QED BY <1>1, <1>3, <2>1, <2>2, <2>3 DEF HasItLocked
<1>. QED BY <1>5, <1>7, <1>8, <1>9 DEF Attended, LockFileAttended

LEMMA FlockAttended ==
    ASSUME IInv, Attended, NEW p \in Procs, Flock(p)
    PROVE  Attended'
<1>. USE ListenerAssumption
<1>1. /\ TypeOK /\ pc[p] = "opened" /\ flock' = [flock EXCEPT ![file[p]] = descr[p]]
      /\ UNCHANGED <<lockPath, socketPath, file, descr>>
      /\ pc'[p] = "flocked" /\ \A q \in Procs : q # p => pc'[q] = pc[q]
  BY DEF IInv, Flock, Go, TypeOK
<1>2. LocksHaveHolders'
  BY <1>1 DEF Attended, LocksHaveHolders, TypeOK
<1>3. NoneKilled' => NoneKilled /\ ~AllToStart
  BY <1>1 DEF NoneKilled, AllToStart
<1>4. SocketFirst'
  BY <1>1, <1>3 DEF Attended, SocketFirst
<1>5. ASSUME NoneKilled', lockPath' # None
      PROVE  /\ \E q \in Procs : Attends(q)'
             /\ flock'[lockPath'] # None => \E q \in Procs : HasItLocked(q)'
  <2>1. \A q \in Procs : /\ HasItLocked(q) => HasItLocked(q)'
                         /\ Attends(q) => Attends(q)'
    BY <1>1 DEF HasItLocked, Attends, Owning
  <2>2. \E q \in Procs : Attends(q)'
    BY <1>1, <1>3, <1>5, <2>1 DEF Attended, LockFileAttended
  <2>3. ASSUME flock'[lockPath'] # None
        PROVE  \E q \in Procs : HasItLocked(q)'
    <3>1. CASE file[p] = lockPath
      BY <1>1, <3>1 DEF HasItLocked
    <3>2. CASE file[p] # lockPath
      <4>1. flock[lockPath] # None
        BY <1>1, <1>5, <2>3, <3>2 DEF TypeOK
      <4>. QED BY <1>1, <1>3, <1>5, <2>1, <4>1 DEF Attended, LockFileAttended
    <3>. QED BY <3>1, <3>2
  <2>. QED BY <2>2, <2>3
<1>. QED BY <1>2, <1>4, <1>5 DEF Attended, LockFileAttended

LEMMA ForkAttended ==
    ASSUME IInv, Attended, NEW p \in Procs, NEW c \in Procs, Fork(p, c) \/ Daemonize(p, c)
    PROVE  Attended'
<1>. USE ListenerAssumption
<1>1. /\ TypeOK /\ pc[p] = "serving" /\ pc[c] = "start" /\ p # c
      /\ file' = [file EXCEPT ![c] = file[p]]
      /\ descr' = [descr EXCEPT ![c] = descr[p]]
      /\ UNCHANGED <<lockPath, socketPath, flock>>
  BY DEF IInv, Fork, Daemonize
<1>2. /\ \/ pc'[p] = "serving" /\ pc'[c] = "child"
         \/ pc'[p] = "leaving" /\ pc'[c] = "serving"
      /\ \A q \in Procs : q \notin {p, c} => pc'[q] = pc[q]
  BY <1>1 DEF Fork, Daemonize, Go, TypeOK
<1>3. /\ file'[c] = file[p] /\ descr'[c] = descr[p] /\ descr[c] = None
      /\ \A q \in Procs : q # c => file'[q] = file[q] /\ descr'[q] = descr[q]
  BY <1>1 DEF TypeOK
<1>4. LocksHaveHolders'
  <2>1. ASSUME NEW j \in Inodes, flock[j] # None
        PROVE  \E q \in Procs : file'[q] = j /\ descr'[q] = flock[j]
    BY <1>3, <2>1 DEF Attended, LocksHaveHolders
  <2>2. \A q, r \in Procs : descr'[q] = descr'[r] /\ descr'[q] # None => file'[q] = file'[r]
    BY <1>1, <1>3 DEF Attended, LocksHaveHolders
  <2>. QED BY <1>1, <2>1, <2>2 DEF LocksHaveHolders
<1>5. NoneKilled' => NoneKilled /\ ~AllToStart
  BY <1>1, <1>2 DEF NoneKilled, AllToStart
<1>6. SocketFirst'
  <2>1. \A q \in Procs : pc'[q] = "closing" => pc[q] = "closing"
    BY <1>2
  <2>. QED BY <1>1, <1>5, <2>1 DEF Attended, SocketFirst
<1>7. lockPath = file[p]
  BY <1>1 DEF IInv, LockHeld, Owning
<1>8. HasItLocked(p)' \/ HasItLocked(c)'
  BY <1>1, <1>2, <1>3, <1>7 DEF HasItLocked, Owning
<1>. QED BY <1>4, <1>6, <1>8 DEF Attended, LockFileAttended, Attends

LEMMA InitAttended == Init => Attended
<1>. USE ListenerAssumption
<1> SUFFICES ASSUME Init PROVE Attended
  OBVIOUS
<1>1. AllToStart /\ \A i \in Inodes : flock[i] = None
  BY DEF Init, AllToStart
<1>2. LockFileAttended
  BY <1>1 DEF LockFileAttended, Init
<1>3. LocksHaveHolders /\ SocketFirst
  BY <1>1 DEF LocksHaveHolders, SocketFirst, Init, AllToStart
<1>. QED BY <1>2, <1>3 DEF Attended

LEMMA NextAttended == IInv /\ IInv' /\ Attended /\ [Next]_vars => Attended'
<1>. USE ListenerAssumption
<1> SUFFICES ASSUME IInv, IInv', Attended, [Next]_vars PROVE Attended'
  OBVIOUS
<1>1. CASE UNCHANGED vars
  BY <1>1 DEF vars, Attended, LockFileAttended, LocksHaveHolders, SocketFirst, NoneKilled,
              AllToStart, Attends, HasItLocked
<1>2. ASSUME NEW p \in Procs, Open(p) PROVE Attended'
  BY <1>2, OpenAttended
<1>3. ASSUME NEW p \in Procs, Flock(p) PROVE Attended'
  BY <1>3, FlockAttended
<1>4. ASSUME NEW p \in Procs, AlreadyLocked(p) PROVE Attended'
  <2>1. pc[p] = "opened" /\ flock[file[p]] # None /\ Go(p, "locked") /\ Close(p)
        /\ UNCHANGED <<lockPath, socketPath>>
    BY <1>4 DEF AlreadyLocked
  <2>2. ~HasItLocked(p) /\ (Attends(p) => flock[lockPath] # None)
    BY <2>1 DEF HasItLocked, Attends, Owning
  <2>. QED BY <2>1, <2>2, LeaveAttended DEF Ended
<1>5. ASSUME NEW p \in Procs, TryAgain(p) PROVE Attended'
  <2>1. pc[p] = "flocked" /\ lockPath # file[p] /\ Go(p, "retry") /\ Close(p)
        /\ UNCHANGED <<lockPath, socketPath>>
    BY <1>5 DEF TryAgain, FileStillAtPath
  <2>2. ~HasItLocked(p) /\ ~Attends(p)
    BY <2>1 DEF HasItLocked, Attends
  <2>. QED BY <2>1, <2>2, LeaveAttended DEF Ended
<1>6. ASSUME NEW p \in Procs, Check(p) \/ FindStale(p) PROVE Attended'
  <2>1. PICK s \in {"owner", "stale", "cleaned"} : Go(p, s)
    BY <1>6 DEF Check, FindStale
  <2>2. pc[p] \in Owning \cup {"flocked"} /\ UNCHANGED <<lockPath, socketPath, file, descr, flock>>
    BY <1>6 DEF Check, FindStale, Owning
  <2>. QED BY <2>1, <2>2, OwnerAttended DEF Owning
<1>7. ASSUME NEW p \in Procs, RemoveStale(p) \/ Bind(p) PROVE Attended'
  <2>1. PICK s \in {"cleaned", "serving"} : Go(p, s) /\ UNCHANGED <<lockPath, file, descr, flock>>
    BY <1>7 DEF RemoveStale, Bind, IInv, SocketKnown
  <2>2. pc[p] \in {"stale", "cleaned"}
    BY <1>7 DEF RemoveStale, Bind
  <2>. QED BY <2>1, <2>2, OwnerAttended DEF Owning
<1>8. ASSUME NEW p \in Procs, RemoveSocket(p) PROVE Attended'
  <2>1. pc[p] = "serving" /\ socketPath # None
    BY <1>8 DEF RemoveSocket, MadeListener, IInv, SocketKnown, TypeOK, Ended
  <2>2. Go(p, "closing") /\ socketPath' = None /\ UNCHANGED <<lockPath, file, descr, flock>>
    BY <1>8, <2>1 DEF RemoveSocket
  <2>. QED BY <2>1, <2>2, OwnerAttended DEF Owning
<1>9. ASSUME NEW p \in Procs, RemoveLock(p) PROVE Attended'
  <2>1. pc[p] = "closing" /\ lockPath # None
    BY <1>9 DEF RemoveLock, IInv, LockHeld, HasLock, Owning
  <2>2. Go(p, "unlinked") /\ lockPath' = None /\ UNCHANGED <<socketPath, file, descr, flock>>
    BY <1>9, <2>1 DEF RemoveLock
  <2>. QED BY <2>1, <2>2, OwnerAttended DEF Owning
<1>10. ASSUME NEW p \in Procs, DropFields(p) \/ Leave(p) PROVE Attended'
  <2>1. pc[p] \in {"unlinked", "child", "leaving"} /\ Go(p, "stopped") /\ Close(p)
        /\ UNCHANGED <<lockPath, socketPath>>
    BY <1>10 DEF DropFields, BodyDone, Leave
  <2>2. ~HasItLocked(p) /\ ~Attends(p)
    BY <2>1 DEF HasItLocked, Attends, Owning
  <2>. QED BY <2>1, <2>2, LeaveAttended DEF Ended
<1>11. ASSUME NEW p \in Procs, Kill(p) PROVE Attended'
  BY <1>11, LeaveAttended DEF Kill, Ended
<1>12. ASSUME NEW p \in Procs, NEW c \in Procs, Fork(p, c) \/ Daemonize(p, c) PROVE Attended'
  BY <1>12, ForkAttended
<1>. QED
  BY <1>1, <1>2, <1>3, <1>4, <1>5, <1>6, <1>7, <1>8, <1>9, <1>10, <1>11, <1>12 DEF Next

\* Processes that all ended and were not killed leave no file, whoever gave up on whom.
THEOREM NothingIsLeft == Spec => []NoLeftovers
<1>1. Attended => NoLeftovers
  <2>. SUFFICES ASSUME Attended, \A p \in Procs : pc[p] \in {"stopped", "locked"}
                PROVE  lockPath = None /\ socketPath = None
    BY DEF NoLeftovers
  <2>1. NoneKilled /\ ~AllToStart
    BY ListenerAssumption DEF NoneKilled, AllToStart
  <2>2. \A p \in Procs : ~Attends(p)
    BY DEF Attends, HasItLocked, Owning
  <2>3. lockPath = None
    BY <2>1, <2>2 DEF Attended, LockFileAttended
  <2>. QED BY <2>1, <2>3 DEF Attended, SocketFirst
<1>. QED BY <1>1, InitAttended, NextAttended, Invariance, PTL DEF Spec

-----------------------------------------------------------------------------
(* Daemon.  COUNT is exact, so a session that finds itself last is alone;  *)
(* every session that runs while it sleeps was counted after that.         *)

WasLast(c) == client[c] \in {"last", "sleeping"}

Tickets ==
    /\ \A c \in Clients : ticket[c] <= total
    /\ \A c \in Clients : client[c] \in {"connected", "counted"} => Terminate
    /\ \A c \in Clients : WasLast(c) => lastAt[c] <= total /\ Terminate
    /\ \A c, d \in Clients : WasLast(c) /\ client[d] = "running" => lastAt[c] < ticket[d]

CountInv == DaemonTypeOK /\ Tickets

-----------------------------------------------------------------------------
\* Whoever finds COUNT at one is the only session with a SessionTerminator.
LEMMA LastIsAlone ==
    ASSUME DaemonTypeOK, Terminate, count = 1, NEW c \in Clients, client[c] = "running",
           NEW d \in Clients, d # c
    PROVE  client[d] # "running"
<1>1. IsFiniteSet(HasTerminator) /\ HasTerminator \subseteq Clients
  BY DaemonAssumption, FS_Subset DEF HasTerminator
<1>2. Cardinality(HasTerminator) = 1
  BY DEF DaemonTypeOK
<1>3. PICK x : HasTerminator = {x}
  BY <1>1, <1>2, FS_Singleton
<1>4. c \in HasTerminator
  BY DEF HasTerminator
<1>. QED BY <1>3, <1>4 DEF HasTerminator

LEMMA CountStarts == DaemonInit => CountInv
<1> SUFFICES ASSUME DaemonInit PROVE CountInv
  OBVIOUS
<1>1. HasTerminator = {}
  BY DEF DaemonInit, HasTerminator
<1>2. Cardinality(HasTerminator) = 0
  BY <1>1, FS_EmptySet
<1>3. serverGone \in BOOLEAN
  BY DEF DaemonInit
<1>4. DaemonTypeOK
  BY <1>2, <1>3 DEF DaemonInit, DaemonTypeOK
<1>5. Tickets
  BY DEF DaemonInit, Tickets, WasLast
<1>. QED BY <1>4, <1>5 DEF CountInv

\* A step that leaves the counters and the counted sessions alone.
LEMMA ElsewhereInv ==
    ASSUME CountInv, UNCHANGED <<mode, count, total, lastAt, ticket>>,
           saved' \in [Clients -> Nat],
           main' \in {"loop", "forking", "returned", "unblocked", "socketRemoved", "cleaned",
                      "serving", "exited", "killed"},
           pending' \subseteq Signals \cup {SIGUSR1},
           serverGone' \in BOOLEAN,
           client' = client \/ \E c \in Clients, s \in {"backlog", "forking", "spawned",
                                   "connected", "running", "sleeping", "gone"} :
                 /\ client' = [client EXCEPT ![c] = s]
                 /\ client[c] \notin {"counted", "running"}
                 /\ s = "running" => ~Terminate
                 /\ s = "connected" => Terminate
                 /\ s = "sleeping" => client[c] = "last"
    PROVE  CountInv'
<1>1. DaemonTypeOK /\ Tickets
  BY DEF CountInv
<1>2. \A d \in Clients :
        /\ Terminate => (client'[d] \in {"counted", "running"}
                            <=> client[d] \in {"counted", "running"})
        /\ Terminate => (client'[d] = "running" <=> client[d] = "running")
        /\ WasLast(d)' => WasLast(d)
  BY <1>1 DEF DaemonTypeOK, WasLast
<1>3. HasTerminator' = HasTerminator
  BY <1>2 DEF HasTerminator, Terminate
<1>4. client' \in [Clients -> {"absent", "backlog", "forking", "spawned", "connected",
                               "counted", "running", "last", "sleeping", "gone"}]
  BY <1>1 DEF DaemonTypeOK
<1>5. DaemonTypeOK'
  BY <1>1, <1>3, <1>4 DEF DaemonTypeOK
<1>6. Tickets'
  <2>1. \A d \in Clients : WasLast(d)' => WasLast(d) /\ Terminate
    BY <1>1, <1>2 DEF Tickets
  <2>2. \A d \in Clients : client'[d] \in {"connected", "counted"} => Terminate
    BY <1>1 DEF Tickets, DaemonTypeOK
  <2>3. \A d \in Clients : ticket'[d] <= total'
    BY <1>1 DEF Tickets
  <2>4. \A d \in Clients : WasLast(d)' => lastAt'[d] <= total' /\ Terminate
    BY <1>1, <2>1 DEF Tickets
  <2>5. \A c, d \in Clients : WasLast(c)' /\ client'[d] = "running" => lastAt'[c] < ticket'[d]
    BY <1>1, <1>2, <2>1 DEF Tickets
  <2>. QED BY <2>2, <2>3, <2>4, <2>5 DEF Tickets, WasLast, Terminate
<1>. QED BY <1>5, <1>6 DEF CountInv

\* The end of a session without the terminate option.
LEMMA ElsewhereGone ==
    ASSUME CountInv, ~Terminate, NEW c \in Clients, EndSession(c)
    PROVE  CountInv'
<1>1. /\ DaemonTypeOK /\ Tickets /\ client' = [client EXCEPT ![c] = "gone"]
      /\ UNCHANGED <<main, pending, world, sessionVars>>
  BY DEF CountInv, EndSession, Become, sessionVars
<1>2. HasTerminator' = HasTerminator
  BY <1>1 DEF HasTerminator, Terminate, world
<1>3. DaemonTypeOK'
  BY <1>1, <1>2 DEF DaemonTypeOK, sessionVars, world
<1>4. Tickets'
  BY <1>1 DEF Tickets, WasLast, DaemonTypeOK, sessionVars, Terminate, world
<1>. QED BY <1>3, <1>4 DEF CountInv

LEMMA AddToCountInv ==
    ASSUME CountInv, NEW c \in Clients, AddToCount(c)
    PROVE  CountInv'
<1>1. /\ DaemonTypeOK /\ Tickets /\ client[c] = "connected"
      /\ client' = [client EXCEPT ![c] = "counted"] /\ count' = count + 1
      /\ UNCHANGED <<main, pending, world, total, saved, lastAt, ticket>>
  BY DEF CountInv, AddToCount, Become
<1>2. CASE Terminate
  <2>1. HasTerminator' = HasTerminator \cup {c} /\ c \notin HasTerminator
    BY <1>1, <1>2 DEF HasTerminator, DaemonTypeOK, Terminate, world
  <2>2. IsFiniteSet(HasTerminator)
    BY DaemonAssumption, FS_Subset DEF HasTerminator
  <2>3. Cardinality(HasTerminator') = Cardinality(HasTerminator) + 1
    BY <2>1, <2>2, FS_AddElement
  <2>4. DaemonTypeOK'
    BY <1>1, <2>3 DEF DaemonTypeOK, world
  <2>5. Tickets'
    BY <1>1 DEF Tickets, WasLast, DaemonTypeOK, Terminate, world
  <2>. QED BY <2>4, <2>5 DEF CountInv
<1>3. Terminate
  BY <1>1 DEF Tickets
<1>. QED BY <1>2, <1>3

\* The ticket of a session is above what TOTAL was when any other was last.
LEMMA AddToTotalInv ==
    ASSUME CountInv, NEW c \in Clients, AddToTotal(c)
    PROVE  CountInv'
<1>1. /\ DaemonTypeOK /\ Tickets /\ client[c] = "counted"
      /\ client' = [client EXCEPT ![c] = "running"]
      /\ total' = total + 1 /\ ticket' = [ticket EXCEPT ![c] = total + 1]
      /\ UNCHANGED <<main, pending, world, count, saved, lastAt>>
  BY DEF CountInv, AddToTotal, Become
<1>2. HasTerminator' = HasTerminator
  BY <1>1 DEF HasTerminator, DaemonTypeOK, Terminate, world
<1>3. DaemonTypeOK'
  BY <1>1, <1>2 DEF DaemonTypeOK, world
<1>4. /\ total \in Nat /\ ticket \in [Clients -> Nat] /\ lastAt \in [Clients -> Nat]
      /\ ticket'[c] = total + 1
      /\ \A d \in Clients : d # c => ticket'[d] = ticket[d] /\ client'[d] = client[d]
      /\ \A d \in Clients : WasLast(d)' => WasLast(d)
  BY <1>1 DEF DaemonTypeOK, WasLast
<1>5. Tickets'
  <2>1. \A d \in Clients : client'[d] \in {"connected", "counted"} => Terminate
    BY <1>1, <1>4 DEF Tickets
  <2>2. \A d \in Clients : ticket'[d] <= total'
    BY <1>1, <1>4 DEF Tickets
  <2>3. \A d \in Clients : WasLast(d)' => lastAt'[d] <= total /\ Terminate
    <3>1. \A d \in Clients : WasLast(d) => lastAt[d] <= total /\ Terminate
      BY <1>1 DEF Tickets
    <3>2. lastAt' = lastAt
      BY <1>1
    <3>3. ASSUME NEW d \in Clients, WasLast(d)'
          PROVE  lastAt'[d] <= total /\ Terminate
      <4>1. WasLast(d)
        BY <1>1, <3>3 DEF WasLast, DaemonTypeOK
      <4>2. lastAt[d] <= total /\ Terminate
        BY <3>1, <4>1
      <4>. QED BY <3>2, <4>2
    <3>. QED BY <3>3
  <2>4. \A d, e \in Clients : WasLast(d)' /\ client'[e] = "running" => lastAt'[d] < ticket'[e]
    BY <1>1, <1>4, <2>3 DEF Tickets
  <2>5. \A d \in Clients : WasLast(d)' => lastAt'[d] <= total'
    BY <1>1, <1>4, <2>3
  <2>6. Terminate' <=> Terminate
    BY <1>1 DEF Terminate, world
  <2>. QED BY <2>1, <2>2, <2>3, <2>4, <2>5, <2>6 DEF Tickets, WasLast
<1>. QED BY <1>3, <1>5 DEF CountInv

\* A session becomes last only when no other runs.
LEMMA EndSessionInv ==
    ASSUME CountInv, NEW c \in Clients, EndSession(c)
    PROVE  CountInv'
<1>1. /\ DaemonTypeOK /\ Tickets /\ client[c] = "running"
      /\ UNCHANGED <<main, pending, world, total, saved, ticket>>
  BY DEF CountInv, EndSession
<1>2. CASE ~Terminate
  BY <1>1, <1>2, ElsewhereGone
<1>3. CASE Terminate
  <2> DEFINE s == IF FoundLast THEN "last" ELSE "gone"
  <2>1. /\ count' = count - 1 /\ client' = [client EXCEPT ![c] = s]
        /\ lastAt' = [lastAt EXCEPT ![c] = total]
    BY <1>3 DEF EndSession, Become
  <2>2. s \in {"last", "gone"} /\ (s = "last" => count = 1)
    BY DEF FoundLast
  <2> HIDE DEF s
  <2>3. HasTerminator' = HasTerminator \ {c} /\ c \in HasTerminator
    BY <1>1, <1>3, <2>1, <2>2 DEF HasTerminator, DaemonTypeOK, Terminate, world
  <2>4. IsFiniteSet(HasTerminator)
    BY DaemonAssumption, FS_Subset DEF HasTerminator
  <2>5. Cardinality(HasTerminator') = Cardinality(HasTerminator) - 1
        /\ Cardinality(HasTerminator') \in Nat
    BY <2>3, <2>4, FS_RemoveElement, FS_CardinalityType
  <2>6. DaemonTypeOK'
    BY <1>1, <2>1, <2>2, <2>5 DEF DaemonTypeOK, world
  <2>7. /\ client'[c] = s /\ lastAt'[c] = total /\ total \in Nat
        /\ \A d \in Clients : d # c => client'[d] = client[d] /\ lastAt'[d] = lastAt[d]
    BY <1>1, <2>1 DEF DaemonTypeOK
  <2>8. s = "last" => \A d \in Clients : client'[d] # "running"
    BY <1>1, <1>3, <2>2, <2>7, LastIsAlone
  <2>9. Tickets'
    <3>1. \A d \in Clients : client'[d] \in {"connected", "counted"} => Terminate
      BY <1>3
    <3>2. \A d \in Clients : ticket'[d] <= total'
      BY <1>1 DEF Tickets
    <3>3. \A d \in Clients : WasLast(d)' => lastAt'[d] <= total' /\ Terminate
      BY <1>1, <1>3, <2>7 DEF Tickets, WasLast
    <3>4. \A d, e \in Clients : WasLast(d)' /\ client'[e] = "running" => lastAt'[d] < ticket'[e]
      BY <1>1, <2>2, <2>7, <2>8 DEF Tickets, WasLast
    <3>5. Terminate'
      BY <1>1, <1>3 DEF Terminate, world
    <3>. QED BY <3>1, <3>2, <3>3, <3>4, <3>5 DEF Tickets, WasLast
  <2>. QED BY <2>6, <2>9 DEF CountInv
<1>. QED BY <1>2, <1>3

LEMMA CountStays == CountInv /\ [DaemonNext]_daemonVars => CountInv'
<1> SUFFICES ASSUME CountInv, [DaemonNext]_daemonVars PROVE CountInv'
  OBVIOUS
<1>t. DaemonTypeOK
  BY DEF CountInv
<1>1. CASE UNCHANGED daemonVars
  BY <1>1, <1>t, ElsewhereInv DEF daemonVars, sessionVars, world, DaemonTypeOK
<1>2. ASSUME NEW c \in Clients, Connect(c) PROVE CountInv'
  BY <1>2, <1>t, ElsewhereInv DEF Connect, Become, sessionVars, world, DaemonTypeOK
<1>3. ASSUME NEW s \in Signals, SendSignal(s) PROVE CountInv'
  BY <1>3, <1>t, ElsewhereInv DEF SendSignal, Raise, sessionVars, world, DaemonTypeOK
<1>4. CASE ServerGoes
  BY <1>4, <1>t, ElsewhereInv DEF ServerGoes, sessionVars, world, DaemonTypeOK
<1>5. ASSUME NEW c \in Clients, Accept(c) PROVE CountInv'
  BY <1>5, <1>t, ElsewhereInv DEF Accept, Become, sessionVars, world, DaemonTypeOK
<1>12. ASSUME NEW c \in Clients, FirstForkFails(c) \/ SecondFork(c) PROVE CountInv'
  BY <1>12, <1>t, ElsewhereInv
  DEF FirstForkFails, SecondFork, Become, sessionVars, world, DaemonTypeOK
<1>6. CASE AcceptFails \/ ReadSignal \/ ServerEvent
  BY <1>6, <1>t, ElsewhereInv DEF AcceptFails, ReadSignal, ServerEvent, sessionVars, world, DaemonTypeOK
<1>7. CASE MainStep
  BY <1>7, <1>t, ElsewhereInv
  DEF MainStep, Reap, UnblockSignals, DropSocket, DropLock, Return, SessionReturned, sessionVars,
      world, DaemonTypeOK
<1>8. ASSUME NEW c \in Clients, ConnectServer(c) PROVE CountInv'
  <2>2. CASE serverGone
    BY <1>8, <1>t, <2>2, ElsewhereInv DEF ConnectServer, Become, sessionVars, world, DaemonTypeOK
  <2>3. CASE ~serverGone /\ Terminate
    BY <1>8, <1>t, <2>3, ElsewhereInv DEF ConnectServer, Become, sessionVars, world, DaemonTypeOK
  <2>4. CASE ~serverGone /\ ~Terminate
    BY <1>8, <1>t, <2>4, ElsewhereInv DEF ConnectServer, Become, sessionVars, world, DaemonTypeOK
  <2>. QED BY <2>2, <2>3, <2>4
<1>9. ASSUME NEW c \in Clients, AddToCount(c) \/ AddToTotal(c) \/ EndSession(c) PROVE CountInv'
  BY <1>9, AddToCountInv, AddToTotalInv, EndSessionInv
<1>10. ASSUME NEW c \in Clients, LoadTotal(c) PROVE CountInv'
  BY <1>10, <1>t, ElsewhereInv DEF LoadTotal, Become, world, DaemonTypeOK
<1>11. ASSUME NEW c \in Clients, WakeUp(c) PROVE CountInv'
  BY <1>11, <1>t, ElsewhereInv DEF WakeUp, Become, Raise, sessionVars, world, DaemonTypeOK
<1>. QED
  BY <1>1, <1>2, <1>3, <1>4, <1>5, <1>6, <1>7, <1>8, <1>9, <1>10, <1>11, <1>12 DEF DaemonNext, MainStep

-----------------------------------------------------------------------------
THEOREM CountInvariance == DaemonSpec => []CountInv
<1>. QED BY CountStarts, CountStays, PTL DEF DaemonSpec

\* Types, and COUNT is exactly the number of sessions that have a terminator.
THEOREM CountExact == DaemonSpec => []DaemonTypeOK
<1>1. CountInv => DaemonTypeOK
  BY DEF CountInv
<1>. QED BY <1>1, CountInvariance, PTL

\* However many sessions start and end around it, the terminate option strikes
\* only sessions counted between the last one's fetch_sub and its load of TOTAL.
THEOREM OnlyWindowSessionsEnd == DaemonSpec => SparesSessions
<1> DEFINE A == \A c, d \in Clients :
                   Terminates(c) /\ client[d] = "running" =>
                       lastAt[c] < ticket[d] /\ ticket[d] <= saved[c]
<1>1. CountInv => A
  BY DEF CountInv, Tickets, WasLast, Terminates, NoneSince
<1>. QED BY <1>1, CountInvariance, PTL DEF SparesSessions

=============================================================================
