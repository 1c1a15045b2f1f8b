---------------------------- MODULE ObjectIdsProofs ----------------------------
(***************************************************************************)
(* Proofs about ObjectIds for any number of ids and interfaces, and queues *)
(* of any length: the mediator never panics, and it reads every message    *)
(* with the interface its sender meant.                                    *)
(*                                                                         *)
(* What is under way in a direction is one sequence, in which the mediator *)
(* stands at a cut.  An id has one life at a time, which passes along:     *)
(* its creation goes up, the server has it, its delete_id comes down.      *)
(***************************************************************************)
EXTENDS ObjectIds, SequenceTheorems, TLAPS

-----------------------------------------------------------------------------
(* Messages under way. *)

Up == to["server"] \o from["client"]
CutUp == Len(to["server"])
Down == to["client"] \o from["server"]
CutDown == Len(to["client"])

Creates(m, id) == CreatesObject(m) /\ m.new = id
Deletes(m, id) == m.op = "delete_id" /\ m.new = id

\* The interface the mediator has for an id.
Known(id) == IF IsLive(id) THEN Entry(id).interface ELSE NoInterface

Ids == ClientIds \cup ServerIds
Interfaces == ClientInterfaces \cup ServerInterfaces \cup {"display", "callback"}

Ops == {"request", "destroy", "get", "sync", "event", "done", "delete_id", "offer"}
Msg == [op : Ops, target : Ids, interface : Interfaces, new : Nat,
        newInterface : Interfaces \cup {NoInterface}]

\* The messages about an id, and among them those that begin or end its life.
Marking(id) == {m \in Msg : Creates(m, id) \/ Deletes(m, id)}
About(id) == {m \in Msg : m.target = id} \cup Marking(id)

UpMessage(m) ==
    \/ m.op \in {"request", "destroy"} /\ m.target # Display /\ m.new = 0
    \/ /\ m.op \in {"get", "sync"} /\ m.target = Display /\ m.interface = "display"
       /\ m.new \in ClientIds /\ m.new # Display
       /\ m.newInterface \in ClientInterfaces \cup {"callback"}
    \/ /\ m.op = "sync" /\ m.target = Display /\ m.interface = "display"
       /\ m.new = HandshakeId

DownMessage(m) ==
    \/ m.op \in {"event", "done"} /\ m.target # Display /\ m.new = 0
    \/ /\ m.op = "delete_id" /\ m.target = Display /\ m.interface = "display"
       /\ m.new \in (ClientIds \ {Display}) \cup {HandshakeId}
    \/ /\ m.op = "offer" /\ m.target \in ClientIds \ {Display}
       /\ m.new \in ServerIds /\ m.newInterface \in ServerInterfaces

MessageTypes ==
    /\ from \in [Peers -> Seq(Msg)] /\ to \in [Peers -> Seq(Msg)]
    /\ \A k \in 1..Len(Up) : UpMessage(Up[k])
    /\ \A k \in 1..Len(Down) : DownMessage(Down[k])

\* What lives has an interface.
NoBlank(map) == \A i \in 1..Len(map) : map[i] # Live(NoInterface)

MapTypes ==
    /\ clientMap \in Seq(IdMapEntry) /\ serverMap \in Seq(IdMapEntry)
    /\ Len(clientMap) >= 2 /\ clientMap[1] = NeverUsed
    /\ Len(clientMap) <= MaxClientId + 1
    /\ Len(serverMap) <= MaxServerId - ServerStart + 1
    /\ NoBlank(clientMap) /\ NoBlank(serverMap)

PeerTypes ==
    /\ mine \in [ClientIds -> [state : {"new", "live", "zombie", "deleted", "free"},
                               interface : ClientInterfaces \cup {"display", "callback", NoInterface}]]
    /\ \A c \in ClientIds : c # Display => mine[c].interface # "display"
    /\ objects \in [ClientIds -> ClientInterfaces \cup {"display", "callback", NoInterface}]
    /\ offered \in [ServerIds -> ServerInterfaces \cup {NoInterface}]
    /\ offers \in [ServerIds -> ServerInterfaces \cup {NoInterface, "new"}]

Types == MessageTypes /\ MapTypes /\ PeerTypes /\ panicked = FALSE

-----------------------------------------------------------------------------
(* The ids of the client. *)

Used(c) == mine[c].state \in {"live", "zombie"}

\* A creation on its way to the server: nothing else is known of the id, and what is
\* asked of it comes behind.
Coming(c) ==
    \A k \in 1..Len(Up) : Creates(Up[k], c) =>
        /\ Used(c) /\ Up[k].newInterface = mine[c].interface
        /\ mine[c].interface # NoInterface
        /\ objects[c] = NoInterface
        /\ Known(c) = IF k <= CutUp THEN mine[c].interface ELSE NoInterface
        /\ \A j \in 1..Len(Up) : Creates(Up[j], c) => j = k
        /\ \A j \in 1..Len(Up) : Up[j].target = c => k < j
        /\ \A j \in 1..Len(Down) : Down[j].target # c

\* A request finds its object there, and none comes after the one that destroys it.
Asked(c) ==
    \A k \in 1..Len(Up) : Up[k].target = c =>
        /\ Used(c) /\ Up[k].interface = mine[c].interface
        /\ mine[c].interface # "callback"
        /\ objects[c] # NoInterface \/ \E j \in 1..Len(Up) : Creates(Up[j], c)
        /\ Up[k].op = "destroy" =>
              /\ mine[c].state = "zombie"
              /\ \A j \in 1..Len(Up) : Up[j].target = c => j <= k

\* An object the server has.
Held(c) ==
    objects[c] # NoInterface =>
        Used(c) /\ objects[c] = mine[c].interface /\ Known(c) = mine[c].interface

\* A delete_id on its way to the client: it is the last that is said of the object.
Going(c) ==
    \A k \in 1..Len(Down) : Deletes(Down[k], c) =>
        /\ Used(c) /\ mine[c].interface # NoInterface
        /\ mine[c].state = "live" => mine[c].interface = "callback"
        /\ objects[c] = NoInterface
        /\ Known(c) = IF k <= CutDown THEN NoInterface ELSE mine[c].interface
        /\ \A j \in 1..Len(Down) : Deletes(Down[j], c) => j = k
        /\ \A j \in 1..Len(Down) : Down[j].target = c => j < k
        /\ \A j \in 1..Len(Up) : Up[j].target # c /\ ~Creates(Up[j], c)

\* An event is of an object the server has, or its delete_id comes behind.
Told(c) ==
    \A k \in 1..Len(Down) : Down[k].target = c =>
        /\ Used(c) /\ Down[k].interface = mine[c].interface
        /\ objects[c] # NoInterface \/ \E j \in 1..Len(Down) : Deletes(Down[j], c)

Resting(c) == ~Used(c) => Known(c) = NoInterface

\* An object the client may use is not about to be deleted.
Alive(c) ==
    mine[c].state = "live" /\ mine[c].interface # "callback" =>
        /\ mine[c].interface # NoInterface
        /\ objects[c] # NoInterface \/ \E j \in 1..Len(Up) : Creates(Up[j], c)

ClientIdInv(c) ==
    Coming(c) /\ Asked(c) /\ Held(c) /\ Going(c) /\ Told(c) /\ Resting(c) /\ Alive(c)

-----------------------------------------------------------------------------
(* The ids of the server. *)

InUse(s) == offers[s] \in ServerInterfaces

\* An offer on its way to the client, who has asked nothing of it yet.
Offering(s) ==
    \A k \in 1..Len(Down) : Creates(Down[k], s) =>
        /\ InUse(s) /\ Down[k].newInterface = offers[s]
        /\ offered[s] = NoInterface
        /\ k <= CutDown => Known(s) = offers[s]
        /\ \A j \in 1..Len(Down) : Creates(Down[j], s) => j = k
        /\ \A j \in 1..Len(Down) : Down[j].target = s /\ k < j => Down[j].interface = offers[s]
        /\ \A j \in 1..Len(Up) : Up[j].target # s

AskedOffer(s) ==
    \A k \in 1..Len(Up) : Up[k].target = s =>
        /\ InUse(s) /\ Up[k].interface = offers[s] /\ Known(s) = offers[s]
        /\ Up[k].op = "destroy" =>
              /\ offered[s] = NoInterface
              /\ \A j \in 1..Len(Up) : Up[j].target = s => j <= k

Offered(s) ==
    offered[s] # NoInterface => InUse(s) /\ offered[s] = offers[s] /\ Known(s) = offers[s]

\* What the mediator has is what the server has, unless an offer waits for it.
Settled(s) ==
    InUse(s) => Known(s) = offers[s] \/ \E k \in 1..Len(Down) : k > CutDown /\ Creates(Down[k], s)

\* An event is of what the mediator has, or of what is offered before it.
ToldOffer(s) ==
    \A k \in 1..Len(Down) : k > CutDown /\ Down[k].target = s =>
        \/ Known(s) = Down[k].interface
        \/ \E j \in 1..Len(Down) : CutDown < j /\ j < k /\ Creates(Down[j], s)

ServerIdInv(s) == Offering(s) /\ AskedOffer(s) /\ Offered(s) /\ Settled(s) /\ ToldOffer(s)

-----------------------------------------------------------------------------
(* Neither range of ids has a gap, nor will it have one when the creations *)
(* that are queued have been added.                                        *)

Waiting(c) == \E k \in 1..Len(Up) : k > CutUp /\ Creates(Up[k], c)

NoGap ==
    /\ \A c, d \in ClientIds : c < d /\ mine[c].state = "new" => mine[d].state = "new"
    /\ \A c \in ClientIds : mine[c].state # "new" => HasEntry(c) \/ Waiting(c)
    /\ \A k \in 1..Len(Up), c, d \in ClientIds : k > CutUp /\ Creates(Up[k], d) /\ c < d =>
          HasEntry(c) \/ \E j \in 1..Len(Up) : CutUp < j /\ j < k /\ Creates(Up[j], c)

WaitingAbove(s) == \E k \in 1..Len(Down) : k > CutDown /\ Creates(Down[k], s)

NoGapAbove ==
    /\ \A s, t \in ServerIds : s < t /\ offers[s] = "new" => offers[t] = "new"
    /\ \A s \in ServerIds : offers[s] # "new" => HasEntry(s) \/ WaitingAbove(s)
    /\ \A k \in 1..Len(Down), s, t \in ServerIds : k > CutDown /\ Creates(Down[k], t) /\ s < t =>
          HasEntry(s) \/ \E j \in 1..Len(Down) : CutDown < j /\ j < k /\ Creates(Down[j], s)

DisplayLives == mine[Display].state = "live" /\ objects[Display] = "display"

IInv ==
    /\ Types
    /\ \A c \in ClientIds : ClientIdInv(c)
    /\ \A s \in ServerIds : ServerIdInv(s)
    /\ NoGap /\ NoGapAbove /\ DisplayLives

-----------------------------------------------------------------------------
(* What one step makes of a sequence p with its cut at m.                  *)

\* Messages are added at the end.
Extended(p, m, q, n) ==
    /\ n = m /\ Len(p) <= Len(q)
    /\ \A k \in 1..Len(p) : q[k] = p[k]

\* The first message arrives.
Taken(p, m, q, n) ==
    /\ 1 <= m /\ 1 <= Len(p) /\ n = m - 1 /\ Len(q) = Len(p) - 1
    /\ \A k \in 1..Len(q) : q[k] = p[k + 1]

\* The message behind the cut passes it.
Passed(p, m, q, n) == q = p /\ m < Len(p) /\ n = m + 1

\* The message behind the cut is dropped.
Dropped(p, m, q, n) ==
    /\ n = m /\ m < Len(p) /\ Len(q) = Len(p) - 1
    /\ \A k \in 1..Len(q) : q[k] = IF k <= m THEN p[k] ELSE p[k + 1]

\* q has, of the messages in R, none but p's, in their order and none back behind the
\* cut, and of those in D all of p's, each on its side of the cut.
Keeps(p, m, q, n, R, D) ==
    \E f \in [1..Len(q) -> Nat] :
        /\ \A k \in 1..Len(q) : q[k] \in R =>
              f[k] \in 1..Len(p) /\ p[f[k]] = q[k] /\ (k > n => f[k] > m)
        /\ \A k \in 1..Len(q) : q[k] \in D /\ f[k] > m => k > n
        /\ \A j, k \in 1..Len(q) : j < k => f[j] < f[k]
        /\ \A j \in 1..Len(p) : p[j] \in D => \E k \in 1..Len(q) : f[k] = j /\ q[k] = p[j]

LEMMA KeepsExtended ==
    ASSUME NEW S, NEW p \in Seq(S), NEW q \in Seq(S), NEW m \in Nat, NEW n \in Nat,
           NEW R, NEW D \in SUBSET R, Extended(p, m, q, n),
           \A k \in 1..Len(q) : k > Len(p) => q[k] \notin R
    PROVE  Keeps(p, m, q, n, R, D)
<1>1. Len(p) \in Nat /\ Len(q) \in Nat
  BY LenProperties
<1> DEFINE f == [k \in 1..Len(q) |-> k]
<1>2. f \in [1..Len(q) -> Nat] /\ \A k \in 1..Len(q) : f[k] = k
  BY <1>1
<1>. HIDE DEF f
<1>3. \A k \in 1..Len(q) : q[k] \in R =>
         f[k] \in 1..Len(p) /\ p[f[k]] = q[k] /\ (k > n => f[k] > m)
  BY <1>1, <1>2 DEF Extended
<1>4. \A k \in 1..Len(q) : q[k] \in D /\ f[k] > m => k > n
  BY <1>2 DEF Extended
<1>5. \A j, k \in 1..Len(q) : j < k => f[j] < f[k]
  BY <1>2
<1>6. \A j \in 1..Len(p) : p[j] \in D => \E k \in 1..Len(q) : f[k] = j /\ q[k] = p[j]
  BY <1>1, <1>2 DEF Extended
<1>. QED BY <1>2, <1>3, <1>4, <1>5, <1>6 DEF Keeps

LEMMA KeepsTaken ==
    ASSUME NEW S, NEW p \in Seq(S), NEW q \in Seq(S), NEW m \in Nat, NEW n \in Nat,
           NEW R, NEW D \in SUBSET R, Taken(p, m, q, n), p[1] \notin D
    PROVE  Keeps(p, m, q, n, R, D)
<1>1. Len(p) \in Nat /\ Len(q) \in Nat
  BY LenProperties
<1> DEFINE f == [k \in 1..Len(q) |-> k + 1]
<1>2. f \in [1..Len(q) -> Nat] /\ \A k \in 1..Len(q) : f[k] = k + 1
  BY <1>1
<1>. HIDE DEF f
<1>3. \A k \in 1..Len(q) : q[k] \in R =>
         f[k] \in 1..Len(p) /\ p[f[k]] = q[k] /\ (k > n => f[k] > m)
  BY <1>1, <1>2 DEF Taken
<1>4. \A k \in 1..Len(q) : q[k] \in D /\ f[k] > m => k > n
  BY <1>2 DEF Taken
<1>5. \A j, k \in 1..Len(q) : j < k => f[j] < f[k]
  BY <1>2
<1>6. ASSUME NEW j \in 1..Len(p), p[j] \in D
      PROVE  \E k \in 1..Len(q) : f[k] = j /\ q[k] = p[j]
  <2>1. j - 1 \in 1..Len(q) /\ (j - 1) + 1 = j
    BY <1>1, <1>6 DEF Taken
  <2>. QED BY <1>2, <2>1 DEF Taken
<1>. QED BY <1>2, <1>3, <1>4, <1>5, <1>6 DEF Keeps

LEMMA KeepsPassed ==
    ASSUME NEW S, NEW p \in Seq(S), NEW q, NEW m \in Nat, NEW n \in Nat,
           NEW R, NEW D \in SUBSET R, Passed(p, m, q, n), p[m + 1] \notin D
    PROVE  Keeps(p, m, q, n, R, D)
<1>1. Len(p) \in Nat /\ q = p
  BY LenProperties DEF Passed
<1> DEFINE f == [k \in 1..Len(q) |-> k]
<1>2. f \in [1..Len(q) -> Nat] /\ \A k \in 1..Len(q) : f[k] = k
  BY <1>1
<1>. HIDE DEF f
<1>3. \A k \in 1..Len(q) : q[k] \in R =>
         f[k] \in 1..Len(p) /\ p[f[k]] = q[k] /\ (k > n => f[k] > m)
  BY <1>1, <1>2 DEF Passed
<1>4. ASSUME NEW k \in 1..Len(q), q[k] \in D, f[k] > m
      PROVE  k > n
  <2>1. k # m + 1 /\ k > m
    BY <1>1, <1>2, <1>4
  <2>. QED BY <1>1, <2>1 DEF Passed
<1>5. \A j, k \in 1..Len(q) : j < k => f[j] < f[k]
  BY <1>2
<1>6. \A j \in 1..Len(p) : p[j] \in D => \E k \in 1..Len(q) : f[k] = j /\ q[k] = p[j]
  BY <1>1, <1>2
<1>. QED BY <1>2, <1>3, <1>4, <1>5, <1>6 DEF Keeps

LEMMA KeepsDropped ==
    ASSUME NEW S, NEW p \in Seq(S), NEW q \in Seq(S), NEW m \in Nat, NEW n \in Nat,
           NEW R, NEW D \in SUBSET R, Dropped(p, m, q, n), p[m + 1] \notin D
    PROVE  Keeps(p, m, q, n, R, D)
<1>1. Len(p) \in Nat /\ Len(q) \in Nat
  BY LenProperties
<1> DEFINE f == [k \in 1..Len(q) |-> IF k <= m THEN k ELSE k + 1]
<1>2. f \in [1..Len(q) -> Nat] /\ \A k \in 1..Len(q) : f[k] = IF k <= m THEN k ELSE k + 1
  BY <1>1
<1>. HIDE DEF f
<1>3. \A k \in 1..Len(q) : q[k] \in R =>
         f[k] \in 1..Len(p) /\ p[f[k]] = q[k] /\ (k > n => f[k] > m)
  BY <1>1, <1>2, SMTT(60) DEF Dropped
<1>4. \A k \in 1..Len(q) : q[k] \in D /\ f[k] > m => k > n
  BY <1>2 DEF Dropped
<1>5. \A j, k \in 1..Len(q) : j < k => f[j] < f[k]
  BY <1>2
<1>6. ASSUME NEW j \in 1..Len(p), p[j] \in D
      PROVE  \E k \in 1..Len(q) : f[k] = j /\ q[k] = p[j]
  <2>1. CASE j <= m
    <3>1. j \in 1..Len(q)
      BY <1>1, <2>1 DEF Dropped
    <3>2. f[j] = j /\ q[j] = p[j]
      BY <1>2, <2>1, <3>1 DEF Dropped
    <3>. QED BY <3>1, <3>2
  <2>2. CASE j > m
    <3>1. j # m + 1
      BY <1>6
    <3>2. j - 1 \in 1..Len(q) /\ (j - 1) + 1 = j /\ j - 1 > m
      BY <1>1, <2>2, <3>1 DEF Dropped
    <3>. QED BY <1>2, <3>2 DEF Dropped
  <2>. QED BY <2>1, <2>2
<1>. QED BY <1>2, <1>3, <1>4, <1>5, <1>6 DEF Keeps

\* The four ways come from what happens at either side of the cut.
LEMMA Pass ==
    ASSUME NEW S, NEW a \in Seq(S), NEW b \in Seq(S), b # <<>>
    PROVE  /\ Passed(a \o b, Len(a), Append(a, Head(b)) \o Tail(b), Len(Append(a, Head(b))))
           /\ (a \o b)[Len(a) + 1] = Head(b) /\ Head(b) \in S
           /\ Append(a, Head(b)) \in Seq(S) /\ Tail(b) \in Seq(S)
<1>1. Len(a) \in Nat /\ Len(b) \in Nat \ {0} /\ Head(b) = b[1] /\ Head(b) \in S
  BY LenProperties, EmptySeq, HeadTailProperties DEF Head
<1>2. /\ Tail(b) \in Seq(S) /\ Len(Tail(b)) = Len(b) - 1
      /\ \A i \in 1..Len(Tail(b)) : Tail(b)[i] = b[i + 1]
  BY HeadTailProperties
<1> DEFINE x == Head(b)
           c == Append(a, x)
           t == Tail(b)
<1>3. /\ c \in Seq(S) /\ Len(c) = Len(a) + 1
      /\ \A i \in 1..Len(a) : c[i] = a[i]
      /\ c[Len(a) + 1] = x
  BY <1>1, AppendProperties
<1>4. t \in Seq(S) /\ Len(t) = Len(b) - 1 /\ \A i \in 1..Len(t) : t[i] = b[i + 1]
  BY <1>2
<1>5. x = b[1] /\ x \in S
  BY <1>1
<1>. HIDE DEF x, c, t
<1>6. /\ a \o b \in Seq(S) /\ Len(a \o b) = Len(a) + Len(b)
      /\ \A i \in 1..Len(a) + Len(b) : (a \o b)[i] = IF i <= Len(a) THEN a[i] ELSE b[i - Len(a)]
  BY ConcatProperties
<1>7. /\ c \o t \in Seq(S) /\ Len(c \o t) = Len(c) + Len(t)
      /\ \A i \in 1..Len(c) + Len(t) : (c \o t)[i] = IF i <= Len(c) THEN c[i] ELSE t[i - Len(c)]
  BY <1>3, <1>4, ConcatProperties
<1>8. Len(c \o t) = Len(a \o b)
  BY <1>1, <1>3, <1>4, <1>6, <1>7
<1>9. ASSUME NEW i \in 1..Len(a \o b)
      PROVE  (c \o t)[i] = (a \o b)[i]
  <2>0. i \in 1..Len(a) + Len(b) /\ i \in 1..Len(c) + Len(t) /\ i \in Nat
    BY <1>1, <1>6, <1>7, <1>8
  <2>1. CASE i <= Len(a)
    <3>1. i <= Len(c) /\ i \in 1..Len(a)
      BY <1>1, <1>3, <2>0, <2>1
    <3>. QED BY <1>3, <1>6, <1>7, <2>0, <2>1, <3>1
  <2>2. CASE i = Len(a) + 1
    <3>1. i <= Len(c) /\ ~(i <= Len(a)) /\ i - Len(a) = 1
      BY <1>1, <1>3, <2>2
    <3>. QED BY <1>3, <1>5, <1>6, <1>7, <2>0, <2>2, <3>1
  <2>3. CASE i > Len(a) + 1
    <3>1. ~(i <= Len(c)) /\ ~(i <= Len(a)) /\ i - Len(c) \in 1..Len(t)
      BY <1>1, <1>3, <1>4, <2>0, <2>3
    <3>2. (i - Len(c)) + 1 = i - Len(a)
      BY <1>1, <1>3, <2>0
    <3>3. t[i - Len(c)] = b[i - Len(a)]
      BY <1>4, <3>1, <3>2
    <3>. QED BY <1>6, <1>7, <2>0, <3>1, <3>3
  <2>. QED BY <1>1, <2>0, <2>1, <2>2, <2>3, SMTT(60)
<1>10. c \o t = a \o b
  <2> DEFINE u == c \o t
             w == a \o b
  <2>1. u \in Seq(S) /\ w \in Seq(S) /\ Len(u) = Len(w) /\ \A i \in 1..Len(u) : u[i] = w[i]
    BY <1>6, <1>7, <1>8, <1>9
  <2>. HIDE DEF u, w
  <2>2. u = w
    BY <2>1, SeqEqual
  <2>. QED BY <2>2 DEF u, w
<1>11. (a \o b)[Len(a) + 1] = x
  <2>1. Len(a) + 1 \in 1..Len(a) + Len(b) /\ ~(Len(a) + 1 <= Len(a)) /\ (Len(a) + 1) - Len(a) = 1
    BY <1>1
  <2>. QED BY <1>5, <1>6, <2>1
<1>12. Len(a) < Len(a \o b)
  BY <1>1, <1>6
<1>. QED BY <1>3, <1>4, <1>5, <1>10, <1>11, <1>12 DEF Passed, x, c, t

LEMMA Drop ==
    ASSUME NEW S, NEW a \in Seq(S), NEW b \in Seq(S), b # <<>>
    PROVE  /\ Dropped(a \o b, Len(a), a \o Tail(b), Len(a))
           /\ (a \o b)[Len(a) + 1] = Head(b) /\ Head(b) \in S /\ Tail(b) \in Seq(S)
<1>1. Len(a) \in Nat /\ Len(b) \in Nat \ {0} /\ Head(b) = b[1] /\ Head(b) \in S
  BY LenProperties, EmptySeq, HeadTailProperties DEF Head
<1> DEFINE t == Tail(b)
<1>2. t \in Seq(S) /\ Len(t) = Len(b) - 1 /\ \A i \in 1..Len(t) : t[i] = b[i + 1]
  BY HeadTailProperties
<1>. HIDE DEF t
<1>3. /\ Len(a \o b) = Len(a) + Len(b)
      /\ \A i \in 1..Len(a) + Len(b) : (a \o b)[i] = IF i <= Len(a) THEN a[i] ELSE b[i - Len(a)]
  BY ConcatProperties
<1>4. /\ Len(a \o t) = Len(a) + Len(t)
      /\ \A i \in 1..Len(a) + Len(t) : (a \o t)[i] = IF i <= Len(a) THEN a[i] ELSE t[i - Len(a)]
  BY <1>2, ConcatProperties
<1>5. Len(a) < Len(a \o b) /\ Len(a \o t) = Len(a \o b) - 1
  BY <1>1, <1>2, <1>3, <1>4
<1>6. ASSUME NEW i \in 1..Len(a \o t)
      PROVE  (a \o t)[i] = IF i <= Len(a) THEN (a \o b)[i] ELSE (a \o b)[i + 1]
  <2>0. i \in 1..Len(a) + Len(t) /\ i \in 1..Len(a) + Len(b) /\ i + 1 \in 1..Len(a) + Len(b)
    BY <1>1, <1>2, <1>4
  <2>1. CASE i <= Len(a)
    BY <1>3, <1>4, <2>0, <2>1
  <2>2. CASE ~(i <= Len(a))
    <3>1. i - Len(a) \in 1..Len(t) /\ (i - Len(a)) + 1 = (i + 1) - Len(a) /\ ~(i + 1 <= Len(a))
      BY <1>1, <1>2, <2>0, <2>2
    <3>2. t[i - Len(a)] = b[(i + 1) - Len(a)]
      BY <1>2, <3>1
    <3>. QED BY <1>3, <1>4, <2>0, <2>2, <3>1, <3>2
  <2>. QED BY <2>1, <2>2
<1>7. (a \o b)[Len(a) + 1] = Head(b)
  <2>1. Len(a) + 1 \in 1..Len(a) + Len(b) /\ ~(Len(a) + 1 <= Len(a)) /\ (Len(a) + 1) - Len(a) = 1
    BY <1>1
  <2>. QED BY <1>1, <1>3, <2>1
<1>. QED BY <1>1, <1>2, <1>5, <1>6, <1>7 DEF Dropped, t

LEMMA Take ==
    ASSUME NEW S, NEW a \in Seq(S), NEW b \in Seq(S), a # <<>>
    PROVE  /\ Taken(a \o b, Len(a), Tail(a) \o b, Len(Tail(a)))
           /\ (a \o b)[1] = Head(a) /\ Head(a) \in S /\ Tail(a) \in Seq(S)
<1>1. Len(b) \in Nat /\ Len(a) \in Nat \ {0} /\ Head(a) = a[1] /\ Head(a) \in S
  BY LenProperties, EmptySeq, HeadTailProperties DEF Head
<1> DEFINE t == Tail(a)
<1>2. t \in Seq(S) /\ Len(t) = Len(a) - 1 /\ \A i \in 1..Len(t) : t[i] = a[i + 1]
  BY HeadTailProperties
<1>. HIDE DEF t
<1>3. /\ Len(a \o b) = Len(a) + Len(b)
      /\ \A i \in 1..Len(a) + Len(b) : (a \o b)[i] = IF i <= Len(a) THEN a[i] ELSE b[i - Len(a)]
  BY ConcatProperties
<1>4. /\ Len(t \o b) = Len(t) + Len(b)
      /\ \A i \in 1..Len(t) + Len(b) : (t \o b)[i] = IF i <= Len(t) THEN t[i] ELSE b[i - Len(t)]
  BY <1>2, ConcatProperties
<1>5. 1 <= Len(a \o b) /\ 1 <= Len(a) /\ Len(t) = Len(a) - 1 /\ Len(t \o b) = Len(a \o b) - 1
  BY <1>1, <1>2, <1>3, <1>4
<1>6. ASSUME NEW i \in 1..Len(t \o b)
      PROVE  (t \o b)[i] = (a \o b)[i + 1]
  <2>0. i \in 1..Len(t) + Len(b) /\ i + 1 \in 1..Len(a) + Len(b)
    BY <1>1, <1>2, <1>4
  <2>1. CASE i <= Len(t)
    <3>1. i + 1 <= Len(a) /\ i \in 1..Len(t)
      BY <1>1, <1>2, <2>0, <2>1
    <3>. QED BY <1>2, <1>3, <1>4, <2>0, <2>1, <3>1
  <2>2. CASE ~(i <= Len(t))
    <3>1. ~(i + 1 <= Len(a)) /\ i - Len(t) = (i + 1) - Len(a)
      BY <1>1, <1>2, <2>0, <2>2
    <3>. QED BY <1>3, <1>4, <2>0, <2>2, <3>1
  <2>. QED BY <2>1, <2>2
<1>7. (a \o b)[1] = Head(a)
  <2>1. 1 \in 1..Len(a) + Len(b) /\ 1 <= Len(a)
    BY <1>1
  <2>. QED BY <1>1, <1>3, <2>1
<1>. QED BY <1>1, <1>2, <1>5, <1>6, <1>7 DEF Taken, t

LEMMA Extend ==
    ASSUME NEW S, NEW a \in Seq(S), NEW b \in Seq(S), NEW e \in Seq(S)
    PROVE  /\ Extended(a \o b, Len(a), a \o (b \o e), Len(a))
           /\ Len(a \o (b \o e)) = Len(a \o b) + Len(e)
           /\ \A i \in 1..Len(e) : (a \o (b \o e))[Len(a \o b) + i] = e[i]
           /\ b \o e \in Seq(S)
<1>1. Len(a) \in Nat /\ Len(b) \in Nat /\ Len(e) \in Nat
  BY LenProperties
<1> DEFINE t == b \o e
<1>2. /\ t \in Seq(S) /\ Len(t) = Len(b) + Len(e)
      /\ \A i \in 1..Len(b) + Len(e) : t[i] = IF i <= Len(b) THEN b[i] ELSE e[i - Len(b)]
  BY ConcatProperties
<1>. HIDE DEF t
<1>3. /\ Len(a \o b) = Len(a) + Len(b)
      /\ \A i \in 1..Len(a) + Len(b) : (a \o b)[i] = IF i <= Len(a) THEN a[i] ELSE b[i - Len(a)]
  BY ConcatProperties
<1>4. /\ Len(a \o t) = Len(a) + Len(t)
      /\ \A i \in 1..Len(a) + Len(t) : (a \o t)[i] = IF i <= Len(a) THEN a[i] ELSE t[i - Len(a)]
  <2>1. t \in Seq(S)
    BY <1>2
  <2>. QED BY <2>1, ConcatProperties
<1>5. Len(a \o b) <= Len(a \o t) /\ Len(a \o t) = Len(a \o b) + Len(e)
  BY <1>1, <1>2, <1>3, <1>4
<1>6. ASSUME NEW i \in 1..Len(a \o b)
      PROVE  (a \o t)[i] = (a \o b)[i]
  <2>0. i \in 1..Len(a) + Len(b) /\ i \in 1..Len(a) + Len(t)
    BY <1>1, <1>2, <1>3
  <2>1. CASE i <= Len(a)
    BY <1>3, <1>4, <2>0, <2>1
  <2>2. CASE ~(i <= Len(a))
    <3>1. i - Len(a) \in 1..Len(b) + Len(e) /\ i - Len(a) <= Len(b)
      BY <1>1, <2>0, <2>2
    <3>. QED BY <1>2, <1>3, <1>4, <2>0, <2>2, <3>1
  <2>. QED BY <2>1, <2>2
<1>7. ASSUME NEW i \in 1..Len(e)
      PROVE  (a \o t)[Len(a \o b) + i] = e[i]
  <2> DEFINE j == Len(a \o b) + i
  <2>1. /\ j \in 1..Len(a) + Len(t) /\ ~(j <= Len(a))
        /\ j - Len(a) \in 1..Len(b) + Len(e) /\ ~(j - Len(a) <= Len(b))
        /\ (j - Len(a)) - Len(b) = i
    BY <1>1, <1>2, <1>3
  <2>. HIDE DEF j
  <2>2. (a \o t)[j] = t[j - Len(a)] /\ t[j - Len(a)] = e[(j - Len(a)) - Len(b)]
    BY <1>2, <1>4, <2>1
  <2>. QED BY <2>1, <2>2 DEF j
<1>. QED BY <1>2, <1>5, <1>6, <1>7 DEF Extended, t

-----------------------------------------------------------------------------
(* Steps that are not about an id leave its part of the invariant alone.   *)

Typed ==
    /\ Up \in Seq(Msg) /\ Down \in Seq(Msg) /\ Len(Up) \in Nat /\ Len(Down) \in Nat
    /\ CutUp \in Nat /\ CutDown \in Nat /\ CutUp <= Len(Up) /\ CutDown <= Len(Down)
    /\ \A k \in 1..Len(Up) : Up[k] \in Msg
    /\ \A k \in 1..Len(Down) : Down[k] \in Msg

LEMMA Monotone ==
    ASSUME NEW n \in Nat, NEW f \in [1..n -> Nat], \A j, k \in 1..n : j < k => f[j] < f[k]
    PROVE  \A j, k \in 1..n :
              (f[j] = f[k] => j = k) /\ (f[j] < f[k] => j < k) /\ (f[j] <= f[k] => j <= k)
<1>1. ASSUME NEW j \in 1..n, NEW k \in 1..n
      PROVE  (f[j] = f[k] => j = k) /\ (f[j] < f[k] => j < k) /\ (f[j] <= f[k] => j <= k)
  <2>1. j < k \/ j = k \/ k < j
    OBVIOUS
  <2>2. f[j] \in Nat /\ f[k] \in Nat /\ (j < k => f[j] < f[k]) /\ (k < j => f[k] < f[j])
    OBVIOUS
  <2>. QED BY <2>1, <2>2
<1>. QED BY <1>1

LEMMA ClientIdKept ==
    ASSUME Typed, Typed', NEW c \in ClientIds, ClientIdInv(c),
           Keeps(Up, CutUp, Up', CutUp', About(c), Marking(c)),
           Keeps(Down, CutDown, Down', CutDown', About(c), Marking(c)),
           mine'[c] = mine[c], objects'[c] = objects[c], Known(c)' = Known(c)
    PROVE  ClientIdInv(c)'
<1>1. PICK f \in [1..Len(Up') -> Nat] :
        /\ \A k \in 1..Len(Up') : Up'[k] \in About(c) =>
              f[k] \in 1..Len(Up) /\ Up[f[k]] = Up'[k] /\ (k > CutUp' => f[k] > CutUp)
        /\ \A k \in 1..Len(Up') : Up'[k] \in Marking(c) /\ f[k] > CutUp => k > CutUp'
        /\ \A j, k \in 1..Len(Up') : j < k => f[j] < f[k]
        /\ \A j \in 1..Len(Up) : Up[j] \in Marking(c) => \E k \in 1..Len(Up') : f[k] = j /\ Up'[k] = Up[j]
  BY DEF Keeps
<1>2. PICK g \in [1..Len(Down') -> Nat] :
        /\ \A k \in 1..Len(Down') : Down'[k] \in About(c) =>
              g[k] \in 1..Len(Down) /\ Down[g[k]] = Down'[k] /\ (k > CutDown' => g[k] > CutDown)
        /\ \A k \in 1..Len(Down') : Down'[k] \in Marking(c) /\ g[k] > CutDown => k > CutDown'
        /\ \A j, k \in 1..Len(Down') : j < k => g[j] < g[k]
        /\ \A j \in 1..Len(Down) : Down[j] \in Marking(c) =>
              \E k \in 1..Len(Down') : g[k] = j /\ Down'[k] = Down[j]
  BY DEF Keeps
<1>3. \A m \in Msg : /\ m.target = c => m \in About(c)
                     /\ Creates(m, c) => m \in About(c) /\ m \in Marking(c)
                     /\ Deletes(m, c) => m \in About(c) /\ m \in Marking(c)
  BY DEF About, Marking
<1>4. \A k \in 1..Len(Up') : Up'[k].target = c \/ Creates(Up'[k], c) =>
         f[k] \in 1..Len(Up) /\ Up[f[k]] = Up'[k]
  BY <1>1, <1>3 DEF Typed
<1>5. \A k \in 1..Len(Up') : Creates(Up'[k], c) => (k <= CutUp' <=> f[k] <= CutUp)
  BY <1>1, <1>3 DEF Typed
<1>6. \A j, k \in 1..Len(Up') : (f[j] = f[k] => j = k) /\ (f[j] < f[k] => j < k) /\ (f[j] <= f[k] => j <= k)
  BY <1>1, Monotone DEF Typed
<1>7. (\E j \in 1..Len(Up) : Creates(Up[j], c)) => \E k \in 1..Len(Up') : Creates(Up'[k], c)
  BY <1>1, <1>3 DEF Typed
<1>8. \A k \in 1..Len(Down') : Down'[k].target = c \/ Deletes(Down'[k], c) =>
         g[k] \in 1..Len(Down) /\ Down[g[k]] = Down'[k]
  BY <1>2, <1>3 DEF Typed
<1>9. \A k \in 1..Len(Down') : Deletes(Down'[k], c) => (k <= CutDown' <=> g[k] <= CutDown)
  BY <1>2, <1>3 DEF Typed
<1>10. \A j, k \in 1..Len(Down') : (g[j] = g[k] => j = k) /\ (g[j] < g[k] => j < k)
  <2>1. Len(Down') \in Nat /\ \A j, k \in 1..Len(Down') : j < k => g[j] < g[k]
    BY <1>2 DEF Typed
  <2>. QED BY <2>1, Monotone
<1>11. (\E j \in 1..Len(Down) : Deletes(Down[j], c)) => \E k \in 1..Len(Down') : Deletes(Down'[k], c)
  BY <1>2, <1>3 DEF Typed
<1>12. Used(c)' <=> Used(c)
  BY DEF Used
<1>13. Coming(c)'
  <2>1. ASSUME NEW k \in 1..Len(Up'), Creates(Up'[k], c)
        PROVE  /\ Used(c)' /\ Up'[k].newInterface = mine'[c].interface
               /\ mine'[c].interface # NoInterface
               /\ objects'[c] = NoInterface
               /\ Known(c)' = IF k <= CutUp' THEN mine'[c].interface ELSE NoInterface
               /\ \A j \in 1..Len(Up') : Creates(Up'[j], c) => j = k
               /\ \A j \in 1..Len(Up') : Up'[j].target = c => k < j
               /\ \A j \in 1..Len(Down') : Down'[j].target # c
    <3>1. f[k] \in 1..Len(Up) /\ Up[f[k]] = Up'[k]
      BY <1>4, <2>1
    <3>2. /\ Used(c) /\ Up[f[k]].newInterface = mine[c].interface
          /\ mine[c].interface # NoInterface
          /\ objects[c] = NoInterface
          /\ Known(c) = IF f[k] <= CutUp THEN mine[c].interface ELSE NoInterface
          /\ \A j \in 1..Len(Up) : Creates(Up[j], c) => j = f[k]
          /\ \A j \in 1..Len(Up) : Up[j].target = c => f[k] < j
          /\ \A j \in 1..Len(Down) : Down[j].target # c
      BY <2>1, <3>1 DEF ClientIdInv, Coming
    <3>3. Known(c)' = IF k <= CutUp' THEN mine'[c].interface ELSE NoInterface
      BY <1>5, <2>1, <3>2
    <3>4. \A j \in 1..Len(Up') : Creates(Up'[j], c) => j = k
      BY <1>4, <1>6, <3>2
    <3>5. \A j \in 1..Len(Up') : Up'[j].target = c => k < j
      BY <1>4, <1>6, <3>2
    <3>6. \A j \in 1..Len(Down') : Down'[j].target # c
      BY <1>8, <3>2
    <3>. QED BY <1>12, <3>1, <3>2, <3>3, <3>4, <3>5, <3>6
  <2>. QED BY <2>1 DEF Coming
<1>14. Asked(c)'
  <2>1. ASSUME NEW k \in 1..Len(Up'), Up'[k].target = c
        PROVE  /\ Used(c)' /\ Up'[k].interface = mine'[c].interface
               /\ mine'[c].interface # "callback"
               /\ objects'[c] # NoInterface \/ \E j \in 1..Len(Up') : Creates(Up'[j], c)
               /\ Up'[k].op = "destroy" =>
                     /\ mine'[c].state = "zombie"
                     /\ \A j \in 1..Len(Up') : Up'[j].target = c => j <= k
    <3>1. f[k] \in 1..Len(Up) /\ Up[f[k]] = Up'[k]
      BY <1>4, <2>1
    <3>2. /\ Used(c) /\ Up[f[k]].interface = mine[c].interface
          /\ mine[c].interface # "callback"
          /\ objects[c] # NoInterface \/ \E j \in 1..Len(Up) : Creates(Up[j], c)
          /\ Up[f[k]].op = "destroy" =>
                /\ mine[c].state = "zombie"
                /\ \A j \in 1..Len(Up) : Up[j].target = c => j <= f[k]
      BY <2>1, <3>1 DEF ClientIdInv, Asked
    <3>3. Up'[k].op = "destroy" => \A j \in 1..Len(Up') : Up'[j].target = c => j <= k
      BY <1>4, <1>6, <3>1, <3>2
    <3>. QED BY <1>7, <1>12, <3>1, <3>2, <3>3
  <2>. QED BY <2>1 DEF Asked
<1>15. Held(c)' /\ Resting(c)'
  BY <1>12 DEF ClientIdInv, Held, Resting
<1>16. Going(c)'
  <2>1. ASSUME NEW k \in 1..Len(Down'), Deletes(Down'[k], c)
        PROVE  /\ Used(c)' /\ mine'[c].interface # NoInterface
               /\ mine'[c].state = "live" => mine'[c].interface = "callback"
               /\ objects'[c] = NoInterface
               /\ Known(c)' = IF k <= CutDown' THEN NoInterface ELSE mine'[c].interface
               /\ \A j \in 1..Len(Down') : Deletes(Down'[j], c) => j = k
               /\ \A j \in 1..Len(Down') : Down'[j].target = c => j < k
               /\ \A j \in 1..Len(Up') : Up'[j].target # c /\ ~Creates(Up'[j], c)
    <3>1. g[k] \in 1..Len(Down) /\ Down[g[k]] = Down'[k]
      BY <1>8, <2>1
    <3>2. /\ Used(c) /\ mine[c].interface # NoInterface
          /\ mine[c].state = "live" => mine[c].interface = "callback"
          /\ objects[c] = NoInterface
          /\ Known(c) = IF g[k] <= CutDown THEN NoInterface ELSE mine[c].interface
          /\ \A j \in 1..Len(Down) : Deletes(Down[j], c) => j = g[k]
          /\ \A j \in 1..Len(Down) : Down[j].target = c => j < g[k]
          /\ \A j \in 1..Len(Up) : Up[j].target # c /\ ~Creates(Up[j], c)
      BY <2>1, <3>1 DEF ClientIdInv, Going
    <3>3. Known(c)' = IF k <= CutDown' THEN NoInterface ELSE mine'[c].interface
      BY <1>9, <2>1, <3>2
    <3>4. \A j \in 1..Len(Down') : Deletes(Down'[j], c) => j = k
      BY <1>8, <1>10, <3>2
    <3>5. \A j \in 1..Len(Down') : Down'[j].target = c => j < k
      BY <1>8, <1>10, <3>2
    <3>6. \A j \in 1..Len(Up') : Up'[j].target # c /\ ~Creates(Up'[j], c)
      BY <1>4, <3>2
    <3>. QED BY <1>12, <3>2, <3>3, <3>4, <3>5, <3>6
  <2>. QED BY <2>1 DEF Going
<1>17. Told(c)'
  <2>1. ASSUME NEW k \in 1..Len(Down'), Down'[k].target = c
        PROVE  /\ Used(c)' /\ Down'[k].interface = mine'[c].interface
               /\ objects'[c] # NoInterface \/ \E j \in 1..Len(Down') : Deletes(Down'[j], c)
    <3>1. g[k] \in 1..Len(Down) /\ Down[g[k]] = Down'[k]
      BY <1>8, <2>1
    <3>2. /\ Used(c) /\ Down[g[k]].interface = mine[c].interface
          /\ objects[c] # NoInterface \/ \E j \in 1..Len(Down) : Deletes(Down[j], c)
      BY <2>1, <3>1 DEF ClientIdInv, Told
    <3>. QED BY <1>11, <1>12, <3>1, <3>2
  <2>. QED BY <2>1 DEF Told
<1>18. Alive(c)'
  BY <1>7 DEF ClientIdInv, Alive
<1>. QED BY <1>13, <1>14, <1>15, <1>16, <1>17, <1>18 DEF ClientIdInv

LEMMA ServerIdKept ==
    ASSUME Typed, Typed', NEW s \in ServerIds, ServerIdInv(s),
           Keeps(Up, CutUp, Up', CutUp', About(s), {}),
           Keeps(Down, CutDown, Down', CutDown', About(s), Marking(s)),
           offered'[s] = offered[s], offers'[s] = offers[s], Known(s)' = Known(s)
    PROVE  ServerIdInv(s)'
<1>1. PICK f \in [1..Len(Up') -> Nat] :
        /\ \A k \in 1..Len(Up') : Up'[k] \in About(s) => f[k] \in 1..Len(Up) /\ Up[f[k]] = Up'[k]
        /\ \A j, k \in 1..Len(Up') : j < k => f[j] < f[k]
  BY DEF Keeps
<1>2. PICK g \in [1..Len(Down') -> Nat] :
        /\ \A k \in 1..Len(Down') : Down'[k] \in About(s) =>
              g[k] \in 1..Len(Down) /\ Down[g[k]] = Down'[k] /\ (k > CutDown' => g[k] > CutDown)
        /\ \A k \in 1..Len(Down') : Down'[k] \in Marking(s) /\ g[k] > CutDown => k > CutDown'
        /\ \A j, k \in 1..Len(Down') : j < k => g[j] < g[k]
        /\ \A j \in 1..Len(Down) : Down[j] \in Marking(s) =>
              \E k \in 1..Len(Down') : g[k] = j /\ Down'[k] = Down[j]
  BY DEF Keeps
<1>3. \A m \in Msg : /\ m.target = s => m \in About(s)
                     /\ Creates(m, s) => m \in About(s) /\ m \in Marking(s)
  BY DEF About, Marking
<1>4. \A k \in 1..Len(Up') : Up'[k].target = s => f[k] \in 1..Len(Up) /\ Up[f[k]] = Up'[k]
  BY <1>1, <1>3 DEF Typed
<1>5. \A j, k \in 1..Len(Up') : f[j] <= f[k] => j <= k
  BY <1>1, Monotone DEF Typed
<1>6. \A k \in 1..Len(Down') : Down'[k].target = s \/ Creates(Down'[k], s) =>
         g[k] \in 1..Len(Down) /\ Down[g[k]] = Down'[k] /\ (k > CutDown' => g[k] > CutDown)
  BY <1>2, <1>3 DEF Typed
<1>7. \A k \in 1..Len(Down') : Creates(Down'[k], s) => (k <= CutDown' <=> g[k] <= CutDown)
  BY <1>2, <1>3 DEF Typed
<1>8. \A j, k \in 1..Len(Down') : (g[j] = g[k] => j = k) /\ (j < k => g[j] < g[k]) /\ (g[j] < g[k] => j < k)
  <2>1. Len(Down') \in Nat /\ \A j, k \in 1..Len(Down') : j < k => g[j] < g[k]
    BY <1>2 DEF Typed
  <2>. QED BY <2>1, Monotone
<1>9. \A j \in 1..Len(Down) : Creates(Down[j], s) => \E k \in 1..Len(Down') : g[k] = j /\ Down'[k] = Down[j]
  BY <1>2, <1>3 DEF Typed
<1>10. InUse(s)' <=> InUse(s)
  BY DEF InUse
<1>11. Offering(s)'
  <2>1. ASSUME NEW k \in 1..Len(Down'), Creates(Down'[k], s)
        PROVE  /\ InUse(s)' /\ Down'[k].newInterface = offers'[s]
               /\ offered'[s] = NoInterface
               /\ k <= CutDown' => Known(s)' = offers'[s]
               /\ \A j \in 1..Len(Down') : Creates(Down'[j], s) => j = k
               /\ \A j \in 1..Len(Down') : Down'[j].target = s /\ k < j => Down'[j].interface = offers'[s]
               /\ \A j \in 1..Len(Up') : Up'[j].target # s
    <3>1. g[k] \in 1..Len(Down) /\ Down[g[k]] = Down'[k]
      BY <1>6, <2>1
    <3>2. /\ InUse(s) /\ Down[g[k]].newInterface = offers[s]
          /\ offered[s] = NoInterface
          /\ g[k] <= CutDown => Known(s) = offers[s]
          /\ \A j \in 1..Len(Down) : Creates(Down[j], s) => j = g[k]
          /\ \A j \in 1..Len(Down) : Down[j].target = s /\ g[k] < j => Down[j].interface = offers[s]
          /\ \A j \in 1..Len(Up) : Up[j].target # s
      BY <2>1, <3>1 DEF ServerIdInv, Offering
    <3>3. k <= CutDown' => Known(s)' = offers'[s]
      BY <1>7, <2>1, <3>2
    <3>4. \A j \in 1..Len(Down') : Creates(Down'[j], s) => j = k
      BY <1>6, <1>8, <3>2
    <3>5. \A j \in 1..Len(Down') : Down'[j].target = s /\ k < j => Down'[j].interface = offers'[s]
      BY <1>6, <1>8, <3>2
    <3>6. \A j \in 1..Len(Up') : Up'[j].target # s
      BY <1>4, <3>2
    <3>. QED BY <1>10, <3>1, <3>2, <3>3, <3>4, <3>5, <3>6
  <2>. QED BY <2>1 DEF Offering
<1>12. AskedOffer(s)'
  <2>1. ASSUME NEW k \in 1..Len(Up'), Up'[k].target = s
        PROVE  /\ InUse(s)' /\ Up'[k].interface = offers'[s] /\ Known(s)' = offers'[s]
               /\ Up'[k].op = "destroy" =>
                     /\ offered'[s] = NoInterface
                     /\ \A j \in 1..Len(Up') : Up'[j].target = s => j <= k
    <3>1. f[k] \in 1..Len(Up) /\ Up[f[k]] = Up'[k]
      BY <1>4, <2>1
    <3>2. /\ InUse(s) /\ Up[f[k]].interface = offers[s] /\ Known(s) = offers[s]
          /\ Up[f[k]].op = "destroy" =>
                /\ offered[s] = NoInterface
                /\ \A j \in 1..Len(Up) : Up[j].target = s => j <= f[k]
      BY <2>1, <3>1 DEF ServerIdInv, AskedOffer
    <3>3. Up'[k].op = "destroy" => \A j \in 1..Len(Up') : Up'[j].target = s => j <= k
      BY <1>4, <1>5, <3>1, <3>2
    <3>. QED BY <1>10, <3>1, <3>2, <3>3
  <2>. QED BY <2>1 DEF AskedOffer
<1>13. Offered(s)'
  BY <1>10 DEF ServerIdInv, Offered
<1>14. Settled(s)'
  <2>1. ASSUME InUse(s), NEW j \in 1..Len(Down), j > CutDown, Creates(Down[j], s)
        PROVE  \E k \in 1..Len(Down') : k > CutDown' /\ Creates(Down'[k], s)
    <3>1. PICK k \in 1..Len(Down') : g[k] = j /\ Down'[k] = Down[j]
      BY <1>9, <2>1
    <3>2. k > CutDown'
      BY <1>7, <2>1, <3>1 DEF Typed
    <3>. QED BY <2>1, <3>1, <3>2
  <2>. QED BY <1>10, <2>1 DEF ServerIdInv, Settled
<1>15. ToldOffer(s)'
  <2>1. ASSUME NEW k \in 1..Len(Down'), k > CutDown', Down'[k].target = s
        PROVE  \/ Known(s)' = Down'[k].interface
               \/ \E j \in 1..Len(Down') : CutDown' < j /\ j < k /\ Creates(Down'[j], s)
    <3>1. g[k] \in 1..Len(Down) /\ Down[g[k]] = Down'[k] /\ g[k] > CutDown
      BY <1>6, <2>1
    <3>2. \/ Known(s) = Down[g[k]].interface
          \/ \E j \in 1..Len(Down) : CutDown < j /\ j < g[k] /\ Creates(Down[j], s)
      BY <2>1, <3>1 DEF ServerIdInv, ToldOffer
    <3>3. ASSUME NEW j \in 1..Len(Down), CutDown < j, j < g[k], Creates(Down[j], s)
          PROVE  \E i \in 1..Len(Down') : CutDown' < i /\ i < k /\ Creates(Down'[i], s)
      <4>1. PICK i \in 1..Len(Down') : g[i] = j /\ Down'[i] = Down[j]
        BY <1>9, <3>3
      <4>2. i < k
        BY <1>8, <3>3, <4>1
      <4>3. CutDown' < i
        BY <1>7, <3>3, <4>1 DEF Typed
      <4>. QED BY <3>3, <4>1, <4>2, <4>3
    <3>. QED BY <3>1, <3>2, <3>3
  <2>. QED BY <2>1 DEF ToldOffer
<1>. QED BY <1>11, <1>12, <1>13, <1>14, <1>15 DEF ServerIdInv

\* NoGap asks for the creations only, of all ids together.
Creations(ids) == {m \in Msg : \E id \in ids : Creates(m, id)}

LEMMA NoGapKept ==
    ASSUME Typed, Typed', NoGap,
           Keeps(Up, CutUp, Up', CutUp', Creations(ClientIds), Creations(ClientIds)),
           \A c \in ClientIds : (mine'[c].state = "new" <=> mine[c].state = "new")
                                /\ (HasEntry(c)' <=> HasEntry(c))
    PROVE  NoGap'
<1>1. PICK f \in [1..Len(Up') -> Nat] :
        /\ \A k \in 1..Len(Up') : Up'[k] \in Creations(ClientIds) =>
              f[k] \in 1..Len(Up) /\ Up[f[k]] = Up'[k] /\ (k > CutUp' => f[k] > CutUp)
        /\ \A k \in 1..Len(Up') : Up'[k] \in Creations(ClientIds) /\ f[k] > CutUp => k > CutUp'
        /\ \A j, k \in 1..Len(Up') : j < k => f[j] < f[k]
        /\ \A j \in 1..Len(Up) : Up[j] \in Creations(ClientIds) =>
              \E k \in 1..Len(Up') : f[k] = j /\ Up'[k] = Up[j]
  BY DEF Keeps
<1>2. \A m \in Msg, c \in ClientIds : Creates(m, c) => m \in Creations(ClientIds)
  BY DEF Creations
<1>3. \A c \in ClientIds, j \in 1..Len(Up) : Creates(Up[j], c) /\ j > CutUp =>
         \E k \in 1..Len(Up') : f[k] = j /\ Creates(Up'[k], c) /\ k > CutUp'
  <2>1. ASSUME NEW c \in ClientIds, NEW j \in 1..Len(Up), Creates(Up[j], c), j > CutUp
        PROVE  \E k \in 1..Len(Up') : f[k] = j /\ Creates(Up'[k], c) /\ k > CutUp'
    <3>1. Up[j] \in Creations(ClientIds)
      BY <1>2, <2>1 DEF Typed
    <3>2. PICK k \in 1..Len(Up') : f[k] = j /\ Up'[k] = Up[j]
      BY <1>1, <3>1
    <3>. QED BY <1>1, <2>1, <3>1, <3>2
  <2>. QED BY <2>1
<1>4. \A c, d \in ClientIds : c < d /\ mine'[c].state = "new" => mine'[d].state = "new"
  BY DEF NoGap
<1>5. \A c \in ClientIds : mine'[c].state # "new" => HasEntry(c)' \/ Waiting(c)'
  <2>1. \A c \in ClientIds : Waiting(c) => Waiting(c)'
    BY <1>3 DEF Waiting
  <2>. QED BY <2>1 DEF NoGap
<1>6. ASSUME NEW k \in 1..Len(Up'), NEW c \in ClientIds, NEW d \in ClientIds,
             k > CutUp', Creates(Up'[k], d), c < d, ~HasEntry(c)'
      PROVE  \E j \in 1..Len(Up') : CutUp' < j /\ j < k /\ Creates(Up'[j], c)
  <2>1. f[k] \in 1..Len(Up) /\ Up[f[k]] = Up'[k] /\ f[k] > CutUp
    BY <1>1, <1>2, <1>6 DEF Typed
  <2>2. PICK j \in 1..Len(Up) : CutUp < j /\ j < f[k] /\ Creates(Up[j], c)
    BY <1>6, <2>1 DEF NoGap
  <2>3. PICK i \in 1..Len(Up') : f[i] = j /\ Creates(Up'[i], c) /\ i > CutUp'
    BY <1>3, <2>2
  <2>4. i < k
    <3>1. f[i] < f[k]
      BY <2>2, <2>3
    <3>. QED BY <1>1, <3>1, Monotone DEF Typed
  <2>. QED BY <2>3, <2>4
<1>. QED BY <1>4, <1>5, <1>6 DEF NoGap

LEMMA NoGapAboveKept ==
    ASSUME Typed, Typed', NoGapAbove,
           Keeps(Down, CutDown, Down', CutDown', Creations(ServerIds), Creations(ServerIds)),
           \A s \in ServerIds : (offers'[s] = "new" <=> offers[s] = "new")
                                /\ (HasEntry(s)' <=> HasEntry(s))
    PROVE  NoGapAbove'
<1>1. PICK f \in [1..Len(Down') -> Nat] :
        /\ \A k \in 1..Len(Down') : Down'[k] \in Creations(ServerIds) =>
              f[k] \in 1..Len(Down) /\ Down[f[k]] = Down'[k] /\ (k > CutDown' => f[k] > CutDown)
        /\ \A k \in 1..Len(Down') : Down'[k] \in Creations(ServerIds) /\ f[k] > CutDown => k > CutDown'
        /\ \A j, k \in 1..Len(Down') : j < k => f[j] < f[k]
        /\ \A j \in 1..Len(Down) : Down[j] \in Creations(ServerIds) =>
              \E k \in 1..Len(Down') : f[k] = j /\ Down'[k] = Down[j]
  BY DEF Keeps
<1>2. \A m \in Msg, s \in ServerIds : Creates(m, s) => m \in Creations(ServerIds)
  BY DEF Creations
<1>3. \A s \in ServerIds, j \in 1..Len(Down) : Creates(Down[j], s) /\ j > CutDown =>
         \E k \in 1..Len(Down') : f[k] = j /\ Creates(Down'[k], s) /\ k > CutDown'
  <2>1. ASSUME NEW s \in ServerIds, NEW j \in 1..Len(Down), Creates(Down[j], s), j > CutDown
        PROVE  \E k \in 1..Len(Down') : f[k] = j /\ Creates(Down'[k], s) /\ k > CutDown'
    <3>1. Down[j] \in Creations(ServerIds)
      BY <1>2, <2>1 DEF Typed
    <3>2. PICK k \in 1..Len(Down') : f[k] = j /\ Down'[k] = Down[j]
      BY <1>1, <3>1
    <3>. QED BY <1>1, <2>1, <3>1, <3>2
  <2>. QED BY <2>1
<1>4. \A s, t \in ServerIds : s < t /\ offers'[s] = "new" => offers'[t] = "new"
  BY DEF NoGapAbove
<1>5. \A s \in ServerIds : offers'[s] # "new" => HasEntry(s)' \/ WaitingAbove(s)'
  <2>1. \A s \in ServerIds : WaitingAbove(s) => WaitingAbove(s)'
    BY <1>3 DEF WaitingAbove
  <2>. QED BY <2>1 DEF NoGapAbove
<1>6. ASSUME NEW k \in 1..Len(Down'), NEW s \in ServerIds, NEW t \in ServerIds,
             k > CutDown', Creates(Down'[k], t), s < t, ~HasEntry(s)'
      PROVE  \E j \in 1..Len(Down') : CutDown' < j /\ j < k /\ Creates(Down'[j], s)
  <2>1. f[k] \in 1..Len(Down) /\ Down[f[k]] = Down'[k] /\ f[k] > CutDown
    BY <1>1, <1>2, <1>6 DEF Typed
  <2>2. PICK j \in 1..Len(Down) : CutDown < j /\ j < f[k] /\ Creates(Down[j], s)
    BY <1>6, <2>1 DEF NoGapAbove
  <2>3. PICK i \in 1..Len(Down') : f[i] = j /\ Creates(Down'[i], s) /\ i > CutDown'
    BY <1>3, <2>2
  <2>4. i < k
    <3>1. f[i] < f[k]
      BY <2>2, <2>3
    <3>. QED BY <1>1, <3>1, Monotone DEF Typed
  <2>. QED BY <2>3, <2>4
<1>. QED BY <1>4, <1>5, <1>6 DEF NoGapAbove

-----------------------------------------------------------------------------
(* The map.                                                                *)

KnownIn(map, i) == IF i <= Len(map) /\ map[i].tag = "Live" THEN map[i].interface ELSE NoInterface

LEMMA KnownByMap ==
    ASSUME NEW id \in Nat
    PROVE  /\ Known(id) = IF id >= ServerStart THEN KnownIn(serverMap, id - ServerStart + 1)
                          ELSE KnownIn(clientMap, id + 1)
           /\ HasEntry(id) <=> IF id >= ServerStart THEN id - ServerStart + 1 <= Len(serverMap)
                               ELSE id + 1 <= Len(clientMap)
           /\ IsLive(id) => Entry(id).interface = Known(id)
           /\ Known(id) # NoInterface => IsLive(id)
  BY DEF Known, KnownIn, IsLive, HasEntry, Entry, MapOf, IndexOf, IsServerId

LEMMA KnownByMapNext ==
    ASSUME NEW id \in Nat
    PROVE  /\ Known(id)' = IF id >= ServerStart THEN KnownIn(serverMap', id - ServerStart + 1)
                           ELSE KnownIn(clientMap', id + 1)
           /\ HasEntry(id)' <=> IF id >= ServerStart THEN id - ServerStart + 1 <= Len(serverMap')
                                ELSE id + 1 <= Len(clientMap')
  BY DEF Known, KnownIn, IsLive, HasEntry, Entry, MapOf, IndexOf, IsServerId

LEMMA PutKnown ==
    ASSUME NEW map \in Seq(IdMapEntry), NEW i \in 1..Len(map) + 1, NEW e \in IdMapEntry
    PROVE  /\ Put(map, i, e) \in Seq(IdMapEntry)
           /\ Len(Put(map, i, e)) = IF i = Len(map) + 1 THEN Len(map) + 1 ELSE Len(map)
           /\ KnownIn(Put(map, i, e), i) = IF e.tag = "Live" THEN e.interface ELSE NoInterface
           /\ \A j \in Nat \ {0, i} : KnownIn(Put(map, i, e), j) = KnownIn(map, j)
           /\ \A j \in 1..Len(map) : j # i => Put(map, i, e)[j] = map[j]
           /\ NoBlank(map) /\ e # Live(NoInterface) => NoBlank(Put(map, i, e))
<1> DEFINE q == Put(map, i, e)
<1>1. Len(map) \in Nat
  BY LenProperties
<1>2. /\ q \in Seq(IdMapEntry)
      /\ Len(q) = IF i = Len(map) + 1 THEN Len(map) + 1 ELSE Len(map)
      /\ q[i] = e
      /\ \A j \in 1..Len(map) : j # i => q[j] = map[j]
  <2>1. CASE i = Len(map) + 1
    <3>1. q = Append(map, e)
      BY <2>1 DEF Put
    <3>. HIDE DEF q
    <3>. QED BY <2>1, <3>1, AppendProperties
  <2>2. CASE i # Len(map) + 1
    <3>1. q = [map EXCEPT ![i] = e] /\ i \in 1..Len(map)
      BY <1>1, <2>2 DEF Put
    <3>. HIDE DEF q
    <3>. QED BY <2>2, <3>1, ExceptSeq
  <2>. QED BY <2>1, <2>2
<1>. HIDE DEF q
<1>3. i <= Len(q)
  BY <1>1, <1>2
<1>4. KnownIn(q, i) = IF e.tag = "Live" THEN e.interface ELSE NoInterface
  BY <1>2, <1>3 DEF KnownIn
<1>5. ASSUME NEW j \in Nat \ {0, i}
      PROVE  KnownIn(q, j) = KnownIn(map, j)
  <2>1. j <= Len(q) <=> j <= Len(map)
    BY <1>1, <1>2
  <2>2. j <= Len(map) => q[j] = map[j]
    BY <1>1, <1>2
  <2>. QED BY <2>1, <2>2 DEF KnownIn
<1>6. ASSUME NoBlank(map), e # Live(NoInterface), NEW j \in 1..Len(q)
      PROVE  q[j] # Live(NoInterface)
  <2>1. CASE j = i
    BY <1>2, <1>6, <2>1
  <2>2. CASE j # i
    <3>1. j \in 1..Len(map)
      BY <1>1, <1>2, <2>2
    <3>. QED BY <1>2, <1>6, <2>2, <3>1 DEF NoBlank
  <2>. QED BY <2>1, <2>2
<1>7. NoBlank(map) /\ e # Live(NoInterface) => NoBlank(q)
  BY <1>6 DEF NoBlank
<1>. QED BY <1>2, <1>4, <1>5, <1>7 DEF q

\* No interface is the mark of none.
LEMMA Interfaced == NoInterface \notin Interfaces
  BY IdsAssumption DEF NoInterface, Interfaces

LEMMA IdKinds ==
    /\ Display \in ClientIds
    /\ \A c \in ClientIds : c \in Nat /\ c >= 1 /\ c <= MaxClientId /\ ~(c >= ServerStart) /\ c \notin ServerIds
                            /\ c # HandshakeId
    /\ \A s \in ServerIds : s \in Nat /\ s >= ServerStart /\ s <= MaxServerId /\ s # HandshakeId
                            /\ s \notin ClientIds /\ s # Display
    /\ HandshakeId \in Nat /\ HandshakeId >= ServerStart /\ ServerStart \in Nat
    /\ HandshakeId > MaxServerId + 1 /\ MaxServerId \in Nat /\ MaxClientId \in Nat
  BY IdsAssumption DEF ClientIds, ServerIds, Display

\* Where CanAdd allows it, add makes the id known and changes no other.
LEMMA AddKnown ==
    ASSUME MapTypes, NEW id \in Ids, NEW x \in Interfaces, CanAdd(id), Add(id, x),
           id # Display
    PROVE  /\ MapTypes'
           /\ Known(id)' = x
           /\ \A y \in Ids : y # id => Known(y)' = Known(y)
           /\ \A y \in Ids : HasEntry(y)' <=> HasEntry(y) \/ y = id
<1> DEFINE e == Live(x)
<1>1. e \in IdMapEntry /\ e.tag = "Live" /\ e.interface = x
  BY DEF Live, IdMapEntry, Interfaces
<1>0. e # Live(NoInterface)
  BY <1>1, Interfaced DEF Live
<1>. HIDE DEF e
<1>2. id \in Nat
  BY IdKinds DEF Ids
<1>3. CASE id \in ServerIds
  <2> DEFINE i == id - ServerStart + 1
  <2>1. /\ serverMap' = Put(serverMap, i, e) /\ clientMap' = clientMap
        /\ i <= Len(serverMap) + 1
    BY <1>3, IdKinds DEF Add, SetEntry, IsServerId, IndexOf, CanAdd, MapOf, e
  <2>2. serverMap \in Seq(IdMapEntry) /\ Len(serverMap) \in Nat
    BY LenProperties DEF MapTypes
  <2>3. i \in 1..Len(serverMap) + 1 /\ i <= MaxServerId - ServerStart + 1
    BY <1>3, <2>1, <2>2, IdKinds
  <2>. HIDE DEF i
  <2>4. /\ serverMap' \in Seq(IdMapEntry)
        /\ Len(serverMap') = IF i = Len(serverMap) + 1 THEN Len(serverMap) + 1 ELSE Len(serverMap)
        /\ KnownIn(serverMap', i) = x
        /\ \A j \in Nat \ {0, i} : KnownIn(serverMap', j) = KnownIn(serverMap, j)
        /\ NoBlank(serverMap) => NoBlank(serverMap')
    BY <1>0, <1>1, <2>1, <2>2, <2>3, PutKnown
  <2>5. MapTypes'
    BY <2>1, <2>2, <2>3, <2>4 DEF MapTypes
  <2>6. Known(id)' = x
    BY <1>2, <1>3, <2>4, KnownByMapNext, IdKinds DEF i
  <2>7. ASSUME NEW y \in Ids, y # id
        PROVE  Known(y)' = Known(y)
    <3>1. CASE y \in ServerIds
      <4>1. y - ServerStart + 1 \in Nat \ {0, i}
        BY <1>2, <2>7, <3>1, IdKinds DEF i
      <4>2. KnownIn(serverMap', y - ServerStart + 1) = KnownIn(serverMap, y - ServerStart + 1)
        BY <2>4, <4>1
      <4>. QED BY <3>1, <4>2, KnownByMap, KnownByMapNext, IdKinds
    <3>2. CASE y \in ClientIds
      BY <2>1, <3>2, KnownByMap, KnownByMapNext, IdKinds
    <3>. QED BY <3>1, <3>2 DEF Ids
  <2>8. ASSUME NEW y \in Ids
        PROVE  HasEntry(y)' <=> HasEntry(y) \/ y = id
    <3>1. CASE y \in ServerIds
      <4>1. y \in Nat /\ y >= ServerStart /\ ServerStart \in Nat
        BY <3>1, IdKinds
      <4>2. HasEntry(y)' <=> y - ServerStart + 1 <= Len(serverMap')
        BY <4>1, KnownByMapNext
      <4>3. HasEntry(y) <=> y - ServerStart + 1 <= Len(serverMap)
        BY <4>1, KnownByMap
      <4>4. y = id <=> y - ServerStart + 1 = i
        BY <1>2, <4>1 DEF i
      <4>5. y - ServerStart + 1 \in Nat
        BY <4>1
      <4>. HIDE DEF i
      <4>6. (y - ServerStart + 1 <= Len(serverMap')) <=>
               (y - ServerStart + 1 <= Len(serverMap) \/ y - ServerStart + 1 = i)
        BY <2>2, <2>3, <2>4, <4>5
      <4>. QED BY <4>2, <4>3, <4>4, <4>6
    <3>2. CASE y \in ClientIds
      <4>1. y \in Nat /\ ~(y >= ServerStart) /\ y # id
        BY <1>3, <3>2, IdKinds
      <4>. QED BY <2>1, <4>1, KnownByMap, KnownByMapNext
    <3>. QED BY <3>1, <3>2 DEF Ids
  <2>. QED BY <2>5, <2>6, <2>7, <2>8
<1>4. CASE id \in ClientIds
  <2> DEFINE i == id + 1
  <2>1. /\ clientMap' = Put(clientMap, i, e) /\ serverMap' = serverMap
        /\ i <= Len(clientMap) + 1
    BY <1>4, IdKinds DEF Add, SetEntry, IsServerId, IndexOf, CanAdd, MapOf, e
  <2>2. clientMap \in Seq(IdMapEntry) /\ Len(clientMap) \in Nat
    BY LenProperties DEF MapTypes
  <2>3. i \in 1..Len(clientMap) + 1 /\ i <= MaxClientId + 1 /\ i # 1
    BY <1>4, <2>1, <2>2, IdKinds
  <2>. HIDE DEF i
  <2>4. /\ clientMap' \in Seq(IdMapEntry)
        /\ Len(clientMap') = IF i = Len(clientMap) + 1 THEN Len(clientMap) + 1 ELSE Len(clientMap)
        /\ KnownIn(clientMap', i) = x
        /\ \A j \in Nat \ {0, i} : KnownIn(clientMap', j) = KnownIn(clientMap, j)
        /\ \A j \in 1..Len(clientMap) : j # i => clientMap'[j] = clientMap[j]
        /\ NoBlank(clientMap) => NoBlank(clientMap')
    BY <1>0, <1>1, <2>1, <2>2, <2>3, PutKnown, SMTT(60)
  <2>5. MapTypes'
    BY <2>1, <2>2, <2>3, <2>4 DEF MapTypes
  <2>6. Known(id)' = x
    BY <1>2, <1>4, <2>4, KnownByMapNext, IdKinds DEF i
  <2>7. ASSUME NEW y \in Ids, y # id
        PROVE  Known(y)' = Known(y)
    <3>1. CASE y \in ClientIds
      <4>1. y + 1 \in Nat \ {0, i}
        BY <1>2, <2>7, <3>1, IdKinds DEF i
      <4>2. KnownIn(clientMap', y + 1) = KnownIn(clientMap, y + 1)
        BY <2>4, <4>1
      <4>. QED BY <3>1, <4>2, KnownByMap, KnownByMapNext, IdKinds
    <3>2. CASE y \in ServerIds
      BY <2>1, <3>2, KnownByMap, KnownByMapNext, IdKinds
    <3>. QED BY <3>1, <3>2 DEF Ids
  <2>8. ASSUME NEW y \in Ids
        PROVE  HasEntry(y)' <=> HasEntry(y) \/ y = id
    <3>1. CASE y \in ClientIds
      <4>1. y \in Nat /\ ~(y >= ServerStart)
        BY <3>1, IdKinds
      <4>2. HasEntry(y)' <=> y + 1 <= Len(clientMap')
        BY <4>1, KnownByMapNext
      <4>3. HasEntry(y) <=> y + 1 <= Len(clientMap)
        BY <4>1, KnownByMap
      <4>4. y = id <=> y + 1 = i
        BY <1>2, <4>1 DEF i
      <4>5. y + 1 \in Nat
        BY <4>1
      <4>6. (y + 1 <= Len(clientMap')) <=> (y + 1 <= Len(clientMap) \/ y + 1 = i)
        BY <2>2, <2>3, <2>4, <4>5
      <4>. QED BY <4>2, <4>3, <4>4, <4>6
    <3>2. CASE y \in ServerIds
      <4>1. y \in Nat /\ y >= ServerStart /\ y # id
        BY <1>4, <3>2, IdKinds
      <4>. QED BY <2>1, <4>1, KnownByMap, KnownByMapNext
    <3>. QED BY <3>1, <3>2 DEF Ids
  <2>. QED BY <2>5, <2>6, <2>7, <2>8
<1>. QED BY <1>3, <1>4 DEF Ids

\* delete makes a client's id unknown, and the id of a handshake changes nothing.
LEMMA DeleteKnown ==
    ASSUME MapTypes, NEW id \in ClientIds \cup {HandshakeId}, Delete(id)
    PROVE  /\ id # Display => MapTypes'
           /\ id \in ClientIds => Known(id)' = NoInterface
           /\ \A y \in Ids : y # id => Known(y)' = Known(y)
           /\ \A y \in Ids : HasEntry(y)' <=> HasEntry(y)
<1>1. serverMap \in Seq(IdMapEntry) /\ Len(serverMap) \in Nat /\ clientMap \in Seq(IdMapEntry)
      /\ Len(clientMap) \in Nat
  BY LenProperties DEF MapTypes
<1>2. id \in Nat
  BY IdKinds
<1>3. CASE ~IsLive(id)
  <2>1. clientMap' = clientMap /\ serverMap' = serverMap
    BY <1>3 DEF Delete
  <2>2. Known(id) = NoInterface
    BY <1>3 DEF Known
  <2>3. \A y \in Ids : y \in Nat
    BY IdKinds DEF Ids
  <2>4. \A y \in Nat : Known(y)' = Known(y) /\ (HasEntry(y)' <=> HasEntry(y))
    BY <2>1, KnownByMap, KnownByMapNext
  <2>5. MapTypes'
    BY <2>1 DEF MapTypes
  <2>. QED BY <1>2, <2>2, <2>3, <2>4, <2>5
<1>4. CASE IsLive(id)
  <2>1. id # HandshakeId
    <3>1. ASSUME id = HandshakeId
          PROVE  FALSE
      <4>1. HasEntry(id)
        BY <1>4 DEF IsLive
      <4>2. id - ServerStart + 1 <= Len(serverMap)
        BY <1>2, <3>1, <4>1, KnownByMap, IdKinds
      <4>. QED BY <1>1, <3>1, <4>2, IdKinds DEF MapTypes
    <3>. QED BY <3>1
  <2>2. id \in ClientIds /\ ~(id >= ServerStart)
    BY <2>1, IdKinds
  <2> DEFINE i == id + 1
             e == Deleted(Entry(id).interface)
  <2>3. Delete(id) /\ IsLive(id)
    BY <1>4
  <2>4. serverMap' = serverMap /\ clientMap' = Put(clientMap, i, e)
    <3>1. SetEntry(id, e)
      BY <2>3 DEF Delete
    <3>. QED BY <2>2, <3>1 DEF SetEntry, IsServerId, IndexOf
  <2>5. i \in 1..Len(clientMap)
    <3>1. HasEntry(id)
      BY <1>4 DEF IsLive
    <3>. QED BY <1>1, <1>2, <2>2, <3>1, KnownByMap
  <2>6. e \in IdMapEntry /\ e.tag = "Deleted"
    <3>1. Entry(id) = clientMap[i]
      BY <2>2 DEF Entry, MapOf, IndexOf, IsServerId
    <3>2. clientMap[i] \in IdMapEntry
      BY <1>1, <2>5, ElementOfSeq
    <3>. QED BY <3>1, <3>2 DEF Deleted, IdMapEntry
  <2>. HIDE DEF e
  <2>7. /\ clientMap' \in Seq(IdMapEntry)
        /\ Len(clientMap') = Len(clientMap)
        /\ KnownIn(clientMap', i) = NoInterface
        /\ \A j \in Nat \ {0, i} : KnownIn(clientMap', j) = KnownIn(clientMap, j)
        /\ \A j \in 1..Len(clientMap) : j # i => clientMap'[j] = clientMap[j]
        /\ NoBlank(clientMap) => NoBlank(clientMap')
    <3>. HIDE DEF i
    <3>1. i \in 1..Len(clientMap) + 1 /\ i # Len(clientMap) + 1
      BY <1>1, <2>5
    <3>2. e # Live(NoInterface)
      BY <2>6 DEF Live
    <3>. QED BY <1>1, <2>4, <2>6, <3>1, <3>2, PutKnown
  <2>8. MapTypes'
    <3>1. 1 # i /\ 1 \in 1..Len(clientMap)
      BY <1>1, <1>2, <2>2, IdKinds DEF MapTypes
    <3>. QED BY <2>4, <2>7, <3>1 DEF MapTypes
  <2>9. Known(id)' = NoInterface
    BY <1>2, <2>2, <2>7, KnownByMapNext
  <2>10. ASSUME NEW y \in Ids, y # id
         PROVE  Known(y)' = Known(y)
    <3>1. CASE y \in ClientIds
      <4>1. y + 1 \in Nat \ {0, i}
        BY <1>2, <2>10, <3>1, IdKinds
      <4>. HIDE DEF i
      <4>2. KnownIn(clientMap', y + 1) = KnownIn(clientMap, y + 1)
        BY <2>7, <4>1
      <4>. QED BY <3>1, <4>2, KnownByMap, KnownByMapNext, IdKinds
    <3>2. CASE y \in ServerIds
      BY <2>4, <3>2, KnownByMap, KnownByMapNext, IdKinds
    <3>. QED BY <3>1, <3>2 DEF Ids
  <2>11. ASSUME NEW y \in Ids
         PROVE  HasEntry(y)' <=> HasEntry(y)
    <3>1. y \in Nat
      BY IdKinds DEF Ids
    <3>. QED BY <2>4, <2>7, <3>1, KnownByMap, KnownByMapNext
  <2>. QED BY <2>8, <2>9, <2>10, <2>11
<1>. QED BY <1>3, <1>4

-----------------------------------------------------------------------------
(* What the actions do to the messages under way.                          *)

LEMMA AlwaysTyped == MessageTypes => Typed
<1>. SUFFICES ASSUME MessageTypes PROVE Typed
  OBVIOUS
<1>1. /\ to["server"] \in Seq(Msg) /\ from["client"] \in Seq(Msg)
      /\ to["client"] \in Seq(Msg) /\ from["server"] \in Seq(Msg)
  BY DEF MessageTypes, Peers
<1>2. Up \in Seq(Msg) /\ Len(Up) = CutUp + Len(from["client"])
  BY <1>1, ConcatProperties DEF Up, CutUp
<1>3. Down \in Seq(Msg) /\ Len(Down) = CutDown + Len(from["server"])
  BY <1>1, ConcatProperties DEF Down, CutDown
<1>4. CutUp \in Nat /\ CutDown \in Nat /\ Len(from["client"]) \in Nat /\ Len(from["server"]) \in Nat
  BY <1>1, LenProperties DEF CutUp, CutDown
<1>5. (\A k \in 1..Len(Up) : Up[k] \in Msg) /\ \A k \in 1..Len(Down) : Down[k] \in Msg
  BY <1>2, <1>3, ElementOfSeq
<1>. QED BY <1>2, <1>3, <1>4, <1>5 DEF Typed

LEMMA NextTyped == ASSUME MessageTypes' PROVE Typed'
  BY AlwaysTyped, PTL

\* The messages under way, from what their parts become.
LEMMA WayTypes ==
    ASSUME MessageTypes, from' \in [Peers -> Seq(Msg)], to' \in [Peers -> Seq(Msg)],
           \A k \in 1..Len(Up') : UpMessage(Up'[k]),
           \A k \in 1..Len(Down') : DownMessage(Down'[k])
    PROVE  MessageTypes' /\ Typed'
<1>1. MessageTypes'
  BY DEF MessageTypes
<1>. QED BY <1>1, NextTyped

LEMMA ClientRelays ==
    ASSUME MessageTypes, from["client"] # <<>>,
           from' = [from EXCEPT !["client"] = Tail(@)],
           to' = [to EXCEPT !["server"] = Append(@, Head(from["client"]))]
    PROVE  /\ Passed(Up, CutUp, Up', CutUp') /\ Up[CutUp + 1] = Head(from["client"])
           /\ Down' = Down /\ CutDown' = CutDown
           /\ MessageTypes' /\ Typed'
<1> DEFINE a == to["server"]
           b == from["client"]
<1>1. a \in Seq(Msg) /\ b \in Seq(Msg) /\ b # <<>>
  BY DEF MessageTypes, Peers
<1>2. /\ from'["client"] = Tail(b) /\ from'["server"] = from["server"]
      /\ to'["server"] = Append(a, Head(b)) /\ to'["client"] = to["client"]
  BY DEF MessageTypes, Peers
<1>. HIDE DEF a, b
<1>3. /\ Passed(a \o b, Len(a), Append(a, Head(b)) \o Tail(b), Len(Append(a, Head(b))))
      /\ (a \o b)[Len(a) + 1] = Head(b)
      /\ Append(a, Head(b)) \in Seq(Msg) /\ Tail(b) \in Seq(Msg)
  BY <1>1, Pass
<1>4. Passed(Up, CutUp, Up', CutUp') /\ Up[CutUp + 1] = Head(from["client"])
  BY <1>2, <1>3 DEF Up, CutUp, a, b
<1>5. Down' = Down /\ CutDown' = CutDown
  BY <1>2 DEF Down, CutDown
<1>6. from' \in [Peers -> Seq(Msg)] /\ to' \in [Peers -> Seq(Msg)]
  BY <1>2, <1>3 DEF MessageTypes, Peers, a, b
<1>7. Up' = Up
  BY <1>4 DEF Passed
<1>. QED BY <1>4, <1>5, <1>6, <1>7, WayTypes DEF MessageTypes

LEMMA ClientDrops ==
    ASSUME MessageTypes, from["client"] # <<>>,
           from' = [from EXCEPT !["client"] = Tail(@)], to' = to
    PROVE  /\ Dropped(Up, CutUp, Up', CutUp') /\ Up[CutUp + 1] = Head(from["client"])
           /\ Down' = Down /\ CutDown' = CutDown
           /\ MessageTypes' /\ Typed'
<1> DEFINE a == to["server"]
           b == from["client"]
<1>1. a \in Seq(Msg) /\ b \in Seq(Msg) /\ b # <<>>
  BY DEF MessageTypes, Peers
<1>2. /\ from'["client"] = Tail(b) /\ from'["server"] = from["server"]
      /\ to'["server"] = a /\ to'["client"] = to["client"]
  BY DEF MessageTypes, Peers
<1>. HIDE DEF a, b
<1>3. /\ Dropped(a \o b, Len(a), a \o Tail(b), Len(a))
      /\ (a \o b)[Len(a) + 1] = Head(b) /\ Tail(b) \in Seq(Msg)
  BY <1>1, Drop
<1>4. Dropped(Up, CutUp, Up', CutUp') /\ Up[CutUp + 1] = Head(from["client"])
  BY <1>2, <1>3 DEF Up, CutUp, a, b
<1>5. Down' = Down /\ CutDown' = CutDown
  BY <1>2 DEF Down, CutDown
<1>6. from' \in [Peers -> Seq(Msg)]
  BY <1>2, <1>3 DEF MessageTypes, Peers, a, b
<1>7. \A k \in 1..Len(Up') : UpMessage(Up'[k])
  <2>1. Typed
    BY AlwaysTyped
  <2>2. ASSUME NEW k \in 1..Len(Up')
        PROVE  \E j \in 1..Len(Up) : Up'[k] = Up[j]
    <3>1. k \in 1..Len(Up) /\ k + 1 \in 1..Len(Up)
      BY <1>4, <2>1 DEF Dropped, Typed
    <3>. QED BY <1>4, <3>1 DEF Dropped
  <2>. QED BY <2>2 DEF MessageTypes
<1>. QED BY <1>4, <1>5, <1>6, <1>7, WayTypes DEF MessageTypes

LEMMA ClientSends ==
    ASSUME MessageTypes, NEW e \in Seq(Msg), SendFrom("client", e), to' = to,
           \A i \in 1..Len(e) : UpMessage(e[i])
    PROVE  /\ Extended(Up, CutUp, Up', CutUp')
           /\ Len(Up') = Len(Up) + Len(e) /\ \A i \in 1..Len(e) : Up'[Len(Up) + i] = e[i]
           /\ Down' = Down /\ CutDown' = CutDown
           /\ MessageTypes' /\ Typed'
<1> DEFINE a == to["server"]
           b == from["client"]
<1>1. a \in Seq(Msg) /\ b \in Seq(Msg) /\ Len(e) \in Nat
  BY LenProperties DEF MessageTypes, Peers
<1>2. /\ from'["client"] = b \o e /\ from'["server"] = from["server"]
      /\ to'["server"] = a /\ to'["client"] = to["client"]
  BY DEF MessageTypes, Peers, SendFrom
<1>. HIDE DEF a, b
<1>3. /\ Extended(a \o b, Len(a), a \o (b \o e), Len(a))
      /\ Len(a \o (b \o e)) = Len(a \o b) + Len(e)
      /\ \A i \in 1..Len(e) : (a \o (b \o e))[Len(a \o b) + i] = e[i]
      /\ b \o e \in Seq(Msg)
  BY <1>1, Extend, SMTT(60)
<1>4. /\ Extended(Up, CutUp, Up', CutUp')
      /\ Len(Up') = Len(Up) + Len(e) /\ \A i \in 1..Len(e) : Up'[Len(Up) + i] = e[i]
  BY <1>2, <1>3 DEF Up, CutUp, a, b
<1>5. Down' = Down /\ CutDown' = CutDown
  BY <1>2 DEF Down, CutDown
<1>6. from' \in [Peers -> Seq(Msg)]
  BY <1>2, <1>3 DEF MessageTypes, Peers, SendFrom, a, b
<1>7. \A k \in 1..Len(Up') : UpMessage(Up'[k])
  <2>1. Typed
    BY AlwaysTyped
  <2>2. ASSUME NEW k \in 1..Len(Up')
        PROVE  UpMessage(Up'[k])
    <3>1. CASE k <= Len(Up)
      BY <1>4, <2>1, <3>1 DEF Extended, Typed, MessageTypes
    <3>2. CASE k > Len(Up)
      <4>1. k - Len(Up) \in 1..Len(e) /\ Len(Up) + (k - Len(Up)) = k
        BY <1>1, <1>4, <2>1, <3>2 DEF Typed
      <4>2. Up'[Len(Up) + (k - Len(Up))] = e[k - Len(Up)]
        BY <1>4, <4>1
      <4>. QED BY <4>1, <4>2
    <3>. QED BY <2>1, <3>1, <3>2 DEF Typed
  <2>. QED BY <2>2
<1>. QED BY <1>4, <1>5, <1>6, <1>7, WayTypes DEF MessageTypes

LEMMA ClientTakes ==
    ASSUME MessageTypes, NEW e \in Seq(Msg), SendFrom("client", e),
           to["client"] # <<>>, to' = [to EXCEPT !["client"] = Tail(@)],
           \A i \in 1..Len(e) : UpMessage(e[i])
    PROVE  /\ Extended(Up, CutUp, Up', CutUp')
           /\ Len(Up') = Len(Up) + Len(e) /\ \A i \in 1..Len(e) : Up'[Len(Up) + i] = e[i]
           /\ Taken(Down, CutDown, Down', CutDown') /\ Down[1] = Head(to["client"])
           /\ MessageTypes' /\ Typed'
<1> DEFINE a == to["server"]
           b == from["client"]
           c == to["client"]
           d == from["server"]
<1>1. a \in Seq(Msg) /\ b \in Seq(Msg) /\ Len(e) \in Nat
  BY LenProperties DEF MessageTypes, Peers
<1>2. c \in Seq(Msg) /\ d \in Seq(Msg) /\ c # <<>>
  BY DEF MessageTypes, Peers
<1>3. /\ from'["client"] = b \o e /\ from'["server"] = d
      /\ to'["server"] = a /\ to'["client"] = Tail(c)
  BY DEF MessageTypes, Peers, SendFrom
<1>. HIDE DEF a, b, c, d
<1>4. /\ Extended(a \o b, Len(a), a \o (b \o e), Len(a))
      /\ Len(a \o (b \o e)) = Len(a \o b) + Len(e)
      /\ \A i \in 1..Len(e) : (a \o (b \o e))[Len(a \o b) + i] = e[i]
      /\ b \o e \in Seq(Msg)
  BY <1>1, Extend
<1>5. /\ Taken(c \o d, Len(c), Tail(c) \o d, Len(Tail(c)))
      /\ (c \o d)[1] = Head(c) /\ Tail(c) \in Seq(Msg)
  BY <1>2, Take
<1>6. /\ Extended(Up, CutUp, Up', CutUp')
      /\ Len(Up') = Len(Up) + Len(e) /\ \A i \in 1..Len(e) : Up'[Len(Up) + i] = e[i]
  BY <1>3, <1>4 DEF Up, CutUp, a, b
<1>7. Taken(Down, CutDown, Down', CutDown') /\ Down[1] = Head(to["client"])
  BY <1>3, <1>5 DEF Down, CutDown, c, d
<1>8. from' \in [Peers -> Seq(Msg)] /\ to' \in [Peers -> Seq(Msg)]
  <2>1. from' = [from EXCEPT !["client"] = b \o e]
    BY DEF SendFrom, b
  <2>. QED BY <1>4, <1>5, <2>1 DEF MessageTypes, Peers, c
<1>9. Typed
  BY AlwaysTyped
<1>10. \A k \in 1..Len(Up') : UpMessage(Up'[k])
  <2>1. ASSUME NEW k \in 1..Len(Up')
        PROVE  UpMessage(Up'[k])
    <3>1. CASE k <= Len(Up)
      BY <1>6, <1>9, <3>1 DEF Extended, Typed, MessageTypes
    <3>2. CASE k > Len(Up)
      <4>1. k - Len(Up) \in 1..Len(e) /\ Len(Up) + (k - Len(Up)) = k
        BY <1>1, <1>6, <1>9, <3>2 DEF Typed
      <4>2. Up'[Len(Up) + (k - Len(Up))] = e[k - Len(Up)]
        BY <1>6, <4>1
      <4>. QED BY <4>1, <4>2
    <3>. QED BY <1>9, <3>1, <3>2 DEF Typed
  <2>. QED BY <2>1
<1>11. \A k \in 1..Len(Down') : DownMessage(Down'[k])
  <2>1. ASSUME NEW k \in 1..Len(Down')
        PROVE  Down'[k] = Down[k + 1] /\ k + 1 \in 1..Len(Down)
    BY <1>7, <1>9 DEF Taken, Typed
  <2>. QED BY <2>1 DEF MessageTypes
<1>. QED BY <1>6, <1>7, <1>8, <1>10, <1>11, WayTypes

LEMMA ServerRelays ==
    ASSUME MessageTypes, from["server"] # <<>>,
           from' = [from EXCEPT !["server"] = Tail(@)],
           to' = [to EXCEPT !["client"] = Append(@, Head(from["server"]))]
    PROVE  /\ Passed(Down, CutDown, Down', CutDown') /\ Down[CutDown + 1] = Head(from["server"])
           /\ Up' = Up /\ CutUp' = CutUp
           /\ MessageTypes' /\ Typed'
<1> DEFINE a == to["client"]
           b == from["server"]
<1>1. a \in Seq(Msg) /\ b \in Seq(Msg) /\ b # <<>>
  BY DEF MessageTypes, Peers
<1>2. /\ from'["server"] = Tail(b) /\ from'["client"] = from["client"]
      /\ to'["client"] = Append(a, Head(b)) /\ to'["server"] = to["server"]
  BY DEF MessageTypes, Peers
<1>. HIDE DEF a, b
<1>3. /\ Passed(a \o b, Len(a), Append(a, Head(b)) \o Tail(b), Len(Append(a, Head(b))))
      /\ (a \o b)[Len(a) + 1] = Head(b)
      /\ Append(a, Head(b)) \in Seq(Msg) /\ Tail(b) \in Seq(Msg)
  BY <1>1, Pass
<1>4. Passed(Down, CutDown, Down', CutDown') /\ Down[CutDown + 1] = Head(from["server"])
  BY <1>2, <1>3 DEF Down, CutDown, a, b
<1>5. Up' = Up /\ CutUp' = CutUp
  BY <1>2 DEF Up, CutUp
<1>6. from' \in [Peers -> Seq(Msg)] /\ to' \in [Peers -> Seq(Msg)]
  BY <1>2, <1>3 DEF MessageTypes, Peers, a, b
<1>7. Down' = Down
  BY <1>4 DEF Passed
<1>. QED BY <1>4, <1>5, <1>6, <1>7, WayTypes DEF MessageTypes

LEMMA ServerDrops ==
    ASSUME MessageTypes, from["server"] # <<>>,
           from' = [from EXCEPT !["server"] = Tail(@)], to' = to
    PROVE  /\ Dropped(Down, CutDown, Down', CutDown') /\ Down[CutDown + 1] = Head(from["server"])
           /\ Up' = Up /\ CutUp' = CutUp
           /\ MessageTypes' /\ Typed'
<1> DEFINE a == to["client"]
           b == from["server"]
<1>1. a \in Seq(Msg) /\ b \in Seq(Msg) /\ b # <<>>
  BY DEF MessageTypes, Peers
<1>2. /\ from'["server"] = Tail(b) /\ from'["client"] = from["client"]
      /\ to'["client"] = a /\ to'["server"] = to["server"]
  BY DEF MessageTypes, Peers
<1>. HIDE DEF a, b
<1>3. /\ Dropped(a \o b, Len(a), a \o Tail(b), Len(a))
      /\ (a \o b)[Len(a) + 1] = Head(b) /\ Tail(b) \in Seq(Msg)
  BY <1>1, Drop
<1>4. Dropped(Down, CutDown, Down', CutDown') /\ Down[CutDown + 1] = Head(from["server"])
  BY <1>2, <1>3 DEF Down, CutDown, a, b
<1>5. Up' = Up /\ CutUp' = CutUp
  BY <1>2 DEF Up, CutUp
<1>6. from' \in [Peers -> Seq(Msg)]
  BY <1>2, <1>3 DEF MessageTypes, Peers, a, b
<1>7. \A k \in 1..Len(Down') : DownMessage(Down'[k])
  <2>1. Typed
    BY AlwaysTyped
  <2>2. ASSUME NEW k \in 1..Len(Down')
        PROVE  \E j \in 1..Len(Down) : Down'[k] = Down[j]
    <3>1. k \in 1..Len(Down) /\ k + 1 \in 1..Len(Down)
      BY <1>4, <2>1 DEF Dropped, Typed
    <3>. QED BY <1>4, <3>1 DEF Dropped
  <2>. QED BY <2>2 DEF MessageTypes
<1>. QED BY <1>4, <1>5, <1>6, <1>7, WayTypes DEF MessageTypes

LEMMA ServerSends ==
    ASSUME MessageTypes, NEW e \in Seq(Msg), SendFrom("server", e), to' = to,
           \A i \in 1..Len(e) : DownMessage(e[i])
    PROVE  /\ Extended(Down, CutDown, Down', CutDown')
           /\ Len(Down') = Len(Down) + Len(e) /\ \A i \in 1..Len(e) : Down'[Len(Down) + i] = e[i]
           /\ Up' = Up /\ CutUp' = CutUp
           /\ MessageTypes' /\ Typed'
<1> DEFINE a == to["client"]
           b == from["server"]
<1>1. a \in Seq(Msg) /\ b \in Seq(Msg) /\ Len(e) \in Nat
  BY LenProperties DEF MessageTypes, Peers
<1>2. /\ from'["server"] = b \o e /\ from'["client"] = from["client"]
      /\ to'["client"] = a /\ to'["server"] = to["server"]
  BY DEF MessageTypes, Peers, SendFrom
<1>. HIDE DEF a, b
<1>3. /\ Extended(a \o b, Len(a), a \o (b \o e), Len(a))
      /\ Len(a \o (b \o e)) = Len(a \o b) + Len(e)
      /\ \A i \in 1..Len(e) : (a \o (b \o e))[Len(a \o b) + i] = e[i]
      /\ b \o e \in Seq(Msg)
  BY <1>1, Extend, SMTT(60)
<1>4. /\ Extended(Down, CutDown, Down', CutDown')
      /\ Len(Down') = Len(Down) + Len(e) /\ \A i \in 1..Len(e) : Down'[Len(Down) + i] = e[i]
  BY <1>2, <1>3 DEF Down, CutDown, a, b
<1>5. Up' = Up /\ CutUp' = CutUp
  BY <1>2 DEF Up, CutUp
<1>6. from' \in [Peers -> Seq(Msg)]
  BY <1>2, <1>3 DEF MessageTypes, Peers, SendFrom, a, b
<1>7. \A k \in 1..Len(Down') : DownMessage(Down'[k])
  <2>1. Typed
    BY AlwaysTyped
  <2>2. ASSUME NEW k \in 1..Len(Down')
        PROVE  DownMessage(Down'[k])
    <3>1. CASE k <= Len(Down)
      BY <1>4, <2>1, <3>1 DEF Extended, Typed, MessageTypes
    <3>2. CASE k > Len(Down)
      <4>1. k - Len(Down) \in 1..Len(e) /\ Len(Down) + (k - Len(Down)) = k
        BY <1>1, <1>4, <2>1, <3>2 DEF Typed
      <4>2. Down'[Len(Down) + (k - Len(Down))] = e[k - Len(Down)]
        BY <1>4, <4>1
      <4>. QED BY <4>1, <4>2
    <3>. QED BY <2>1, <3>1, <3>2 DEF Typed
  <2>. QED BY <2>2
<1>. QED BY <1>4, <1>5, <1>6, <1>7, WayTypes DEF MessageTypes

LEMMA ServerTakes ==
    ASSUME MessageTypes, NEW e \in Seq(Msg), SendFrom("server", e),
           to["server"] # <<>>, to' = [to EXCEPT !["server"] = Tail(@)],
           \A i \in 1..Len(e) : DownMessage(e[i])
    PROVE  /\ Extended(Down, CutDown, Down', CutDown')
           /\ Len(Down') = Len(Down) + Len(e) /\ \A i \in 1..Len(e) : Down'[Len(Down) + i] = e[i]
           /\ Taken(Up, CutUp, Up', CutUp') /\ Up[1] = Head(to["server"])
           /\ MessageTypes' /\ Typed'
<1> DEFINE a == to["client"]
           b == from["server"]
           c == to["server"]
           d == from["client"]
<1>1. a \in Seq(Msg) /\ b \in Seq(Msg) /\ Len(e) \in Nat
  BY LenProperties DEF MessageTypes, Peers
<1>2. c \in Seq(Msg) /\ d \in Seq(Msg) /\ c # <<>>
  BY DEF MessageTypes, Peers
<1>3. /\ from'["server"] = b \o e /\ from'["client"] = d
      /\ to'["client"] = a /\ to'["server"] = Tail(c)
  BY DEF MessageTypes, Peers, SendFrom
<1>. HIDE DEF a, b, c, d
<1>4. /\ Extended(a \o b, Len(a), a \o (b \o e), Len(a))
      /\ Len(a \o (b \o e)) = Len(a \o b) + Len(e)
      /\ \A i \in 1..Len(e) : (a \o (b \o e))[Len(a \o b) + i] = e[i]
      /\ b \o e \in Seq(Msg)
  BY <1>1, Extend
<1>5. /\ Taken(c \o d, Len(c), Tail(c) \o d, Len(Tail(c)))
      /\ (c \o d)[1] = Head(c) /\ Tail(c) \in Seq(Msg)
  BY <1>2, Take
<1>6. /\ Extended(Down, CutDown, Down', CutDown')
      /\ Len(Down') = Len(Down) + Len(e) /\ \A i \in 1..Len(e) : Down'[Len(Down) + i] = e[i]
  BY <1>3, <1>4 DEF Down, CutDown, a, b
<1>7. Taken(Up, CutUp, Up', CutUp') /\ Up[1] = Head(to["server"])
  BY <1>3, <1>5 DEF Up, CutUp, c, d
<1>8. from' \in [Peers -> Seq(Msg)] /\ to' \in [Peers -> Seq(Msg)]
  <2>1. from' = [from EXCEPT !["server"] = b \o e]
    BY DEF SendFrom, b
  <2>. QED BY <1>4, <1>5, <2>1 DEF MessageTypes, Peers, c
<1>9. Typed
  BY AlwaysTyped
<1>10. \A k \in 1..Len(Down') : DownMessage(Down'[k])
  <2>1. ASSUME NEW k \in 1..Len(Down')
        PROVE  DownMessage(Down'[k])
    <3>1. CASE k <= Len(Down)
      BY <1>6, <1>9, <3>1 DEF Extended, Typed, MessageTypes
    <3>2. CASE k > Len(Down)
      <4>1. k - Len(Down) \in 1..Len(e) /\ Len(Down) + (k - Len(Down)) = k
        BY <1>1, <1>6, <1>9, <3>2 DEF Typed
      <4>2. Down'[Len(Down) + (k - Len(Down))] = e[k - Len(Down)]
        BY <1>6, <4>1
      <4>. QED BY <4>1, <4>2
    <3>. QED BY <1>9, <3>1, <3>2 DEF Typed
  <2>. QED BY <2>1
<1>11. \A k \in 1..Len(Up') : UpMessage(Up'[k])
  <2>1. ASSUME NEW k \in 1..Len(Up')
        PROVE  Up'[k] = Up[k + 1] /\ k + 1 \in 1..Len(Up)
    BY <1>7, <1>9 DEF Taken, Typed
  <2>. QED BY <2>1 DEF MessageTypes
<1>. QED BY <1>6, <1>7, <1>8, <1>10, <1>11, WayTypes

-----------------------------------------------------------------------------
(* The message the mediator has before it.                                 *)

LEMMA LiveOrUnknown ==
    ASSUME MapTypes, NEW id \in Ids
    PROVE  IsLive(id) <=> Known(id) # NoInterface
<1>1. ASSUME IsLive(id)
      PROVE  Entry(id).interface # NoInterface
  <2>1. clientMap \in Seq(IdMapEntry) /\ serverMap \in Seq(IdMapEntry) /\ id \in Nat
    BY IdKinds DEF MapTypes, Ids
  <2>2. MapOf(id) \in Seq(IdMapEntry) /\ NoBlank(MapOf(id))
    BY <2>1 DEF MapOf, MapTypes
  <2>3. IndexOf(id) \in 1..Len(MapOf(id))
    <3>1. IndexOf(id) <= Len(MapOf(id)) /\ Len(MapOf(id)) \in Nat
      BY <1>1, <2>2, LenProperties DEF IsLive, HasEntry
    <3>2. IndexOf(id) \in Nat /\ IndexOf(id) >= 1
      BY <2>1, IdKinds DEF IndexOf, IsServerId
    <3>. QED BY <3>1, <3>2
  <2>4. Entry(id) \in IdMapEntry /\ Entry(id) # Live(NoInterface)
    BY <2>2, <2>3, ElementOfSeq DEF Entry, NoBlank
  <2>5. Entry(id).tag = "Live"
    BY <1>1 DEF IsLive
  <2>. QED BY <2>4, <2>5 DEF Live, IdMapEntry
<1>. QED BY <1>1 DEF Known

LEMMA IInvTyped == ASSUME IInv PROVE Typed /\ MessageTypes /\ MapTypes /\ PeerTypes
  BY AlwaysTyped DEF IInv, Types

\* A message that goes up is read with the interface the client meant.
LEMMA UpAgrees ==
    ASSUME IInv, CutUp < Len(Up)
    PROVE  LET m == Up[CutUp + 1]
           IN  /\ CutUp + 1 \in 1..Len(Up) /\ m \in Msg /\ UpMessage(m)
               /\ IsLive(m.target) /\ Known(m.target) = m.interface
<1> DEFINE m == Up[CutUp + 1]
<1>1. Typed /\ MessageTypes /\ MapTypes
  BY IInvTyped
<1>2. CutUp + 1 \in 1..Len(Up) /\ m \in Msg /\ UpMessage(m)
  BY <1>1 DEF Typed, MessageTypes
<1>3. m.target \in Ids /\ m.interface \in Interfaces
  BY <1>2 DEF Msg
<1>4. ASSUME m.target \in ClientIds
      PROVE  Known(m.target) = m.interface
  <2> DEFINE c == m.target
  <2>1. ClientIdInv(c)
    BY <1>4 DEF IInv
  <2>2. /\ m.interface = mine[c].interface
        /\ objects[c] # NoInterface \/ \E j \in 1..Len(Up) : Creates(Up[j], c)
    BY <1>2, <2>1 DEF ClientIdInv, Asked
  <2>3. CASE objects[c] # NoInterface
    BY <2>1, <2>2, <2>3 DEF ClientIdInv, Held
  <2>4. ASSUME NEW j \in 1..Len(Up), Creates(Up[j], c)
        PROVE  Known(c) = m.interface
    <3>1. j < CutUp + 1
      BY <1>2, <2>1, <2>4 DEF ClientIdInv, Coming
    <3>2. j <= CutUp
      BY <1>1, <3>1 DEF Typed
    <3>. QED BY <2>1, <2>2, <2>4, <3>2 DEF ClientIdInv, Coming
  <2>5. Known(c) = m.interface
    BY <2>2, <2>3, <2>4
  <2>. QED BY <2>5
<1>5. Known(m.target) = m.interface
  <2>1. CASE m.target \in ServerIds
    <3>1. ServerIdInv(m.target)
      BY <2>1 DEF IInv
    <3>2. m.interface = offers[m.target] /\ Known(m.target) = offers[m.target]
      BY <1>2, <3>1 DEF ServerIdInv, AskedOffer
    <3>. QED BY <3>2
  <2>. QED BY <1>3, <1>4, <2>1 DEF Ids
<1>6. IsLive(m.target)
  BY <1>1, <1>3, <1>5, LiveOrUnknown, Interfaced
<1>. QED BY <1>2, <1>5, <1>6

\* A message that goes down is read with the interface the server meant.
LEMMA DownAgrees ==
    ASSUME IInv, CutDown < Len(Down)
    PROVE  LET m == Down[CutDown + 1]
           IN  /\ CutDown + 1 \in 1..Len(Down) /\ m \in Msg /\ DownMessage(m)
               /\ IsLive(m.target) /\ Known(m.target) = m.interface
<1> DEFINE m == Down[CutDown + 1]
<1>1. Typed /\ MessageTypes /\ MapTypes
  BY IInvTyped
<1>2. CutDown + 1 \in 1..Len(Down) /\ m \in Msg /\ DownMessage(m)
  BY <1>1 DEF Typed, MessageTypes
<1>3. m.target \in Ids /\ m.interface \in Interfaces
  BY <1>2 DEF Msg
<1>4. ASSUME m.target \in ClientIds
      PROVE  Known(m.target) = m.interface
  <2> DEFINE c == m.target
  <2>1. ClientIdInv(c)
    BY <1>4 DEF IInv
  <2>2. /\ m.interface = mine[c].interface
        /\ objects[c] # NoInterface \/ \E j \in 1..Len(Down) : Deletes(Down[j], c)
    BY <1>2, <2>1 DEF ClientIdInv, Told
  <2>3. CASE objects[c] # NoInterface
    BY <2>1, <2>2, <2>3 DEF ClientIdInv, Held
  <2>4. ASSUME NEW j \in 1..Len(Down), Deletes(Down[j], c)
        PROVE  Known(c) = m.interface
    <3>1. CutDown + 1 < j
      BY <1>2, <2>1, <2>4 DEF ClientIdInv, Going
    <3>2. ~(j <= CutDown)
      BY <1>1, <3>1 DEF Typed
    <3>. QED BY <2>1, <2>2, <2>4, <3>2 DEF ClientIdInv, Going
  <2>. QED BY <2>2, <2>3, <2>4
<1>5. Known(m.target) = m.interface
  <2>1. CASE m.target \in ServerIds
    <3>1. ServerIdInv(m.target)
      BY <2>1 DEF IInv
    <3>2. ~\E j \in 1..Len(Down) : CutDown < j /\ j < CutDown + 1 /\ Creates(Down[j], m.target)
      BY <1>1 DEF Typed
    <3>. QED BY <1>1, <1>2, <3>1, <3>2 DEF ServerIdInv, ToldOffer, Typed
  <2>. QED BY <1>3, <1>4, <2>1 DEF Ids
<1>6. IsLive(m.target)
  BY <1>1, <1>3, <1>5, LiveOrUnknown, Interfaced
<1>. QED BY <1>2, <1>5, <1>6

\* A creation that goes up is of the next id of its range, or of one that was deleted.
LEMMA UpCanAdd ==
    ASSUME IInv, CutUp < Len(Up), NEW c \in ClientIds, Creates(Up[CutUp + 1], c)
    PROVE  CanAdd(c)
<1>1. Typed /\ MapTypes
  BY IInvTyped
<1>2. CutUp + 1 \in 1..Len(Up) /\ CutUp + 1 > CutUp /\ ~(CutUp + 1 <= CutUp)
  BY <1>1 DEF Typed
<1>3. Known(c) = NoInterface
  <2>1. Coming(c)
    BY DEF IInv, ClientIdInv
  <2>. QED BY <1>2, <2>1 DEF Coming
<1>4. ~IsLive(c)
  BY <1>1, <1>3, LiveOrUnknown DEF Ids
<1>5. c \in Nat /\ c >= 1 /\ ~(c >= ServerStart)
  BY IdKinds
<1>6. Len(clientMap) \in Nat /\ Len(clientMap) >= 2
  BY <1>1, LenProperties DEF MapTypes
<1>7. c + 1 <= Len(clientMap) + 1
  <2>1. CASE c = 1
    BY <1>6, <2>1
  <2>2. CASE c # 1
    <3>1. c - 1 \in ClientIds /\ c - 1 < c
      BY <1>5, <2>2, IdsAssumption DEF ClientIds
    <3>2. HasEntry(c - 1) \/ \E j \in 1..Len(Up) : CutUp < j /\ j < CutUp + 1 /\ Creates(Up[j], c - 1)
      BY <1>2, <3>1 DEF IInv, NoGap
    <3>3. HasEntry(c - 1)
      BY <1>1, <3>2 DEF Typed
    <3>4. c - 1 \in Nat /\ ~(c - 1 >= ServerStart)
      BY <3>1, IdKinds
    <3>5. (c - 1) + 1 <= Len(clientMap)
      BY <3>3, <3>4, KnownByMap
    <3>. QED BY <1>5, <1>6, <3>5
  <2>. QED BY <2>1, <2>2
<1>. QED BY <1>4, <1>5, <1>7 DEF CanAdd, IndexOf, MapOf, IsServerId

LEMMA DownCanAdd ==
    ASSUME IInv, CutDown < Len(Down), NEW s \in ServerIds, Creates(Down[CutDown + 1], s)
    PROVE  CanAdd(s)
<1>1. Typed /\ MapTypes
  BY IInvTyped
<1>2. CutDown + 1 \in 1..Len(Down) /\ CutDown + 1 > CutDown
  BY <1>1 DEF Typed
<1>3. s \in Nat /\ s >= ServerStart /\ ServerStart \in Nat
  BY IdKinds
<1>4. Len(serverMap) \in Nat
  BY <1>1, LenProperties DEF MapTypes
<1>5. s - ServerStart + 1 <= Len(serverMap) + 1
  <2>1. CASE s = ServerStart
    BY <1>3, <1>4, <2>1
  <2>2. CASE s # ServerStart
    <3>1. s - 1 \in ServerIds /\ s - 1 < s
      BY <1>3, <2>2, IdsAssumption DEF ServerIds
    <3>2. HasEntry(s - 1) \/ \E j \in 1..Len(Down) : CutDown < j /\ j < CutDown + 1 /\ Creates(Down[j], s - 1)
      BY <1>2, <3>1 DEF IInv, NoGapAbove
    <3>3. HasEntry(s - 1)
      BY <1>1, <3>2 DEF Typed
    <3>4. s - 1 \in Nat /\ s - 1 >= ServerStart
      BY <3>1, IdKinds
    <3>5. (s - 1) - ServerStart + 1 <= Len(serverMap)
      BY <3>3, <3>4, KnownByMap
    <3>. QED BY <1>3, <1>4, <3>5
  <2>. QED BY <2>1, <2>2
<1>. QED BY <1>3, <1>5 DEF CanAdd, IndexOf, MapOf, IsServerId

-----------------------------------------------------------------------------
(* What is kept under way.                                                 *)

LEMMA UpKeeps ==
    ASSUME Typed, Typed', NEW R, NEW D \in SUBSET R,
           \/ /\ Extended(Up, CutUp, Up', CutUp')
              /\ \A k \in 1..Len(Up') : k > Len(Up) => Up'[k] \notin R
           \/ Taken(Up, CutUp, Up', CutUp') /\ Up[1] \notin D
           \/ Passed(Up, CutUp, Up', CutUp') /\ Up[CutUp + 1] \notin D
           \/ Dropped(Up, CutUp, Up', CutUp') /\ Up[CutUp + 1] \notin D
    PROVE  Keeps(Up, CutUp, Up', CutUp', R, D)
<1>1. Up \in Seq(Msg) /\ Up' \in Seq(Msg) /\ CutUp \in Nat /\ CutUp' \in Nat
  BY DEF Typed
<1>2. CASE /\ Extended(Up, CutUp, Up', CutUp')
           /\ \A k \in 1..Len(Up') : k > Len(Up) => Up'[k] \notin R
  BY <1>1, <1>2, KeepsExtended
<1>3. CASE Taken(Up, CutUp, Up', CutUp') /\ Up[1] \notin D
  BY <1>1, <1>3, KeepsTaken
<1>4. CASE Passed(Up, CutUp, Up', CutUp') /\ Up[CutUp + 1] \notin D
  BY <1>1, <1>4, KeepsPassed
<1>5. CASE Dropped(Up, CutUp, Up', CutUp') /\ Up[CutUp + 1] \notin D
  BY <1>1, <1>5, KeepsDropped
<1>. QED BY <1>2, <1>3, <1>4, <1>5

LEMMA DownKeeps ==
    ASSUME Typed, Typed', NEW R, NEW D \in SUBSET R,
           \/ /\ Extended(Down, CutDown, Down', CutDown')
              /\ \A k \in 1..Len(Down') : k > Len(Down) => Down'[k] \notin R
           \/ Taken(Down, CutDown, Down', CutDown') /\ Down[1] \notin D
           \/ Passed(Down, CutDown, Down', CutDown') /\ Down[CutDown + 1] \notin D
           \/ Dropped(Down, CutDown, Down', CutDown') /\ Down[CutDown + 1] \notin D
    PROVE  Keeps(Down, CutDown, Down', CutDown', R, D)
<1>1. Down \in Seq(Msg) /\ Down' \in Seq(Msg) /\ CutDown \in Nat /\ CutDown' \in Nat
  BY DEF Typed
<1>2. CASE /\ Extended(Down, CutDown, Down', CutDown')
           /\ \A k \in 1..Len(Down') : k > Len(Down) => Down'[k] \notin R
  BY <1>1, <1>2, KeepsExtended
<1>3. CASE Taken(Down, CutDown, Down', CutDown') /\ Down[1] \notin D
  BY <1>1, <1>3, KeepsTaken
<1>4. CASE Passed(Down, CutDown, Down', CutDown') /\ Down[CutDown + 1] \notin D
  BY <1>1, <1>4, KeepsPassed
<1>5. CASE Dropped(Down, CutDown, Down', CutDown') /\ Down[CutDown + 1] \notin D
  BY <1>1, <1>5, KeepsDropped
<1>. QED BY <1>2, <1>3, <1>4, <1>5

LEMMA UpStays ==
    ASSUME Typed, Typed', Up' = Up, CutUp' = CutUp
    PROVE  /\ Extended(Up, CutUp, Up', CutUp')
           /\ \A R : \A D \in SUBSET R : Keeps(Up, CutUp, Up', CutUp', R, D)
<1>1. Extended(Up, CutUp, Up', CutUp') /\ \A k \in 1..Len(Up') : ~(k > Len(Up))
  BY DEF Extended, Typed
<1>. QED BY <1>1, UpKeeps

LEMMA DownStays ==
    ASSUME Typed, Typed', Down' = Down, CutDown' = CutDown
    PROVE  /\ Extended(Down, CutDown, Down', CutDown')
           /\ \A R : \A D \in SUBSET R : Keeps(Down, CutDown, Down', CutDown', R, D)
<1>1. Extended(Down, CutDown, Down', CutDown') /\ \A k \in 1..Len(Down') : ~(k > Len(Down))
  BY DEF Extended, Typed
<1>. QED BY <1>1, DownKeeps

LEMMA MarkingAbout ==
    /\ \A id : Marking(id) \in SUBSET About(id)
    /\ \A id : {} \in SUBSET About(id)
    /\ \A m \in Msg : \A id : m \in Marking(id) <=> Creates(m, id) \/ Deletes(m, id)
    /\ \A m \in Msg : \A id : m \in About(id) <=> m.target = id \/ Creates(m, id) \/ Deletes(m, id)
  BY DEF Marking, About

\* What messages can create or delete.
LEMMA UpMarks ==
    ASSUME NEW m \in Msg, UpMessage(m)
    PROVE  /\ \A id : ~Deletes(m, id)
           /\ \A id : Creates(m, id) =>
                 /\ id \in ClientIds \ {Display} /\ m.op \in {"get", "sync"} /\ m.target = Display
                 /\ m.newInterface \in ClientInterfaces \cup {"callback"}
           /\ m.op \in {"request", "destroy"} => ~CreatesObject(m) /\ \A id : ~Creates(m, id)
           /\ m.op # "delete_id"
  BY IdKinds DEF UpMessage, Deletes, Creates, CreatesObject, IsServerId

LEMMA DownMarks ==
    ASSUME NEW m \in Msg, DownMessage(m)
    PROVE  /\ \A id : Deletes(m, id) =>
                 /\ id \in (ClientIds \ {Display}) \cup {HandshakeId} /\ m.op = "delete_id"
                 /\ m.target = Display
           /\ \A id : Creates(m, id) =>
                 /\ id \in ServerIds /\ m.op = "offer" /\ m.newInterface \in ServerInterfaces
                 /\ m.target \in ClientIds \ {Display}
           /\ m.op \in {"event", "done"} => /\ ~CreatesObject(m)
                                            /\ \A id : ~Creates(m, id) /\ ~Deletes(m, id)
  BY IdKinds DEF DownMessage, Deletes, Creates, CreatesObject, IsServerId

LEMMA MapsSame ==
    ASSUME clientMap' = clientMap, serverMap' = serverMap
    PROVE  /\ \A id : Known(id)' = Known(id)
           /\ \A id : HasEntry(id)' <=> HasEntry(id)
           /\ MapTypes => MapTypes'
  BY DEF Known, IsLive, HasEntry, Entry, MapOf, IndexOf, MapTypes, NoBlank

\* A step that marks nothing.
LEMMA Undisturbed ==
    ASSUME IInv, Types', Typed',
           \A c \in ClientIds :
              /\ Keeps(Up, CutUp, Up', CutUp', About(c), Marking(c))
              /\ Keeps(Down, CutDown, Down', CutDown', About(c), Marking(c)),
           \A s \in ServerIds :
              /\ Keeps(Up, CutUp, Up', CutUp', About(s), {})
              /\ Keeps(Down, CutDown, Down', CutDown', About(s), Marking(s)),
           Keeps(Up, CutUp, Up', CutUp', Creations(ClientIds), Creations(ClientIds)),
           Keeps(Down, CutDown, Down', CutDown', Creations(ServerIds), Creations(ServerIds)),
           mine' = mine, objects' = objects, offered' = offered, offers' = offers,
           \A id \in Ids : Known(id)' = Known(id) /\ (HasEntry(id)' <=> HasEntry(id))
    PROVE  IInv'
<1>1. Typed
  BY IInvTyped
<1>2. ASSUME NEW c \in ClientIds
      PROVE  ClientIdInv(c)'
  <2>1. ClientIdInv(c) /\ Known(c)' = Known(c) /\ mine'[c] = mine[c] /\ objects'[c] = objects[c]
    BY DEF IInv, Ids
  <2>. QED BY <1>1, <2>1, ClientIdKept
<1>3. ASSUME NEW s \in ServerIds
      PROVE  ServerIdInv(s)'
  <2>1. ServerIdInv(s) /\ Known(s)' = Known(s) /\ offered'[s] = offered[s] /\ offers'[s] = offers[s]
    BY DEF IInv, Ids
  <2>. QED BY <1>1, <2>1, ServerIdKept
<1>4. NoGap'
  BY <1>1, NoGapKept DEF IInv, Ids
<1>5. NoGapAbove'
  BY <1>1, NoGapAboveKept DEF IInv, Ids
<1>6. DisplayLives'
  BY DEF IInv, DisplayLives
<1>. QED BY <1>2, <1>3, <1>4, <1>5, <1>6 DEF IInv

LEMMA ClientDropStep ==
    ASSUME IInv, MediateDropped("client")
    PROVE  IInv'
<1>1. from["client"] # <<>> /\ Typed /\ MessageTypes
  BY IInvTyped DEF MediateDropped
<1>2. /\ Dropped(Up, CutUp, Up', CutUp') /\ Up[CutUp + 1] = Head(from["client"])
      /\ Down' = Down /\ CutDown' = CutDown /\ MessageTypes' /\ Typed'
  BY <1>1, ClientDrops DEF MediateDropped
<1> DEFINE m == Up[CutUp + 1]
<1>3. m \in Msg /\ UpMessage(m) /\ IsLive(m.target)
  BY <1>2, UpAgrees DEF Dropped
<1>4. m.op \in {"request", "destroy"}
  BY <1>2, <1>3 DEF MediateDropped, MayBeDropped, UpMessage
<1>5. \A id : ~Creates(m, id) /\ ~Deletes(m, id)
  BY <1>3, <1>4, UpMarks
<1>6. UNCHANGED <<clientMap, serverMap, mine, offered, objects, offers>> /\ panicked' = FALSE
  BY <1>2, <1>3 DEF MediateDropped, clientVars, serverVars
<1>7. Types'
  BY <1>2, <1>6, MapsSame DEF IInv, Types, PeerTypes
<1>8. \A id : m \notin Marking(id) /\ \A ids : m \notin Creations(ids)
  BY <1>3, <1>5, MarkingAbout DEF Creations
<1>. HIDE DEF m
<1>9. \A R : \A D \in SUBSET R : m \notin D => Keeps(Up, CutUp, Up', CutUp', R, D)
  BY <1>1, <1>2, UpKeeps DEF m
<1>10. \A R : \A D \in SUBSET R : Keeps(Down, CutDown, Down', CutDown', R, D)
  BY <1>1, <1>2, DownStays
<1>11. /\ \A id : Keeps(Up, CutUp, Up', CutUp', About(id), Marking(id))
       /\ \A id : Keeps(Up, CutUp, Up', CutUp', About(id), {})
       /\ \A id : Keeps(Down, CutDown, Down', CutDown', About(id), Marking(id))
       /\ Keeps(Up, CutUp, Up', CutUp', Creations(ClientIds), Creations(ClientIds))
       /\ Keeps(Down, CutDown, Down', CutDown', Creations(ServerIds), Creations(ServerIds))
  BY <1>8, <1>9, <1>10, MarkingAbout
<1>12. \A id \in Ids : Known(id)' = Known(id) /\ (HasEntry(id)' <=> HasEntry(id))
  BY <1>6, MapsSame
<1>. QED BY <1>2, <1>6, <1>7, <1>11, <1>12, Undisturbed

LEMMA ServerDropStep ==
    ASSUME IInv, MediateDropped("server")
    PROVE  IInv'
<1>1. from["server"] # <<>> /\ Typed /\ MessageTypes
  BY IInvTyped DEF MediateDropped
<1>2. /\ Dropped(Down, CutDown, Down', CutDown') /\ Down[CutDown + 1] = Head(from["server"])
      /\ Up' = Up /\ CutUp' = CutUp /\ MessageTypes' /\ Typed'
  BY <1>1, ServerDrops DEF MediateDropped
<1> DEFINE m == Down[CutDown + 1]
<1>3. m \in Msg /\ DownMessage(m) /\ IsLive(m.target)
  BY <1>2, DownAgrees DEF Dropped
<1>4. m.op \in {"event", "done"}
  BY <1>2, <1>3 DEF MediateDropped, MayBeDropped, DownMessage
<1>5. \A id : ~Creates(m, id) /\ ~Deletes(m, id)
  BY <1>3, <1>4, DownMarks
<1>6. UNCHANGED <<clientMap, serverMap, mine, offered, objects, offers>> /\ panicked' = FALSE
  BY <1>2, <1>3 DEF MediateDropped, clientVars, serverVars
<1>7. Types'
  BY <1>2, <1>6, MapsSame DEF IInv, Types, PeerTypes
<1>8. \A id : m \notin Marking(id) /\ \A ids : m \notin Creations(ids)
  BY <1>3, <1>5, MarkingAbout DEF Creations
<1>. HIDE DEF m
<1>9. \A R : \A D \in SUBSET R : m \notin D => Keeps(Down, CutDown, Down', CutDown', R, D)
  BY <1>1, <1>2, DownKeeps DEF m
<1>10. \A R : \A D \in SUBSET R : Keeps(Up, CutUp, Up', CutUp', R, D)
  BY <1>1, <1>2, UpStays
<1>11. /\ \A id : Keeps(Down, CutDown, Down', CutDown', About(id), Marking(id))
       /\ \A id : Keeps(Up, CutUp, Up', CutUp', About(id), {})
       /\ \A id : Keeps(Up, CutUp, Up', CutUp', About(id), Marking(id))
       /\ Keeps(Up, CutUp, Up', CutUp', Creations(ClientIds), Creations(ClientIds))
       /\ Keeps(Down, CutDown, Down', CutDown', Creations(ServerIds), Creations(ServerIds))
  BY <1>8, <1>9, <1>10, MarkingAbout
<1>12. \A id \in Ids : Known(id)' = Known(id) /\ (HasEntry(id)' <=> HasEntry(id))
  BY <1>6, MapsSame
<1>. QED BY <1>2, <1>6, <1>7, <1>11, <1>12, Undisturbed


-----------------------------------------------------------------------------
(* How the steps change what is under way, message by message.             *)

LEMMA UpGrows ==
    ASSUME Typed, Typed', NEW x, Extended(Up, CutUp, Up', CutUp'),
           Len(Up') = Len(Up) + 1, Up'[Len(Up) + 1] = x
    PROVE  /\ \A k \in 1..Len(Up') : \/ k \in 1..Len(Up) /\ Up'[k] = Up[k]
                                     \/ k = Len(Up) + 1 /\ Up'[k] = x
           /\ \A k \in 1..Len(Up) : k \in 1..Len(Up') /\ Up'[k] = Up[k]
           /\ Len(Up) + 1 \in 1..Len(Up') /\ Len(Up) + 1 > CutUp
           /\ \A R : x \notin R => \A D \in SUBSET R : Keeps(Up, CutUp, Up', CutUp', R, D)
<1>1. \A k \in 1..Len(Up') : \/ k \in 1..Len(Up) /\ Up'[k] = Up[k]
                             \/ k = Len(Up) + 1 /\ Up'[k] = x
  BY DEF Extended, Typed
<1>2. \A k \in 1..Len(Up) : k \in 1..Len(Up') /\ Up'[k] = Up[k]
  BY DEF Extended, Typed
<1>3. Len(Up) + 1 \in 1..Len(Up') /\ Len(Up) + 1 > CutUp
  BY DEF Typed
<1>4. ASSUME NEW R, x \notin R
      PROVE  \A D \in SUBSET R : Keeps(Up, CutUp, Up', CutUp', R, D)
  <2>1. \A k \in 1..Len(Up') : k > Len(Up) => Up'[k] \notin R
    BY <1>1, <1>4 DEF Typed
  <2>. QED BY <2>1, UpKeeps
<1>. QED BY <1>1, <1>2, <1>3, <1>4

LEMMA DownGrows ==
    ASSUME Typed, Typed', NEW x, Extended(Down, CutDown, Down', CutDown'),
           Len(Down') = Len(Down) + 1, Down'[Len(Down) + 1] = x
    PROVE  /\ \A k \in 1..Len(Down') : \/ k \in 1..Len(Down) /\ Down'[k] = Down[k]
                                       \/ k = Len(Down) + 1 /\ Down'[k] = x
           /\ \A k \in 1..Len(Down) : k \in 1..Len(Down') /\ Down'[k] = Down[k]
           /\ Len(Down) + 1 \in 1..Len(Down') /\ Len(Down) + 1 > CutDown
           /\ \A R : x \notin R => \A D \in SUBSET R : Keeps(Down, CutDown, Down', CutDown', R, D)
<1>1. \A k \in 1..Len(Down') : \/ k \in 1..Len(Down) /\ Down'[k] = Down[k]
                               \/ k = Len(Down) + 1 /\ Down'[k] = x
  BY DEF Extended, Typed
<1>2. \A k \in 1..Len(Down) : k \in 1..Len(Down') /\ Down'[k] = Down[k]
  BY DEF Extended, Typed
<1>3. Len(Down) + 1 \in 1..Len(Down') /\ Len(Down) + 1 > CutDown
  BY DEF Typed
<1>4. ASSUME NEW R, x \notin R
      PROVE  \A D \in SUBSET R : Keeps(Down, CutDown, Down', CutDown', R, D)
  <2>1. \A k \in 1..Len(Down') : k > Len(Down) => Down'[k] \notin R
    BY <1>1, <1>4 DEF Typed
  <2>. QED BY <2>1, DownKeeps
<1>. QED BY <1>1, <1>2, <1>3, <1>4

LEMMA UpShrinks ==
    ASSUME Typed, Typed', Taken(Up, CutUp, Up', CutUp')
    PROVE  /\ 1 \in 1..Len(Up) /\ 1 <= CutUp
           /\ \A k \in 1..Len(Up') : /\ k + 1 \in 1..Len(Up) /\ k + 1 # 1 /\ Up'[k] = Up[k + 1]
                                     /\ k > CutUp' => k + 1 > CutUp
           /\ \A k \in 1..Len(Up) : k > CutUp =>
                 k - 1 \in 1..Len(Up') /\ k - 1 > CutUp' /\ Up'[k - 1] = Up[k]
           /\ \A R : \A D \in SUBSET R : Up[1] \notin D => Keeps(Up, CutUp, Up', CutUp', R, D)
<1>1. 1 \in 1..Len(Up) /\ 1 <= CutUp
  BY DEF Taken, Typed
<1>2. \A k \in 1..Len(Up') : /\ k + 1 \in 1..Len(Up) /\ k + 1 # 1 /\ Up'[k] = Up[k + 1]
                             /\ k > CutUp' => k + 1 > CutUp
  BY SMTT(60) DEF Taken, Typed
<1>3. ASSUME NEW k \in 1..Len(Up), k > CutUp
      PROVE  k - 1 \in 1..Len(Up') /\ k - 1 > CutUp' /\ Up'[k - 1] = Up[k]
  <2>1. k - 1 \in 1..Len(Up') /\ k - 1 > CutUp' /\ (k - 1) + 1 = k
    BY <1>3 DEF Taken, Typed
  <2>. QED BY <2>1 DEF Taken
<1>4. \A R : \A D \in SUBSET R : Up[1] \notin D => Keeps(Up, CutUp, Up', CutUp', R, D)
  BY UpKeeps
<1>. QED BY <1>1, <1>2, <1>3, <1>4

LEMMA DownShrinks ==
    ASSUME Typed, Typed', Taken(Down, CutDown, Down', CutDown')
    PROVE  /\ 1 \in 1..Len(Down) /\ 1 <= CutDown
           /\ \A k \in 1..Len(Down') : /\ k + 1 \in 1..Len(Down) /\ k + 1 # 1 /\ Down'[k] = Down[k + 1]
                                       /\ k > CutDown' => k + 1 > CutDown
           /\ \A k \in 1..Len(Down) : k > CutDown =>
                 k - 1 \in 1..Len(Down') /\ k - 1 > CutDown' /\ Down'[k - 1] = Down[k]
           /\ \A R : \A D \in SUBSET R : Down[1] \notin D => Keeps(Down, CutDown, Down', CutDown', R, D)
<1>1. 1 \in 1..Len(Down) /\ 1 <= CutDown
  BY DEF Taken, Typed
<1>2. \A k \in 1..Len(Down') : /\ k + 1 \in 1..Len(Down) /\ k + 1 # 1 /\ Down'[k] = Down[k + 1]
                               /\ k > CutDown' => k + 1 > CutDown
  BY DEF Taken, Typed
<1>3. ASSUME NEW k \in 1..Len(Down), k > CutDown
      PROVE  k - 1 \in 1..Len(Down') /\ k - 1 > CutDown' /\ Down'[k - 1] = Down[k]
  <2>1. k - 1 \in 1..Len(Down') /\ k - 1 > CutDown' /\ (k - 1) + 1 = k
    BY <1>3 DEF Taken, Typed
  <2>. QED BY <2>1 DEF Taken
<1>4. \A R : \A D \in SUBSET R : Down[1] \notin D => Keeps(Down, CutDown, Down', CutDown', R, D)
  BY DownKeeps
<1>. QED BY <1>1, <1>2, <1>3, <1>4

\* A creation that arrives has been added before: no gap opens.
LEMMA NoGapShrinks ==
    ASSUME Typed, Typed', NoGap, Taken(Up, CutUp, Up', CutUp'),
           \A c \in ClientIds : (mine'[c].state = "new" <=> mine[c].state = "new")
                                /\ (HasEntry(c)' <=> HasEntry(c))
    PROVE  NoGap'
<1>1. /\ \A k \in 1..Len(Up') : /\ k + 1 \in 1..Len(Up) /\ Up'[k] = Up[k + 1]
                                /\ k > CutUp' => k + 1 > CutUp
      /\ \A k \in 1..Len(Up) : k > CutUp =>
            k - 1 \in 1..Len(Up') /\ k - 1 > CutUp' /\ Up'[k - 1] = Up[k]
  BY UpShrinks
<1>2. \A c, d \in ClientIds : c < d /\ mine'[c].state = "new" => mine'[d].state = "new"
  BY DEF NoGap
<1>3. \A c \in ClientIds : mine'[c].state # "new" => HasEntry(c)' \/ Waiting(c)'
  <2>1. \A c \in ClientIds : Waiting(c) => Waiting(c)'
    BY <1>1 DEF Waiting
  <2>. QED BY <2>1 DEF NoGap
<1>4. ASSUME NEW k \in 1..Len(Up'), NEW c \in ClientIds, NEW d \in ClientIds,
             k > CutUp', Creates(Up'[k], d), c < d, ~HasEntry(c)'
      PROVE  \E j \in 1..Len(Up') : CutUp' < j /\ j < k /\ Creates(Up'[j], c)
  <2>1. k + 1 \in 1..Len(Up) /\ k + 1 > CutUp /\ Creates(Up[k + 1], d)
    BY <1>1, <1>4
  <2>2. PICK j \in 1..Len(Up) : CutUp < j /\ j < k + 1 /\ Creates(Up[j], c)
    BY <1>4, <2>1 DEF NoGap
  <2>3. j > CutUp
    BY <2>2 DEF Typed
  <2>4. j - 1 \in 1..Len(Up') /\ j - 1 > CutUp' /\ Up'[j - 1] = Up[j]
    BY <1>1, <2>3
  <2>5. CutUp' < j - 1 /\ j - 1 < k
    BY <2>2, <2>4 DEF Typed
  <2>. QED BY <2>2, <2>4, <2>5
<1>. QED BY <1>2, <1>3, <1>4 DEF NoGap

LEMMA NoGapAboveShrinks ==
    ASSUME Typed, Typed', NoGapAbove, Taken(Down, CutDown, Down', CutDown'),
           \A s \in ServerIds : (offers'[s] = "new" <=> offers[s] = "new")
                                /\ (HasEntry(s)' <=> HasEntry(s))
    PROVE  NoGapAbove'
<1>1. /\ \A k \in 1..Len(Down') : /\ k + 1 \in 1..Len(Down) /\ Down'[k] = Down[k + 1]
                                  /\ k > CutDown' => k + 1 > CutDown
      /\ \A k \in 1..Len(Down) : k > CutDown =>
            k - 1 \in 1..Len(Down') /\ k - 1 > CutDown' /\ Down'[k - 1] = Down[k]
  BY DownShrinks
<1>2. \A s, t \in ServerIds : s < t /\ offers'[s] = "new" => offers'[t] = "new"
  BY DEF NoGapAbove
<1>3. \A s \in ServerIds : offers'[s] # "new" => HasEntry(s)' \/ WaitingAbove(s)'
  <2>1. \A s \in ServerIds : WaitingAbove(s) => WaitingAbove(s)'
    BY <1>1 DEF WaitingAbove
  <2>. QED BY <2>1 DEF NoGapAbove
<1>4. ASSUME NEW k \in 1..Len(Down'), NEW s \in ServerIds, NEW t \in ServerIds,
             k > CutDown', Creates(Down'[k], t), s < t, ~HasEntry(s)'
      PROVE  \E j \in 1..Len(Down') : CutDown' < j /\ j < k /\ Creates(Down'[j], s)
  <2>1. k + 1 \in 1..Len(Down) /\ k + 1 > CutDown /\ Creates(Down[k + 1], t)
    BY <1>1, <1>4
  <2>2. PICK j \in 1..Len(Down) : CutDown < j /\ j < k + 1 /\ Creates(Down[j], s)
    BY <1>4, <2>1 DEF NoGapAbove
  <2>3. j > CutDown
    BY <2>2 DEF Typed
  <2>4. j - 1 \in 1..Len(Down') /\ j - 1 > CutDown' /\ Down'[j - 1] = Down[j]
    BY <1>1, <2>3
  <2>5. CutDown' < j - 1 /\ j - 1 < k
    BY <2>2, <2>4 DEF Typed
  <2>. QED BY <2>2, <2>4, <2>5
<1>. QED BY <1>2, <1>3, <1>4 DEF NoGapAbove

\* The display has no creation and no delete_id, and lives.
LEMMA DisplayInv ==
    Typed /\ MessageTypes /\ DisplayLives /\ mine[Display].interface = "display"
        /\ Known(Display) = "display" => ClientIdInv(Display)
<1>. SUFFICES ASSUME Typed, MessageTypes, DisplayLives, mine[Display].interface = "display",
                     Known(Display) = "display"
              PROVE  ClientIdInv(Display)
  OBVIOUS
<1>1. \A k \in 1..Len(Up) : /\ ~Creates(Up[k], Display)
                            /\ Up[k].target = Display => /\ Up[k].op # "destroy"
                                                         /\ Up[k].interface = "display"
  BY UpMarks DEF Typed, MessageTypes, UpMessage
<1>2. \A k \in 1..Len(Down) : /\ ~Deletes(Down[k], Display)
                              /\ Down[k].target = Display => Down[k].interface = "display"
  BY DownMarks, IdKinds DEF Typed, MessageTypes, DownMessage
<1>3. Used(Display)
  BY DEF Used, DisplayLives
<1>4. objects[Display] = "display" /\ objects[Display] # NoInterface
  BY DEF DisplayLives, NoInterface
<1>5. Coming(Display) /\ Asked(Display)
  BY <1>1, <1>3, <1>4 DEF Coming, Asked
<1>6. Going(Display) /\ Told(Display)
  BY <1>2, <1>3, <1>4 DEF Going, Told
<1>7. Held(Display) /\ Resting(Display) /\ Alive(Display)
  BY <1>3, <1>4 DEF Held, Resting, Alive, NoInterface
<1>. QED BY <1>5, <1>6, <1>7 DEF ClientIdInv

LEMMA DisplayInvNext ==
    (Typed /\ MessageTypes /\ DisplayLives /\ mine[Display].interface = "display"
        /\ Known(Display) = "display")' => ClientIdInv(Display)'
  BY DisplayInv, PTL

\* A step keeps the invariant if it does for the ids C of the client and T of the
\* server that it is about, and leaves no gap.
LEMMA Frame ==
    ASSUME IInv, Types', Typed', NEW C \in SUBSET ClientIds, NEW T \in SUBSET ServerIds,
           Display \notin C,
           \A c \in C : ClientIdInv(c)',
           \A s \in T : ServerIdInv(s)',
           \A c \in ClientIds : c \notin C /\ c # Display =>
              /\ Keeps(Up, CutUp, Up', CutUp', About(c), Marking(c))
              /\ Keeps(Down, CutDown, Down', CutDown', About(c), Marking(c)),
           \A s \in ServerIds : s \notin T =>
              /\ Keeps(Up, CutUp, Up', CutUp', About(s), {})
              /\ Keeps(Down, CutDown, Down', CutDown', About(s), Marking(s)),
           \A c \in ClientIds : c \notin C =>
              mine'[c] = mine[c] /\ objects'[c] = objects[c] /\ Known(c)' = Known(c),
           \A s \in ServerIds : s \notin T =>
              offered'[s] = offered[s] /\ offers'[s] = offers[s] /\ Known(s)' = Known(s),
           NoGap', NoGapAbove'
    PROVE  IInv'
<1>1. Typed
  BY IInvTyped
<1>2. Display \in ClientIds
  BY IdKinds
<1>3. DisplayLives'
  BY <1>2 DEF IInv, DisplayLives
<1>4. ClientIdInv(Display)'
  <2>1. DisplayLives /\ Held(Display)
    BY <1>2 DEF IInv, ClientIdInv
  <2>2. mine[Display].interface = "display" /\ Known(Display) = "display"
    BY <2>1 DEF DisplayLives, Held, NoInterface
  <2>3. mine'[Display].interface = "display" /\ Known(Display)' = "display"
    BY <1>2, <2>2
  <2>. QED BY <1>3, <2>3, DisplayInvNext DEF Types
<1>5. ASSUME NEW c \in ClientIds
      PROVE  ClientIdInv(c)'
  <2>1. CASE c \in C
    BY <2>1
  <2>2. CASE c = Display
    BY <1>4, <2>2
  <2>3. CASE c \notin C /\ c # Display
    <3>1. ClientIdInv(c)
      BY DEF IInv
    <3>. QED BY <1>1, <2>3, <3>1, ClientIdKept
  <2>. QED BY <2>1, <2>2, <2>3
<1>6. ASSUME NEW s \in ServerIds
      PROVE  ServerIdInv(s)'
  <2>1. CASE s \in T
    BY <2>1
  <2>2. CASE s \notin T
    <3>1. ServerIdInv(s)
      BY DEF IInv
    <3>. QED BY <1>1, <2>2, <3>1, ServerIdKept
  <2>. QED BY <2>1, <2>2
<1>. QED BY <1>3, <1>5, <1>6 DEF IInv

LEMMA FrameClient ==
    ASSUME IInv, Types', Typed', NEW c \in ClientIds, c # Display, ClientIdInv(c)',
           \A d \in ClientIds : d # c /\ d # Display =>
              /\ Keeps(Up, CutUp, Up', CutUp', About(d), Marking(d))
              /\ Keeps(Down, CutDown, Down', CutDown', About(d), Marking(d)),
           \A s \in ServerIds :
              /\ Keeps(Up, CutUp, Up', CutUp', About(s), {})
              /\ Keeps(Down, CutDown, Down', CutDown', About(s), Marking(s)),
           \A d \in ClientIds : d # c =>
              mine'[d] = mine[d] /\ objects'[d] = objects[d] /\ Known(d)' = Known(d),
           \A s \in ServerIds :
              offered'[s] = offered[s] /\ offers'[s] = offers[s] /\ Known(s)' = Known(s),
           NoGap', NoGapAbove'
    PROVE  IInv'
<1> DEFINE C == {c}
           T == {}
<1>1. /\ C \in SUBSET ClientIds /\ T \in SUBSET ServerIds /\ Display \notin C
      /\ (\A d \in C : d = c) /\ (\A d : d \notin C => d # c) /\ \A s : s \notin T
  OBVIOUS
<1>. HIDE DEF C, T
<1>2. (\A d \in C : ClientIdInv(d)') /\ \A s \in T : ServerIdInv(s)'
  BY <1>1
<1>3. /\ \A d \in ClientIds : d \notin C /\ d # Display =>
            /\ Keeps(Up, CutUp, Up', CutUp', About(d), Marking(d))
            /\ Keeps(Down, CutDown, Down', CutDown', About(d), Marking(d))
      /\ \A d \in ClientIds : d \notin C =>
            mine'[d] = mine[d] /\ objects'[d] = objects[d] /\ Known(d)' = Known(d)
  BY <1>1
<1>. QED BY <1>1, <1>2, <1>3, Frame

LEMMA FrameServer ==
    ASSUME IInv, Types', Typed', NEW s \in ServerIds, ServerIdInv(s)',
           \A d \in ClientIds : d # Display =>
              /\ Keeps(Up, CutUp, Up', CutUp', About(d), Marking(d))
              /\ Keeps(Down, CutDown, Down', CutDown', About(d), Marking(d)),
           \A t \in ServerIds : t # s =>
              /\ Keeps(Up, CutUp, Up', CutUp', About(t), {})
              /\ Keeps(Down, CutDown, Down', CutDown', About(t), Marking(t)),
           \A d \in ClientIds :
              mine'[d] = mine[d] /\ objects'[d] = objects[d] /\ Known(d)' = Known(d),
           \A t \in ServerIds : t # s =>
              offered'[t] = offered[t] /\ offers'[t] = offers[t] /\ Known(t)' = Known(t),
           NoGap', NoGapAbove'
    PROVE  IInv'
<1> DEFINE C == {}
           T == {s}
<1>1. /\ C \in SUBSET ClientIds /\ T \in SUBSET ServerIds /\ Display \notin C
      /\ (\A t \in T : t = s) /\ (\A t : t \notin T => t # s) /\ \A d : d \notin C
  OBVIOUS
<1>. HIDE DEF C, T
<1>2. (\A d \in C : ClientIdInv(d)') /\ \A t \in T : ServerIdInv(t)'
  BY <1>1
<1>3. /\ \A t \in ServerIds : t \notin T =>
            /\ Keeps(Up, CutUp, Up', CutUp', About(t), {})
            /\ Keeps(Down, CutDown, Down', CutDown', About(t), Marking(t))
      /\ \A t \in ServerIds : t \notin T =>
            offered'[t] = offered[t] /\ offers'[t] = offers[t] /\ Known(t)' = Known(t)
  BY <1>1
<1>. QED BY <1>1, <1>2, <1>3, Frame

LEMMA InitIInv == Init => IInv
<1>. SUFFICES ASSUME Init PROVE IInv
  OBVIOUS
<1>1. \A p \in Peers : from[p] = <<>> /\ to[p] = <<>>
  BY DEF Init
<1>2. Len(Up) = 0 /\ Len(Down) = 0
  <2>1. <<>> \in Seq(Msg) /\ Len(<<>>) = 0
    BY EmptySeq
  <2>2. Len(<<>> \o <<>>) = Len(<<>>) + Len(<<>>)
    BY <2>1, ConcatProperties
  <2>3. Len(<<>> \o <<>>) = 0
    BY <2>1, <2>2
  <2>4. /\ from["client"] = <<>> /\ from["server"] = <<>>
        /\ to["client"] = <<>> /\ to["server"] = <<>>
    BY <1>1 DEF Peers
  <2>. QED BY <2>3, <2>4 DEF Up, Down
<1>3. (\A k \in 1..Len(Up) : FALSE) /\ \A k \in 1..Len(Down) : FALSE
  BY <1>2
<1>4. MessageTypes
  <2>1. <<>> \in Seq(Msg)
    BY EmptySeq
  <2>2. from \in [Peers -> Seq(Msg)] /\ to \in [Peers -> Seq(Msg)]
    BY <2>1 DEF Init
  <2>. QED BY <1>3, <2>2 DEF MessageTypes
<1>5. NeverUsed \in IdMapEntry /\ Live("display") \in IdMapEntry
  BY DEF NeverUsed, Live, IdMapEntry
<1>6. /\ clientMap \in Seq(IdMapEntry) /\ Len(clientMap) = 2
      /\ clientMap[1] = NeverUsed /\ clientMap[2] = Live("display")
  BY <1>5 DEF Init
<1>7. serverMap \in Seq(IdMapEntry) /\ Len(serverMap) = 0
  BY EmptySeq DEF Init
<1>8. NoBlank(clientMap) /\ NoBlank(serverMap)
  <2>1. \A i \in 1..Len(clientMap) : i = 1 \/ i = 2
    BY <1>6
  <2>2. NeverUsed # Live(NoInterface) /\ Live("display") # Live(NoInterface)
    BY DEF NeverUsed, Live, NoInterface
  <2>. QED BY <1>6, <1>7, <2>1, <2>2 DEF NoBlank
<1>9. MapTypes
  BY <1>6, <1>7, <1>8, IdsAssumption DEF MapTypes
<1>10. /\ mine = [id \in ClientIds |->
                     IF id = Display THEN [state |-> "live", interface |-> "display"]
                     ELSE [state |-> "new", interface |-> NoInterface]]
       /\ offered = [id \in ServerIds |-> NoInterface]
       /\ objects = [id \in ClientIds |-> IF id = Display THEN "display" ELSE NoInterface]
       /\ offers = [id \in ServerIds |-> "new"]
  BY DEF Init
<1>11. PeerTypes
  BY <1>10 DEF PeerTypes, NoInterface
<1>12. Types
  BY <1>4, <1>9, <1>11 DEF Types, Init
<1>13. DisplayLives /\ mine[Display].interface = "display"
  BY <1>10, IdKinds DEF DisplayLives
<1>14. Known(Display) = "display" /\ HasEntry(Display)
  <2>1. Display \in Nat /\ ~(Display >= ServerStart) /\ Display + 1 = 2
    BY IdKinds DEF Display
  <2>2. KnownIn(clientMap, 2) = "display"
    BY <1>6 DEF KnownIn, Live
  <2>. QED BY <1>6, <2>1, <2>2, KnownByMap
<1>15. ASSUME NEW c \in ClientIds
       PROVE  ClientIdInv(c)
  <2>1. CASE c = Display
    BY <1>4, <1>13, <1>14, <2>1, DisplayInv, AlwaysTyped
  <2>2. CASE c # Display
    <3>1. mine[c].state = "new" /\ objects[c] = NoInterface
      BY <1>10, <2>2
    <3>2. Known(c) = NoInterface
      <4>1. c \in Nat /\ ~(c >= ServerStart) /\ ~(c + 1 <= 2)
        BY <2>2, IdKinds DEF Display
      <4>2. KnownIn(clientMap, c + 1) = NoInterface
        BY <1>6, <4>1 DEF KnownIn
      <4>. QED BY <4>1, <4>2, KnownByMap
    <3>3. Coming(c) /\ Asked(c) /\ Going(c) /\ Told(c)
      BY <1>3 DEF Coming, Asked, Going, Told
    <3>. QED BY <3>1, <3>2, <3>3 DEF ClientIdInv, Held, Resting, Alive
  <2>. QED BY <2>1, <2>2
<1>16. ASSUME NEW s \in ServerIds
       PROVE  ServerIdInv(s)
  <2>1. ~InUse(s)
    BY <1>10, IdsAssumption DEF InUse
  <2>2. offered[s] = NoInterface
    BY <1>10
  <2>. QED BY <1>3, <2>1, <2>2 DEF ServerIdInv, Offering, AskedOffer, Offered, Settled, ToldOffer
<1>17. NoGap
  <2>1. \A c, d \in ClientIds : c < d /\ mine[c].state = "new" => mine[d].state = "new"
    BY <1>10, IdKinds DEF Display
  <2>2. \A c \in ClientIds : mine[c].state # "new" => HasEntry(c)
    BY <1>10, <1>14
  <2>. QED BY <1>3, <2>1, <2>2 DEF NoGap
<1>18. NoGapAbove
  BY <1>3, <1>10 DEF NoGapAbove
<1>. QED BY <1>12, <1>13, <1>15, <1>16, <1>17, <1>18 DEF IInv

-----------------------------------------------------------------------------
(* The mediator relays.                                                    *)

LEMMA UpHead ==
    ASSUME MessageTypes, from["client"] # <<>>
    PROVE  CutUp < Len(Up) /\ Up[CutUp + 1] = Head(from["client"])
<1> DEFINE a == to["server"]
           b == from["client"]
<1>1. a \in Seq(Msg) /\ b \in Seq(Msg) /\ b # <<>>
  BY DEF MessageTypes, Peers
<1>. HIDE DEF a, b
<1>2. Dropped(a \o b, Len(a), a \o Tail(b), Len(a)) /\ (a \o b)[Len(a) + 1] = Head(b)
  BY <1>1, Drop
<1>. QED BY <1>2 DEF Dropped, Up, CutUp, a, b

LEMMA DownHead ==
    ASSUME MessageTypes, from["server"] # <<>>
    PROVE  CutDown < Len(Down) /\ Down[CutDown + 1] = Head(from["server"])
<1> DEFINE a == to["client"]
           b == from["server"]
<1>1. a \in Seq(Msg) /\ b \in Seq(Msg) /\ b # <<>>
  BY DEF MessageTypes, Peers
<1>. HIDE DEF a, b
<1>2. Dropped(a \o b, Len(a), a \o Tail(b), Len(a)) /\ (a \o b)[Len(a) + 1] = Head(b)
  BY <1>1, Drop
<1>. QED BY <1>2 DEF Dropped, Down, CutDown, a, b

\* What the mediator does with a message of the client: it does not panic.
LEMMA ClientRelayEffect ==
    ASSUME IInv, Mediate("client")
    PROVE  LET m == Up[CutUp + 1]
           IN  /\ m \in Msg /\ UpMessage(m) /\ UpdateMap(m) /\ CutUp + 1 \in 1..Len(Up)
               /\ Passed(Up, CutUp, Up', CutUp')
               /\ Down' = Down /\ CutDown' = CutDown /\ MessageTypes' /\ Typed'
               /\ UNCHANGED <<mine, offered, objects, offers>> /\ panicked' = FALSE
<1> DEFINE m == Up[CutUp + 1]
<1>1. from["client"] # <<>> /\ MessageTypes
  BY IInvTyped DEF Mediate
<1>2. CutUp < Len(Up) /\ m = Head(from["client"])
  BY <1>1, UpHead
<1>3. m \in Msg /\ UpMessage(m) /\ IsLive(m.target) /\ CutUp + 1 \in 1..Len(Up)
  BY <1>2, UpAgrees
<1>4. ASSUME CreatesObject(m)
      PROVE  CanAdd(m.new)
  <2>1. Creates(m, m.new)
    BY <1>4 DEF Creates
  <2>2. m.new \in ClientIds
    BY <1>3, <2>1, UpMarks
  <2>. HIDE DEF m
  <2>3. Creates(Up[CutUp + 1], m.new)
    BY <2>1 DEF m
  <2>. QED BY <1>2, <2>2, <2>3, UpCanAdd
<1>5. ~Panics(Head(from["client"]))
  BY <1>2, <1>3, <1>4 DEF Panics
<1>6. /\ UpdateMap(Head(from["client"])) /\ UNCHANGED panicked
      /\ to' = [to EXCEPT ![Other("client")] = Append(@, Head(from["client"]))]
      /\ from' = [from EXCEPT !["client"] = Tail(@)]
      /\ UNCHANGED <<clientVars, serverVars>>
  BY <1>5 DEF Mediate
<1>7. /\ Passed(Up, CutUp, Up', CutUp') /\ Down' = Down /\ CutDown' = CutDown
      /\ MessageTypes' /\ Typed'
  BY <1>1, <1>6, ClientRelays DEF Other
<1>8. panicked' = FALSE /\ UNCHANGED <<mine, offered, objects, offers>>
  BY <1>6 DEF IInv, Types, clientVars, serverVars
<1>9. UpdateMap(m)
  BY <1>2, <1>6
<1>. QED BY <1>3, <1>7, <1>8, <1>9

\* What the mediator does with a message of the server: it does not panic.
LEMMA ServerRelayEffect ==
    ASSUME IInv, Mediate("server")
    PROVE  LET m == Down[CutDown + 1]
           IN  /\ m \in Msg /\ DownMessage(m) /\ UpdateMap(m) /\ CutDown + 1 \in 1..Len(Down)
               /\ Passed(Down, CutDown, Down', CutDown')
               /\ Up' = Up /\ CutUp' = CutUp /\ MessageTypes' /\ Typed'
               /\ UNCHANGED <<mine, offered, objects, offers>> /\ panicked' = FALSE
<1> DEFINE m == Down[CutDown + 1]
<1>1. from["server"] # <<>> /\ MessageTypes
  BY IInvTyped DEF Mediate
<1>2. CutDown < Len(Down) /\ m = Head(from["server"])
  BY <1>1, DownHead
<1>3. m \in Msg /\ DownMessage(m) /\ IsLive(m.target) /\ CutDown + 1 \in 1..Len(Down)
  BY <1>2, DownAgrees
<1>4. ASSUME CreatesObject(m)
      PROVE  CanAdd(m.new)
  <2>1. Creates(m, m.new)
    BY <1>4 DEF Creates
  <2>2. m.new \in ServerIds
    BY <1>3, <2>1, DownMarks
  <2>. HIDE DEF m
  <2>3. Creates(Down[CutDown + 1], m.new)
    BY <2>1 DEF m
  <2>. QED BY <1>2, <2>2, <2>3, DownCanAdd
<1>5. ~Panics(Head(from["server"]))
  BY <1>2, <1>3, <1>4 DEF Panics
<1>6. /\ UpdateMap(Head(from["server"])) /\ UNCHANGED panicked
      /\ to' = [to EXCEPT ![Other("server")] = Append(@, Head(from["server"]))]
      /\ from' = [from EXCEPT !["server"] = Tail(@)]
      /\ UNCHANGED <<clientVars, serverVars>>
  BY <1>5 DEF Mediate
<1>7. /\ Passed(Down, CutDown, Down', CutDown') /\ Up' = Up /\ CutUp' = CutUp
      /\ MessageTypes' /\ Typed'
  BY <1>1, <1>6, ServerRelays DEF Other
<1>8. panicked' = FALSE /\ UNCHANGED <<mine, offered, objects, offers>>
  BY <1>6 DEF IInv, Types, clientVars, serverVars
<1>9. UpdateMap(m)
  BY <1>2, <1>6
<1>. QED BY <1>3, <1>7, <1>8, <1>9

\* A creation of the client's is added: of its id, it is the only one under way.
LEMMA CreationRelayed ==
    ASSUME IInv, Mediate("client"), NEW c \in ClientIds, Creates(Up[CutUp + 1], c)
    PROVE  IInv'
<1> DEFINE m == Up[CutUp + 1]
<1>1. /\ m \in Msg /\ UpMessage(m) /\ UpdateMap(m) /\ CutUp + 1 \in 1..Len(Up)
      /\ Passed(Up, CutUp, Up', CutUp')
      /\ Down' = Down /\ CutDown' = CutDown /\ MessageTypes' /\ Typed'
      /\ UNCHANGED <<mine, offered, objects, offers>> /\ panicked' = FALSE
  BY ClientRelayEffect
<1>2. Typed /\ MapTypes /\ PeerTypes
  BY IInvTyped
<1>3. Up' = Up /\ CutUp' = CutUp + 1 /\ CutUp < Len(Up)
  BY <1>1 DEF Passed
<1>4. c # Display /\ \A id : Creates(m, id) => id = c
  BY <1>1, UpMarks DEF Creates
<1>5. m.newInterface \in Interfaces /\ m.new = c /\ CreatesObject(m)
  BY <1>1, UpMarks DEF Interfaces, Creates
<1>6. Add(c, m.newInterface) /\ CanAdd(c)
  BY <1>1, <1>3, <1>5, UpCanAdd DEF UpdateMap
<1>7. /\ MapTypes' /\ Known(c)' = m.newInterface
      /\ \A y \in Ids : y # c => Known(y)' = Known(y)
      /\ \A y \in Ids : HasEntry(y)' <=> HasEntry(y) \/ y = c
  BY <1>2, <1>4, <1>5, <1>6, AddKnown DEF Ids
<1>8. Types'
  BY <1>1, <1>2, <1>7 DEF Types, PeerTypes
<1>9. ClientIdInv(c)
  BY DEF IInv
<1>. HIDE DEF m
<1>10. Creates(m, c) /\ Up[CutUp + 1] = m
  BY DEF m
<1>11. /\ Used(c) /\ m.newInterface = mine[c].interface /\ mine[c].interface # NoInterface
       /\ objects[c] = NoInterface
       /\ \A j \in 1..Len(Up) : Creates(Up[j], c) => j = CutUp + 1
       /\ \A j \in 1..Len(Up) : Up[j].target = c => CutUp + 1 < j
       /\ \A j \in 1..Len(Down) : Down[j].target # c
  BY <1>1, <1>9, <1>10 DEF ClientIdInv, Coming
<1>12. ClientIdInv(c)'
  <2>1. Coming(c)'
    <3>1. ASSUME NEW k \in 1..Len(Up), Creates(Up[k], c)
          PROVE  /\ Up[k].newInterface = mine[c].interface
                 /\ Known(c)' = IF k <= CutUp' THEN mine[c].interface ELSE NoInterface
                 /\ \A j \in 1..Len(Up) : Creates(Up[j], c) => j = k
                 /\ \A j \in 1..Len(Up) : Up[j].target = c => k < j
      <4>1. k = CutUp + 1 /\ Up[k] = m /\ k <= CutUp'
        BY <1>2, <1>3, <1>10, <1>11, <3>1 DEF Typed
      <4>. QED BY <1>7, <1>11, <4>1
    <3>. QED BY <1>1, <1>3, <1>11, <3>1 DEF Coming, Used
  <2>2. Asked(c)' /\ Told(c)' /\ Alive(c)' /\ Resting(c)'
    BY <1>1, <1>3, <1>9, <1>11 DEF ClientIdInv, Asked, Told, Alive, Resting, Used
  <2>3. Held(c)'
    BY <1>1, <1>11 DEF Held
  <2>4. Going(c)'
    <3>1. \A k \in 1..Len(Down) : ~Deletes(Down[k], c)
      BY <1>1, <1>9, <1>10 DEF ClientIdInv, Going
    <3>. QED BY <1>1, <3>1 DEF Going
  <2>. QED BY <2>1, <2>2, <2>3, <2>4 DEF ClientIdInv
<1>13. \A id : id # c => m \notin Marking(id)
  BY <1>1, <1>4, UpMarks, MarkingAbout
<1>14. \A id : id # c => /\ Keeps(Up, CutUp, Up', CutUp', About(id), Marking(id))
                         /\ Keeps(Down, CutDown, Down', CutDown', About(id), Marking(id))
  BY <1>1, <1>2, <1>10, <1>13, UpKeeps, DownStays, MarkingAbout
<1>15. \A id : /\ Keeps(Up, CutUp, Up', CutUp', About(id), {})
               /\ Keeps(Down, CutDown, Down', CutDown', About(id), Marking(id))
  BY <1>1, <1>2, UpKeeps, DownStays, MarkingAbout
<1>16. NoGap'
  <2>1. \A e \in ClientIds : mine'[e].state # "new" => HasEntry(e)' \/ Waiting(e)'
    <3>1. ASSUME NEW e \in ClientIds, NEW k \in 1..Len(Up), k > CutUp, Creates(Up[k], e)
          PROVE  HasEntry(e)' \/ Waiting(e)'
      <4>1. CASE k = CutUp + 1
        BY <1>4, <1>7, <1>10, <3>1, <4>1 DEF Ids
      <4>2. CASE k # CutUp + 1
        <5>1. k > CutUp + 1
          BY <1>2, <3>1, <4>2 DEF Typed
        <5>. QED BY <1>3, <3>1, <5>1 DEF Waiting
      <4>. QED BY <4>1, <4>2
    <3>. QED BY <1>1, <1>7, <3>1 DEF IInv, NoGap, Waiting, Ids
  <2>2. ASSUME NEW k \in 1..Len(Up), NEW e \in ClientIds, NEW d \in ClientIds,
               k > CutUp + 1, Creates(Up[k], d), e < d, ~HasEntry(e)'
        PROVE  \E j \in 1..Len(Up) : CutUp + 1 < j /\ j < k /\ Creates(Up[j], e)
    <3>1. k > CutUp /\ ~HasEntry(e) /\ e # c
      BY <1>2, <1>7, <2>2 DEF Typed, Ids
    <3>2. PICK j \in 1..Len(Up) : CutUp < j /\ j < k /\ Creates(Up[j], e)
      BY <2>2, <3>1 DEF IInv, NoGap
    <3>3. j # CutUp + 1
      BY <1>4, <1>10, <3>1, <3>2
    <3>. QED BY <1>2, <3>2, <3>3 DEF Typed
  <2>. QED BY <1>1, <1>3, <2>1, <2>2 DEF IInv, NoGap
<1>17. NoGapAbove'
  <2>1. \A s \in ServerIds : HasEntry(s)' <=> HasEntry(s)
    BY <1>7, IdKinds DEF Ids
  <2>2. Keeps(Down, CutDown, Down', CutDown', Creations(ServerIds), Creations(ServerIds))
    BY <1>1, <1>2, DownStays
  <2>. QED BY <1>1, <1>2, <2>1, <2>2, NoGapAboveKept DEF IInv
<1>18. /\ \A d \in ClientIds : d # c =>
             mine'[d] = mine[d] /\ objects'[d] = objects[d] /\ Known(d)' = Known(d)
       /\ \A s \in ServerIds :
             offered'[s] = offered[s] /\ offers'[s] = offers[s] /\ Known(s)' = Known(s)
  BY <1>1, <1>7, IdKinds DEF Ids
<1>. QED BY <1>1, <1>4, <1>8, <1>12, <1>14, <1>15, <1>16, <1>17, <1>18, FrameClient

\* Any other message of the client's leaves the map alone.
LEMMA ClientRelayStep ==
    ASSUME IInv, Mediate("client")
    PROVE  IInv'
<1> DEFINE m == Up[CutUp + 1]
<1>1. /\ m \in Msg /\ UpMessage(m) /\ UpdateMap(m) /\ CutUp + 1 \in 1..Len(Up)
      /\ Passed(Up, CutUp, Up', CutUp')
      /\ Down' = Down /\ CutDown' = CutDown /\ MessageTypes' /\ Typed'
      /\ UNCHANGED <<mine, offered, objects, offers>> /\ panicked' = FALSE
  BY ClientRelayEffect
<1>2. Typed
  BY IInvTyped
<1>3. CASE CreatesObject(m)
  <2>1. Creates(Up[CutUp + 1], m.new)
    BY <1>3 DEF Creates
  <2>2. m.new \in ClientIds
    BY <1>1, <2>1, UpMarks
  <2>. HIDE DEF m
  <2>. QED BY <2>1, <2>2, CreationRelayed
<1>4. CASE ~CreatesObject(m)
  <2>1. \A id : ~Creates(m, id) /\ ~Deletes(m, id)
    BY <1>1, <1>4, UpMarks DEF Creates
  <2>2. clientMap' = clientMap /\ serverMap' = serverMap
    BY <1>1, <1>4, UpMarks DEF UpdateMap
  <2>3. Types'
    BY <1>1, <2>2, MapsSame DEF IInv, Types, PeerTypes
  <2>4. \A id : m \notin Marking(id) /\ \A ids : m \notin Creations(ids)
    BY <1>1, <2>1, MarkingAbout DEF Creations
  <2>5. Up[CutUp + 1] = m
    OBVIOUS
  <2>. HIDE DEF m
  <2>6. \A R : \A D \in SUBSET R : m \notin D => Keeps(Up, CutUp, Up', CutUp', R, D)
    BY <1>1, <1>2, <2>5, UpKeeps
  <2>7. \A R : \A D \in SUBSET R : Keeps(Down, CutDown, Down', CutDown', R, D)
    BY <1>1, <1>2, DownStays
  <2>8. /\ \A id : Keeps(Up, CutUp, Up', CutUp', About(id), Marking(id))
        /\ \A id : Keeps(Up, CutUp, Up', CutUp', About(id), {})
        /\ \A id : Keeps(Down, CutDown, Down', CutDown', About(id), Marking(id))
        /\ Keeps(Up, CutUp, Up', CutUp', Creations(ClientIds), Creations(ClientIds))
        /\ Keeps(Down, CutDown, Down', CutDown', Creations(ServerIds), Creations(ServerIds))
    BY <2>4, <2>6, <2>7, MarkingAbout
  <2>9. \A id \in Ids : Known(id)' = Known(id) /\ (HasEntry(id)' <=> HasEntry(id))
    BY <2>2, MapsSame
  <2>. QED BY <1>1, <2>3, <2>8, <2>9, Undisturbed
<1>. QED BY <1>3, <1>4

\* An offer of the server's is added.
LEMMA OfferRelayed ==
    ASSUME IInv, Mediate("server"), NEW s \in ServerIds, Creates(Down[CutDown + 1], s)
    PROVE  IInv'
<1> DEFINE m == Down[CutDown + 1]
<1>1. /\ m \in Msg /\ DownMessage(m) /\ UpdateMap(m) /\ CutDown + 1 \in 1..Len(Down)
      /\ Passed(Down, CutDown, Down', CutDown')
      /\ Up' = Up /\ CutUp' = CutUp /\ MessageTypes' /\ Typed'
      /\ UNCHANGED <<mine, offered, objects, offers>> /\ panicked' = FALSE
  BY ServerRelayEffect
<1>2. Typed /\ MapTypes /\ PeerTypes
  BY IInvTyped
<1>3. Down' = Down /\ CutDown' = CutDown + 1 /\ CutDown < Len(Down)
  BY <1>1 DEF Passed
<1>4. s \notin ClientIds /\ s # Display /\ \A id : Creates(m, id) => id = s
  BY IdKinds DEF Creates
<1>5. m.newInterface \in Interfaces /\ m.new = s /\ CreatesObject(m) /\ m.op = "offer"
  BY <1>1, DownMarks DEF Interfaces, Creates
<1>6. Add(s, m.newInterface) /\ CanAdd(s)
  BY <1>1, <1>3, <1>5, DownCanAdd DEF UpdateMap
<1>7. /\ MapTypes' /\ Known(s)' = m.newInterface
      /\ \A y \in Ids : y # s => Known(y)' = Known(y)
      /\ \A y \in Ids : HasEntry(y)' <=> HasEntry(y) \/ y = s
  BY <1>2, <1>4, <1>5, <1>6, AddKnown DEF Ids
<1>8. Types'
  BY <1>1, <1>2, <1>7 DEF Types, PeerTypes
<1>9. ServerIdInv(s)
  BY DEF IInv
<1>20. \A id : ~Deletes(m, id)
  BY <1>5 DEF Deletes
<1>. HIDE DEF m
<1>10. Creates(m, s) /\ Down[CutDown + 1] = m
  BY DEF m
<1>11. /\ InUse(s) /\ m.newInterface = offers[s] /\ offered[s] = NoInterface
       /\ \A j \in 1..Len(Down) : Creates(Down[j], s) => j = CutDown + 1
       /\ \A j \in 1..Len(Down) : Down[j].target = s /\ CutDown + 1 < j => Down[j].interface = offers[s]
       /\ \A j \in 1..Len(Up) : Up[j].target # s
  BY <1>1, <1>9, <1>10 DEF ServerIdInv, Offering
<1>12. ServerIdInv(s)'
  <2>1. Offering(s)'
    <3>1. ASSUME NEW k \in 1..Len(Down), Creates(Down[k], s)
          PROVE  /\ Down[k].newInterface = offers[s]
                 /\ \A j \in 1..Len(Down) : Creates(Down[j], s) => j = k
                 /\ \A j \in 1..Len(Down) : Down[j].target = s /\ k < j => Down[j].interface = offers[s]
      <4>1. k = CutDown + 1 /\ Down[k] = m
        BY <1>10, <1>11, <3>1
      <4>. QED BY <1>11, <4>1
    <3>. QED BY <1>1, <1>3, <1>7, <1>11, <3>1 DEF Offering, InUse
  <2>2. AskedOffer(s)' /\ Offered(s)' /\ Settled(s)'
    BY <1>1, <1>7, <1>11 DEF AskedOffer, Offered, Settled, InUse
  <2>3. ToldOffer(s)'
    BY <1>3, <1>7, <1>11 DEF ToldOffer
  <2>. QED BY <2>1, <2>2, <2>3 DEF ServerIdInv
<1>13. \A id : id # s => m \notin Marking(id)
  BY <1>1, <1>4, <1>20, MarkingAbout
<1>14. \A id : id # s => /\ Keeps(Down, CutDown, Down', CutDown', About(id), Marking(id))
                         /\ Keeps(Up, CutUp, Up', CutUp', About(id), Marking(id))
                         /\ Keeps(Up, CutUp, Up', CutUp', About(id), {})
  BY <1>1, <1>2, <1>10, <1>13, DownKeeps, UpStays, MarkingAbout
<1>15. NoGapAbove'
  <2>1. \A e \in ServerIds : offers'[e] # "new" => HasEntry(e)' \/ WaitingAbove(e)'
    <3>1. ASSUME NEW e \in ServerIds, NEW k \in 1..Len(Down), k > CutDown, Creates(Down[k], e)
          PROVE  HasEntry(e)' \/ WaitingAbove(e)'
      <4>1. CASE k = CutDown + 1
        BY <1>4, <1>7, <1>10, <3>1, <4>1 DEF Ids
      <4>2. CASE k # CutDown + 1
        <5>1. k > CutDown + 1
          BY <1>2, <3>1, <4>2 DEF Typed
        <5>. QED BY <1>3, <3>1, <5>1 DEF WaitingAbove
      <4>. QED BY <4>1, <4>2
    <3>. QED BY <1>1, <1>7, <3>1 DEF IInv, NoGapAbove, WaitingAbove, Ids
  <2>2. ASSUME NEW k \in 1..Len(Down), NEW e \in ServerIds, NEW t \in ServerIds,
               k > CutDown + 1, Creates(Down[k], t), e < t, ~HasEntry(e)'
        PROVE  \E j \in 1..Len(Down) : CutDown + 1 < j /\ j < k /\ Creates(Down[j], e)
    <3>1. k > CutDown /\ ~HasEntry(e) /\ e # s
      BY <1>2, <1>7, <2>2 DEF Typed, Ids
    <3>2. PICK j \in 1..Len(Down) : CutDown < j /\ j < k /\ Creates(Down[j], e)
      BY <2>2, <3>1 DEF IInv, NoGapAbove
    <3>3. j # CutDown + 1
      BY <1>4, <1>10, <3>1, <3>2
    <3>. QED BY <1>2, <3>2, <3>3 DEF Typed
  <2>. QED BY <1>1, <1>3, <2>1, <2>2 DEF IInv, NoGapAbove
<1>16. NoGap'
  <2>1. \A c \in ClientIds : HasEntry(c)' <=> HasEntry(c)
    BY <1>4, <1>7 DEF Ids
  <2>2. Keeps(Up, CutUp, Up', CutUp', Creations(ClientIds), Creations(ClientIds))
    BY <1>1, <1>2, UpStays
  <2>. QED BY <1>1, <1>2, <2>1, <2>2, NoGapKept DEF IInv
<1>17. /\ \A d \in ClientIds : d # s /\ mine'[d] = mine[d] /\ objects'[d] = objects[d]
                                      /\ Known(d)' = Known(d)
       /\ \A t \in ServerIds : t # s =>
             offered'[t] = offered[t] /\ offers'[t] = offers[t] /\ Known(t)' = Known(t)
  BY <1>1, <1>4, <1>7 DEF Ids
<1>. QED BY <1>1, <1>8, <1>12, <1>14, <1>15, <1>16, <1>17, FrameServer

\* A delete_id makes its id unknown, which was all that was left of the object.
LEMMA DeletionRelayed ==
    ASSUME IInv, Mediate("server"), NEW c \in ClientIds, Deletes(Down[CutDown + 1], c)
    PROVE  IInv'
<1> DEFINE m == Down[CutDown + 1]
<1>1. /\ m \in Msg /\ DownMessage(m) /\ UpdateMap(m) /\ CutDown + 1 \in 1..Len(Down)
      /\ Passed(Down, CutDown, Down', CutDown')
      /\ Up' = Up /\ CutUp' = CutUp /\ MessageTypes' /\ Typed'
      /\ UNCHANGED <<mine, offered, objects, offers>> /\ panicked' = FALSE
  BY ServerRelayEffect
<1>2. Typed /\ MapTypes /\ PeerTypes
  BY IInvTyped
<1>3. Down' = Down /\ CutDown' = CutDown + 1 /\ CutDown < Len(Down)
  BY <1>1 DEF Passed
<1>4. m.op = "delete_id" /\ m.new = c /\ c # Display
  BY <1>1, DownMarks, IdKinds DEF Deletes
<1>5. /\ \A id : Deletes(m, id) => id = c
      /\ \A id : ~Creates(m, id)
  BY <1>4 DEF Deletes, Creates, CreatesObject
<1>6. Delete(c)
  BY <1>1, <1>4 DEF UpdateMap, CreatesObject
<1>7. /\ MapTypes' /\ Known(c)' = NoInterface
      /\ \A y \in Ids : y # c => Known(y)' = Known(y)
      /\ \A y \in Ids : HasEntry(y)' <=> HasEntry(y)
  BY <1>2, <1>4, <1>6, DeleteKnown
<1>8. Types'
  BY <1>1, <1>2, <1>7 DEF Types, PeerTypes
<1>9. ClientIdInv(c)
  BY DEF IInv
<1>. HIDE DEF m
<1>10. Deletes(m, c) /\ Down[CutDown + 1] = m
  BY DEF m
<1>11. /\ Used(c) /\ mine[c].interface # NoInterface
       /\ mine[c].state = "live" => mine[c].interface = "callback"
       /\ objects[c] = NoInterface
       /\ \A j \in 1..Len(Down) : Deletes(Down[j], c) => j = CutDown + 1
       /\ \A j \in 1..Len(Down) : Down[j].target = c => j < CutDown + 1
       /\ \A j \in 1..Len(Up) : Up[j].target # c /\ ~Creates(Up[j], c)
  BY <1>1, <1>9, <1>10 DEF ClientIdInv, Going
<1>12. ClientIdInv(c)'
  <2>1. Going(c)'
    BY <1>1, <1>3, <1>7, <1>11 DEF Going, Used
  <2>2. Told(c)' /\ Alive(c)'
    BY <1>1, <1>3, <1>9, <1>11 DEF ClientIdInv, Told, Alive, Used
  <2>3. Coming(c)' /\ Asked(c)' /\ Held(c)' /\ Resting(c)'
    BY <1>1, <1>7, <1>11 DEF Coming, Asked, Held, Resting
  <2>. QED BY <2>1, <2>2, <2>3 DEF ClientIdInv
<1>13. \A id : id # c => m \notin Marking(id)
  BY <1>1, <1>5, MarkingAbout
<1>14. \A id : id # c => /\ Keeps(Down, CutDown, Down', CutDown', About(id), Marking(id))
                         /\ Keeps(Up, CutUp, Up', CutUp', About(id), Marking(id))
                         /\ Keeps(Up, CutUp, Up', CutUp', About(id), {})
  BY <1>1, <1>2, <1>10, <1>13, DownKeeps, UpStays, MarkingAbout
<1>15. NoGap' /\ NoGapAbove'
  <2>1. (\A y \in ClientIds : HasEntry(y)' <=> HasEntry(y)) /\ \A y \in ServerIds : HasEntry(y)' <=> HasEntry(y)
    BY <1>7 DEF Ids
  <2>2. m \notin Creations(ServerIds)
    BY <1>5 DEF Creations
  <2>3. /\ Keeps(Up, CutUp, Up', CutUp', Creations(ClientIds), Creations(ClientIds))
        /\ Keeps(Down, CutDown, Down', CutDown', Creations(ServerIds), Creations(ServerIds))
    BY <1>1, <1>2, <1>10, <2>2, DownKeeps, UpStays
  <2>. QED BY <1>1, <1>2, <2>1, <2>3, NoGapKept, NoGapAboveKept DEF IInv
<1>16. /\ \A d \in ClientIds : d # c =>
             mine'[d] = mine[d] /\ objects'[d] = objects[d] /\ Known(d)' = Known(d)
       /\ \A s \in ServerIds : s # c /\ offered'[s] = offered[s] /\ offers'[s] = offers[s]
                                     /\ Known(s)' = Known(s)
  BY <1>1, <1>7, IdKinds DEF Ids
<1>. QED BY <1>1, <1>4, <1>8, <1>12, <1>14, <1>15, <1>16, FrameClient

LEMMA ServerRelayStep ==
    ASSUME IInv, Mediate("server")
    PROVE  IInv'
<1> DEFINE m == Down[CutDown + 1]
<1>1. /\ m \in Msg /\ DownMessage(m) /\ UpdateMap(m) /\ CutDown + 1 \in 1..Len(Down)
      /\ Passed(Down, CutDown, Down', CutDown')
      /\ Up' = Up /\ CutUp' = CutUp /\ MessageTypes' /\ Typed'
      /\ UNCHANGED <<mine, offered, objects, offers>> /\ panicked' = FALSE
  BY ServerRelayEffect
<1>2. Typed /\ MapTypes
  BY IInvTyped
<1>3. CASE CreatesObject(m)
  <2>1. Creates(Down[CutDown + 1], m.new)
    BY <1>3 DEF Creates
  <2>2. m.new \in ServerIds
    BY <1>1, <2>1, DownMarks
  <2>. HIDE DEF m
  <2>. QED BY <2>1, <2>2, OfferRelayed
<1>4. CASE m.op = "delete_id" /\ m.new \in ClientIds
  <2>1. Deletes(Down[CutDown + 1], m.new)
    BY <1>4 DEF Deletes
  <2>. HIDE DEF m
  <2>. QED BY <1>4, <2>1, DeletionRelayed
<1>5. CASE ~CreatesObject(m) /\ ~(m.op = "delete_id" /\ m.new \in ClientIds)
  <2>1. \A id \in Ids : ~Creates(m, id) /\ ~Deletes(m, id)
    BY <1>1, <1>5, DownMarks, IdKinds DEF Creates, Deletes, Ids
  <2>2. /\ \A id \in Ids : Known(id)' = Known(id) /\ (HasEntry(id)' <=> HasEntry(id))
        /\ MapTypes'
    <3>1. CASE m.op = "delete_id"
      <4>1. m.new = HandshakeId
        BY <1>1, <1>5, <3>1 DEF DownMessage
      <4>2. Delete(HandshakeId)
        BY <1>1, <1>5, <3>1, <4>1 DEF UpdateMap
      <4>3. \A id \in Ids : id # HandshakeId
        BY IdKinds DEF Ids
      <4>4. HandshakeId # Display
        BY IdKinds
      <4>. QED BY <1>2, <4>2, <4>3, <4>4, DeleteKnown
    <3>2. CASE m.op # "delete_id"
      <4>1. clientMap' = clientMap /\ serverMap' = serverMap
        BY <1>1, <1>5, <3>2 DEF UpdateMap
      <4>. QED BY <1>2, <4>1, MapsSame
    <3>. QED BY <3>1, <3>2
  <2>3. Types'
    BY <1>1, <2>2 DEF IInv, Types, PeerTypes
  <2>4. /\ \A id \in Ids : m \notin Marking(id)
        /\ m \notin Creations(ServerIds)
    BY <1>1, <2>1, MarkingAbout DEF Creations, Ids
  <2>5. Down[CutDown + 1] = m
    OBVIOUS
  <2>. HIDE DEF m
  <2>6. \A R : \A D \in SUBSET R : m \notin D => Keeps(Down, CutDown, Down', CutDown', R, D)
    BY <1>1, <1>2, <2>5, DownKeeps
  <2>7. \A R : \A D \in SUBSET R : Keeps(Up, CutUp, Up', CutUp', R, D)
    BY <1>1, <1>2, UpStays
  <2>8. /\ \A id : Keeps(Up, CutUp, Up', CutUp', About(id), Marking(id))
        /\ \A id : Keeps(Up, CutUp, Up', CutUp', About(id), {})
        /\ \A id \in Ids : Keeps(Down, CutDown, Down', CutDown', About(id), Marking(id))
        /\ Keeps(Up, CutUp, Up', CutUp', Creations(ClientIds), Creations(ClientIds))
        /\ Keeps(Down, CutDown, Down', CutDown', Creations(ServerIds), Creations(ServerIds))
    BY <2>4, <2>6, <2>7, MarkingAbout
  <2>9. (\A c \in ClientIds : c \in Ids) /\ \A s \in ServerIds : s \in Ids
    BY DEF Ids
  <2>. QED BY <1>1, <2>2, <2>3, <2>8, <2>9, Undisturbed
<1>. QED BY <1>3, <1>4, <1>5

-----------------------------------------------------------------------------
(* The client.                                                             *)

LEMMA MessageFields ==
    /\ \A op, t, i : Message(op, t, i) =
          [op |-> op, target |-> t, interface |-> i, new |-> 0, newInterface |-> NoInterface]
    /\ \A op, t, i, id, j : Creating(op, t, i, id, j) =
          [op |-> op, target |-> t, interface |-> i, new |-> id, newInterface |-> j]
    /\ \A id : DeleteId(id) =
          [op |-> "delete_id", target |-> Display, interface |-> "display", new |-> id,
           newInterface |-> NoInterface]
<1>1. \A op, t, i : Message(op, t, i) =
         [op |-> op, target |-> t, interface |-> i, new |-> 0, newInterface |-> NoInterface]
  BY DEF Message
<1>2. ASSUME NEW op, NEW t, NEW i, NEW id
      PROVE  [Message(op, t, i) EXCEPT !.new = id] =
                [op |-> op, target |-> t, interface |-> i, new |-> id, newInterface |-> NoInterface]
  BY DEF Message
<1>3. ASSUME NEW op, NEW t, NEW i, NEW id, NEW j
      PROVE  Creating(op, t, i, id, j) =
                [op |-> op, target |-> t, interface |-> i, new |-> id, newInterface |-> j]
  <2>1. Creating(op, t, i, id, j) = [[Message(op, t, i) EXCEPT !.new = id] EXCEPT !.newInterface = j]
    BY DEF Creating
  <2>2. [op |-> op, target |-> t, interface |-> i, new |-> id, newInterface |-> j] =
           [[op |-> op, target |-> t, interface |-> i, new |-> id, newInterface |-> NoInterface]
              EXCEPT !.newInterface = j]
    OBVIOUS
  <2>3. [Message(op, t, i) EXCEPT !.new = id] =
           [op |-> op, target |-> t, interface |-> i, new |-> id, newInterface |-> NoInterface]
    BY <1>2
  <2>. QED BY ONLY <2>1, <2>2, <2>3, Zenon
<1>. QED BY <1>1, <1>2, <1>3 DEF DeleteId

LEMMA ClientSendsOne ==
    ASSUME MessageTypes, NEW x \in Msg, UpMessage(x), SendFrom("client", <<x>>), to' = to
    PROVE  /\ MessageTypes' /\ Typed' /\ CutUp' = CutUp /\ Down' = Down /\ CutDown' = CutDown
           /\ Extended(Up, CutUp, Up', CutUp')
           /\ Len(Up') = Len(Up) + 1 /\ Up'[Len(Up) + 1] = x
<1> DEFINE e == <<x>>
<1>1. e \in Seq(Msg) /\ Len(e) = 1 /\ e[1] = x /\ \A i \in 1..Len(e) : UpMessage(e[i])
  OBVIOUS
<1>2. SendFrom("client", e)
  OBVIOUS
<1>. HIDE DEF e
<1>3. /\ Extended(Up, CutUp, Up', CutUp')
      /\ Len(Up') = Len(Up) + Len(e) /\ \A i \in 1..Len(e) : Up'[Len(Up) + i] = e[i]
      /\ Down' = Down /\ CutDown' = CutDown /\ MessageTypes' /\ Typed'
  BY <1>1, <1>2, ClientSends
<1>4. 1 \in 1..Len(e)
  BY <1>1
<1>. QED BY <1>1, <1>3, <1>4 DEF Extended

\* A request to an object of the client's own, or the one that destroys it.
LEMMA OwnAskedStep ==
    ASSUME IInv, MessageTypes', Typed', NEW x \in Msg, NEW c \in ClientIds,
           Extended(Up, CutUp, Up', CutUp'), Len(Up') = Len(Up) + 1, Up'[Len(Up) + 1] = x,
           Down' = Down, CutDown' = CutDown,
           x.op \in {"request", "destroy"}, x.target = c, x.interface = mine[c].interface,
           mine[c].state = "live", mine[c].interface \in ClientInterfaces,
           mine' \in [ClientIds -> [state : {"new", "live", "zombie", "deleted", "free"},
               interface : ClientInterfaces \cup {"display", "callback", NoInterface}]],
           mine'[c].interface = mine[c].interface,
           mine'[c].state = IF x.op = "destroy" THEN "zombie" ELSE "live",
           \A d \in ClientIds : d # c => mine'[d] = mine[d],
           UNCHANGED <<clientMap, serverMap, panicked, offered, objects, offers>>
    PROVE  IInv'
<1>1. Typed /\ MapTypes /\ PeerTypes /\ MessageTypes
  BY IInvTyped
<1>2. c # Display /\ mine[c].interface # "callback" /\ mine[c].interface # NoInterface
      /\ mine[c].interface # "display"
  <2>1. mine[c].interface \notin {"display", "callback", "none", "new"}
    BY IdsAssumption
  <2>2. mine[Display].interface = "display"
    BY IdKinds DEF IInv, DisplayLives, ClientIdInv, Held, NoInterface
  <2>. QED BY <2>1, <2>2 DEF NoInterface
<1>3. /\ \A k \in 1..Len(Up') : \/ k \in 1..Len(Up) /\ Up'[k] = Up[k]
                                \/ k = Len(Up) + 1 /\ Up'[k] = x
      /\ \A k \in 1..Len(Up) : k \in 1..Len(Up') /\ Up'[k] = Up[k]
      /\ Len(Up) + 1 \in 1..Len(Up') /\ Len(Up) + 1 > CutUp
      /\ \A R : x \notin R => \A D \in SUBSET R : Keeps(Up, CutUp, Up', CutUp', R, D)
  BY <1>1, UpGrows
<1>4. \A R : \A D \in SUBSET R : Keeps(Down, CutDown, Down', CutDown', R, D)
  BY <1>1, DownStays
<1>5. \A id : ~Creates(x, id) /\ ~Deletes(x, id)
  <2>1. x.new = 0
    <3>1. UpMessage(x)
      BY <1>3 DEF MessageTypes
    <3>. QED BY <3>1 DEF UpMessage
  <2>. QED BY <2>1 DEF Creates, CreatesObject, Deletes
<1>6. \A id : id # c => x \notin About(id)
  BY <1>5, MarkingAbout
<1>7. \A ids : x \notin Creations(ids)
  BY <1>5 DEF Creations
<1>8. /\ \A id : id # c => /\ Keeps(Up, CutUp, Up', CutUp', About(id), Marking(id))
                           /\ Keeps(Up, CutUp, Up', CutUp', About(id), {})
      /\ \A id : Keeps(Down, CutDown, Down', CutDown', About(id), Marking(id))
      /\ Keeps(Up, CutUp, Up', CutUp', Creations(ClientIds), Creations(ClientIds))
      /\ Keeps(Down, CutDown, Down', CutDown', Creations(ServerIds), Creations(ServerIds))
  BY <1>3, <1>4, <1>6, <1>7, MarkingAbout
<1>9. /\ \A id : Known(id)' = Known(id) /\ (HasEntry(id)' <=> HasEntry(id))
      /\ MapTypes'
  BY <1>1, MapsSame
<1>10. Types'
  <2>1. PeerTypes'
    <3>1. \A d \in ClientIds : d # Display => mine'[d].interface # "display"
      BY <1>1, <1>2 DEF PeerTypes
    <3>. QED BY <1>1, <3>1 DEF PeerTypes
  <2>. QED BY <1>9, <2>1 DEF Types, IInv
<1>11. ClientIdInv(c)
  BY DEF IInv
<1>12. Used(c) /\ Used(c)'
  BY DEF Used
<1>13. ClientIdInv(c)'
  <2>1. \A k \in 1..Len(Up) : Up[k].target = c => Up[k].op # "destroy"
    BY <1>11 DEF ClientIdInv, Asked
  <2>2. objects[c] # NoInterface \/ \E j \in 1..Len(Up) : Creates(Up[j], c)
    BY <1>2, <1>11 DEF ClientIdInv, Alive
  <2>3. \A k \in 1..Len(Down) : ~Deletes(Down[k], c)
    BY <1>2, <1>11 DEF ClientIdInv, Going
  <2>4. Coming(c)'
    <3>1. ASSUME NEW k \in 1..Len(Up'), Creates(Up'[k], c)
          PROVE  /\ Up'[k].newInterface = mine'[c].interface
                 /\ objects'[c] = NoInterface
                 /\ Known(c)' = IF k <= CutUp' THEN mine'[c].interface ELSE NoInterface
                 /\ \A j \in 1..Len(Up') : Creates(Up'[j], c) => j = k
                 /\ \A j \in 1..Len(Up') : Up'[j].target = c => k < j
                 /\ \A j \in 1..Len(Down') : Down'[j].target # c
      <4>1. k \in 1..Len(Up) /\ Up'[k] = Up[k]
        BY <1>3, <1>5, <3>1
      <4>2. /\ Up[k].newInterface = mine[c].interface
            /\ objects[c] = NoInterface
            /\ Known(c) = IF k <= CutUp THEN mine[c].interface ELSE NoInterface
            /\ \A j \in 1..Len(Up) : Creates(Up[j], c) => j = k
            /\ \A j \in 1..Len(Up) : Up[j].target = c => k < j
            /\ \A j \in 1..Len(Down) : Down[j].target # c
        BY <1>11, <3>1, <4>1 DEF ClientIdInv, Coming
      <4>3. \A j \in 1..Len(Up') : Creates(Up'[j], c) => j = k
        BY <1>3, <1>5, <4>2
      <4>4. \A j \in 1..Len(Up') : Up'[j].target = c => k < j
        BY <1>1, <1>3, <4>1, <4>2, SMTT(60) DEF Typed
      <4>5. Known(c)' = IF k <= CutUp' THEN mine'[c].interface ELSE NoInterface
        BY <1>9, <4>2 DEF Extended
      <4>. QED BY <4>1, <4>2, <4>3, <4>4, <4>5
    <3>. QED BY <1>2, <1>12, <3>1 DEF Coming
  <2>5. Asked(c)'
    <3>1. \A k \in 1..Len(Up') : Up'[k].target = c => Up'[k].interface = mine'[c].interface
      BY <1>3, <1>11 DEF ClientIdInv, Asked
    <3>2. objects'[c] # NoInterface \/ \E j \in 1..Len(Up') : Creates(Up'[j], c)
      BY <1>3, <2>2
    <3>3. ASSUME NEW k \in 1..Len(Up'), Up'[k].target = c, Up'[k].op = "destroy"
          PROVE  mine'[c].state = "zombie" /\ \A j \in 1..Len(Up') : j <= k
      <4>1. k = Len(Up) + 1 /\ Up'[k] = x
        BY <1>3, <2>1, <3>3
      <4>. QED BY <1>1, <3>3, <4>1 DEF Typed
    <3>. QED BY <1>2, <1>12, <3>1, <3>2, <3>3 DEF Asked
  <2>6. Held(c)' /\ Told(c)' /\ Resting(c)'
    BY <1>9, <1>11, <1>12 DEF ClientIdInv, Held, Told, Resting
  <2>7. Going(c)'
    BY <2>3 DEF Going
  <2>8. Alive(c)'
    BY <1>2, <1>3, <2>2 DEF Alive
  <2>. QED BY <2>4, <2>5, <2>6, <2>7, <2>8 DEF ClientIdInv
<1>14. \A d \in ClientIds : mine'[d].state = "new" <=> mine[d].state = "new"
  OBVIOUS
<1>15. NoGap' /\ NoGapAbove'
  BY <1>1, <1>8, <1>9, <1>14, NoGapKept, NoGapAboveKept DEF IInv
<1>16. /\ \A d \in ClientIds : d # c =>
             mine'[d] = mine[d] /\ objects'[d] = objects[d] /\ Known(d)' = Known(d)
       /\ \A s \in ServerIds :
             offered'[s] = offered[s] /\ offers'[s] = offers[s] /\ Known(s)' = Known(s)
  BY <1>9
<1>17. \A s \in ServerIds : s # c
  BY IdKinds
<1>18. /\ \A d \in ClientIds : d # c /\ d # Display =>
             /\ Keeps(Up, CutUp, Up', CutUp', About(d), Marking(d))
             /\ Keeps(Down, CutDown, Down', CutDown', About(d), Marking(d))
       /\ \A s \in ServerIds : /\ Keeps(Up, CutUp, Up', CutUp', About(s), {})
                               /\ Keeps(Down, CutDown, Down', CutDown', About(s), Marking(s))
  BY <1>8, <1>17
<1>. QED BY <1>2, <1>10, <1>13, <1>15, <1>16, <1>18, FrameClient

\* The same of what the server offered.
LEMMA OfferAskedStep ==
    ASSUME IInv, MessageTypes', Typed', NEW x \in Msg, NEW s \in ServerIds,
           Extended(Up, CutUp, Up', CutUp'), Len(Up') = Len(Up) + 1, Up'[Len(Up) + 1] = x,
           Down' = Down, CutDown' = CutDown,
           x.op \in {"request", "destroy"}, x.target = s, x.interface = offered[s],
           offered[s] # NoInterface,
           offered' \in [ServerIds -> ServerInterfaces \cup {NoInterface}],
           offered'[s] = IF x.op = "destroy" THEN NoInterface ELSE offered[s],
           \A t \in ServerIds : t # s => offered'[t] = offered[t],
           UNCHANGED <<clientMap, serverMap, panicked, mine, objects, offers>>
    PROVE  IInv'
<1>1. Typed /\ MapTypes /\ PeerTypes /\ MessageTypes
  BY IInvTyped
<1>3. /\ \A k \in 1..Len(Up') : \/ k \in 1..Len(Up) /\ Up'[k] = Up[k]
                                \/ k = Len(Up) + 1 /\ Up'[k] = x
      /\ \A k \in 1..Len(Up) : k \in 1..Len(Up') /\ Up'[k] = Up[k]
      /\ Len(Up) + 1 \in 1..Len(Up') /\ Len(Up) + 1 > CutUp
      /\ \A R : x \notin R => \A D \in SUBSET R : Keeps(Up, CutUp, Up', CutUp', R, D)
  BY <1>1, UpGrows
<1>4. \A R : \A D \in SUBSET R : Keeps(Down, CutDown, Down', CutDown', R, D)
  BY <1>1, DownStays
<1>5. \A id : ~Creates(x, id) /\ ~Deletes(x, id)
  <2>1. x.new = 0
    <3>1. UpMessage(x)
      BY <1>3 DEF MessageTypes
    <3>. QED BY <3>1 DEF UpMessage
  <2>. QED BY <2>1 DEF Creates, CreatesObject, Deletes
<1>6. \A id : id # s => x \notin About(id)
  BY <1>5, MarkingAbout
<1>7. \A ids : x \notin Creations(ids)
  BY <1>5 DEF Creations
<1>8. /\ \A id : id # s => /\ Keeps(Up, CutUp, Up', CutUp', About(id), Marking(id))
                           /\ Keeps(Up, CutUp, Up', CutUp', About(id), {})
      /\ \A id : Keeps(Down, CutDown, Down', CutDown', About(id), Marking(id))
      /\ Keeps(Up, CutUp, Up', CutUp', Creations(ClientIds), Creations(ClientIds))
      /\ Keeps(Down, CutDown, Down', CutDown', Creations(ServerIds), Creations(ServerIds))
  BY <1>3, <1>4, <1>6, <1>7, MarkingAbout
<1>9. /\ \A id : Known(id)' = Known(id) /\ (HasEntry(id)' <=> HasEntry(id))
      /\ MapTypes'
  BY <1>1, MapsSame
<1>10. Types'
  BY <1>1, <1>9 DEF Types, IInv, PeerTypes
<1>11. ServerIdInv(s)
  BY DEF IInv
<1>12. ServerIdInv(s)'
  <2>1. InUse(s) /\ offered[s] = offers[s] /\ Known(s) = offers[s]
    BY <1>11 DEF ServerIdInv, Offered
  <2>2. \A k \in 1..Len(Up) : Up[k].target = s => Up[k].interface = offers[s] /\ Up[k].op # "destroy"
    BY <1>11 DEF ServerIdInv, AskedOffer
  <2>3. \A k \in 1..Len(Down) : ~Creates(Down[k], s)
    BY <1>11 DEF ServerIdInv, Offering
  <2>4. Offering(s)'
    BY <2>3 DEF Offering
  <2>5. AskedOffer(s)'
    <3>1. \A k \in 1..Len(Up') : Up'[k].target = s => Up'[k].interface = offers'[s]
      BY <1>3, <2>1, <2>2
    <3>2. ASSUME NEW k \in 1..Len(Up'), Up'[k].target = s, Up'[k].op = "destroy"
          PROVE  offered'[s] = NoInterface /\ \A j \in 1..Len(Up') : j <= k
      <4>1. k = Len(Up) + 1 /\ Up'[k] = x
        BY <1>3, <2>2, <3>2
      <4>. QED BY <1>1, <3>2, <4>1 DEF Typed
    <3>. QED BY <1>9, <2>1, <3>1, <3>2 DEF AskedOffer, InUse
  <2>6. Offered(s)' /\ Settled(s)'
    BY <1>9, <2>1 DEF Offered, Settled, InUse
  <2>7. ToldOffer(s)'
    BY <1>9, <1>11 DEF ServerIdInv, ToldOffer
  <2>. QED BY <2>4, <2>5, <2>6, <2>7 DEF ServerIdInv
<1>13. NoGap' /\ NoGapAbove'
  BY <1>1, <1>8, <1>9, NoGapKept, NoGapAboveKept DEF IInv
<1>14. /\ \A d \in ClientIds :
             mine'[d] = mine[d] /\ objects'[d] = objects[d] /\ Known(d)' = Known(d)
       /\ \A t \in ServerIds : t # s =>
             offered'[t] = offered[t] /\ offers'[t] = offers[t] /\ Known(t)' = Known(t)
  BY <1>9
<1>15. \A d \in ClientIds : d # s
  BY IdKinds
<1>16. /\ \A d \in ClientIds : d # Display =>
             /\ Keeps(Up, CutUp, Up', CutUp', About(d), Marking(d))
             /\ Keeps(Down, CutDown, Down', CutDown', About(d), Marking(d))
       /\ \A t \in ServerIds : t # s => /\ Keeps(Up, CutUp, Up', CutUp', About(t), {})
                                        /\ Keeps(Down, CutDown, Down', CutDown', About(t), Marking(t))
  BY <1>8, <1>15
<1>. QED BY <1>10, <1>12, <1>13, <1>14, <1>16, FrameServer

LEMMA RequestStep == ASSUME IInv, Request PROVE IInv'
<1>1. Typed /\ MapTypes /\ PeerTypes /\ MessageTypes
  BY IInvTyped
<1>2. UNCHANGED <<clientMap, serverMap, panicked, mine, offered, objects, offers>> /\ to' = to
  BY DEF Request, mediatorVars, clientVars, serverVars
<1>3. ASSUME NEW c \in ClientIds, mine[c].state = "live", mine[c].interface \in ClientInterfaces,
             SendFrom("client", <<Message("request", c, mine[c].interface)>>)
      PROVE  IInv'
  <2> DEFINE x == Message("request", c, mine[c].interface)
  <2>1. x = [op |-> "request", target |-> c, interface |-> mine[c].interface, new |-> 0,
             newInterface |-> NoInterface]
    BY MessageFields
  <2>. HIDE DEF x
  <2>2. x \in Msg
    BY <1>3, <2>1 DEF Msg, Ops, Ids, Interfaces
  <2>3. c # Display
    <3>1. mine[c].interface # "display"
      BY <1>3, IdsAssumption
    <3>2. mine[Display].interface = "display"
      BY IdKinds DEF IInv, DisplayLives, ClientIdInv, Held, NoInterface
    <3>. QED BY <3>1, <3>2
  <2>4. UpMessage(x)
    BY <2>1, <2>3 DEF UpMessage
  <2>5. SendFrom("client", <<x>>)
    BY <1>3 DEF x
  <2>6. /\ MessageTypes' /\ Typed' /\ CutUp' = CutUp /\ Down' = Down /\ CutDown' = CutDown
        /\ Extended(Up, CutUp, Up', CutUp')
        /\ Len(Up') = Len(Up) + 1 /\ Up'[Len(Up) + 1] = x
    BY <1>1, <1>2, <2>2, <2>4, <2>5, ClientSendsOne
  <2>7. mine' \in [ClientIds -> [state : {"new", "live", "zombie", "deleted", "free"},
               interface : ClientInterfaces \cup {"display", "callback", NoInterface}]]
    BY <1>1, <1>2 DEF PeerTypes
  <2>8. x.op = "request" /\ x.target = c /\ x.interface = mine[c].interface
    BY <2>1
  <2>. QED BY <1>2, <1>3, <2>2, <2>6, <2>7, <2>8, OwnAskedStep
<1>4. ASSUME NEW s \in ServerIds, offered[s] # NoInterface,
             SendFrom("client", <<Message("request", s, offered[s])>>)
      PROVE  IInv'
  <2> DEFINE x == Message("request", s, offered[s])
  <2>1. x = [op |-> "request", target |-> s, interface |-> offered[s], new |-> 0,
             newInterface |-> NoInterface]
    BY MessageFields
  <2>. HIDE DEF x
  <2>2. x \in Msg
    BY <1>1, <1>4, <2>1 DEF Msg, Ops, Ids, Interfaces, PeerTypes
  <2>3. UpMessage(x)
    BY <2>1, IdKinds DEF UpMessage
  <2>4. SendFrom("client", <<x>>)
    BY <1>4 DEF x
  <2>5. /\ MessageTypes' /\ Typed' /\ CutUp' = CutUp /\ Down' = Down /\ CutDown' = CutDown
        /\ Extended(Up, CutUp, Up', CutUp')
        /\ Len(Up') = Len(Up) + 1 /\ Up'[Len(Up) + 1] = x
    BY <1>1, <1>2, <2>2, <2>3, <2>4, ClientSendsOne
  <2>6. offered' \in [ServerIds -> ServerInterfaces \cup {NoInterface}]
    BY <1>1, <1>2 DEF PeerTypes
  <2>7. x.op = "request" /\ x.target = s /\ x.interface = offered[s]
    BY <2>1
  <2>. QED BY <1>2, <1>4, <2>2, <2>5, <2>6, <2>7, OfferAskedStep
<1>. QED BY <1>3, <1>4 DEF Request

LEMMA DestroyStep == ASSUME IInv, NEW c \in ClientIds, Destroy(c) PROVE IInv'
<1>1. Typed /\ MapTypes /\ PeerTypes /\ MessageTypes
  BY IInvTyped
<1>2. /\ UNCHANGED <<clientMap, serverMap, panicked, offered, objects, offers>> /\ to' = to
      /\ mine[c].state = "live" /\ mine[c].interface \in ClientInterfaces
      /\ mine' = [mine EXCEPT ![c].state = "zombie"]
      /\ SendFrom("client", <<Message("destroy", c, mine[c].interface)>>)
  BY DEF Destroy, mediatorVars, serverVars
<1> DEFINE x == Message("destroy", c, mine[c].interface)
<1>3. x = [op |-> "destroy", target |-> c, interface |-> mine[c].interface, new |-> 0,
           newInterface |-> NoInterface]
  BY MessageFields
<1>. HIDE DEF x
<1>4. x \in Msg
  BY <1>2, <1>3 DEF Msg, Ops, Ids, Interfaces
<1>5. c # Display
  <2>1. mine[c].interface # "display"
    BY <1>2, IdsAssumption
  <2>2. mine[Display].interface = "display"
    BY IdKinds DEF IInv, DisplayLives, ClientIdInv, Held, NoInterface
  <2>. QED BY <2>1, <2>2
<1>6. UpMessage(x)
  BY <1>3, <1>5 DEF UpMessage
<1>7. SendFrom("client", <<x>>)
  BY <1>2 DEF x
<1>8. /\ MessageTypes' /\ Typed' /\ CutUp' = CutUp /\ Down' = Down /\ CutDown' = CutDown
      /\ Extended(Up, CutUp, Up', CutUp')
      /\ Len(Up') = Len(Up) + 1 /\ Up'[Len(Up) + 1] = x
  BY <1>1, <1>2, <1>4, <1>6, <1>7, ClientSendsOne
<1>9. /\ mine' \in [ClientIds -> [state : {"new", "live", "zombie", "deleted", "free"},
               interface : ClientInterfaces \cup {"display", "callback", NoInterface}]]
      /\ mine'[c].interface = mine[c].interface /\ mine'[c].state = "zombie"
      /\ \A d \in ClientIds : d # c => mine'[d] = mine[d]
  BY <1>1, <1>2 DEF PeerTypes
<1>10. x.op = "destroy" /\ x.target = c /\ x.interface = mine[c].interface
  BY <1>3
<1>. QED BY <1>2, <1>4, <1>8, <1>9, <1>10, OwnAskedStep

LEMMA DestroyOfferStep == ASSUME IInv, NEW s \in ServerIds, DestroyOffer(s) PROVE IInv'
<1>1. Typed /\ MapTypes /\ PeerTypes /\ MessageTypes
  BY IInvTyped
<1>2. /\ UNCHANGED <<clientMap, serverMap, panicked, mine, objects, offers>> /\ to' = to
      /\ offered[s] # NoInterface /\ offered' = [offered EXCEPT ![s] = NoInterface]
      /\ SendFrom("client", <<Message("destroy", s, offered[s])>>)
  BY DEF DestroyOffer, mediatorVars, serverVars
<1> DEFINE x == Message("destroy", s, offered[s])
<1>3. x = [op |-> "destroy", target |-> s, interface |-> offered[s], new |-> 0,
           newInterface |-> NoInterface]
  BY MessageFields
<1>. HIDE DEF x
<1>4. x \in Msg
  BY <1>1, <1>2, <1>3 DEF Msg, Ops, Ids, Interfaces, PeerTypes
<1>5. UpMessage(x)
  BY <1>3, IdKinds DEF UpMessage
<1>6. SendFrom("client", <<x>>)
  BY <1>2 DEF x
<1>7. /\ MessageTypes' /\ Typed' /\ CutUp' = CutUp /\ Down' = Down /\ CutDown' = CutDown
      /\ Extended(Up, CutUp, Up', CutUp')
      /\ Len(Up') = Len(Up) + 1 /\ Up'[Len(Up) + 1] = x
  BY <1>1, <1>2, <1>4, <1>5, <1>6, ClientSendsOne
<1>8. /\ offered' \in [ServerIds -> ServerInterfaces \cup {NoInterface}]
      /\ offered'[s] = NoInterface
      /\ \A t \in ServerIds : t # s => offered'[t] = offered[t]
  BY <1>1, <1>2 DEF PeerTypes
<1>9. x.op = "destroy" /\ x.target = s /\ x.interface = offered[s]
  BY <1>3
<1>. QED BY <1>2, <1>4, <1>7, <1>8, <1>9, OfferAskedStep

\* A callback's own client gives it up: no message says so.
LEMMA DestroyCallbackStep == ASSUME IInv, NEW c \in ClientIds, DestroyCallback(c) PROVE IInv'
<1>1. Typed /\ MapTypes /\ PeerTypes /\ MessageTypes
  BY IInvTyped
<1>2. /\ UNCHANGED <<clientMap, serverMap, panicked, offered, objects, offers, from, to>>
      /\ mine[c].interface = "callback"
      /\ \/ mine[c].state = "live" /\ mine' = [mine EXCEPT ![c].state = "zombie"]
         \/ mine[c].state = "deleted" /\ mine' = [mine EXCEPT ![c].state = "free"]
  BY DEF DestroyCallback, mediatorVars, serverVars
<1>3. /\ mine' \in [ClientIds -> [state : {"new", "live", "zombie", "deleted", "free"},
               interface : ClientInterfaces \cup {"display", "callback", NoInterface}]]
      /\ \A d \in ClientIds : mine'[d].interface = mine[d].interface
      /\ \A d \in ClientIds : d # c => mine'[d] = mine[d]
      /\ \/ mine[c].state = "live" /\ mine'[c].state = "zombie"
         \/ mine[c].state = "deleted" /\ mine'[c].state = "free"
  BY <1>1, <1>2, SMTT(60) DEF PeerTypes
<1>4. Up' = Up /\ CutUp' = CutUp /\ Down' = Down /\ CutDown' = CutDown
  BY <1>2 DEF Up, CutUp, Down, CutDown
<1>5. MessageTypes' /\ Typed'
  BY <1>1, <1>2, <1>4, WayTypes DEF MessageTypes
<1>6. /\ \A R : \A D \in SUBSET R : Keeps(Up, CutUp, Up', CutUp', R, D)
      /\ \A R : \A D \in SUBSET R : Keeps(Down, CutDown, Down', CutDown', R, D)
  BY <1>1, <1>4, <1>5, UpStays, DownStays
<1>7. /\ \A id : /\ Keeps(Up, CutUp, Up', CutUp', About(id), Marking(id))
                 /\ Keeps(Up, CutUp, Up', CutUp', About(id), {})
                 /\ Keeps(Down, CutDown, Down', CutDown', About(id), Marking(id))
      /\ Keeps(Up, CutUp, Up', CutUp', Creations(ClientIds), Creations(ClientIds))
      /\ Keeps(Down, CutDown, Down', CutDown', Creations(ServerIds), Creations(ServerIds))
  BY <1>6, MarkingAbout
<1>8. /\ \A id : Known(id)' = Known(id) /\ (HasEntry(id)' <=> HasEntry(id))
      /\ MapTypes'
  BY <1>1, <1>2, MapsSame
<1>9. Types'
  <2>1. PeerTypes'
    BY <1>1, <1>2, <1>3 DEF PeerTypes
  <2>. QED BY <1>2, <1>5, <1>8, <2>1 DEF Types, IInv
<1>10. c # Display
  <2>1. mine[Display].interface = "display"
    BY IdKinds DEF IInv, DisplayLives, ClientIdInv, Held, NoInterface
  <2>. QED BY <1>2, <2>1
<1>11. ClientIdInv(c)
  BY DEF IInv
<1>12. ClientIdInv(c)'
  <2>1. Used(c)' <=> Used(c)
    BY <1>3 DEF Used
  <2>2. mine'[c].interface = "callback" /\ mine'[c].state # "live"
    BY <1>2, <1>3
  <2>3. Coming(c)' /\ Held(c)' /\ Told(c)' /\ Resting(c)'
    BY <1>2, <1>3, <1>4, <1>8, <1>11, <2>1 DEF ClientIdInv, Coming, Held, Told, Resting
  <2>4. Asked(c)'
    BY <1>2, <1>4, <1>11 DEF ClientIdInv, Asked
  <2>5. Going(c)' /\ Alive(c)'
    BY <1>2, <1>3, <1>4, <1>8, <1>11, <2>1, <2>2 DEF ClientIdInv, Going, Alive
  <2>. QED BY <2>3, <2>4, <2>5 DEF ClientIdInv
<1>13. \A d \in ClientIds : mine'[d].state = "new" <=> mine[d].state = "new"
  BY <1>3
<1>14. NoGap' /\ NoGapAbove'
  BY <1>1, <1>2, <1>5, <1>7, <1>8, <1>13, NoGapKept, NoGapAboveKept DEF IInv
<1>15. /\ \A d \in ClientIds : d # c =>
             mine'[d] = mine[d] /\ objects'[d] = objects[d] /\ Known(d)' = Known(d)
       /\ \A s \in ServerIds :
             offered'[s] = offered[s] /\ offers'[s] = offers[s] /\ Known(s)' = Known(s)
  BY <1>2, <1>3, <1>8
<1>. QED BY <1>5, <1>7, <1>9, <1>10, <1>12, <1>14, <1>15, FrameClient

\* A new object: its id has no life, and is the lowest that never had one or a free one.
LEMMA CreateStep ==
    ASSUME IInv, NEW c \in ClientIds, NEW i \in ClientInterfaces \cup {"callback"}, Create(c, i)
    PROVE  IInv'
<1>1. Typed /\ MapTypes /\ PeerTypes /\ MessageTypes
  BY IInvTyped
<1>2. /\ UNCHANGED <<clientMap, serverMap, panicked, offered, objects, offers>> /\ to' = to
      /\ MayAllocate(c) /\ mine' = [mine EXCEPT ![c] = [state |-> "live", interface |-> i]]
      /\ SendFrom("client", <<Creating(IF i = "callback" THEN "sync" ELSE "get",
                                       Display, "display", c, i)>>)
  BY DEF Create, mediatorVars, serverVars
<1> DEFINE op == IF i = "callback" THEN "sync" ELSE "get"
           x == Creating(op, Display, "display", c, i)
<1>3. /\ x = [op |-> op, target |-> Display, interface |-> "display", new |-> c, newInterface |-> i]
      /\ op \in {"sync", "get"}
  BY MessageFields
<1>4. SendFrom("client", <<x>>)
  BY <1>2
<1>. HIDE DEF x, op
<1>5. mine[c].state \in {"free", "new"} /\ c # Display
  BY <1>2 DEF MayAllocate, IInv, DisplayLives
<1>6. x \in Msg
  BY <1>3, IdKinds DEF Msg, Ops, Ids, Interfaces
<1>7. UpMessage(x)
  BY <1>3, <1>5 DEF UpMessage
<1>8. /\ MessageTypes' /\ Typed' /\ CutUp' = CutUp /\ Down' = Down /\ CutDown' = CutDown
      /\ Extended(Up, CutUp, Up', CutUp')
      /\ Len(Up') = Len(Up) + 1 /\ Up'[Len(Up) + 1] = x
  BY <1>1, <1>2, <1>4, <1>6, <1>7, ClientSendsOne
<1>9. /\ \A k \in 1..Len(Up') : \/ k \in 1..Len(Up) /\ Up'[k] = Up[k]
                                \/ k = Len(Up) + 1 /\ Up'[k] = x
      /\ \A k \in 1..Len(Up) : k \in 1..Len(Up') /\ Up'[k] = Up[k]
      /\ Len(Up) + 1 \in 1..Len(Up') /\ Len(Up) + 1 > CutUp
      /\ \A R : x \notin R => \A D \in SUBSET R : Keeps(Up, CutUp, Up', CutUp', R, D)
  BY <1>1, <1>8, UpGrows
<1>10. \A R : \A D \in SUBSET R : Keeps(Down, CutDown, Down', CutDown', R, D)
  BY <1>1, <1>8, DownStays
<1>11. /\ Creates(x, c) /\ \A id : Creates(x, id) => id = c
       /\ \A id : ~Deletes(x, id)
  BY <1>3, IdKinds DEF Creates, CreatesObject, Deletes, IsServerId
<1>12. \A id : id # c /\ id # Display => x \notin About(id)
  BY <1>3, <1>6, <1>11, MarkingAbout
<1>13. /\ \A id : id # c /\ id # Display =>
             /\ Keeps(Up, CutUp, Up', CutUp', About(id), Marking(id))
             /\ Keeps(Up, CutUp, Up', CutUp', About(id), {})
       /\ \A id : Keeps(Down, CutDown, Down', CutDown', About(id), Marking(id))
       /\ Keeps(Down, CutDown, Down', CutDown', Creations(ServerIds), Creations(ServerIds))
  BY <1>9, <1>10, <1>12, MarkingAbout
<1>14. /\ \A id : Known(id)' = Known(id) /\ (HasEntry(id)' <=> HasEntry(id))
       /\ MapTypes'
  BY <1>1, <1>2, MapsSame
<1>15. /\ mine' \in [ClientIds -> [state : {"new", "live", "zombie", "deleted", "free"},
               interface : ClientInterfaces \cup {"display", "callback", NoInterface}]]
       /\ mine'[c].state = "live" /\ mine'[c].interface = i
       /\ \A d \in ClientIds : d # c => mine'[d] = mine[d]
  BY <1>1, <1>2 DEF PeerTypes
<1>16. i \notin {"display", NoInterface}
  BY IdsAssumption DEF NoInterface
<1>17. Types'
  <2>1. PeerTypes'
    BY <1>1, <1>2, <1>15, <1>16 DEF PeerTypes
  <2>. QED BY <1>2, <1>8, <1>14, <2>1 DEF Types, IInv
<1>18. ClientIdInv(c) /\ ~Used(c)
  BY <1>5 DEF IInv, Used
<1>19. /\ \A k \in 1..Len(Up) : ~Creates(Up[k], c) /\ Up[k].target # c
       /\ \A k \in 1..Len(Down) : ~Deletes(Down[k], c) /\ Down[k].target # c
       /\ objects[c] = NoInterface /\ Known(c) = NoInterface
  BY <1>18 DEF ClientIdInv, Coming, Asked, Going, Told, Held, Resting
<1>20. ClientIdInv(c)'
  <2>1. Used(c)'
    BY <1>15 DEF Used
  <2>2. \A k \in 1..Len(Up') : Up'[k].target # c /\ (Creates(Up'[k], c) => k = Len(Up) + 1 /\ Up'[k] = x)
    BY <1>3, <1>5, <1>9, <1>19
  <2>3. Coming(c)'
    <3>1. ASSUME NEW k \in 1..Len(Up'), Creates(Up'[k], c)
          PROVE  /\ Up'[k].newInterface = mine'[c].interface
                 /\ Known(c)' = IF k <= CutUp' THEN mine'[c].interface ELSE NoInterface
                 /\ \A j \in 1..Len(Up') : Creates(Up'[j], c) => j = k
      <4>1. k = Len(Up) + 1 /\ Up'[k] = x /\ ~(k <= CutUp')
        BY <1>1, <1>8, <2>2, <3>1 DEF Typed
      <4>. QED BY <1>3, <1>14, <1>15, <1>19, <2>2, <4>1
    <3>. QED BY <1>2, <1>8, <1>15, <1>16, <1>19, <2>1, <2>2, <3>1 DEF Coming
  <2>4. Asked(c)'
    BY <2>2 DEF Asked
  <2>5. Held(c)' /\ Resting(c)'
    BY <1>2, <1>19, <2>1 DEF Held, Resting
  <2>6. Going(c)' /\ Told(c)'
    BY <1>8, <1>19 DEF Going, Told
  <2>7. Alive(c)'
    BY <1>9, <1>11, <1>15, <1>16 DEF Alive
  <2>. QED BY <2>3, <2>4, <2>5, <2>6, <2>7 DEF ClientIdInv
<1>21. \A d \in ClientIds : d < c => mine[d].state # "new"
  <2>1. ASSUME NEW d \in ClientIds, d < c, mine[d].state = "new"
        PROVE  FALSE
    <3>1. mine[c].state = "new"
      BY <2>1 DEF IInv, NoGap
    <3>2. c <= d
      BY <1>2, <2>1, <3>1 DEF MayAllocate
    <3>. QED BY <2>1, <3>2, IdKinds
  <2>. QED BY <2>1
<1>22. NoGap'
  <2>1. \A a, b \in ClientIds : a < b /\ mine'[a].state = "new" => mine'[b].state = "new"
    BY <1>15, <1>21 DEF IInv, NoGap
  <2>2. \A d \in ClientIds : mine'[d].state # "new" => HasEntry(d)' \/ Waiting(d)'
    <3>1. Waiting(c)'
      BY <1>8, <1>9, <1>11 DEF Waiting
    <3>2. ASSUME NEW d \in ClientIds, d # c, mine'[d].state # "new"
          PROVE  HasEntry(d)' \/ Waiting(d)'
      <4>1. HasEntry(d) \/ Waiting(d)
        BY <1>15, <3>2 DEF IInv, NoGap
      <4>2. Waiting(d) => Waiting(d)'
        BY <1>8, <1>9 DEF Waiting
      <4>. QED BY <1>14, <4>1, <4>2
    <3>. QED BY <3>1, <3>2
  <2>3. ASSUME NEW k \in 1..Len(Up'), NEW a \in ClientIds, NEW d \in ClientIds,
               k > CutUp', Creates(Up'[k], d), a < d, ~HasEntry(a)'
        PROVE  \E j \in 1..Len(Up') : CutUp' < j /\ j < k /\ Creates(Up'[j], a)
    <3>1. \E j \in 1..Len(Up) : CutUp < j /\ j < k /\ Creates(Up[j], a)
      <4>1. CASE k \in 1..Len(Up) /\ Up'[k] = Up[k]
        BY <1>8, <1>14, <2>3, <4>1 DEF IInv, NoGap
      <4>2. CASE k = Len(Up) + 1 /\ Up'[k] = x
        <5>1. d = c
          BY <1>11, <2>3, <4>2
        <5>2. mine[a].state # "new"
          BY <1>21, <2>3, <5>1
        <5>3. Waiting(a)
          BY <1>14, <2>3, <5>2 DEF IInv, NoGap
        <5>. QED BY <1>1, <4>2, <5>3 DEF Waiting, Typed
      <4>. QED BY <1>9, <4>1, <4>2
    <3>. QED BY <1>8, <1>9, <3>1
  <2>. QED BY <2>1, <2>2, <2>3 DEF NoGap
<1>23. NoGapAbove'
  BY <1>1, <1>2, <1>8, <1>13, <1>14, NoGapAboveKept DEF IInv
<1>24. /\ \A d \in ClientIds : d # c =>
             mine'[d] = mine[d] /\ objects'[d] = objects[d] /\ Known(d)' = Known(d)
       /\ \A s \in ServerIds :
             offered'[s] = offered[s] /\ offers'[s] = offers[s] /\ Known(s)' = Known(s)
  BY <1>2, <1>14, <1>15
<1>25. \A s \in ServerIds : s # c /\ s # Display
  BY IdKinds
<1>26. /\ \A d \in ClientIds : d # c /\ d # Display =>
             /\ Keeps(Up, CutUp, Up', CutUp', About(d), Marking(d))
             /\ Keeps(Down, CutDown, Down', CutDown', About(d), Marking(d))
       /\ \A s \in ServerIds : /\ Keeps(Up, CutUp, Up', CutUp', About(s), {})
                               /\ Keeps(Down, CutDown, Down', CutDown', About(s), Marking(s))
  BY <1>13, <1>25
<1>. QED BY <1>5, <1>8, <1>17, <1>20, <1>22, <1>23, <1>24, <1>26, FrameClient

LEMMA SendsNothing == ASSUME MessageTypes, NEW p \in Peers, from' = from PROVE SendFrom(p, <<>>)
<1>1. from[p] \in Seq(Msg)
  BY DEF MessageTypes
<1>2. from[p] \o <<>> = from[p]
  BY <1>1, ConcatEmptySeq
<1>. QED BY <1>2 DEF SendFrom, MessageTypes

\* What arrives at the client and is answered by no message.
LEMMA ClientTakesOnly ==
    ASSUME MessageTypes, from' = from, to["client"] # <<>>, to' = [to EXCEPT !["client"] = Tail(@)]
    PROVE  /\ Up' = Up /\ CutUp' = CutUp
           /\ Taken(Down, CutDown, Down', CutDown') /\ Down[1] = Head(to["client"])
           /\ MessageTypes' /\ Typed'
<1> DEFINE e == <<>>
<1>1. e \in Seq(Msg) /\ (\A i \in 1..Len(e) : UpMessage(e[i])) /\ SendFrom("client", e)
  BY SendsNothing, EmptySeq DEF Peers
<1>. HIDE DEF e
<1>2. /\ Taken(Down, CutDown, Down', CutDown') /\ Down[1] = Head(to["client"])
      /\ MessageTypes' /\ Typed'
  BY <1>1, ClientTakes
<1>3. Up' = Up /\ CutUp' = CutUp
  BY DEF Up, CutUp, MessageTypes, Peers
<1>. QED BY <1>2, <1>3

LEMMA ServerTakesOnly ==
    ASSUME MessageTypes, from' = from, to["server"] # <<>>, to' = [to EXCEPT !["server"] = Tail(@)]
    PROVE  /\ Down' = Down /\ CutDown' = CutDown
           /\ Taken(Up, CutUp, Up', CutUp') /\ Up[1] = Head(to["server"])
           /\ MessageTypes' /\ Typed'
<1> DEFINE e == <<>>
<1>1. e \in Seq(Msg) /\ (\A i \in 1..Len(e) : DownMessage(e[i])) /\ SendFrom("server", e)
  BY SendsNothing, EmptySeq DEF Peers
<1>. HIDE DEF e
<1>2. /\ Taken(Up, CutUp, Up', CutUp') /\ Up[1] = Head(to["server"])
      /\ MessageTypes' /\ Typed'
  BY <1>1, ServerTakes
<1>3. Down' = Down /\ CutDown' = CutDown
  BY DEF Down, CutDown, MessageTypes, Peers
<1>. QED BY <1>2, <1>3

\* What the client has before it.
LEMMA ClientHead ==
    ASSUME MessageTypes, to["client"] # <<>>
    PROVE  1 \in 1..Len(Down) /\ Down[1] = Head(to["client"]) /\ Down[1] \in Msg /\ DownMessage(Down[1])
<1> DEFINE a == to["client"]
           b == from["server"]
<1>1. a \in Seq(Msg) /\ b \in Seq(Msg) /\ a # <<>>
  BY DEF MessageTypes, Peers
<1>. HIDE DEF a, b
<1>2. Taken(a \o b, Len(a), Tail(a) \o b, Len(Tail(a))) /\ (a \o b)[1] = Head(a) /\ Head(a) \in Msg
  BY <1>1, Take
<1>3. Typed
  BY AlwaysTyped
<1>4. 1 <= Len(Down) /\ Down[1] = Head(to["client"]) /\ Down[1] \in Msg
  BY <1>2 DEF Taken, Down, CutDown, a, b
<1>5. 1 \in 1..Len(Down)
  BY <1>3, <1>4 DEF Typed
<1>. QED BY <1>4, <1>5 DEF MessageTypes

LEMMA ServerHead ==
    ASSUME MessageTypes, to["server"] # <<>>
    PROVE  1 \in 1..Len(Up) /\ Up[1] = Head(to["server"]) /\ Up[1] \in Msg /\ UpMessage(Up[1])
<1> DEFINE a == to["server"]
           b == from["client"]
<1>1. a \in Seq(Msg) /\ b \in Seq(Msg) /\ a # <<>>
  BY DEF MessageTypes, Peers
<1>. HIDE DEF a, b
<1>2. Taken(a \o b, Len(a), Tail(a) \o b, Len(Tail(a))) /\ (a \o b)[1] = Head(a) /\ Head(a) \in Msg
  BY <1>1, Take
<1>3. Typed
  BY AlwaysTyped
<1>4. 1 <= Len(Up) /\ Up[1] = Head(to["server"]) /\ Up[1] \in Msg
  BY <1>2 DEF Taken, Up, CutUp, a, b
<1>5. 1 \in 1..Len(Up)
  BY <1>3, <1>4 DEF Typed
<1>. QED BY <1>4, <1>5 DEF MessageTypes

\* The id of a destroyed object comes back: it has no life left.
LEMMA DeletionTaken ==
    ASSUME IInv, MessageTypes', Typed', NEW c \in ClientIds, Deletes(Down[1], c),
           Up' = Up, CutUp' = CutUp, Taken(Down, CutDown, Down', CutDown'),
           mine' = [mine EXCEPT ![c].state = IF mine[c].state = "live" THEN "deleted" ELSE "free"],
           UNCHANGED <<clientMap, serverMap, panicked, offered, objects, offers>>
    PROVE  IInv'
<1>1. Typed /\ MapTypes /\ PeerTypes /\ MessageTypes
  BY IInvTyped
<1>2. /\ 1 \in 1..Len(Down) /\ 1 <= CutDown
      /\ \A k \in 1..Len(Down') : k + 1 \in 1..Len(Down) /\ k + 1 # 1 /\ Down'[k] = Down[k + 1]
      /\ \A R : \A D \in SUBSET R : Down[1] \notin D => Keeps(Down, CutDown, Down', CutDown', R, D)
  BY <1>1, DownShrinks
<1> DEFINE m == Down[1]
<1>3. m \in Msg /\ DownMessage(m)
  BY <1>1, <1>2 DEF Typed, MessageTypes
<1>4. m.op = "delete_id" /\ m.new = c /\ c # Display
  BY <1>3, DownMarks, IdKinds DEF Deletes
<1>5. \A id : id # c => m \notin Marking(id)
  BY <1>3, <1>4, MarkingAbout DEF Deletes, Creates, CreatesObject
<1>6. Deletes(m, c) /\ Down[1] = m
  OBVIOUS
<1>. HIDE DEF m
<1>7. \A R : \A D \in SUBSET R : Keeps(Up, CutUp, Up', CutUp', R, D)
  BY <1>1, UpStays
<1>8. /\ \A id : id # c => /\ Keeps(Down, CutDown, Down', CutDown', About(id), Marking(id))
                           /\ Keeps(Up, CutUp, Up', CutUp', About(id), Marking(id))
                           /\ Keeps(Up, CutUp, Up', CutUp', About(id), {})
      /\ Keeps(Up, CutUp, Up', CutUp', Creations(ClientIds), Creations(ClientIds))
  BY <1>2, <1>5, <1>6, <1>7, MarkingAbout
<1>9. ClientIdInv(c)
  BY DEF IInv
<1>10. /\ Used(c) /\ objects[c] = NoInterface /\ Known(c) = NoInterface
       /\ \A j \in 1..Len(Down) : Deletes(Down[j], c) => j = 1
       /\ \A j \in 1..Len(Down) : Down[j].target = c => j < 1
       /\ \A j \in 1..Len(Up) : Up[j].target # c /\ ~Creates(Up[j], c)
  BY <1>2, <1>6, <1>9 DEF ClientIdInv, Going
<1>11. /\ mine' \in [ClientIds -> [state : {"new", "live", "zombie", "deleted", "free"},
                interface : ClientInterfaces \cup {"display", "callback", NoInterface}]]
       /\ mine'[c].state \in {"deleted", "free"}
       /\ \A d \in ClientIds : mine'[d].interface = mine[d].interface
       /\ \A d \in ClientIds : d # c => mine'[d] = mine[d]
  BY <1>1 DEF PeerTypes
<1>12. /\ \A id : Known(id)' = Known(id) /\ (HasEntry(id)' <=> HasEntry(id))
       /\ MapTypes'
  BY <1>1, MapsSame
<1>13. Types'
  <2>1. PeerTypes'
    BY <1>1, <1>11 DEF PeerTypes
  <2>. QED BY <1>12, <2>1 DEF Types, IInv
<1>14. ClientIdInv(c)'
  <2>1. \A k \in 1..Len(Down') : ~Deletes(Down'[k], c) /\ Down'[k].target # c
    <3>1. ASSUME NEW k \in 1..Len(Down')
          PROVE  ~Deletes(Down'[k], c) /\ Down'[k].target # c
      <4>1. k + 1 \in 1..Len(Down) /\ k + 1 # 1 /\ ~(k + 1 < 1) /\ Down'[k] = Down[k + 1]
        BY <1>1, <1>2 DEF Typed
      <4>. QED BY <1>10, <4>1
    <3>. QED BY <3>1
  <2>2. Coming(c)' /\ Asked(c)'
    BY <1>10 DEF Coming, Asked
  <2>3. Held(c)' /\ Resting(c)' /\ Alive(c)'
    BY <1>10, <1>11, <1>12 DEF Held, Resting, Alive
  <2>4. Going(c)' /\ Told(c)'
    BY <2>1 DEF Going, Told
  <2>. QED BY <2>2, <2>3, <2>4 DEF ClientIdInv
<1>15. \A d \in ClientIds : mine'[d].state = "new" <=> mine[d].state = "new"
  BY <1>10, <1>11 DEF Used
<1>16. NoGap' /\ NoGapAbove'
  BY <1>1, <1>8, <1>12, <1>15, NoGapKept, NoGapAboveShrinks DEF IInv
<1>17. /\ \A d \in ClientIds : d # c =>
             mine'[d] = mine[d] /\ objects'[d] = objects[d] /\ Known(d)' = Known(d)
       /\ \A s \in ServerIds : s # c /\ offered'[s] = offered[s] /\ offers'[s] = offers[s]
                                     /\ Known(s)' = Known(s)
  BY <1>11, <1>12, IdKinds
<1>. QED BY <1>4, <1>8, <1>13, <1>14, <1>16, <1>17, FrameClient

\* An offer comes to the client, who may have destroyed what it was made with.
LEMMA OfferTaken ==
    ASSUME IInv, MessageTypes', Typed', NEW s \in ServerIds, Creates(Down[1], s),
           Up' = Up, CutUp' = CutUp, Taken(Down, CutDown, Down', CutDown'),
           \/ offered' = [offered EXCEPT ![s] = Down[1].newInterface]
           \/ offered' = offered,
           UNCHANGED <<clientMap, serverMap, panicked, mine, objects, offers>>
    PROVE  IInv'
<1>1. Typed /\ MapTypes /\ PeerTypes /\ MessageTypes
  BY IInvTyped
<1>2. /\ 1 \in 1..Len(Down) /\ 1 <= CutDown
      /\ \A k \in 1..Len(Down') : /\ k + 1 \in 1..Len(Down) /\ k + 1 # 1 /\ Down'[k] = Down[k + 1]
                                  /\ k > CutDown' => k + 1 > CutDown
      /\ \A R : \A D \in SUBSET R : Down[1] \notin D => Keeps(Down, CutDown, Down', CutDown', R, D)
  BY <1>1, DownShrinks
<1> DEFINE m == Down[1]
<1>3. m \in Msg /\ DownMessage(m)
  BY <1>1, <1>2 DEF Typed, MessageTypes
<1>4. m.op = "offer" /\ m.new = s /\ m.newInterface \in ServerInterfaces
  BY <1>3, DownMarks DEF Creates
<1>5. \A id : id # s => m \notin Marking(id)
  BY <1>3, <1>4, MarkingAbout DEF Deletes, Creates, CreatesObject
<1>6. Creates(m, s) /\ Down[1] = m
  OBVIOUS
<1>. HIDE DEF m
<1>7. \A R : \A D \in SUBSET R : Keeps(Up, CutUp, Up', CutUp', R, D)
  BY <1>1, UpStays
<1>8. /\ \A id : id # s => /\ Keeps(Down, CutDown, Down', CutDown', About(id), Marking(id))
                           /\ Keeps(Up, CutUp, Up', CutUp', About(id), Marking(id))
                           /\ Keeps(Up, CutUp, Up', CutUp', About(id), {})
      /\ Keeps(Up, CutUp, Up', CutUp', Creations(ClientIds), Creations(ClientIds))
  BY <1>2, <1>5, <1>6, <1>7, MarkingAbout
<1>9. ServerIdInv(s)
  BY DEF IInv
<1>10. /\ InUse(s) /\ m.newInterface = offers[s] /\ offered[s] = NoInterface /\ Known(s) = offers[s]
       /\ \A j \in 1..Len(Down) : Creates(Down[j], s) => j = 1
       /\ \A j \in 1..Len(Up) : Up[j].target # s
  BY <1>2, <1>6, <1>9 DEF ServerIdInv, Offering
<1>11. /\ offered' \in [ServerIds -> ServerInterfaces \cup {NoInterface}]
       /\ offered'[s] \in {NoInterface, offers[s]}
       /\ \A t \in ServerIds : t # s => offered'[t] = offered[t]
  BY <1>1, <1>4, <1>6, <1>10 DEF PeerTypes
<1>12. /\ \A id : Known(id)' = Known(id) /\ (HasEntry(id)' <=> HasEntry(id))
       /\ MapTypes'
  BY <1>1, MapsSame
<1>13. Types'
  <2>1. PeerTypes'
    BY <1>1, <1>11 DEF PeerTypes
  <2>. QED BY <1>12, <2>1 DEF Types, IInv
<1>14. ServerIdInv(s)'
  <2>1. \A k \in 1..Len(Down') : ~Creates(Down'[k], s)
    BY <1>2, <1>10
  <2>2. Offering(s)' /\ AskedOffer(s)'
    BY <1>10, <2>1 DEF Offering, AskedOffer
  <2>3. Offered(s)' /\ Settled(s)'
    BY <1>10, <1>11, <1>12 DEF Offered, Settled, InUse
  <2>4. ToldOffer(s)'
    <3>1. ASSUME NEW k \in 1..Len(Down'), k > CutDown', Down'[k].target = s
          PROVE  Known(s)' = Down'[k].interface
      <4>1. k + 1 \in 1..Len(Down) /\ Down'[k] = Down[k + 1] /\ k + 1 > CutDown
        BY <1>2, <3>1
      <4>2. \A j \in 1..Len(Down) : ~(CutDown < j /\ Creates(Down[j], s))
        BY <1>1, <1>2, <1>10 DEF Typed
      <4>. QED BY <1>9, <1>12, <3>1, <4>1, <4>2 DEF ServerIdInv, ToldOffer
    <3>. QED BY <3>1 DEF ToldOffer
  <2>. QED BY <2>2, <2>3, <2>4 DEF ServerIdInv
<1>15. NoGap' /\ NoGapAbove'
  BY <1>1, <1>8, <1>12, NoGapKept, NoGapAboveShrinks DEF IInv
<1>16. /\ \A d \in ClientIds : d # s /\ mine'[d] = mine[d] /\ objects'[d] = objects[d]
                                     /\ Known(d)' = Known(d)
       /\ \A t \in ServerIds : t # s =>
             offered'[t] = offered[t] /\ offers'[t] = offers[t] /\ Known(t)' = Known(t)
  BY <1>11, <1>12, IdKinds
<1>. QED BY <1>8, <1>13, <1>14, <1>15, <1>16, FrameServer

\* Anything else comes to the client, or it answers a handshake.
LEMMA EventTaken ==
    ASSUME IInv, ClientReceives, \A id \in Ids : ~Deletes(Down[1], id) /\ ~Creates(Down[1], id)
    PROVE  IInv'
<1>1. Typed /\ MapTypes /\ PeerTypes /\ MessageTypes
  BY IInvTyped
<1> DEFINE m == Down[1]
<1>2. to["client"] # <<>>
  BY DEF ClientReceives
<1>3. m \in Msg /\ DownMessage(m) /\ m = Head(to["client"])
  BY <1>1, <1>2, ClientHead
<1>4. m.op # "offer" /\ (m.op = "delete_id" => m.new = HandshakeId)
  <2>1. ASSUME m.op = "offer"
        PROVE  FALSE
    <3>1. m.new \in ServerIds
      BY <1>3, <2>1 DEF DownMessage
    <3>2. Creates(m, m.new)
      BY <2>1, <3>1, IdKinds DEF Creates, CreatesObject
    <3>. QED BY <3>1, <3>2 DEF Ids
  <2>2. ASSUME m.op = "delete_id", m.new # HandshakeId
        PROVE  FALSE
    <3>1. m.new \in ClientIds
      BY <1>3, <2>2 DEF DownMessage
    <3>2. Deletes(m, m.new)
      BY <2>2 DEF Deletes
    <3>. QED BY <3>1, <3>2 DEF Ids
  <2>. QED BY <2>1, <2>2
<1>5. /\ UNCHANGED <<clientMap, serverMap, panicked, mine, offered, objects, offers>>
      /\ to' = [to EXCEPT !["client"] = Tail(@)]
      /\ IF m.op = "delete_id"
         THEN SendFrom("client", <<Creating("sync", Display, "display", HandshakeId, NoInterface)>>)
         ELSE from' = from
  BY <1>3, <1>4, IdKinds DEF ClientReceives, mediatorVars, serverVars
<1>6. /\ \A id : Known(id)' = Known(id) /\ (HasEntry(id)' <=> HasEntry(id))
      /\ MapTypes'
  BY <1>1, <1>5, MapsSame
<1>7. PeerTypes'
  BY <1>1, <1>5 DEF PeerTypes
<1>8. \A id \in Ids : m \notin Marking(id)
  BY <1>3, MarkingAbout
<1>9. Taken(Down, CutDown, Down', CutDown') /\ MessageTypes' /\ Typed'
      /\ (\A id \in Ids : id # Display => Keeps(Up, CutUp, Up', CutUp', About(id), Marking(id)))
      /\ (\A id \in Ids : id # Display => Keeps(Up, CutUp, Up', CutUp', About(id), {}))
      /\ Keeps(Up, CutUp, Up', CutUp', Creations(ClientIds), Creations(ClientIds))
  <2>1. CASE m.op # "delete_id"
    <3>1. /\ Up' = Up /\ CutUp' = CutUp /\ Taken(Down, CutDown, Down', CutDown')
          /\ MessageTypes' /\ Typed'
      BY <1>1, <1>2, <1>5, <2>1, ClientTakesOnly
    <3>2. \A R : \A D \in SUBSET R : Keeps(Up, CutUp, Up', CutUp', R, D)
      BY <1>1, <3>1, UpStays
    <3>. QED BY <3>1, <3>2, MarkingAbout
  <2>2. CASE m.op = "delete_id"
    <3> DEFINE x == Creating("sync", Display, "display", HandshakeId, NoInterface)
               e == <<x>>
    <3>1. x = [op |-> "sync", target |-> Display, interface |-> "display", new |-> HandshakeId,
               newInterface |-> NoInterface]
      BY MessageFields
    <3>2. SendFrom("client", e)
      BY <1>5, <2>2
    <3>. HIDE DEF x
    <3>3. x \in Msg
      BY <3>1, IdKinds DEF Msg, Ops, Ids, Interfaces
    <3>4. UpMessage(x)
      BY <3>1 DEF UpMessage
    <3>5. /\ e \in Seq(Msg) /\ Len(e) = 1 /\ e[1] = x /\ 1 \in 1..Len(e)
          /\ \A i \in 1..Len(e) : UpMessage(e[i])
      BY <3>3, <3>4
    <3>. HIDE DEF e
    <3>6. /\ Extended(Up, CutUp, Up', CutUp')
          /\ Len(Up') = Len(Up) + Len(e) /\ \A i \in 1..Len(e) : Up'[Len(Up) + i] = e[i]
          /\ Taken(Down, CutDown, Down', CutDown') /\ MessageTypes' /\ Typed'
      BY <1>1, <1>2, <1>5, <3>2, <3>5, ClientTakes
    <3>7. Len(Up') = Len(Up) + 1 /\ Up'[Len(Up) + 1] = x
      BY <3>5, <3>6
    <3>8. \A R : x \notin R => \A D \in SUBSET R : Keeps(Up, CutUp, Up', CutUp', R, D)
      BY <1>1, <3>6, <3>7, UpGrows
    <3>9. \A id : ~Creates(x, id) /\ ~Deletes(x, id)
      BY <3>1, IdKinds DEF Creates, CreatesObject, Deletes, IsServerId
    <3>10. \A id : id # Display => x \notin About(id)
      BY <3>1, <3>3, <3>9, MarkingAbout
    <3>11. x \notin Creations(ClientIds)
      BY <3>9 DEF Creations
    <3>. QED BY <3>6, <3>8, <3>10, <3>11, MarkingAbout
  <2>. QED BY <2>1, <2>2
<1>10. Types'
  BY <1>5, <1>6, <1>7, <1>9 DEF Types, IInv
<1>. HIDE DEF m
<1>11. \A id \in Ids : Keeps(Down, CutDown, Down', CutDown', About(id), Marking(id))
  BY <1>1, <1>8, <1>9, DownShrinks, MarkingAbout DEF m
<1>12. NoGap' /\ NoGapAbove'
  BY <1>1, <1>5, <1>6, <1>9, NoGapKept, NoGapAboveShrinks DEF IInv
<1>13. (\A d \in ClientIds : d \in Ids) /\ \A s \in ServerIds : s \in Ids /\ s # Display
  BY IdKinds DEF Ids
<1> DEFINE N == {}
<1>14. N \in SUBSET ClientIds /\ N \in SUBSET ServerIds /\ \A y : y \notin N
  OBVIOUS
<1>. HIDE DEF N
<1>15. /\ \A d \in ClientIds : d # Display =>
             /\ Keeps(Up, CutUp, Up', CutUp', About(d), Marking(d))
             /\ Keeps(Down, CutDown, Down', CutDown', About(d), Marking(d))
       /\ \A s \in ServerIds : /\ Keeps(Up, CutUp, Up', CutUp', About(s), {})
                               /\ Keeps(Down, CutDown, Down', CutDown', About(s), Marking(s))
  BY <1>9, <1>11, <1>13
<1>16. /\ \A d \in ClientIds :
             mine'[d] = mine[d] /\ objects'[d] = objects[d] /\ Known(d)' = Known(d)
       /\ \A s \in ServerIds :
             offered'[s] = offered[s] /\ offers'[s] = offers[s] /\ Known(s)' = Known(s)
  BY <1>5, <1>6
<1>. QED BY <1>9, <1>10, <1>12, <1>14, <1>15, <1>16, Frame

LEMMA ClientReceivesStep == ASSUME IInv, ClientReceives PROVE IInv'
<1>1. Typed /\ MapTypes /\ PeerTypes /\ MessageTypes
  BY IInvTyped
<1> DEFINE m == Down[1]
<1>2. to["client"] # <<>> /\ to' = [to EXCEPT !["client"] = Tail(@)]
      /\ UNCHANGED <<clientMap, serverMap, panicked, objects, offers>>
  BY DEF ClientReceives, mediatorVars, serverVars
<1>3. m \in Msg /\ DownMessage(m) /\ m = Head(to["client"])
  BY <1>1, <1>2, ClientHead
<1>4. ASSUME NEW c \in ClientIds, Deletes(m, c)
      PROVE  IInv'
  <2>1. m.op = "delete_id" /\ m.new = c /\ c # HandshakeId /\ m.op # "offer"
    BY <1>4, IdKinds DEF Deletes
  <2>2. /\ mine' = [mine EXCEPT ![c].state = IF mine[c].state = "live" THEN "deleted" ELSE "free"]
        /\ offered' = offered /\ from' = from
    BY <1>3, <2>1 DEF ClientReceives
  <2>3. /\ Up' = Up /\ CutUp' = CutUp /\ Taken(Down, CutDown, Down', CutDown')
        /\ MessageTypes' /\ Typed'
    BY <1>1, <1>2, <2>2, ClientTakesOnly
  <2>. QED BY <1>2, <1>4, <2>2, <2>3, DeletionTaken
<1>5. ASSUME NEW s \in ServerIds, Creates(m, s)
      PROVE  IInv'
  <2>1. m.op = "offer" /\ m.new = s /\ m.op # "delete_id"
    BY <1>3, <1>5, DownMarks DEF Creates
  <2>2. /\ mine' = mine /\ from' = from
        /\ offered' = [offered EXCEPT ![s] = Down[1].newInterface] \/ offered' = offered
    BY <1>3, <2>1 DEF ClientReceives
  <2>3. /\ Up' = Up /\ CutUp' = CutUp /\ Taken(Down, CutDown, Down', CutDown')
        /\ MessageTypes' /\ Typed'
    BY <1>1, <1>2, <2>2, ClientTakesOnly
  <2>. QED BY <1>2, <1>5, <2>2, <2>3, OfferTaken
<1>6. CASE (\A c \in ClientIds : ~Deletes(m, c)) /\ \A s \in ServerIds : ~Creates(m, s)
  <2>1. \A id \in Ids : ~Deletes(m, id) /\ ~Creates(m, id)
    BY <1>3, <1>6, DownMarks, IdKinds DEF Ids
  <2>. QED BY <2>1, EventTaken
<1>. QED BY <1>4, <1>5, <1>6

-----------------------------------------------------------------------------
(* The server.                                                             *)

LEMMA ServerSendsOne ==
    ASSUME MessageTypes, NEW x \in Msg, DownMessage(x), SendFrom("server", <<x>>), to' = to
    PROVE  /\ MessageTypes' /\ Typed' /\ CutDown' = CutDown /\ Up' = Up /\ CutUp' = CutUp
           /\ Extended(Down, CutDown, Down', CutDown')
           /\ Len(Down') = Len(Down) + 1 /\ Down'[Len(Down) + 1] = x
<1> DEFINE e == <<x>>
<1>1. e \in Seq(Msg) /\ Len(e) = 1 /\ e[1] = x /\ \A i \in 1..Len(e) : DownMessage(e[i])
  OBVIOUS
<1>2. SendFrom("server", e)
  OBVIOUS
<1>. HIDE DEF e
<1>3. /\ Extended(Down, CutDown, Down', CutDown')
      /\ Len(Down') = Len(Down) + Len(e) /\ \A i \in 1..Len(e) : Down'[Len(Down) + i] = e[i]
      /\ Up' = Up /\ CutUp' = CutUp /\ MessageTypes' /\ Typed'
  BY <1>1, <1>2, ServerSends
<1>4. 1 \in 1..Len(e)
  BY <1>1
<1>. QED BY <1>1, <1>3, <1>4 DEF Extended

\* A creation comes to the server: the mediator knows the object, no event was sent of it.
LEMMA CreationTaken ==
    ASSUME IInv, MessageTypes', Typed', NEW c \in ClientIds, Creates(Up[1], c),
           Down' = Down, CutDown' = CutDown, Taken(Up, CutUp, Up', CutUp'),
           objects' = [objects EXCEPT ![c] = Up[1].newInterface],
           UNCHANGED <<clientMap, serverMap, panicked, mine, offered, offers>>
    PROVE  IInv'
<1>1. Typed /\ MapTypes /\ PeerTypes /\ MessageTypes
  BY IInvTyped
<1>2. /\ 1 \in 1..Len(Up) /\ 1 <= CutUp
      /\ \A k \in 1..Len(Up') : k + 1 \in 1..Len(Up) /\ k + 1 # 1 /\ Up'[k] = Up[k + 1]
      /\ \A R : \A D \in SUBSET R : Up[1] \notin D => Keeps(Up, CutUp, Up', CutUp', R, D)
  BY <1>1, UpShrinks
<1> DEFINE m == Up[1]
<1>3. m \in Msg /\ UpMessage(m)
  BY <1>1, <1>2 DEF Typed, MessageTypes
<1>4. m.new = c /\ c # Display /\ m.newInterface \in ClientInterfaces \cup {"callback"}
  BY <1>3, UpMarks DEF Creates
<1>5. \A id : id # c => m \notin Marking(id)
  BY <1>3, <1>4, UpMarks, MarkingAbout DEF Creates
<1>6. Creates(m, c) /\ Up[1] = m
  OBVIOUS
<1>. HIDE DEF m
<1>7. \A R : \A D \in SUBSET R : Keeps(Down, CutDown, Down', CutDown', R, D)
  BY <1>1, DownStays
<1>8. /\ \A id : id # c => Keeps(Up, CutUp, Up', CutUp', About(id), Marking(id))
      /\ \A id : /\ Keeps(Up, CutUp, Up', CutUp', About(id), {})
                 /\ Keeps(Down, CutDown, Down', CutDown', About(id), Marking(id))
      /\ Keeps(Down, CutDown, Down', CutDown', Creations(ServerIds), Creations(ServerIds))
  BY <1>2, <1>5, <1>6, <1>7, MarkingAbout
<1>9. ClientIdInv(c)
  BY DEF IInv
<1>10. /\ Used(c) /\ m.newInterface = mine[c].interface /\ mine[c].interface # NoInterface
       /\ Known(c) = mine[c].interface
       /\ \A j \in 1..Len(Up) : Creates(Up[j], c) => j = 1
       /\ \A j \in 1..Len(Down) : Down[j].target # c
  BY <1>2, <1>6, <1>9 DEF ClientIdInv, Coming
<1>11. /\ objects' \in [ClientIds -> ClientInterfaces \cup {"display", "callback", NoInterface}]
       /\ objects'[c] = mine[c].interface
       /\ \A d \in ClientIds : d # c => objects'[d] = objects[d]
  BY <1>1, <1>4, <1>6, <1>10 DEF PeerTypes
<1>12. /\ \A id : Known(id)' = Known(id) /\ (HasEntry(id)' <=> HasEntry(id))
       /\ MapTypes'
  BY <1>1, MapsSame
<1>13. Types'
  <2>1. PeerTypes'
    BY <1>1, <1>11 DEF PeerTypes
  <2>. QED BY <1>12, <2>1 DEF Types, IInv
<1>14. ClientIdInv(c)'
  <2>1. \A k \in 1..Len(Up') : ~Creates(Up'[k], c)
    BY <1>2, <1>10
  <2>2. Coming(c)'
    BY <2>1 DEF Coming
  <2>3. Asked(c)'
    <3>1. ASSUME NEW k \in 1..Len(Up'), Up'[k].target = c
          PROVE  /\ Up'[k].interface = mine[c].interface /\ mine[c].interface # "callback"
                 /\ Up'[k].op = "destroy" =>
                       /\ mine[c].state = "zombie"
                       /\ \A j \in 1..Len(Up') : Up'[j].target = c => j <= k
      <4>1. k + 1 \in 1..Len(Up) /\ Up'[k] = Up[k + 1]
        BY <1>2
      <4>2. /\ Up[k + 1].interface = mine[c].interface /\ mine[c].interface # "callback"
            /\ Up[k + 1].op = "destroy" =>
                  /\ mine[c].state = "zombie"
                  /\ \A j \in 1..Len(Up) : Up[j].target = c => j <= k + 1
        BY <1>9, <3>1, <4>1 DEF ClientIdInv, Asked
      <4>3. Up'[k].op = "destroy" => \A j \in 1..Len(Up') : Up'[j].target = c => j + 1 <= k + 1
        BY <1>2, <4>1, <4>2
      <4>. QED BY <4>1, <4>2, <4>3
    <3>. QED BY <1>10, <1>11, <3>1 DEF Asked, Used
  <2>4. Held(c)' /\ Resting(c)' /\ Alive(c)'
    BY <1>10, <1>11, <1>12 DEF Held, Resting, Alive, Used
  <2>5. Going(c)' /\ Told(c)'
    <3>1. \A k \in 1..Len(Down) : ~Deletes(Down[k], c)
      BY <1>2, <1>6, <1>9 DEF ClientIdInv, Going
    <3>. QED BY <1>10, <3>1 DEF Going, Told
  <2>. QED BY <2>2, <2>3, <2>4, <2>5 DEF ClientIdInv
<1>15. NoGap' /\ NoGapAbove'
  BY <1>1, <1>8, <1>12, NoGapShrinks, NoGapAboveKept DEF IInv
<1>16. /\ \A d \in ClientIds : d # c =>
             mine'[d] = mine[d] /\ objects'[d] = objects[d] /\ Known(d)' = Known(d)
       /\ \A s \in ServerIds : offered'[s] = offered[s] /\ offers'[s] = offers[s]
                               /\ Known(s)' = Known(s)
  BY <1>11, <1>12
<1>. QED BY <1>4, <1>8, <1>13, <1>14, <1>15, <1>16, FrameClient

\* The server destroys an object of the client's, after its last event: the delete_id
\* is the last that is said of it.  last is that event, if it is sent with it.
LEMMA ObjectGone ==
    ASSUME IInv, MessageTypes', Typed', NEW c \in ClientIds, c # Display, NEW n \in 1..2,
           Extended(Down, CutDown, Down', CutDown'), Len(Down') = Len(Down) + n,
           Down'[Len(Down) + n] = DeleteId(c),
           n = 2 => /\ Down'[Len(Down) + 1].target = c
                    /\ Down'[Len(Down) + 1].op = "done"
                    /\ Down'[Len(Down) + 1].interface = mine[c].interface,
           objects[c] # NoInterface, objects' = [objects EXCEPT ![c] = NoInterface],
           \/ mine[c].state = "zombie" \/ mine[c].interface = "callback",
           \A k \in 1..Len(Up') : Up'[k].target # c /\ ~Creates(Up'[k], c),
           \A d \in ClientIds : d # c => Keeps(Up, CutUp, Up', CutUp', About(d), Marking(d)),
           \A s \in ServerIds : Keeps(Up, CutUp, Up', CutUp', About(s), {}),
           Keeps(Up, CutUp, Up', CutUp', Creations(ClientIds), Creations(ClientIds)),
           UNCHANGED <<clientMap, serverMap, panicked, mine, offered, offers>>
    PROVE  IInv'
<1>1. Typed /\ MapTypes /\ PeerTypes /\ MessageTypes
  BY IInvTyped
<1> DEFINE x == DeleteId(c)
           y == Down'[Len(Down) + 1]
<1>2. x = [op |-> "delete_id", target |-> Display, interface |-> "display", new |-> c,
           newInterface |-> NoInterface]
  BY MessageFields
<1>3. /\ x.op = "delete_id" /\ x.target # c /\ x.new = c /\ x.target = Display
      /\ \A id : ~Creates(x, id) /\ (Deletes(x, id) <=> id = c)
  BY <1>2 DEF Creates, CreatesObject, Deletes
<1>. HIDE DEF x
<1>4. /\ \A k \in 1..Len(Down') : \/ k \in 1..Len(Down) /\ Down'[k] = Down[k]
                                  \/ k = Len(Down) + n /\ Down'[k] = x
                                  \/ n = 2 /\ k = Len(Down) + 1 /\ Down'[k] = y
      /\ \A k \in 1..Len(Down) : k \in 1..Len(Down') /\ Down'[k] = Down[k]
      /\ Len(Down) + n \in 1..Len(Down') /\ Len(Down) + n > CutDown'
      /\ Down'[Len(Down) + n] = x
  BY <1>1 DEF Extended, Typed, x
<1>5. n = 2 => y.target = c /\ \A id : ~Creates(y, id) /\ ~Deletes(y, id)
  <2>1. ASSUME n = 2
        PROVE  y \in Msg /\ DownMessage(y) /\ y.op = "done"
    <3>1. Len(Down) + 1 \in 1..Len(Down')
      BY <1>1, <2>1 DEF Typed
    <3>. QED BY <2>1, <3>1 DEF MessageTypes, Typed
  <2>. QED BY <2>1, DownMarks
<1>. HIDE DEF y
<1>6. /\ x \in Msg /\ (n = 2 => y \in Msg)
  BY <1>1, <1>4 DEF Typed, y
<1>7. /\ \A id : id # c /\ id # Display => x \notin About(id) /\ (n = 2 => y \notin About(id))
      /\ \A ids : x \notin Creations(ids) /\ (n = 2 => y \notin Creations(ids))
  BY <1>3, <1>5, <1>6, MarkingAbout DEF Creations
<1>8. ASSUME NEW R, x \notin R, n = 2 => y \notin R
      PROVE  \A D \in SUBSET R : Keeps(Down, CutDown, Down', CutDown', R, D)
  <2>1. ASSUME NEW k \in 1..Len(Down'), k > Len(Down)
        PROVE  Down'[k] \notin R
    <3>1. ~(k \in 1..Len(Down))
      BY <1>1, <2>1 DEF Typed
    <3>. QED BY <1>4, <1>8, <3>1
  <2>. QED BY <1>1, <2>1, DownKeeps
<1>9. /\ \A id : id # c /\ id # Display => Keeps(Down, CutDown, Down', CutDown', About(id), Marking(id))
      /\ Keeps(Down, CutDown, Down', CutDown', Creations(ServerIds), Creations(ServerIds))
  BY <1>7, <1>8, MarkingAbout
<1>10. ClientIdInv(c)
  BY DEF IInv
<1>11. /\ Used(c) /\ objects[c] = mine[c].interface /\ Known(c) = mine[c].interface
       /\ mine[c].interface # NoInterface
       /\ \A k \in 1..Len(Down) : ~Deletes(Down[k], c)
  BY <1>10 DEF ClientIdInv, Held, Going
<1>12. /\ objects' \in [ClientIds -> ClientInterfaces \cup {"display", "callback", NoInterface}]
       /\ objects'[c] = NoInterface
       /\ \A d \in ClientIds : d # c => objects'[d] = objects[d]
  BY <1>1 DEF PeerTypes
<1>13. /\ \A id : Known(id)' = Known(id) /\ (HasEntry(id)' <=> HasEntry(id))
       /\ MapTypes'
  BY <1>1, MapsSame
<1>14. Types'
  <2>1. PeerTypes'
    BY <1>1, <1>12 DEF PeerTypes
  <2>. QED BY <1>13, <2>1 DEF Types, IInv
<1>15. ClientIdInv(c)'
  <2>1. Coming(c)' /\ Asked(c)'
    BY DEF Coming, Asked
  <2>2. Held(c)' /\ Resting(c)' /\ Alive(c)'
    BY <1>11, <1>12 DEF Held, Resting, Alive, Used
  <2>3. \A k \in 1..Len(Down') : Deletes(Down'[k], c) => k = Len(Down) + n
    BY <1>4, <1>5, <1>11
  <2>4. \A k \in 1..Len(Down') : Down'[k].target = c => k < Len(Down) + n
    BY <1>1, <1>3, <1>4, SMTT(60) DEF Typed
  <2>5. Going(c)'
    <3>1. ASSUME NEW k \in 1..Len(Down'), Deletes(Down'[k], c)
          PROVE  /\ Known(c)' = IF k <= CutDown' THEN NoInterface ELSE mine'[c].interface
                 /\ \A j \in 1..Len(Down') : Deletes(Down'[j], c) => j = k
                 /\ \A j \in 1..Len(Down') : Down'[j].target = c => j < k
      <4>1. k = Len(Down) + n /\ ~(k <= CutDown')
        BY <1>1, <1>4, <2>3, <3>1 DEF Typed
      <4>. QED BY <1>11, <1>13, <2>3, <2>4, <4>1
    <3>. QED BY <1>11, <1>12, <3>1 DEF Going, Used
  <2>6. Told(c)'
    <3>1. Deletes(Down'[Len(Down) + n], c)
      BY <1>3, <1>4
    <3>2. \A k \in 1..Len(Down') : Down'[k].target = c => Down'[k].interface = mine[c].interface
      BY <1>3, <1>4, <1>10 DEF ClientIdInv, Told, y
    <3>. QED BY <1>4, <1>11, <3>1, <3>2 DEF Told, Used
  <2>. QED BY <2>1, <2>2, <2>5, <2>6 DEF ClientIdInv
<1>16. NoGap' /\ NoGapAbove'
  BY <1>1, <1>9, <1>13, NoGapKept, NoGapAboveKept DEF IInv
<1>17. /\ \A d \in ClientIds : d # c =>
             mine'[d] = mine[d] /\ objects'[d] = objects[d] /\ Known(d)' = Known(d)
       /\ \A s \in ServerIds : /\ s # c /\ s # Display
                               /\ offered'[s] = offered[s] /\ offers'[s] = offers[s]
                               /\ Known(s)' = Known(s)
  BY <1>12, <1>13, IdKinds
<1>18. /\ \A d \in ClientIds : d # c /\ d # Display =>
             /\ Keeps(Up, CutUp, Up', CutUp', About(d), Marking(d))
             /\ Keeps(Down, CutDown, Down', CutDown', About(d), Marking(d))
       /\ \A s \in ServerIds : /\ Keeps(Up, CutUp, Up', CutUp', About(s), {})
                               /\ Keeps(Down, CutDown, Down', CutDown', About(s), Marking(s))
  BY <1>9, <1>17
<1>. QED BY <1>14, <1>15, <1>16, <1>17, <1>18, FrameClient

\* The client destroyed what the server offered.
LEMMA OfferGone ==
    ASSUME IInv, MessageTypes', Typed', NEW s \in ServerIds,
           Up[1].op = "destroy", Up[1].target = s,
           Down' = Down, CutDown' = CutDown, Taken(Up, CutUp, Up', CutUp'),
           offers' = [offers EXCEPT ![s] = NoInterface],
           UNCHANGED <<clientMap, serverMap, panicked, mine, offered, objects>>
    PROVE  IInv'
<1>1. Typed /\ MapTypes /\ PeerTypes /\ MessageTypes
  BY IInvTyped
<1>2. /\ 1 \in 1..Len(Up) /\ 1 <= CutUp
      /\ \A k \in 1..Len(Up') : k + 1 \in 1..Len(Up) /\ k + 1 # 1 /\ Up'[k] = Up[k + 1]
      /\ \A R : \A D \in SUBSET R : Up[1] \notin D => Keeps(Up, CutUp, Up', CutUp', R, D)
  BY <1>1, UpShrinks
<1> DEFINE m == Up[1]
<1>3. m \in Msg /\ UpMessage(m) /\ m.op = "destroy"
  BY <1>1, <1>2 DEF Typed, MessageTypes
<1>4. \A id : m \notin Marking(id) /\ \A ids : m \notin Creations(ids)
  BY <1>3, UpMarks, MarkingAbout DEF Creations
<1>5. Up[1] = m
  OBVIOUS
<1>. HIDE DEF m
<1>6. \A R : \A D \in SUBSET R : Keeps(Down, CutDown, Down', CutDown', R, D)
  BY <1>1, DownStays
<1>7. /\ \A id : /\ Keeps(Up, CutUp, Up', CutUp', About(id), Marking(id))
                 /\ Keeps(Up, CutUp, Up', CutUp', About(id), {})
                 /\ Keeps(Down, CutDown, Down', CutDown', About(id), Marking(id))
      /\ Keeps(Up, CutUp, Up', CutUp', Creations(ClientIds), Creations(ClientIds))
  BY <1>2, <1>4, <1>5, <1>6, MarkingAbout
<1>8. ServerIdInv(s)
  BY DEF IInv
<1>9. /\ InUse(s) /\ offered[s] = NoInterface
      /\ \A j \in 1..Len(Up) : Up[j].target = s => j <= 1
      /\ \A k \in 1..Len(Down) : ~Creates(Down[k], s)
  BY <1>2, <1>8 DEF ServerIdInv, AskedOffer, Offering
<1>10. /\ offers' \in [ServerIds -> ServerInterfaces \cup {NoInterface, "new"}]
       /\ offers'[s] = NoInterface /\ offers[s] # "new"
       /\ \A t \in ServerIds : t # s => offers'[t] = offers[t]
  BY <1>1, <1>9, IdsAssumption DEF PeerTypes, InUse
<1>11. NoInterface \notin ServerInterfaces /\ NoInterface # "new"
  BY Interfaced DEF Interfaces, NoInterface
<1>12. /\ \A id : Known(id)' = Known(id) /\ (HasEntry(id)' <=> HasEntry(id))
       /\ MapTypes'
  BY <1>1, MapsSame
<1>13. Types'
  <2>1. PeerTypes'
    BY <1>1, <1>10 DEF PeerTypes
  <2>. QED BY <1>12, <2>1 DEF Types, IInv
<1>14. ServerIdInv(s)'
  <2>1. \A k \in 1..Len(Up') : Up'[k].target # s
    <3>1. ASSUME NEW k \in 1..Len(Up')
          PROVE  Up'[k].target # s
      <4>1. k + 1 \in 1..Len(Up) /\ ~(k + 1 <= 1) /\ Up'[k] = Up[k + 1]
        BY <1>1, <1>2 DEF Typed
      <4>. QED BY <1>9, <4>1
    <3>. QED BY <3>1
  <2>2. Offering(s)' /\ AskedOffer(s)'
    BY <1>9, <2>1 DEF Offering, AskedOffer
  <2>3. Offered(s)' /\ Settled(s)'
    BY <1>9, <1>10, <1>11 DEF Offered, Settled, InUse
  <2>4. ToldOffer(s)'
    BY <1>8, <1>12 DEF ServerIdInv, ToldOffer
  <2>. QED BY <2>2, <2>3, <2>4 DEF ServerIdInv
<1>15. NoGap' /\ NoGapAbove'
  <2>1. \A t \in ServerIds : offers'[t] = "new" <=> offers[t] = "new"
    BY <1>10, <1>11
  <2>2. Keeps(Down, CutDown, Down', CutDown', Creations(ServerIds), Creations(ServerIds))
    BY <1>6
  <2>. QED BY <1>1, <1>7, <1>12, <2>1, <2>2, NoGapKept, NoGapAboveKept DEF IInv
<1>16. /\ \A d \in ClientIds : mine'[d] = mine[d] /\ objects'[d] = objects[d] /\ Known(d)' = Known(d)
       /\ \A t \in ServerIds : t # s =>
             offered'[t] = offered[t] /\ offers'[t] = offers[t] /\ Known(t)' = Known(t)
  BY <1>10, <1>12
<1>. QED BY <1>7, <1>13, <1>14, <1>15, <1>16, FrameServer

\* A request, or the answer of a handshake, changes nothing that is tracked.
LEMMA RequestTaken ==
    ASSUME IInv, MessageTypes', Typed', ~CreatesObject(Up[1]), Up[1].op # "destroy",
           Down' = Down, CutDown' = CutDown, Taken(Up, CutUp, Up', CutUp'),
           UNCHANGED <<clientMap, serverMap, panicked, mine, offered, objects, offers>>
    PROVE  IInv'
<1>1. Typed /\ MapTypes /\ PeerTypes /\ MessageTypes
  BY IInvTyped
<1>2. /\ 1 \in 1..Len(Up)
      /\ \A R : \A D \in SUBSET R : Up[1] \notin D => Keeps(Up, CutUp, Up', CutUp', R, D)
  BY <1>1, UpShrinks
<1> DEFINE m == Up[1]
<1>3. m \in Msg /\ UpMessage(m)
  BY <1>1, <1>2 DEF Typed, MessageTypes
<1>4. \A id : m \notin Marking(id) /\ \A ids : m \notin Creations(ids)
  BY <1>3, UpMarks, MarkingAbout DEF Creations, Creates
<1>5. Up[1] = m
  OBVIOUS
<1>. HIDE DEF m
<1>6. \A R : \A D \in SUBSET R : Keeps(Down, CutDown, Down', CutDown', R, D)
  BY <1>1, DownStays
<1>7. /\ \A id : /\ Keeps(Up, CutUp, Up', CutUp', About(id), Marking(id))
                 /\ Keeps(Up, CutUp, Up', CutUp', About(id), {})
                 /\ Keeps(Down, CutDown, Down', CutDown', About(id), Marking(id))
      /\ Keeps(Up, CutUp, Up', CutUp', Creations(ClientIds), Creations(ClientIds))
      /\ Keeps(Down, CutDown, Down', CutDown', Creations(ServerIds), Creations(ServerIds))
  BY <1>2, <1>4, <1>5, <1>6, MarkingAbout
<1>8. /\ \A id \in Ids : Known(id)' = Known(id) /\ (HasEntry(id)' <=> HasEntry(id))
      /\ MapTypes'
  BY <1>1, MapsSame
<1>9. Types'
  BY <1>1, <1>8 DEF Types, PeerTypes, IInv
<1>. QED BY <1>7, <1>8, <1>9, Undisturbed

LEMMA ServerReceivesStep == ASSUME IInv, ServerReceives PROVE IInv'
<1>1. Typed /\ MapTypes /\ PeerTypes /\ MessageTypes
  BY IInvTyped
<1> DEFINE m == Up[1]
<1>2. to["server"] # <<>> /\ to' = [to EXCEPT !["server"] = Tail(@)]
      /\ UNCHANGED <<clientMap, serverMap, panicked, mine, offered>>
  BY DEF ServerReceives, mediatorVars, clientVars
<1>3. m \in Msg /\ UpMessage(m) /\ m = Head(to["server"]) /\ 1 \in 1..Len(Up)
  BY <1>1, <1>2, ServerHead
<1>4. CASE CreatesObject(m)
  <2>1. Creates(m, m.new)
    BY <1>4 DEF Creates
  <2>2. m.new \in ClientIds /\ m.op # "destroy"
    BY <1>3, <2>1, UpMarks
  <2>3. /\ objects' = [objects EXCEPT ![m.new] = m.newInterface] /\ offers' = offers /\ from' = from
    BY <1>3, <1>4, <2>2 DEF ServerReceives
  <2>4. /\ Down' = Down /\ CutDown' = CutDown /\ Taken(Up, CutUp, Up', CutUp')
        /\ MessageTypes' /\ Typed'
    BY <1>1, <1>2, <2>3, ServerTakesOnly
  <2>. QED BY <1>2, <2>1, <2>2, <2>3, <2>4, CreationTaken
<1>5. CASE ~CreatesObject(m) /\ m.op # "destroy"
  <2>1. objects' = objects /\ offers' = offers /\ from' = from
    BY <1>3, <1>5 DEF ServerReceives
  <2>2. /\ Down' = Down /\ CutDown' = CutDown /\ Taken(Up, CutUp, Up', CutUp')
        /\ MessageTypes' /\ Typed'
    BY <1>1, <1>2, <2>1, ServerTakesOnly
  <2>. QED BY <1>2, <1>5, <2>1, <2>2, RequestTaken
<1>6. CASE m.op = "destroy" /\ m.target \in ServerIds
  <2>1. ~CreatesObject(m) /\ m.target \notin ClientIds
    BY <1>3, <1>6, UpMarks, IdKinds
  <2>2. objects' = objects /\ offers' = [offers EXCEPT ![m.target] = NoInterface] /\ from' = from
    BY <1>3, <1>6, <2>1 DEF ServerReceives
  <2>3. /\ Down' = Down /\ CutDown' = CutDown /\ Taken(Up, CutUp, Up', CutUp')
        /\ MessageTypes' /\ Typed'
    BY <1>1, <1>2, <2>2, ServerTakesOnly
  <2>. QED BY <1>2, <1>6, <2>2, <2>3, OfferGone
<1>7. CASE m.op = "destroy" /\ m.target \in ClientIds
  <2> DEFINE c == m.target
             e == <<DeleteId(c)>>
  <2>1. ~CreatesObject(m) /\ c \notin ServerIds /\ c # Display
    BY <1>3, <1>7, UpMarks, IdKinds DEF UpMessage
  <2>2. /\ objects' = [objects EXCEPT ![c] = NoInterface] /\ offers' = offers
        /\ SendFrom("server", e)
    BY <1>3, <1>7, <2>1 DEF ServerReceives
  <2>3. DeleteId(c) \in Msg /\ DownMessage(DeleteId(c))
    BY <1>7, <2>1, MessageFields, IdKinds DEF Msg, Ops, Ids, Interfaces, DownMessage
  <2>4. e \in Seq(Msg) /\ Len(e) = 1 /\ e[1] = DeleteId(c) /\ 1 \in 1..Len(e)
        /\ \A i \in 1..Len(e) : DownMessage(e[i])
    BY <2>3
  <2>. HIDE DEF e
  <2>5. /\ Extended(Down, CutDown, Down', CutDown')
        /\ Len(Down') = Len(Down) + Len(e) /\ \A i \in 1..Len(e) : Down'[Len(Down) + i] = e[i]
        /\ Taken(Up, CutUp, Up', CutUp') /\ MessageTypes' /\ Typed'
    BY <1>1, <1>2, <2>2, <2>4, ServerTakes
  <2>6. Len(Down') = Len(Down) + 1 /\ Down'[Len(Down) + 1] = DeleteId(c)
    BY <2>4, <2>5
  <2>7. /\ \A k \in 1..Len(Up') : k + 1 \in 1..Len(Up) /\ k + 1 # 1 /\ Up'[k] = Up[k + 1]
        /\ \A R : \A D \in SUBSET R : Up[1] \notin D => Keeps(Up, CutUp, Up', CutUp', R, D)
    BY <1>1, <2>5, UpShrinks
  <2>8. \A id : m \notin Marking(id) /\ \A ids : m \notin Creations(ids)
    BY <1>3, <1>7, UpMarks, MarkingAbout DEF Creations
  <2>9. /\ \A id : /\ Keeps(Up, CutUp, Up', CutUp', About(id), Marking(id))
                   /\ Keeps(Up, CutUp, Up', CutUp', About(id), {})
        /\ Keeps(Up, CutUp, Up', CutUp', Creations(ClientIds), Creations(ClientIds))
    BY <2>7, <2>8, MarkingAbout
  <2>10. Up[1].target = c /\ Up[1].op = "destroy" /\ c \in ClientIds
    BY <1>7
  <2>. HIDE DEF c
  <2>11. ClientIdInv(c)
    BY <2>10 DEF IInv
  <2>12. /\ mine[c].state = "zombie"
         /\ objects[c] # NoInterface \/ \E j \in 1..Len(Up) : Creates(Up[j], c)
         /\ \A j \in 1..Len(Up) : Up[j].target = c => j <= 1
    BY <1>3, <2>10, <2>11 DEF ClientIdInv, Asked
  <2>13. \A j \in 1..Len(Up) : ~Creates(Up[j], c)
    <3>1. ASSUME NEW j \in 1..Len(Up), Creates(Up[j], c)
          PROVE  FALSE
      <4>1. j < 1
        BY <1>3, <2>10, <2>11, <3>1 DEF ClientIdInv, Coming
      <4>. QED BY <1>1, <4>1 DEF Typed
    <3>. QED BY <3>1
  <2>14. \A k \in 1..Len(Up') : Up'[k].target # c /\ ~Creates(Up'[k], c)
    <3>1. ASSUME NEW k \in 1..Len(Up')
          PROVE  Up'[k].target # c /\ ~Creates(Up'[k], c)
      <4>1. k + 1 \in 1..Len(Up) /\ ~(k + 1 <= 1) /\ Up'[k] = Up[k + 1]
        BY <1>1, <2>5, <2>7 DEF Typed
      <4>. QED BY <2>12, <2>13, <4>1
    <3>. QED BY <3>1
  <2>15. objects[c] # NoInterface /\ 1 \in 1..2 /\ 1 # 2
    BY <2>12, <2>13
  <2>. QED BY <1>2, <2>1, <2>2, <2>5, <2>6, <2>9, <2>10, <2>12, <2>14, <2>15, ObjectGone
<1>8. m.op = "destroy" => m.target \in Ids
  BY <1>3 DEF Msg
<1>. QED BY <1>4, <1>5, <1>6, <1>7, <1>8 DEF Ids

\* A client's object hears of what the server has: an event, or an offer it is the target of.
LEMMA ObjectTold ==
    ASSUME IInv, MessageTypes', Typed', NEW x \in Msg, NEW c \in ClientIds,
           Extended(Down, CutDown, Down', CutDown'), Len(Down') = Len(Down) + 1,
           Down'[Len(Down) + 1] = x, Up' = Up, CutUp' = CutUp,
           x.target = c, x.interface = objects[c], objects[c] # NoInterface, ~Deletes(x, c),
           UNCHANGED <<clientMap, serverMap, mine, objects>>
    PROVE  ClientIdInv(c)'
<1>1. Typed /\ MapTypes
  BY IInvTyped
<1>2. \A k \in 1..Len(Down') : \/ k \in 1..Len(Down) /\ Down'[k] = Down[k]
                               \/ k = Len(Down) + 1 /\ Down'[k] = x
  BY <1>1, DownGrows
<1>3. Known(c)' = Known(c)
  BY MapsSame
<1>4. ClientIdInv(c)
  BY DEF IInv
<1>5. /\ Used(c) /\ objects[c] = mine[c].interface
      /\ \A k \in 1..Len(Up) : ~Creates(Up[k], c)
      /\ \A k \in 1..Len(Down) : ~Deletes(Down[k], c)
  BY <1>4 DEF ClientIdInv, Coming, Held, Going
<1>6. Coming(c)' /\ Going(c)'
  BY <1>2, <1>5 DEF Coming, Going
<1>7. Asked(c)' /\ Held(c)' /\ Resting(c)' /\ Alive(c)'
  BY <1>3, <1>4 DEF ClientIdInv, Asked, Held, Resting, Alive, Used
<1>8. Told(c)'
  <2>1. \A k \in 1..Len(Down') : Down'[k].target = c => Down'[k].interface = mine[c].interface
    BY <1>2, <1>4, <1>5 DEF ClientIdInv, Told
  <2>. QED BY <1>5, <2>1 DEF Told, Used
<1>. QED BY <1>6, <1>7, <1>8 DEF ClientIdInv

LEMMA EventStep == ASSUME IInv, Event PROVE IInv'
<1>1. Typed /\ MapTypes /\ PeerTypes /\ MessageTypes
  BY IInvTyped
<1>2. UNCHANGED <<clientMap, serverMap, panicked, mine, offered, objects, offers>> /\ to' = to
  BY DEF Event, mediatorVars, clientVars, serverVars
<1>3. /\ \A id : Known(id)' = Known(id) /\ (HasEntry(id)' <=> HasEntry(id))
      /\ MapTypes'
  BY <1>1, <1>2, MapsSame
<1>4. /\ \A d \in ClientIds :
            mine'[d] = mine[d] /\ objects'[d] = objects[d] /\ Known(d)' = Known(d)
      /\ \A s \in ServerIds :
            offered'[s] = offered[s] /\ offers'[s] = offers[s] /\ Known(s)' = Known(s)
  BY <1>2, <1>3
\* What the message does to the two ways, whatever its target.
<1>5. ASSUME NEW x \in Msg, NEW t \in Ids, x.op = "event", x.target = t, x.new = 0, DownMessage(x),
             SendFrom("server", <<x>>)
      PROVE  /\ MessageTypes' /\ Typed' /\ Types' /\ NoGap' /\ NoGapAbove'
             /\ Extended(Down, CutDown, Down', CutDown') /\ Len(Down') = Len(Down) + 1
             /\ Down'[Len(Down) + 1] = x /\ Up' = Up /\ CutUp' = CutUp /\ CutDown' = CutDown
             /\ \A id : ~Creates(x, id) /\ ~Deletes(x, id)
             /\ \A id : /\ Keeps(Up, CutUp, Up', CutUp', About(id), Marking(id))
                        /\ Keeps(Up, CutUp, Up', CutUp', About(id), {})
             /\ \A id : id # t => Keeps(Down, CutDown, Down', CutDown', About(id), Marking(id))
  <2>1. /\ MessageTypes' /\ Typed' /\ CutDown' = CutDown /\ Up' = Up /\ CutUp' = CutUp
        /\ Extended(Down, CutDown, Down', CutDown')
        /\ Len(Down') = Len(Down) + 1 /\ Down'[Len(Down) + 1] = x
    BY <1>1, <1>2, <1>5, ServerSendsOne
  <2>2. \A R : x \notin R => \A D \in SUBSET R : Keeps(Down, CutDown, Down', CutDown', R, D)
    BY <1>1, <2>1, DownGrows
  <2>3. \A R : \A D \in SUBSET R : Keeps(Up, CutUp, Up', CutUp', R, D)
    BY <1>1, <2>1, UpStays
  <2>4. \A id : ~Creates(x, id) /\ ~Deletes(x, id)
    BY <1>5, DownMarks
  <2>5. /\ \A id : id # t => x \notin About(id)
        /\ \A ids : x \notin Creations(ids)
    BY <1>5, <2>4, MarkingAbout DEF Creations
  <2>6. /\ \A id : /\ Keeps(Up, CutUp, Up', CutUp', About(id), Marking(id))
                   /\ Keeps(Up, CutUp, Up', CutUp', About(id), {})
        /\ \A id : id # t => Keeps(Down, CutDown, Down', CutDown', About(id), Marking(id))
        /\ Keeps(Up, CutUp, Up', CutUp', Creations(ClientIds), Creations(ClientIds))
        /\ Keeps(Down, CutDown, Down', CutDown', Creations(ServerIds), Creations(ServerIds))
    BY <2>2, <2>3, <2>5, MarkingAbout
  <2>7. NoGap' /\ NoGapAbove'
    BY <1>1, <1>2, <1>3, <2>1, <2>6, NoGapKept, NoGapAboveKept DEF IInv
  <2>8. Types'
    BY <1>1, <1>2, <1>3, <2>1 DEF Types, PeerTypes, IInv
  <2>. QED BY <2>1, <2>4, <2>6, <2>7, <2>8
<1>6. ASSUME NEW c \in ClientIds, objects[c] \in ClientInterfaces,
             SendFrom("server", <<Message("event", c, objects[c])>>)
      PROVE  IInv'
  <2> DEFINE x == Message("event", c, objects[c])
  <2>1. x = [op |-> "event", target |-> c, interface |-> objects[c], new |-> 0,
             newInterface |-> NoInterface]
    BY MessageFields
  <2>2. SendFrom("server", <<x>>)
    BY <1>6
  <2>. HIDE DEF x
  <2>3. c # Display /\ objects[c] # NoInterface
    BY <1>6, IdsAssumption DEF IInv, DisplayLives, NoInterface
  <2>4. x \in Msg /\ x.op = "event" /\ x.target = c /\ x.interface = objects[c] /\ x.new = 0
    BY <1>6, <2>1 DEF Msg, Ops, Ids, Interfaces
  <2>5. DownMessage(x)
    BY <2>3, <2>4 DEF DownMessage
  <2>6. c \in Ids
    BY DEF Ids
  <2>7. /\ MessageTypes' /\ Typed' /\ Types' /\ NoGap' /\ NoGapAbove'
        /\ Extended(Down, CutDown, Down', CutDown') /\ Len(Down') = Len(Down) + 1
        /\ Down'[Len(Down) + 1] = x /\ Up' = Up /\ CutUp' = CutUp
        /\ ~Deletes(x, c)
        /\ \A id : /\ Keeps(Up, CutUp, Up', CutUp', About(id), Marking(id))
                   /\ Keeps(Up, CutUp, Up', CutUp', About(id), {})
        /\ \A id : id # c => Keeps(Down, CutDown, Down', CutDown', About(id), Marking(id))
    BY <1>5, <2>2, <2>4, <2>5, <2>6
  <2>8. ClientIdInv(c)'
    BY <1>2, <2>3, <2>4, <2>7, ObjectTold
  <2>9. \A s \in ServerIds : s # c
    BY IdKinds
  <2>10. /\ \A d \in ClientIds : d # c /\ d # Display =>
               /\ Keeps(Up, CutUp, Up', CutUp', About(d), Marking(d))
               /\ Keeps(Down, CutDown, Down', CutDown', About(d), Marking(d))
         /\ \A s \in ServerIds : /\ Keeps(Up, CutUp, Up', CutUp', About(s), {})
                                 /\ Keeps(Down, CutDown, Down', CutDown', About(s), Marking(s))
    BY <2>7, <2>9
  <2>11. \A d \in ClientIds : d # c =>
            mine'[d] = mine[d] /\ objects'[d] = objects[d] /\ Known(d)' = Known(d)
    BY <1>4
  <2>. QED BY <1>4, <2>3, <2>7, <2>8, <2>10, <2>11, FrameClient
<1>7. ASSUME NEW s \in ServerIds, offers[s] \in ServerInterfaces,
             SendFrom("server", <<Message("event", s, offers[s])>>)
      PROVE  IInv'
  <2> DEFINE x == Message("event", s, offers[s])
  <2>1. x = [op |-> "event", target |-> s, interface |-> offers[s], new |-> 0,
             newInterface |-> NoInterface]
    BY MessageFields
  <2>2. SendFrom("server", <<x>>)
    BY <1>7
  <2>. HIDE DEF x
  <2>3. s # Display
    BY IdKinds
  <2>4. x \in Msg /\ x.op = "event" /\ x.target = s /\ x.interface = offers[s] /\ x.new = 0
    BY <1>7, <2>1 DEF Msg, Ops, Ids, Interfaces
  <2>5. DownMessage(x)
    BY <2>3, <2>4 DEF DownMessage
  <2>6. s \in Ids
    BY DEF Ids
  <2>7. /\ MessageTypes' /\ Typed' /\ Types' /\ NoGap' /\ NoGapAbove'
        /\ Extended(Down, CutDown, Down', CutDown') /\ Len(Down') = Len(Down) + 1
        /\ Down'[Len(Down) + 1] = x /\ Up' = Up /\ CutUp' = CutUp /\ CutDown' = CutDown
        /\ ~Creates(x, s)
        /\ \A id : /\ Keeps(Up, CutUp, Up', CutUp', About(id), Marking(id))
                   /\ Keeps(Up, CutUp, Up', CutUp', About(id), {})
        /\ \A id : id # s => Keeps(Down, CutDown, Down', CutDown', About(id), Marking(id))
    BY <1>5, <2>2, <2>4, <2>5, <2>6
  <2>8. /\ \A k \in 1..Len(Down') : \/ k \in 1..Len(Down) /\ Down'[k] = Down[k]
                                    \/ k = Len(Down) + 1 /\ Down'[k] = x
        /\ \A k \in 1..Len(Down) : k \in 1..Len(Down') /\ Down'[k] = Down[k]
        /\ Len(Down) + 1 \in 1..Len(Down') /\ Len(Down) + 1 > CutDown
    BY <1>1, <2>7, DownGrows
  <2>9. ServerIdInv(s) /\ InUse(s)
    BY <1>7 DEF IInv, InUse
  <2>10. ServerIdInv(s)'
    <3>1. AskedOffer(s)' /\ Offered(s)'
      BY <1>2, <1>3, <2>7, <2>9 DEF ServerIdInv, AskedOffer, Offered, InUse
    <3>2. Offering(s)'
      <4>1. ASSUME NEW k \in 1..Len(Down'), Creates(Down'[k], s)
            PROVE  /\ Down'[k].newInterface = offers[s] /\ offered[s] = NoInterface
                   /\ k <= CutDown => Known(s) = offers[s]
                   /\ \A j \in 1..Len(Down') : Creates(Down'[j], s) => j = k
                   /\ \A j \in 1..Len(Down') : Down'[j].target = s /\ k < j => Down'[j].interface = offers[s]
                   /\ \A j \in 1..Len(Up) : Up[j].target # s
        <5>1. k \in 1..Len(Down) /\ Down'[k] = Down[k]
          BY <2>7, <2>8, <4>1
        <5>2. /\ Down[k].newInterface = offers[s] /\ offered[s] = NoInterface
              /\ k <= CutDown => Known(s) = offers[s]
              /\ \A j \in 1..Len(Down) : Creates(Down[j], s) => j = k
              /\ \A j \in 1..Len(Down) : Down[j].target = s /\ k < j => Down[j].interface = offers[s]
              /\ \A j \in 1..Len(Up) : Up[j].target # s
          BY <2>9, <4>1, <5>1 DEF ServerIdInv, Offering
        <5>3. \A j \in 1..Len(Down') : Creates(Down'[j], s) => j = k
          BY <2>7, <2>8, <5>2
        <5>4. \A j \in 1..Len(Down') : Down'[j].target = s /\ k < j => Down'[j].interface = offers[s]
          BY <2>4, <2>8, <5>2
        <5>. QED BY <5>1, <5>2, <5>3, <5>4
      <4>. QED BY <1>2, <1>3, <2>7, <2>9, <4>1 DEF Offering, InUse
    <3>3. Known(s) = offers[s] \/ \E k \in 1..Len(Down) : k > CutDown /\ Creates(Down[k], s)
      BY <2>9 DEF ServerIdInv, Settled
    <3>4. Settled(s)'
      BY <1>2, <1>3, <2>7, <2>8, <3>3 DEF Settled
    <3>5. ToldOffer(s)'
      <4>1. ASSUME NEW k \in 1..Len(Down'), k > CutDown, Down'[k].target = s
            PROVE  \/ Known(s) = Down'[k].interface
                   \/ \E j \in 1..Len(Down') : CutDown < j /\ j < k /\ Creates(Down'[j], s)
        <5>1. CASE k \in 1..Len(Down) /\ Down'[k] = Down[k]
          BY <2>8, <2>9, <4>1, <5>1 DEF ServerIdInv, ToldOffer
        <5>2. CASE k = Len(Down) + 1 /\ Down'[k] = x
          <6>1. ASSUME NEW j \in 1..Len(Down), j > CutDown, Creates(Down[j], s)
                PROVE  j \in 1..Len(Down') /\ CutDown < j /\ j < k /\ Creates(Down'[j], s)
            BY <1>1, <2>8, <5>2, <6>1 DEF Typed
          <6>. QED BY <2>4, <3>3, <5>2, <6>1
        <5>. QED BY <2>8, <5>1, <5>2
      <4>. QED BY <1>3, <2>7, <4>1 DEF ToldOffer
    <3>. QED BY <3>1, <3>2, <3>4, <3>5 DEF ServerIdInv
  <2>11. \A d \in ClientIds : d # s
    BY IdKinds
  <2>12. /\ \A d \in ClientIds : d # Display =>
               /\ Keeps(Up, CutUp, Up', CutUp', About(d), Marking(d))
               /\ Keeps(Down, CutDown, Down', CutDown', About(d), Marking(d))
         /\ \A t \in ServerIds : t # s => /\ Keeps(Up, CutUp, Up', CutUp', About(t), {})
                                          /\ Keeps(Down, CutDown, Down', CutDown', About(t), Marking(t))
    BY <2>7, <2>11
  <2>13. \A t \in ServerIds : t # s =>
            offered'[t] = offered[t] /\ offers'[t] = offers[t] /\ Known(t)' = Known(t)
    BY <1>4
  <2>. QED BY <1>4, <2>7, <2>10, <2>12, <2>13, FrameServer
<1>. QED BY <1>6, <1>7 DEF Event

\* wl_callback::done and the delete_id behind it: nobody asks anything of a callback.
LEMMA DoneStep == ASSUME IInv, NEW c \in ClientIds, Done(c) PROVE IInv'
<1>1. Typed /\ MapTypes /\ PeerTypes /\ MessageTypes
  BY IInvTyped
<1>2. /\ UNCHANGED <<clientMap, serverMap, panicked, mine, offered, offers>> /\ to' = to
      /\ objects[c] = "callback" /\ objects' = [objects EXCEPT ![c] = NoInterface]
      /\ SendFrom("server", <<Message("done", c, "callback"), DeleteId(c)>>)
  BY DEF Done, mediatorVars, clientVars
<1> DEFINE y == Message("done", c, "callback")
           x == DeleteId(c)
           e == <<y, x>>
<1>3. /\ y = [op |-> "done", target |-> c, interface |-> "callback", new |-> 0,
              newInterface |-> NoInterface]
      /\ x = [op |-> "delete_id", target |-> Display, interface |-> "display", new |-> c,
              newInterface |-> NoInterface]
  BY MessageFields
<1>4. c # Display
  BY <1>2 DEF IInv, DisplayLives
<1>5. y \in Msg /\ x \in Msg
  BY <1>3, IdKinds DEF Msg, Ops, Ids, Interfaces
<1>6. DownMessage(y) /\ DownMessage(x)
  BY <1>3, <1>4 DEF DownMessage
<1>7. SendFrom("server", e)
  BY <1>2
<1>8. y.op = "done" /\ y.target = c /\ y.interface = "callback"
  BY <1>3
<1>9. x = DeleteId(c)
  OBVIOUS
<1>. HIDE DEF y, x
<1>10. /\ e \in Seq(Msg) /\ Len(e) = 2 /\ e[1] = y /\ e[2] = x /\ 1 \in 1..Len(e) /\ 2 \in 1..Len(e)
       /\ \A i \in 1..Len(e) : DownMessage(e[i])
  BY <1>5, <1>6
<1>. HIDE DEF e
<1>11. /\ Extended(Down, CutDown, Down', CutDown')
       /\ Len(Down') = Len(Down) + Len(e) /\ \A i \in 1..Len(e) : Down'[Len(Down) + i] = e[i]
       /\ Up' = Up /\ CutUp' = CutUp /\ MessageTypes' /\ Typed'
  BY <1>1, <1>2, <1>7, <1>10, ServerSends
<1>12. /\ Len(Down') = Len(Down) + 2
       /\ Down'[Len(Down) + 1] = y /\ Down'[Len(Down) + 2] = x
  BY <1>10, <1>11
<1>13. ClientIdInv(c)
  BY DEF IInv
<1>14. mine[c].interface = "callback" /\ objects[c] # NoInterface
  BY <1>2, <1>13 DEF ClientIdInv, Held, NoInterface
<1>15. \A k \in 1..Len(Up') : Up'[k].target # c /\ ~Creates(Up'[k], c)
  BY <1>11, <1>13, <1>14 DEF ClientIdInv, Asked, Coming
<1>16. \A R : \A D \in SUBSET R : Keeps(Up, CutUp, Up', CutUp', R, D)
  BY <1>1, <1>11, UpStays
<1>17. /\ \A d \in ClientIds : d # c => Keeps(Up, CutUp, Up', CutUp', About(d), Marking(d))
       /\ \A s \in ServerIds : Keeps(Up, CutUp, Up', CutUp', About(s), {})
       /\ Keeps(Up, CutUp, Up', CutUp', Creations(ClientIds), Creations(ClientIds))
  BY <1>16, MarkingAbout
<1>18. 2 \in 1..2 /\ Down'[Len(Down) + 2] = DeleteId(c)
       /\ Down'[Len(Down) + 1].target = c
       /\ Down'[Len(Down) + 1].op = "done"
       /\ Down'[Len(Down) + 1].interface = mine[c].interface
  BY <1>8, <1>9, <1>12, <1>14
<1>. QED BY <1>2, <1>4, <1>11, <1>12, <1>14, <1>15, <1>17, <1>18, ObjectGone

\* An object the server creates: its id is the lowest that never had one or a free one.
LEMMA OfferStep ==
    ASSUME IInv, NEW t \in ClientIds, NEW s \in ServerIds, NEW i \in ServerInterfaces,
           Offer(t, s, i)
    PROVE  IInv'
<1>1. Typed /\ MapTypes /\ PeerTypes /\ MessageTypes
  BY IInvTyped
<1>2. /\ UNCHANGED <<clientMap, serverMap, panicked, mine, offered, objects>> /\ to' = to
      /\ objects[t] \in ClientInterfaces /\ offers[s] \in {NoInterface, "new"}
      /\ offers[s] = "new" => \A k \in ServerIds : offers[k] = "new" => s <= k
      /\ offers' = [offers EXCEPT ![s] = i]
      /\ SendFrom("server", <<Creating("offer", t, objects[t], s, i)>>)
  BY DEF Offer, mediatorVars, clientVars
<1> DEFINE x == Creating("offer", t, objects[t], s, i)
<1>3. x = [op |-> "offer", target |-> t, interface |-> objects[t], new |-> s, newInterface |-> i]
  BY MessageFields
<1>4. SendFrom("server", <<x>>)
  BY <1>2
<1>. HIDE DEF x
<1>5. t # Display /\ objects[t] # NoInterface
  BY <1>2, IdsAssumption DEF IInv, DisplayLives, NoInterface
<1>6. x \in Msg
  BY <1>2, <1>3, IdKinds DEF Msg, Ops, Ids, Interfaces
<1>7. DownMessage(x)
  BY <1>3, <1>5 DEF DownMessage
<1>8. /\ MessageTypes' /\ Typed' /\ CutDown' = CutDown /\ Up' = Up /\ CutUp' = CutUp
      /\ Extended(Down, CutDown, Down', CutDown')
      /\ Len(Down') = Len(Down) + 1 /\ Down'[Len(Down) + 1] = x
  BY <1>1, <1>2, <1>4, <1>6, <1>7, ServerSendsOne
<1>9. /\ \A k \in 1..Len(Down') : \/ k \in 1..Len(Down) /\ Down'[k] = Down[k]
                                  \/ k = Len(Down) + 1 /\ Down'[k] = x
      /\ \A k \in 1..Len(Down) : k \in 1..Len(Down') /\ Down'[k] = Down[k]
      /\ Len(Down) + 1 \in 1..Len(Down') /\ Len(Down) + 1 > CutDown
      /\ \A R : x \notin R => \A D \in SUBSET R : Keeps(Down, CutDown, Down', CutDown', R, D)
  BY <1>1, <1>8, DownGrows
<1>10. \A R : \A D \in SUBSET R : Keeps(Up, CutUp, Up', CutUp', R, D)
  BY <1>1, <1>8, UpStays
<1>11. /\ Creates(x, s) /\ \A id : Creates(x, id) => id = s
       /\ \A id : ~Deletes(x, id)
       /\ x.target = t /\ x.interface = objects[t] /\ x.newInterface = i
  BY <1>3, IdKinds DEF Creates, CreatesObject, Deletes
<1>12. \A id : id # t /\ id # s => x \notin About(id)
  BY <1>6, <1>11, MarkingAbout
<1>13. /\ \A id : id # t /\ id # s => Keeps(Down, CutDown, Down', CutDown', About(id), Marking(id))
       /\ \A id : /\ Keeps(Up, CutUp, Up', CutUp', About(id), Marking(id))
                  /\ Keeps(Up, CutUp, Up', CutUp', About(id), {})
       /\ Keeps(Up, CutUp, Up', CutUp', Creations(ClientIds), Creations(ClientIds))
  BY <1>9, <1>10, <1>12, MarkingAbout
<1>14. /\ \A id : Known(id)' = Known(id) /\ (HasEntry(id)' <=> HasEntry(id))
       /\ MapTypes'
  BY <1>1, <1>2, MapsSame
<1>15. /\ offers' \in [ServerIds -> ServerInterfaces \cup {NoInterface, "new"}]
       /\ offers'[s] = i
       /\ \A u \in ServerIds : u # s => offers'[u] = offers[u]
  BY <1>1, <1>2 DEF PeerTypes
<1>16. i # "new" /\ i # NoInterface /\ ~InUse(s)
  BY <1>2, IdsAssumption DEF NoInterface, InUse
<1>17. Types'
  <2>1. PeerTypes'
    BY <1>1, <1>2, <1>15 DEF PeerTypes
  <2>. QED BY <1>2, <1>8, <1>14, <2>1 DEF Types, IInv
<1>18. ClientIdInv(t)'
  BY <1>2, <1>5, <1>6, <1>8, <1>11, ObjectTold
<1>19. ServerIdInv(s)
  BY DEF IInv
<1>20. /\ \A k \in 1..Len(Down) : ~Creates(Down[k], s)
       /\ \A k \in 1..Len(Up) : Up[k].target # s
       /\ offered[s] = NoInterface
  BY <1>16, <1>19 DEF ServerIdInv, Offering, AskedOffer, Offered
<1>21. ServerIdInv(s)'
  <2>1. InUse(s)'
    BY <1>15 DEF InUse
  <2>2. t # s
    BY IdKinds
  <2>3. \A k \in 1..Len(Down') : Creates(Down'[k], s) => k = Len(Down) + 1 /\ Down'[k] = x
    BY <1>9, <1>20
  <2>4. Offering(s)'
    <3>1. ASSUME NEW k \in 1..Len(Down'), Creates(Down'[k], s)
          PROVE  /\ Down'[k].newInterface = offers'[s]
                 /\ ~(k <= CutDown')
                 /\ \A j \in 1..Len(Down') : Creates(Down'[j], s) => j = k
                 /\ \A j \in 1..Len(Down') : ~(k < j)
      <4>1. k = Len(Down) + 1 /\ Down'[k] = x
        BY <2>3, <3>1
      <4>2. ~(k <= CutDown') /\ \A j \in 1..Len(Down') : ~(k < j)
        BY <1>1, <1>8, <4>1 DEF Typed
      <4>. QED BY <1>11, <1>15, <2>3, <4>1, <4>2
    <3>. QED BY <1>2, <1>8, <1>20, <2>1, <3>1 DEF Offering
  <2>5. AskedOffer(s)' /\ Offered(s)'
    BY <1>2, <1>8, <1>20 DEF AskedOffer, Offered
  <2>6. Settled(s)'
    BY <1>8, <1>9, <1>11 DEF Settled
  <2>7. ToldOffer(s)'
    <3>1. ASSUME NEW k \in 1..Len(Down'), k > CutDown, Down'[k].target = s
          PROVE  Known(s) = Down'[k].interface
      <4>1. k \in 1..Len(Down) /\ Down'[k] = Down[k]
        BY <1>9, <1>11, <2>2, <3>1
      <4>. QED BY <1>19, <1>20, <3>1, <4>1 DEF ServerIdInv, ToldOffer
    <3>. QED BY <1>8, <1>14, <3>1 DEF ToldOffer
  <2>. QED BY <2>4, <2>5, <2>6, <2>7 DEF ServerIdInv
<1>22. \A u \in ServerIds : u < s => offers[u] # "new"
  <2>1. ASSUME NEW u \in ServerIds, u < s, offers[u] = "new"
        PROVE  FALSE
    <3>1. offers[s] = "new"
      BY <2>1 DEF IInv, NoGapAbove
    <3>2. s <= u
      BY <1>2, <2>1, <3>1
    <3>. QED BY <2>1, <3>2, IdKinds
  <2>. QED BY <2>1
<1>23. NoGapAbove'
  <2>1. \A a, b \in ServerIds : a < b /\ offers'[a] = "new" => offers'[b] = "new"
    BY <1>15, <1>16, <1>22 DEF IInv, NoGapAbove
  <2>2. \A u \in ServerIds : offers'[u] # "new" => HasEntry(u)' \/ WaitingAbove(u)'
    <3>1. WaitingAbove(s)'
      BY <1>8, <1>9, <1>11 DEF WaitingAbove
    <3>2. ASSUME NEW u \in ServerIds, u # s, offers'[u] # "new"
          PROVE  HasEntry(u)' \/ WaitingAbove(u)'
      <4>1. HasEntry(u) \/ WaitingAbove(u)
        BY <1>15, <3>2 DEF IInv, NoGapAbove
      <4>2. WaitingAbove(u) => WaitingAbove(u)'
        BY <1>8, <1>9 DEF WaitingAbove
      <4>. QED BY <1>14, <4>1, <4>2
    <3>. QED BY <3>1, <3>2
  <2>3. ASSUME NEW k \in 1..Len(Down'), NEW a \in ServerIds, NEW u \in ServerIds,
               k > CutDown', Creates(Down'[k], u), a < u, ~HasEntry(a)'
        PROVE  \E j \in 1..Len(Down') : CutDown' < j /\ j < k /\ Creates(Down'[j], a)
    <3>1. \E j \in 1..Len(Down) : CutDown < j /\ j < k /\ Creates(Down[j], a)
      <4>1. CASE k \in 1..Len(Down) /\ Down'[k] = Down[k]
        BY <1>8, <1>14, <2>3, <4>1 DEF IInv, NoGapAbove
      <4>2. CASE k = Len(Down) + 1 /\ Down'[k] = x
        <5>1. u = s
          BY <1>11, <2>3, <4>2
        <5>2. offers[a] # "new"
          BY <1>22, <2>3, <5>1
        <5>3. WaitingAbove(a)
          BY <1>14, <2>3, <5>2 DEF IInv, NoGapAbove
        <5>. QED BY <1>1, <4>2, <5>3 DEF WaitingAbove, Typed
      <4>. QED BY <1>9, <4>1, <4>2
    <3>. QED BY <1>8, <1>9, <3>1
  <2>. QED BY <2>1, <2>2, <2>3 DEF NoGapAbove
<1>24. NoGap'
  BY <1>1, <1>2, <1>8, <1>13, <1>14, NoGapKept DEF IInv
<1> DEFINE C == {t}
           T == {s}
<1>25. /\ C \in SUBSET ClientIds /\ T \in SUBSET ServerIds /\ Display \notin C
       /\ \A c \in C : ClientIdInv(c)'
       /\ \A u \in T : ServerIdInv(u)'
  <2>1. /\ C \in SUBSET ClientIds /\ T \in SUBSET ServerIds /\ Display \notin C
        /\ \A c \in C : c = t
        /\ \A u \in T : u = s
    BY <1>5
  <2>. QED BY <1>18, <1>21, <2>1
<1>26. \A d \in ClientIds, u \in ServerIds : d # u
  BY IdKinds
<1>27. /\ \A d \in ClientIds : d \notin C => d # t /\ d # s
       /\ \A u \in ServerIds : u \notin T => u # t /\ u # s
  BY <1>26
<1>. HIDE DEF C, T
<1>28. /\ \A d \in ClientIds : d \notin C /\ d # Display =>
              /\ Keeps(Up, CutUp, Up', CutUp', About(d), Marking(d))
              /\ Keeps(Down, CutDown, Down', CutDown', About(d), Marking(d))
       /\ \A u \in ServerIds : u \notin T =>
              /\ Keeps(Up, CutUp, Up', CutUp', About(u), {})
              /\ Keeps(Down, CutDown, Down', CutDown', About(u), Marking(u))
  BY <1>13, <1>27
<1>29. /\ \A d \in ClientIds : d \notin C =>
              mine'[d] = mine[d] /\ objects'[d] = objects[d] /\ Known(d)' = Known(d)
       /\ \A u \in ServerIds : u \notin T =>
              offered'[u] = offered[u] /\ offers'[u] = offers[u] /\ Known(u)' = Known(u)
  BY <1>2, <1>14, <1>15, <1>27
<1>. QED BY <1>8, <1>17, <1>23, <1>24, <1>25, <1>28, <1>29, Frame

\* The handshake's delete_id is of no object's id.
LEMMA HandshakeStep == ASSUME IInv, Handshake PROVE IInv'
<1>1. Typed /\ MapTypes /\ PeerTypes /\ MessageTypes
  BY IInvTyped
<1>2. /\ UNCHANGED <<clientMap, serverMap, panicked, mine, offered, objects, offers>> /\ to' = to
      /\ SendFrom("server", <<DeleteId(HandshakeId)>>)
  BY DEF Handshake, mediatorVars, clientVars, serverVars
<1> DEFINE x == DeleteId(HandshakeId)
<1>3. x = [op |-> "delete_id", target |-> Display, interface |-> "display", new |-> HandshakeId,
           newInterface |-> NoInterface]
  BY MessageFields
<1>4. SendFrom("server", <<x>>)
  BY <1>2
<1>. HIDE DEF x
<1>5. x \in Msg /\ DownMessage(x)
  BY <1>3, IdKinds DEF Msg, Ops, Ids, Interfaces, DownMessage
<1>6. /\ MessageTypes' /\ Typed' /\ CutDown' = CutDown /\ Up' = Up /\ CutUp' = CutUp
      /\ Extended(Down, CutDown, Down', CutDown')
      /\ Len(Down') = Len(Down) + 1 /\ Down'[Len(Down) + 1] = x
  BY <1>1, <1>2, <1>4, <1>5, ServerSendsOne
<1>7. \A R : x \notin R => \A D \in SUBSET R : Keeps(Down, CutDown, Down', CutDown', R, D)
  BY <1>1, <1>6, DownGrows
<1>8. \A R : \A D \in SUBSET R : Keeps(Up, CutUp, Up', CutUp', R, D)
  BY <1>1, <1>6, UpStays
<1>9. /\ \A id : ~Creates(x, id) /\ (Deletes(x, id) => id = HandshakeId)
      /\ x.target = Display
  BY <1>3 DEF Creates, CreatesObject, Deletes
<1>10. /\ \A id \in Ids : id # Display => x \notin About(id)
       /\ \A ids : x \notin Creations(ids)
  <2>1. \A id \in Ids : id # HandshakeId
    BY IdKinds DEF Ids
  <2>. QED BY <1>5, <1>9, <2>1, MarkingAbout DEF Creations
<1>11. /\ \A id \in Ids : id # Display => Keeps(Down, CutDown, Down', CutDown', About(id), Marking(id))
       /\ \A id : /\ Keeps(Up, CutUp, Up', CutUp', About(id), Marking(id))
                  /\ Keeps(Up, CutUp, Up', CutUp', About(id), {})
       /\ Keeps(Up, CutUp, Up', CutUp', Creations(ClientIds), Creations(ClientIds))
       /\ Keeps(Down, CutDown, Down', CutDown', Creations(ServerIds), Creations(ServerIds))
  BY <1>7, <1>8, <1>10, MarkingAbout
<1>12. /\ \A id : Known(id)' = Known(id) /\ (HasEntry(id)' <=> HasEntry(id))
       /\ MapTypes'
  BY <1>1, <1>2, MapsSame
<1>13. Types'
  BY <1>1, <1>2, <1>6, <1>12 DEF Types, PeerTypes, IInv
<1>14. NoGap' /\ NoGapAbove'
  BY <1>1, <1>2, <1>6, <1>11, <1>12, NoGapKept, NoGapAboveKept DEF IInv
<1> DEFINE C == {}
           T == {}
<1>15. /\ C \in SUBSET ClientIds /\ T \in SUBSET ServerIds /\ Display \notin C
       /\ \A c \in C : ClientIdInv(c)'
       /\ \A u \in T : ServerIdInv(u)'
  OBVIOUS
<1>. HIDE DEF C, T
<1>16. /\ \A d \in ClientIds : d \notin C /\ d # Display =>
              /\ Keeps(Up, CutUp, Up', CutUp', About(d), Marking(d))
              /\ Keeps(Down, CutDown, Down', CutDown', About(d), Marking(d))
       /\ \A u \in ServerIds : u \notin T =>
              /\ Keeps(Up, CutUp, Up', CutUp', About(u), {})
              /\ Keeps(Down, CutDown, Down', CutDown', About(u), Marking(u))
  BY <1>11, IdKinds DEF Ids
<1>17. /\ \A d \in ClientIds : d \notin C =>
              mine'[d] = mine[d] /\ objects'[d] = objects[d] /\ Known(d)' = Known(d)
       /\ \A u \in ServerIds : u \notin T =>
              offered'[u] = offered[u] /\ offers'[u] = offers[u] /\ Known(u)' = Known(u)
  BY <1>2, <1>12
<1>. QED BY <1>6, <1>13, <1>14, <1>15, <1>16, <1>17, Frame

-----------------------------------------------------------------------------
(* The theorems.                                                           *)

LEMMA Stutter == ASSUME IInv, UNCHANGED vars PROVE IInv'
<1>1. Typed /\ MapTypes /\ PeerTypes /\ MessageTypes
  BY IInvTyped
<1>2. UNCHANGED <<clientMap, serverMap, panicked, from, to, mine, offered, objects, offers>>
  BY DEF vars, mediatorVars, clientVars, serverVars
<1>3. Up' = Up /\ CutUp' = CutUp /\ Down' = Down /\ CutDown' = CutDown
  BY <1>2 DEF Up, CutUp, Down, CutDown
<1>4. MessageTypes' /\ Typed'
  BY <1>1, <1>2, <1>3, WayTypes DEF MessageTypes
<1>5. /\ \A R : \A D \in SUBSET R : Keeps(Up, CutUp, Up', CutUp', R, D)
      /\ \A R : \A D \in SUBSET R : Keeps(Down, CutDown, Down', CutDown', R, D)
  BY <1>1, <1>3, <1>4, UpStays, DownStays
<1>6. /\ \A id : /\ Keeps(Up, CutUp, Up', CutUp', About(id), Marking(id))
                 /\ Keeps(Up, CutUp, Up', CutUp', About(id), {})
                 /\ Keeps(Down, CutDown, Down', CutDown', About(id), Marking(id))
      /\ Keeps(Up, CutUp, Up', CutUp', Creations(ClientIds), Creations(ClientIds))
      /\ Keeps(Down, CutDown, Down', CutDown', Creations(ServerIds), Creations(ServerIds))
  BY <1>5, MarkingAbout
<1>7. /\ \A id \in Ids : Known(id)' = Known(id) /\ (HasEntry(id)' <=> HasEntry(id))
      /\ MapTypes'
  BY <1>1, <1>2, MapsSame
<1>8. Types'
  BY <1>1, <1>2, <1>4, <1>7 DEF Types, PeerTypes, IInv
<1>. QED BY <1>2, <1>4, <1>6, <1>7, <1>8, Undisturbed

\* IInv is inductive: every id has one life at a time, whoever creates, destroys and
\* reuses it and however many messages are under way.
THEOREM Invariance == Spec => []IInv
<1>1. Init => IInv
  BY InitIInv
<1>2. IInv /\ [Next]_vars => IInv'
  <2>. SUFFICES ASSUME IInv, [Next]_vars PROVE IInv'
    OBVIOUS
  <2>1. ASSUME NEW p \in Peers, Mediate(p) PROVE IInv'
    BY <2>1, ClientRelayStep, ServerRelayStep DEF Peers
  <2>2. ASSUME NEW p \in Peers, MediateDropped(p) PROVE IInv'
    BY <2>2, ClientDropStep, ServerDropStep DEF Peers
  <2>3. ASSUME NEW id \in ClientIds, NEW i \in ClientInterfaces \cup {"callback"}, Create(id, i)
        PROVE  IInv'
    BY <2>3, CreateStep
  <2>4. CASE Request
    BY <2>4, RequestStep
  <2>5. ASSUME NEW id \in ClientIds, Destroy(id) PROVE IInv'
    BY <2>5, DestroyStep
  <2>6. ASSUME NEW id \in ClientIds, DestroyCallback(id) PROVE IInv'
    BY <2>6, DestroyCallbackStep
  <2>7. ASSUME NEW id \in ServerIds, DestroyOffer(id) PROVE IInv'
    BY <2>7, DestroyOfferStep
  <2>8. CASE ClientReceives
    BY <2>8, ClientReceivesStep
  <2>9. CASE ServerReceives
    BY <2>9, ServerReceivesStep
  <2>10. CASE Event
    BY <2>10, EventStep
  <2>11. ASSUME NEW id \in ClientIds, Done(id) PROVE IInv'
    BY <2>11, DoneStep
  <2>12. ASSUME NEW t \in ClientIds, NEW id \in ServerIds, NEW i \in ServerInterfaces, Offer(t, id, i)
         PROVE  IInv'
    BY <2>12, OfferStep
  <2>13. CASE Handshake
    BY <2>13, HandshakeStep
  <2>14. CASE UNCHANGED vars
    BY <2>14, Stutter
  <2>. QED BY <2>1, <2>2, <2>3, <2>4, <2>5, <2>6, <2>7, <2>8, <2>9, <2>10, <2>11, <2>12, <2>13,
              <2>14 DEF Next
<1>. QED BY <1>1, <1>2, PTL DEF Spec

Withheld == withheld \subseteq ClientIds

\* Only a handler that drops a message withholds an id.
LEMMA WithheldStep ==
    ASSUME Withheld, [Next]_vars
    PROVE  Withheld'
<1>1. ASSUME NEW p \in Peers, MediateDropped(p) PROVE Withheld'
  BY <1>1 DEF MediateDropped, Withheld
<1>2. CASE \E p \in Peers : Mediate(p)
  BY <1>2 DEF Mediate, Withheld
<1>3. CASE \/ \E id \in ClientIds, i \in ClientInterfaces \cup {"callback"} : Create(id, i)
           \/ Request
           \/ \E id \in ClientIds : Destroy(id) \/ DestroyCallback(id)
           \/ \E id \in ServerIds : DestroyOffer(id)
           \/ ClientReceives
  BY <1>3 DEF Create, Request, Destroy, DestroyCallback, DestroyOffer, ClientReceives,
              mediatorVars, Withheld
<1>4. CASE \/ ServerReceives \/ Event \/ Handshake
           \/ \E id \in ClientIds : Done(id)
           \/ \E t \in ClientIds, id \in ServerIds, i \in ServerInterfaces : Offer(t, id, i)
  BY <1>4 DEF ServerReceives, Event, Handshake, Done, Offer, mediatorVars, Withheld
<1>5. CASE UNCHANGED vars
  BY <1>5 DEF vars, mediatorVars, Withheld
<1>. QED BY <1>1, <1>2, <1>3, <1>4, <1>5 DEF Next

LEMMA TypesImplied == IInv /\ Withheld => TypeOK
<1>. SUFFICES ASSUME IInv, Withheld PROVE TypeOK
  OBVIOUS
<1>1. MapTypes
  BY IInvTyped
<1>2. clientMap[2] = Live("display")
  <2>1. ClientIdInv(Display) /\ objects[Display] = "display" /\ Display \in Nat /\ ~(Display >= ServerStart)
    BY IdKinds DEF IInv, DisplayLives
  <2>2. Known(Display) = "display" /\ "display" # NoInterface
    BY <2>1 DEF ClientIdInv, Held, NoInterface
  <2>3. KnownIn(clientMap, 2) = "display"
    <3>1. Known(Display) = KnownIn(clientMap, Display + 1)
      BY <2>1, KnownByMap
    <3>2. Display + 1 = 2
      BY DEF Display
    <3>. QED BY <2>2, <3>1, <3>2
  <2>4. clientMap[2] \in IdMapEntry
    <3>1. Len(clientMap) \in Nat /\ 2 \in 1..Len(clientMap)
      BY <1>1, LenProperties DEF MapTypes
    <3>. QED BY <1>1, <3>1, ElementOfSeq DEF MapTypes
  <2>5. clientMap[2].tag = "Live" /\ clientMap[2].interface = "display"
    BY <2>2, <2>3 DEF KnownIn
  <2>. QED BY <2>4, <2>5 DEF IdMapEntry, Live
<1>. QED BY <1>1, <1>2 DEF TypeOK, MapTypes, IInv, Types, Withheld

\* The mediator's maps hold what they should, whatever the peers do: id 0 is never used,
\* the display is never deleted.
THEOREM TypeCorrect == Spec => []TypeOK
<1>1. IInv /\ Withheld => TypeOK
  BY TypesImplied
<1>2. Init => Withheld
  BY DEF Init, Withheld
<1>3. Withheld /\ [Next]_vars => Withheld'
  BY WithheldStep
<1>. QED BY <1>1, <1>2, <1>3, Invariance, PTL DEF Spec

\* The mediator never panics, with any number of ids and of messages under way: neither
\* "No interface for object id" nor one of the two asserts of IdMap::add is reached.
THEOREM NoPanic == Spec => []NeverPanics
<1>1. IInv => NeverPanics
  BY DEF IInv, Types, NeverPanics
<1>. QED BY <1>1, Invariance, PTL

LEMMA AgreementImplied == IInv => InterfacesAgree
<1>. SUFFICES ASSUME IInv, NEW p \in Peers, from[p] # <<>>
              PROVE  IsLive(Head(from[p]).target)
                     /\ Entry(Head(from[p]).target).interface = Head(from[p]).interface
  BY DEF InterfacesAgree
<1> DEFINE m == Head(from[p])
<1>1. MessageTypes
  BY IInvTyped
<1>2. m \in Msg /\ IsLive(m.target) /\ Known(m.target) = m.interface
  <2>1. CASE p = "client"
    BY <1>1, <2>1, UpHead, UpAgrees
  <2>2. CASE p = "server"
    BY <1>1, <2>2, DownHead, DownAgrees
  <2>. QED BY <2>1, <2>2 DEF Peers
<1>. HIDE DEF m
<1>3. m.target \in Nat
  BY <1>2, IdKinds DEF Msg, Ids
<1>4. Entry(m.target).interface = Known(m.target)
  BY <1>2, <1>3, KnownByMap
<1>. QED BY <1>2, <1>4 DEF m

\* Every message is read with the interface its sender meant, however its target's id
\* was destroyed and reused while it was on its way.
THEOREM MessagesReadAsMeant == Spec => []InterfacesAgree
<1>1. IInv => InterfacesAgree
  BY AgreementImplied
<1>. QED BY <1>1, Invariance, PTL
=============================================================================
