------------------------------- MODULE ObjectIds -------------------------------
(***************************************************************************)
(* Object ids in one session: the map from ids to interfaces that the      *)
(* mediator keeps (src/src/map.rs, src/src/mediator.rs, src/src/builtin.rs *)
(* and add_new_id of src/src/message.rs) between a client and a server     *)
(* that create, destroy and reuse ids with messages in flight both ways.   *)
(* The channels are FIFO, which is what MessageChannel promises.           *)
(*                                                                         *)
(* The client and the server are external and follow the Wayland protocol  *)
(* as their common library implements it.  A client allocates an id it     *)
(* never used, the lowest, or reuses one when it destroyed the object and  *)
(* the server's delete_id arrived; so does the server for its own ids when *)
(* the client destroyed the object.  A callback, which sync creates, has   *)
(* no requests and is destroyed by the server.  A server or a client that  *)
(* uses wayland-idfix also sends the handshake messages of it, a delete_id *)
(* and a sync with an id that is no object's.                              *)
(*                                                                         *)
(* A message carries the interface its sender takes its target to have:    *)
(* the mediator, which has the id only, must find the same one.            *)
(***************************************************************************)
EXTENDS Integers, Sequences

CONSTANTS MaxClientId,       \* bound: ids the client allocates from, up to it
          ServerStart,       \* WL_SERVER_ID_START
          MaxServerId,       \* bound: ids the server allocates from, up to it
          HandshakeId,       \* the id of a wayland-idfix handshake
          ClientInterfaces,  \* interfaces of objects clients create
          ServerInterfaces,  \* interfaces of objects servers create
          QueueBound         \* bound: messages one peer has in flight

ASSUME IdsAssumption ==
    /\ MaxClientId \in Nat /\ MaxClientId >= 1
    /\ ServerStart \in Nat /\ MaxClientId < ServerStart
    /\ MaxServerId \in Nat /\ ServerStart <= MaxServerId
    /\ HandshakeId \in Nat /\ MaxServerId + 1 < HandshakeId
    /\ QueueBound \in Nat
    \* wl_display and wl_callback are of neither kind, and markers are no interfaces.
    /\ \A i \in ClientInterfaces \cup ServerInterfaces : i \notin {"display", "callback", "none", "new"}

ClientIds == 1..MaxClientId
ServerIds == ServerStart..MaxServerId
Display == 1
Peers == {"client", "server"}

VARIABLES clientMap,   \* client_id_map of the mediator, index id + 1
          serverMap,   \* server_id_map, index id - ServerStart + 1
          panicked,    \* the session's thread panicked
          withheld,    \* history: ids of the client whose destroy an addon kept from the server
          from,        \* messages each peer sent and the mediator has not seen
          to,          \* messages on their way to each peer
          mine,        \* client: the state of its ids and their interfaces
          offered,     \* client: interfaces of the server's ids
          objects,     \* server: interfaces of the client's ids
          offers       \* server: interfaces of its own ids

mediatorVars == <<clientMap, serverMap, panicked, withheld>>
clientVars == <<mine, offered>>
serverVars == <<objects, offers>>
vars == <<mediatorVars, from, to, clientVars, serverVars>>

-----------------------------------------------------------------------------
(* IdMap. *)

NoInterface == "none"
NeverUsed == [tag |-> "NeverUsed", interface |-> NoInterface]
Live(i) == [tag |-> "Live", interface |-> i]
Deleted(i) == [tag |-> "Deleted", interface |-> i]

IsServerId(id) == id >= ServerStart

MapOf(id) == IF IsServerId(id) THEN serverMap ELSE clientMap
IndexOf(id) == (IF IsServerId(id) THEN id - ServerStart ELSE id) + 1

Entry(id) == MapOf(id)[IndexOf(id)]
HasEntry(id) == IndexOf(id) <= Len(MapOf(id))
IsLive(id) == HasEntry(id) /\ Entry(id).tag = "Live"

\* add panics on a gap, and on an entry that lives unless the id is a server's.
CanAdd(id) ==
    /\ IndexOf(id) <= Len(MapOf(id)) + 1
    /\ IsLive(id) => IsServerId(id)

\* Broken variant: an entry in use is written at the id before it.
ShiftedPut(map, i, e) ==
    IF i = Len(map) + 1 THEN Append(map, e) ELSE [map EXCEPT ![i - 1] = e]

Put(map, i, e) == IF i = Len(map) + 1 THEN Append(map, e) ELSE [map EXCEPT ![i] = e]

SetEntry(id, e) ==
    IF IsServerId(id)
    THEN /\ serverMap' = Put(serverMap, IndexOf(id), e)
         /\ UNCHANGED clientMap
    ELSE /\ clientMap' = Put(clientMap, IndexOf(id), e)
         /\ UNCHANGED serverMap

Add(id, i) == SetEntry(id, Live(i))

\* delete does nothing if the id is not that of an object.
Delete(id) ==
    IF IsLive(id)
    THEN SetEntry(id, Deleted(Entry(id).interface))
    ELSE UNCHANGED <<clientMap, serverMap>>

-----------------------------------------------------------------------------
(* Messages. *)

Message(op, target, i) ==
    [op |-> op, target |-> target, interface |-> i, new |-> 0, newInterface |-> NoInterface]

Creating(op, target, i, id, j) ==
    [Message(op, target, i) EXCEPT !.new = id, !.newInterface = j]

\* The argument of delete_id is no new id.
DeleteId(id) == [Message("delete_id", Display, "display") EXCEPT !.new = id]

SendFrom(peer, msgs) == from' = [from EXCEPT ![peer] = @ \o msgs]

Other(peer) == IF peer = "client" THEN "server" ELSE "client"

InBounds(peer) == Len(from[peer]) + Len(to[Other(peer)]) < QueueBound

-----------------------------------------------------------------------------
(* The mediator. *)

\* Broken variant: the id of a handshake reply is added as well.
AnyNewId(m) == m.op # "delete_id" /\ m.new # 0

\* The message creates an object.  A sync with a server's id is an acknowledgement
\* of wayland-idfix and creates none.
CreatesObject(m) ==
    /\ m.op # "delete_id" /\ m.new # 0
    /\ ~(m.op = "sync" /\ IsServerId(m.new))

Panics(m) ==
    \/ ~IsLive(m.target)
    \/ CreatesObject(m) /\ ~CanAdd(m.new)

\* Broken variant: an object is forgotten when the client destroys it.
HastyUpdateMap(m) ==
    IF CreatesObject(m) THEN Add(m.new, m.newInterface)
    ELSE IF m.op = "delete_id" THEN Delete(m.new)
    ELSE IF m.op = "destroy" THEN Delete(m.target)
    ELSE UNCHANGED <<clientMap, serverMap>>

UpdateMap(m) ==
    IF CreatesObject(m) THEN Add(m.new, m.newInterface)
    ELSE IF m.op = "delete_id" THEN Delete(m.new)
    ELSE UNCHANGED <<clientMap, serverMap>>

\* mediate: look the target up, add the new id, run the handlers, send.
Mediate(peer) ==
    /\ ~panicked
    /\ from[peer] # <<>>
    /\ LET m == Head(from[peer])
       IN  IF Panics(m)
           THEN panicked' = TRUE /\ UNCHANGED <<clientMap, serverMap, to>>
           ELSE /\ UpdateMap(m)
                /\ to' = [to EXCEPT ![Other(peer)] = Append(@, m)]
                /\ UNCHANGED panicked
    /\ from' = [from EXCEPT ![peer] = Tail(@)]
    /\ UNCHANGED <<withheld, clientVars, serverVars>>

\* Broken variant: of the special messages without a new id none is thought of.
NoNewId(m) == m.op \notin {"get", "sync", "offer"}

\* What mediate lets a handler drop: neither a message with a new id, nor a special one
\* (bind and sync, which have new ids, and delete_id).
MayBeDropped(m) == m.op \notin {"get", "sync", "offer", "delete_id"}

\* An addon's handler drops a message: a request or an event, the one that destroys an
\* object included.
MediateDropped(peer) ==
    /\ ~panicked
    /\ from[peer] # <<>>
    /\ LET m == Head(from[peer])
       IN  /\ MayBeDropped(m)
           /\ panicked' = ~IsLive(m.target)
           /\ withheld' = IF m.op = "destroy" THEN withheld \cup ({m.target} \cap ClientIds) ELSE withheld
    /\ from' = [from EXCEPT ![peer] = Tail(@)]
    /\ UNCHANGED <<clientMap, serverMap, to, clientVars, serverVars>>

-----------------------------------------------------------------------------
(* The client. *)

\* An id the client may allocate.
MayAllocate(id) ==
    \/ mine[id].state = "free"
    \/ mine[id].state = "new" /\ \A k \in ClientIds : mine[k].state = "new" => id <= k

Create(id, i) ==
    /\ InBounds("client")
    /\ MayAllocate(id)
    /\ mine' = [mine EXCEPT ![id] = [state |-> "live", interface |-> i]]
    /\ SendFrom("client", <<Creating(IF i = "callback" THEN "sync" ELSE "get",
                                     Display, "display", id, i)>>)
    /\ UNCHANGED <<mediatorVars, to, offered, serverVars>>

\* A request to one of its own objects, or to one the server created.
Request ==
    /\ InBounds("client")
    /\ \/ \E id \in ClientIds :
              /\ mine[id].state = "live" /\ mine[id].interface \in ClientInterfaces
              /\ SendFrom("client", <<Message("request", id, mine[id].interface)>>)
       \/ \E id \in ServerIds :
              /\ offered[id] # NoInterface
              /\ SendFrom("client", <<Message("request", id, offered[id])>>)
    /\ UNCHANGED <<mediatorVars, to, clientVars, serverVars>>

Destroy(id) ==
    /\ InBounds("client")
    /\ mine[id].state = "live" /\ mine[id].interface \in ClientInterfaces
    /\ mine' = [mine EXCEPT ![id].state = "zombie"]
    /\ SendFrom("client", <<Message("destroy", id, mine[id].interface)>>)
    /\ UNCHANGED <<mediatorVars, to, offered, serverVars>>

\* A callback is given up without a request, before or after its delete_id.
DestroyCallback(id) ==
    /\ mine[id].interface = "callback"
    /\ \/ mine[id].state = "live" /\ mine' = [mine EXCEPT ![id].state = "zombie"]
       \/ mine[id].state = "deleted" /\ mine' = [mine EXCEPT ![id].state = "free"]
    /\ UNCHANGED <<mediatorVars, from, to, offered, serverVars>>

DestroyOffer(id) ==
    /\ InBounds("client")
    /\ offered[id] # NoInterface
    /\ SendFrom("client", <<Message("destroy", id, offered[id])>>)
    /\ offered' = [offered EXCEPT ![id] = NoInterface]
    /\ UNCHANGED <<mediatorVars, to, mine, serverVars>>

\* An event arrives.  One for an object already destroyed is ignored.
ClientReceives ==
    /\ to["client"] # <<>>
    /\ LET m == Head(to["client"])
           s == mine[m.new].state
       IN  /\ mine' = IF m.op = "delete_id" /\ m.new \in ClientIds
                      THEN [mine EXCEPT ![m.new].state = IF s = "live" THEN "deleted" ELSE "free"]
                      ELSE mine
           /\ offered' = IF m.op = "offer" /\ mine[m.target].state = "live"
                         THEN [offered EXCEPT ![m.new] = m.newInterface]
                         ELSE offered
           /\ IF m.op = "delete_id" /\ m.new = HandshakeId
              THEN SendFrom("client", <<Creating("sync", Display, "display", HandshakeId, NoInterface)>>)
              ELSE UNCHANGED from
    /\ to' = [to EXCEPT !["client"] = Tail(@)]
    /\ UNCHANGED <<mediatorVars, serverVars>>

-----------------------------------------------------------------------------
(* The server. *)

\* A request arrives; a destroyed object's id is answered with delete_id if the
\* client allocated it.
ServerReceives ==
    /\ to["server"] # <<>>
    /\ LET m == Head(to["server"])
       IN  /\ objects' = IF CreatesObject(m) THEN [objects EXCEPT ![m.new] = m.newInterface]
                         ELSE IF m.op = "destroy" /\ m.target \in ClientIds
                         THEN [objects EXCEPT ![m.target] = NoInterface]
                         ELSE objects
           /\ offers' = IF m.op = "destroy" /\ m.target \in ServerIds
                        THEN [offers EXCEPT ![m.target] = NoInterface]
                        ELSE offers
           /\ IF m.op = "destroy" /\ m.target \in ClientIds
              THEN SendFrom("server", <<DeleteId(m.target)>>)
              ELSE UNCHANGED from
    /\ to' = [to EXCEPT !["server"] = Tail(@)]
    /\ UNCHANGED <<mediatorVars, clientVars>>

Event ==
    /\ InBounds("server")
    /\ \/ \E id \in ClientIds :
              /\ objects[id] \in ClientInterfaces
              /\ SendFrom("server", <<Message("event", id, objects[id])>>)
       \/ \E id \in ServerIds :
              /\ offers[id] \in ServerInterfaces
              /\ SendFrom("server", <<Message("event", id, offers[id])>>)
    /\ UNCHANGED <<mediatorVars, to, clientVars, serverVars>>

\* wl_callback::done, after which the server destroys the callback.
Done(id) ==
    /\ InBounds("server")
    /\ objects[id] = "callback"
    /\ objects' = [objects EXCEPT ![id] = NoInterface]
    /\ SendFrom("server", <<Message("done", id, "callback"), DeleteId(id)>>)
    /\ UNCHANGED <<mediatorVars, to, clientVars, offers>>

\* An event that creates an object with one of the server's ids: one it never
\* used, the lowest, or one that is free again.
Offer(target, id, i) ==
    /\ InBounds("server")
    /\ objects[target] \in ClientInterfaces
    /\ offers[id] \in {NoInterface, "new"}
    /\ offers[id] = "new" => \A k \in ServerIds : offers[k] = "new" => id <= k
    /\ offers' = [offers EXCEPT ![id] = i]
    /\ SendFrom("server", <<Creating("offer", target, objects[target], id, i)>>)
    /\ UNCHANGED <<mediatorVars, to, clientVars, objects>>

\* A handshake; bound: only while nothing else is in flight.
Handshake ==
    /\ \A p \in Peers : from[p] = <<>> /\ to[p] = <<>>
    /\ SendFrom("server", <<DeleteId(HandshakeId)>>)
    /\ UNCHANGED <<mediatorVars, to, clientVars, serverVars>>
-----------------------------------------------------------------------------
Init ==
    /\ clientMap = <<NeverUsed, Live("display")>>
    /\ serverMap = <<>>
    /\ panicked = FALSE
    /\ withheld = {}
    /\ from = [p \in Peers |-> <<>>]
    /\ to = [p \in Peers |-> <<>>]
    /\ mine = [id \in ClientIds |->
                  IF id = Display THEN [state |-> "live", interface |-> "display"]
                  ELSE [state |-> "new", interface |-> NoInterface]]
    /\ offered = [id \in ServerIds |-> NoInterface]
    /\ objects = [id \in ClientIds |-> IF id = Display THEN "display" ELSE NoInterface]
    /\ offers = [id \in ServerIds |-> "new"]

Next ==
    \/ \E p \in Peers : Mediate(p)
    \/ \E p \in Peers : MediateDropped(p)
    \/ \E id \in ClientIds, i \in ClientInterfaces \cup {"callback"} : Create(id, i)
    \/ Request
    \/ \E id \in ClientIds : Destroy(id)
    \/ \E id \in ClientIds : DestroyCallback(id)
    \/ \E id \in ServerIds : DestroyOffer(id)
    \/ ClientReceives
    \/ ServerReceives
    \/ Event
    \/ \E id \in ClientIds : Done(id)
    \/ \E t \in ClientIds, id \in ServerIds, i \in ServerInterfaces : Offer(t, id, i)
    \/ Handshake

\* Messages move on, unless they are dropped; nothing makes a peer send one.
Spec ==
    /\ Init /\ [][Next]_vars
    /\ \A p \in Peers : WF_vars(Mediate(p) \/ MediateDropped(p))
    /\ WF_vars(ClientReceives) /\ WF_vars(ServerReceives)

-----------------------------------------------------------------------------
IdMapEntry ==
    [tag : {"NeverUsed", "Live", "Deleted"},
     interface : ClientInterfaces \cup ServerInterfaces \cup {"display", "callback", NoInterface}]

\* Types of the mediator's state.  Id 0 is never used and the display always lives.
TypeOK ==
    /\ clientMap \in Seq(IdMapEntry) /\ serverMap \in Seq(IdMapEntry)
    /\ clientMap[1] = NeverUsed /\ clientMap[2] = Live("display")
    /\ panicked \in BOOLEAN
    /\ withheld \subseteq ClientIds

\* The mediator never panics: every target it looks up lives, every new id is
\* next in its range or free.  map.rs asserts both: "No interface for object id",
\* "Out of range add id", "Duplicate add".
NeverPanics == ~panicked

\* The mediator reads every message with the interface its sender means, however
\* many ids were destroyed and reused while it was on its way.
InterfacesAgree ==
    \A p \in Peers :
        from[p] # <<>> =>
            LET m == Head(from[p])
            IN  IsLive(m.target) /\ Entry(m.target).interface = m.interface

\* An id the client destroyed comes back to it: no delete_id is lost.  The one exception
\* is a destroy that an addon dropped, which the mediator lets it: the server keeps that
\* object, and the client never gets the id back.
IdsComeBack ==
    \A id \in ClientIds \ {Display} :
        mine[id].state = "zombie" /\ mine[id].interface \in ClientInterfaces
            ~> mine[id].state = "free" \/ id \in withheld

=============================================================================
