-------------------------------- MODULE Mediator --------------------------------
(***************************************************************************)
(* What mediate (src/src/mediator.rs) does with the messages of a session, *)
(* down to their words: a message goes the fast track, is demarshalled for *)
(* its handlers and marshalled again (src/src/message.rs), or demarshalled *)
(* for debug output alone and relayed.  The built-in handlers              *)
(* (src/src/builtin.rs) limit the versions of globals and keep the ids;    *)
(* handlers of addons are external, and may do what the traits of          *)
(* src/src/for_handlers.rs let them.                                       *)
(*                                                                         *)
(* Messages come well-formed, of any declarations, in the order that the   *)
(* session mediates them in; each side has its descriptors.  A word is a   *)
(* sequence: of one number, of the opcode and the size in the second word  *)
(* of a message, or of four bytes of a string or an array.  A byte is a    *)
(* number, 0 the terminator.  The sender's padding is told from the zeros  *)
(* that waydapt pads with.  An id of an object is a number; whether it may *)
(* be added is the subject of ObjectIds.                                   *)
(***************************************************************************)
EXTENDS Integers, SequencesExt

CONSTANTS Decls,        \* declarations of messages
          Values,       \* values of an argument, by its type
          Limits,       \* limited versions, by the names of the active globals
          ServerStart,  \* WL_SERVER_ID_START
          Display,      \* the interface wl_display
          HandshakeId,  \* the id of a wayland-idfix handshake
          DebugLevels,  \* values of WAYLAND_DEBUG
          NewValues,    \* values that handlers of addons put, by their types
          MaxAddons,    \* bound: handlers of addons for one message
          MaxWords,     \* MAX_WORDS_OUT
          Null,         \* a null string
          MsgBound      \* bound: messages in one behaviour

NoInterface == <<>>
Pad == 9

\* Values of one word are sequences of one number; a string has no zero in it.
HasType(value, type) ==
    CASE type = "String" -> value \in Seq(Nat \ {0})
      [] type = "Array" -> value \in Seq(Nat)
      [] OTHER -> value \in Seq(Nat) /\ Len(value) = 1

\* A message has at most one new id, and an interface for it but in bind.
DeclsAssumption ==
    \A d \in Decls :
       /\ d.special \in {"none", "global", "bind", "sync", "delete_id"}
       /\ d.from \in {"client", "server"} /\ d.opcode \in Nat
       /\ d.args \in Seq({"NewId", "Fd"} \union DOMAIN Values)
       /\ \A j, k \in DOMAIN d.args : d.args[j] = "NewId" /\ d.args[k] = "NewId" => j = k
       /\ d.newId # NoInterface <=>
            d.special # "bind" /\ \E k \in DOMAIN d.args : d.args[k] = "NewId"
       /\ d.special = "global" => d.args = <<"Uint", "String", "Uint">>
       /\ d.special = "bind" => d.args = <<"Uint", "NewId">>
       /\ d.special = "delete_id" => d.args = <<"Uint">>

ValuesAssumption ==
    /\ {"Uint", "String"} \subseteq DOMAIN Values /\ {"NewId", "Fd"} \cap DOMAIN Values = {}
    /\ \A type \in DOMAIN Values : \A v \in Values[type] :
          HasType(v, type) \/ (type = "String" /\ v = Null)
    /\ \A type \in DOMAIN NewValues : \A v \in NewValues[type] : HasType(v, type)
    /\ Null \notin Seq(Nat)

\* The bound keeps the ids in the client's range.
ASSUME MediatorAssumption ==
    /\ DeclsAssumption /\ ValuesAssumption
    /\ \A name \in DOMAIN Limits : Limits[name] \in Nat
    /\ ServerStart \in Nat /\ HandshakeId \in Nat /\ HandshakeId >= ServerStart
    /\ DebugLevels \subseteq Nat /\ MaxAddons \in Nat
    /\ MaxWords \in Nat /\ MsgBound \in Nat /\ MsgBound + 1 < ServerStart

VARIABLES debugLevel, addons,  \* chosen at the start: how many handlers of addons
          came,     \* messages received, with their own descriptors
          next,     \* the first of them that was not mediated
          inFds,    \* descriptors received and not taken, by the side they are from
          pc,       \* idle, handle, marshal, relay or panicked
          dmsg,     \* the DemarshalledMessage
          todo,     \* handlers it has yet to see
          idMap,    \* pairs of an id and an interface
          out,      \* sent messages: words and descriptors; as history, of which
                    \* message, how handlers left its arguments, who did not see it
          dropped,  \* history: messages that a handler dropped
          meant     \* history: arguments of the message at hand, as handlers left them

config == <<debugLevel, addons>>
history == <<dropped, meant>>
vars == <<config, came, next, inFds, pc, dmsg, todo, idMap, out, history>>

-----------------------------------------------------------------------------
(* The wire.                                                               *)

round4(n) == ((n + 3) \div 4) * 4

Arg(type, value) == [type |-> type, value |-> value]
Number(value) == value[1]

\* What wl_registry::bind really has where a new_id is declared.
WireTypes(d) ==
    IF d.special = "bind" THEN <<"Uint", "String", "Uint", "NewId">> ELSE d.args

Padded(bytes, pad) ==
    [k \in 1..(round4(Len(bytes)) \div 4) |->
        [b \in 1..4 |-> IF 4 * (k - 1) + b <= Len(bytes) THEN bytes[4 * (k - 1) + b] ELSE pad]]

WireArg(a, pad) ==
    CASE a.type = "Fd" -> <<>>
      [] a.type = "String" ->
           IF a.value = Null THEN << <<0>> >>
           ELSE << <<Len(a.value) + 1>> >> \o Padded(a.value \o <<0>>, pad)
      [] a.type = "Array" -> << <<Len(a.value)>> >> \o Padded(a.value, pad)
      [] OTHER -> <<a.value>>

\* A message of the protocol: n is the object it is for.
Wire(n, d, args, pad) ==
    LET body == FlattenSeq([k \in DOMAIN args |-> WireArg(args[k], pad)])
    IN  << <<n>>, <<d.opcode, 4 * (2 + Len(body))>> >> \o body

-----------------------------------------------------------------------------
(* Demarshalling.                                                          *)

\* Words of an argument that begins at the word i.
ArgWords(type, data, i) ==
    CASE type \in {"String", "Array"} -> round4(Number(data[i])) \div 4 + 1
      [] type = "Fd" -> 0
      [] OTHER -> 1

\* Broken variant: the new id is taken to come first.
FirstWord(d, data) == Number(data[3])

PassArg(data, acc, type) ==
    IF acc.found THEN acc
    ELSE IF type = "NewId" THEN [acc EXCEPT !.found = TRUE]
    ELSE [acc EXCEPT !.i = @ + ArgWords(type, data, acc.i)]

FindNewId(d, data) ==
    LET acc == FoldLeft(LAMBDA a, type : PassArg(data, a, type),
                        [i |-> 3, found |-> FALSE], d.args)
    IN  Number(data[acc.i])

NumFds(d) == Cardinality({k \in DOMAIN d.args : d.args[k] = "Fd"})

\* The bytes of a string or an array whose length is at the word i.
Bytes(data, i) ==
    LET nwords == (round4(Number(data[i])) + 4) \div 4
    IN  SubSeq(FlattenSeq(SubSeq(data, i + 1, i + nwords - 1)), 1, Number(data[i]))

\* CStr::from_bytes_with_nul
IsCStr(s) == s # <<>> /\ \A k \in DOMAIN s : s[k] = 0 <=> k = Len(s)

\* Whether an id is added: that of a handshake is not.
AddsId(d, id) == id < ServerStart \/ d.special # "sync"

\* One argument: it is pushed on args, and a new id goes into the map.
Demarshal1(d, data, acc, type) ==
    LET s == Bytes(data, acc.i)
        value == CASE type = "String" -> Front(s)
                   [] type = "Array" -> s
                   [] type = "Fd" -> <<acc.fds + 1>>
                   [] OTHER -> data[acc.i]
        tag == IF type = "NewId" /\ ~AddsId(d, Number(value)) THEN "Object" ELSE type
        interface == IF d.special = "bind" THEN acc.args[2].value ELSE d.newId
    IN  IF acc.panic \/ (type = "String" /\ ~IsCStr(s))
        THEN [acc EXCEPT !.panic = TRUE]
        ELSE [acc EXCEPT !.i = @ + ArgWords(type, data, acc.i),
                         !.args = Append(@, Arg(tag, value)),
                         !.fds = IF type = "Fd" THEN @ + 1 ELSE @,
                         !.adds = IF type = "NewId" /\ AddsId(d, Number(value))
                                  THEN {<<Number(value), interface>>} ELSE @]

\* bind asserts that the interface is an active global, and its version.
MayBind(name, version) == name \in DOMAIN Limits /\ version <= Limits[name]

DemarshalArgs(d, data) ==
    FoldLeft(LAMBDA a, type : Demarshal1(d, data, a, type),
             [i |-> 3, args |-> <<>>, fds |-> 0, adds |-> {}, panic |-> FALSE],
             WireTypes(d))

Demarshal(d, data) ==
    LET acc == DemarshalArgs(d, data)
        bound == d.special = "bind" /\ ~acc.panic
    IN  IF bound /\ ~MayBind(acc.args[2].value, Number(acc.args[3].value))
        THEN [acc EXCEPT !.panic = TRUE] ELSE acc

-----------------------------------------------------------------------------
(* Marshalling.                                                            *)

\* Broken variant: a string that fills its words gets one more.
AlwaysLast(bytes) ==
    LET cut == Len(bytes) - (Len(bytes) % 4)
        last == SubSeq(bytes, cut + 1, Len(bytes))
    IN  << <<Len(bytes)>> >> \o [k \in 1..(cut \div 4) |-> SubSeq(bytes, 4 * k - 3, 4 * k)]
        \o << [b \in 1..4 |-> IF b <= Len(last) THEN last[b] ELSE 0] >>

\* add_array: whole words as they are, then what remains and zeros.
AddArray(bytes) ==
    LET cut == Len(bytes) - (Len(bytes) % 4)
        last == SubSeq(bytes, cut + 1, Len(bytes))
    IN  << <<Len(bytes)>> >> \o [k \in 1..(cut \div 4) |-> SubSeq(bytes, 4 * k - 3, 4 * k)]
        \o (IF last = <<>> THEN <<>>
            ELSE << [b \in 1..4 |-> IF b <= Len(last) THEN last[b] ELSE 0] >>)

MarshalArg(a) ==
    CASE a.type = "String" -> AddArray(a.value \o <<0>>)
      [] a.type = "Array" -> AddArray(a.value)
      [] a.type = "Fd" -> <<>>
      [] OTHER -> <<a.value>>

\* send writes the header last, with the size it has come to.
MarshalModified(m) ==
    LET body == FlattenSeq([k \in DOMAIN m.args |-> MarshalArg(m.args[k])])
    IN  << m.source[1], <<m.source[2][1], 4 * (2 + Len(body))>> >> \o body

TypesMatch(m) == \A k \in DOMAIN m.args : m.args[k].type = WireTypes(m.decl)[k]

-----------------------------------------------------------------------------
(* Messages come.                                                          *)

Created(args) == {Number(args[k].value) : k \in {j \in DOMAIN args : args[j].type = "NewId"}}

NextId == Cardinality(UNION {Created(came[n].args) : n \in DOMAIN came}) + 2

\* Arguments a message may have.  New ids are the next, and the id that is deleted was
\* created.  The value of a file descriptor is not looked at.
ArgValues(d, type) ==
    CASE type = "NewId" -> IF d.special = "sync" THEN {<<NextId>>, <<HandshakeId>>} ELSE {<<NextId>>}
      [] type = "Uint" /\ d.special = "delete_id" ->
           {<<id>> : id \in {HandshakeId} \union UNION {Created(came[n].args) : n \in DOMAIN came}}
      [] type = "Fd" -> {<<1>>}
      [] OTHER -> Values[type]

Arguments(d) ==
    LET types == WireTypes(d)
        anyValue == UNION {ArgValues(d, types[k]) : k \in DOMAIN types}
    IN  {[k \in DOMAIN types |-> Arg(types[k], v[k])] :
            v \in {u \in [DOMAIN types -> anyValue] :
                      \A k \in DOMAIN types : u[k] \in ArgValues(d, types[k])}}

\* A descriptor is named after the message that it came with.
Come(d) ==
    /\ Len(came) < MsgBound
    /\ pc = "idle"
    /\ \E args \in Arguments(d) :
          LET fds == [k \in 1..NumFds(d) |-> <<Len(came) + 1, k>>]
          IN  /\ Len(Wire(Len(came) + 1, d, args, Pad)) <= MaxWords
              /\ came' = Append(came, [decl |-> d, args |-> args, fds |-> fds])
              /\ inFds' = [inFds EXCEPT ![d.from] = @ \o fds]
    /\ UNCHANGED <<config, next, pc, dmsg, todo, idMap, out, history>>

-----------------------------------------------------------------------------
(* mediate                                                                 *)

\* add_builtin_handlers: before the addons' handlers, and the one of delete_id
\* behind them.
Queue(d) ==
    LET others == [k \in 1..addons |-> "addon"]
    IN  CASE d.special \in {"global", "bind"} -> <<"builtin">> \o others
          [] d.special = "delete_id" -> others \o <<"builtin">>
          [] OTHER -> others

AtHand == next <= Len(came)
Decl == came[next].decl
Source == Wire(next, Decl, came[next].args, Pad)

NoMessage == [decl |-> Null, source |-> <<>>, args |-> <<>>, fds |-> <<>>,
              modified |-> FALSE, typeChanged |-> FALSE]

Sends(words, fds, args) ==
    out' = Append(out, [words |-> words, fds |-> fds, for |-> next, meant |-> args,
                        unseen |-> todo])

Panic ==
    /\ pc' = "panicked"
    /\ UNCHANGED <<config, came, next, inFds, dmsg, todo, idMap, out, history>>

Done ==
    /\ pc' = "idle" /\ next' = next + 1
    /\ dmsg' = NoMessage /\ todo' = <<>> /\ meant' = <<>>
    /\ UNCHANGED <<config, came>>

Fds(n) == SubSeq(inFds[Decl.from], 1, n)
Take(n) == inFds' = [inFds EXCEPT ![Decl.from] = SubSeq(@, n + 1, Len(@))]

\* No handlers, no debug output: the words go on as they are.
FastTrack ==
    /\ pc = "idle" /\ AtHand
    /\ Queue(Decl) = <<>> /\ debugLevel = 0
    /\ idMap' = IF Decl.newId # NoInterface /\ AddsId(Decl, FindNewId(Decl, Source))
                THEN idMap \union {<<FindNewId(Decl, Source), Decl.newId>>} ELSE idMap
    /\ Sends(Source, Fds(NumFds(Decl)), came[next].args)
    /\ Take(NumFds(Decl))
    /\ Done
    /\ UNCHANGED dropped

\* Handlers, or debug output: the message is demarshalled.
StartMessage ==
    /\ pc = "idle" /\ AtHand
    /\ Queue(Decl) # <<>> \/ debugLevel # 0
    /\ LET d == Demarshal(Decl, Source)
       IN  IF d.panic THEN Panic
           ELSE /\ dmsg' = [NoMessage EXCEPT !.decl = Decl, !.source = Source, !.args = d.args,
                                             !.fds = Fds(d.fds)]
                /\ Take(d.fds)
                /\ idMap' = idMap \union d.adds
                /\ todo' = Queue(Decl)
                /\ pc' = IF Queue(Decl) = <<>> THEN "relay" ELSE "handle"
                /\ meant' = came[next].args
                /\ UNCHANGED <<config, came, next, out, dropped>>

\* Broken variant: with debug output the descriptors stay where they were.
RelayBare ==
    /\ pc = "relay"
    /\ Sends(dmsg.source, <<>>, meant)
    /\ Done
    /\ UNCHANGED <<inFds, idMap, dropped>>

Relay ==
    /\ pc = "relay"
    /\ Sends(dmsg.source, dmsg.fds, meant)
    /\ Done
    /\ UNCHANGED <<inFds, idMap, dropped>>

-----------------------------------------------------------------------------
(* Handlers.                                                               *)

Required(d) == d.newId # NoInterface \/ d.special \in {"bind", "sync", "delete_id"}

\* Broken variant: after the last handler the loop looks for another.
AnswerOn(result) ==
    /\ todo' = Tail(todo)
    /\ pc' = IF result = "Send" THEN "marshal" ELSE "handle"
    /\ UNCHANGED <<config, came, next, inFds, out, dropped>>

\* What the loop does with the answer of the handler at hand.
Answer(result) ==
    IF result # "Drop"
    THEN /\ todo' = Tail(todo)
         /\ pc' = IF result = "Send" \/ Tail(todo) = <<>> THEN "marshal" ELSE "handle"
         /\ UNCHANGED <<config, came, next, inFds, out, dropped>>
    ELSE /\ Done
         /\ dropped' = dropped \union {next}
         /\ UNCHANGED <<inFds, out>>

Handling(who) == pc = "handle" /\ Head(todo) = who

\* A handler of an addon leaves the message as it is,
LookAddon ==
    /\ Handling("addon")
    /\ \E result \in {"Next", "Send", "Drop"} :
          IF result = "Drop" /\ Required(dmsg.decl) THEN Panic
          ELSE /\ Answer(result)
               /\ result # "Drop" => UNCHANGED <<dmsg, meant>>
               /\ UNCHANGED idMap

\* Broken variant: the argument is set, but not the flag.
UnmarkedSet(k, a, flags) == [dmsg EXCEPT !.args[k] = a]

Changed(k, a, flags) ==
    [dmsg EXCEPT !.args[k] = a, !.modified = TRUE, !.typeChanged = @ \/ flags = "get_arg_mut"]

\* or gives one of its arguments another value, by set_arg, or by get_arg_mut, which
\* does not compare the types.  It leaves ids and descriptors alone.
ChangeAddon ==
    /\ Handling("addon")
    /\ \E k \in DOMAIN dmsg.args, type \in DOMAIN NewValues, how \in {"set_arg", "get_arg_mut"} :
          /\ WireTypes(dmsg.decl)[k] \notin {"NewId", "Fd"}
          /\ \E v \in NewValues[type], result \in {"Next", "Send"} :
                IF how = "set_arg" /\ dmsg.args[k].type # type THEN Panic
                ELSE /\ Answer(result)
                     /\ dmsg' = Changed(k, Arg(type, v), how)
                     /\ meant' = [meant EXCEPT ![k] = Arg(type, v)]
                     /\ UNCHANGED idMap

\* Broken variant: versions above the limit are shown.
AsAdvertised(name, version) == version

ShownVersion(name, version) == IF version > Limits[name] THEN Limits[name] ELSE version

\* wl_registry_global_handler
BuiltinGlobal ==
    /\ Handling("builtin") /\ dmsg.decl.special = "global"
    /\ LET name == dmsg.args[2].value
           version == Number(dmsg.args[3].value)
       IN  IF name \notin DOMAIN Limits \/ (name \in DOMAIN Limits /\ Limits[name] = 0)
           THEN Answer("Drop")
           ELSE LET shown == ShownVersion(name, version)
                IN  /\ Answer("Send")
                    /\ dmsg' = IF shown # version
                               THEN Changed(3, Arg("Uint", <<shown>>), "set_arg") ELSE dmsg
                    /\ meant' = [meant EXCEPT ![3] = Arg("Uint", <<shown>>)]
    /\ UNCHANGED idMap

\* wl_registry_bind_handler
BuiltinBind ==
    /\ Handling("builtin") /\ dmsg.decl.special = "bind"
    /\ Answer("Send")
    /\ UNCHANGED <<dmsg, meant, idMap>>

\* wl_display_delete_id_handler
BuiltinDelete ==
    /\ Handling("builtin") /\ dmsg.decl.special = "delete_id"
    /\ IF dmsg.args[1].type # "Uint" THEN Panic
       ELSE /\ idMap' = {e \in idMap : e[1] # Number(dmsg.args[1].value)}
            /\ Answer("Next")
            /\ UNCHANGED <<dmsg, meant>>

\* The message goes on when all handlers have seen it, or one has sent it.
Marshal ==
    /\ pc = "marshal"
    /\ LET words == IF dmsg.modified THEN MarshalModified(dmsg) ELSE dmsg.source
       IN  IF (dmsg.typeChanged /\ ~TypesMatch(dmsg)) \/ Len(words) > MaxWords THEN Panic
           ELSE /\ Sends(words, dmsg.fds, meant)
                /\ Done
                /\ UNCHANGED <<inFds, idMap, dropped>>

-----------------------------------------------------------------------------
Init ==
    /\ debugLevel \in DebugLevels /\ addons \in 0..MaxAddons
    /\ came = <<>> /\ next = 1
    /\ inFds = [side \in {"client", "server"} |-> <<>>]
    /\ pc = "idle" /\ dmsg = NoMessage /\ todo = <<>>
    /\ idMap = {<<1, Display>>}
    /\ out = <<>> /\ dropped = {} /\ meant = <<>>

Next ==
    \/ \E d \in Decls : Come(d)
    \/ FastTrack \/ StartMessage \/ Relay
    \/ LookAddon \/ ChangeAddon
    \/ BuiltinGlobal \/ BuiltinBind \/ BuiltinDelete
    \/ Marshal

Spec == Init /\ [][Next]_vars

-----------------------------------------------------------------------------
(* Properties.                                                             *)

\* The type invariant.
TypeOK ==
    /\ pc \in {"idle", "handle", "marshal", "relay", "panicked"}
    /\ next \in 1..(Len(came) + 1) /\ dropped \subseteq 1..(next - 1)
    /\ pc = "handle" => todo # <<>>
    /\ pc \in {"handle", "marshal", "relay"} => dmsg.decl = Decl /\ Len(dmsg.args) = Len(meant)
    /\ \A e \in idMap : e[1] \in Nat

\* Whichever way a message takes, it is what its receiver would read: every mediated
\* message is sent, in order, unless a handler dropped it; its words are those of the
\* protocol for the arguments that the handlers left; and its descriptors are its own,
\* while those of a dropped message go with it and no other message gets them.
SentAsMeant ==
    /\ {out[k].for : k \in DOMAIN out} = 1..(next - 1) \ dropped
    /\ \A j, k \in DOMAIN out : j < k => out[j].for < out[k].for
    /\ \A k \in DOMAIN out :
          LET m == came[out[k].for]
          IN  /\ \E pad \in {Pad, 0} : out[k].words = Wire(out[k].for, m.decl, out[k].meant, pad)
              /\ out[k].fds = m.fds

\* What a sent message does to the ids.
Track(msgs, ids, r) ==
    LET m == msgs[r.for]
        interface == IF m.decl.special = "bind" THEN r.meant[2].value ELSE m.decl.newId
    IN  IF m.decl.special = "delete_id" /\ r.unseen = <<>>
        THEN {e \in ids : e[1] # Number(r.meant[1].value)}
        ELSE ids \union {<<id, interface>> : id \in Created(m.args) \ {HandshakeId}}

IdsSent(msgs, sent) ==
    FoldLeft(LAMBDA ids, r : Track(msgs, ids, r), {<<1, Display>>}, sent)

\* The ids are the same by every way: those that a sent message creates, but for a
\* handshake's, with their interfaces, without those whose deletion was sent.  Only
\* when an addon's handler answers Send to delete_id does the map keep the id, as the
\* built-in handler comes behind it.
IdsTracked == pc = "idle" => idMap = IdsSent(came, out)

\* Unless the handler of an addon does what it must not, mediate panics for two
\* reasons alone: a null string, which nothing that demarshals can take, and a bind of
\* a global that the client was not shown, or in a version that it was not shown.
PanicsCalledFor ==
    LET args == came[next].args
        NullString == \E k \in DOMAIN args : args[k].type = "String" /\ args[k].value = Null
        Shown == \E k \in DOMAIN out :
            /\ came[out[k].for].decl.special = "global"
            /\ out[k].meant[2] = args[2] /\ Number(out[k].meant[3].value) >= Number(args[3].value)
    IN  pc = "panicked" =>
            IF dmsg = NoMessage THEN NullString \/ (Decl.special = "bind" /\ ~Shown)
            ELSE addons > 0

=============================================================================
