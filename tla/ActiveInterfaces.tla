---------------------------- MODULE ActiveInterfaces ----------------------------
(***************************************************************************)
(* What active_interfaces (src/src/postparse.rs) makes of the protocol     *)
(* files and the globals file when the proxy starts: the parent of every   *)
(* interface, the versions, and the interfaces and messages that sessions  *)
(* may use.  Protocols are visited in the order of their files, and the    *)
(* interfaces of one in the order of a HashMap, which is any order and     *)
(* another one in every run of the program.                                *)
(*                                                                         *)
(* The XML parser is left out: the contents of the files are chosen in     *)
(* Init, and the lines of the globals file as they are read.               *)
(***************************************************************************)
EXTENDS Integers, Sequences, FiniteSets

CONSTANTS Protocols,       \* the protocols, in the order of their files
          Interfaces,      \* pairs <<protocol, name>>
          parsed_version,  \* the version each interface has in its file
          Inputs,          \* what the files may hold, with or without option -m
          Display,         \* wl_display of the base protocol
          Callback,        \* wl_callback of the base protocol
          Absent,          \* a name no interface has
          None,            \* a OnceLock that is not set, no new_id argument
          Untyped,         \* a new_id argument that names no interface
          MaxLimit,        \* bound: version limits in the globals file
          MaxLines         \* bound: lines of the globals file

Name(i) == i[2]
Names == {Name(i) : i \in Interfaces}
MaxVersion == 1 + MaxLimit    \* stands for u32::MAX

\* A message: its interface, the version it came with, its new_id argument.
Messages == [owner : Interfaces, since : 1..MaxVersion,
             new_id : Names \union {None, Untyped}]

ASSUME FilesAssumption ==
    /\ Protocols \in Seq(STRING)
    /\ Interfaces \subseteq {Protocols[k] : k \in 1..Len(Protocols)} \X STRING
    /\ IsFiniteSet(Interfaces)
    /\ MaxLimit \in Nat /\ MaxLines \in Nat
    /\ parsed_version \in [Interfaces -> 1..MaxVersion]
    /\ \A input \in Inputs : /\ input.messages \subseteq Messages
                             /\ input.allow_missing \in BOOLEAN
    /\ {Display, Callback} \subseteq Interfaces /\ Display[1] = Callback[1]
    /\ Absent \notin Names

VARIABLES
    messages,          \* the messages of all files
    allow_missing,     \* option -m
    phase,             \* the pass of postparse, or how it ended
    protocol,          \* first pass: index of the protocol being visited
    visited,           \* interfaces visited in this pass
    parent,            \* of an interface, the one that creates it
    new_id_interface,  \* of a message, what it creates
    externals,         \* messages whose new_id is no interface of their protocol
    globals,           \* what was read of the globals file
    limited_version,   \* of an interface
    active,            \* protocols with a line in the globals file
    active_interfaces, \* the map from names, as its range
    active_messages

inputs == <<messages, allow_missing>>
links == <<parent, new_id_interface, externals>>
results == <<limited_version, active, active_interfaces, active_messages>>
vars == <<inputs, phase, protocol, visited, links, globals, results>>

-----------------------------------------------------------------------------
AllMessages(i) == {m \in messages : m.owner = i}
Of(p) == {i \in Interfaces : i[1] = p}
Base == Display[1]

\* Protocol::find_interface: None or the interface of that name.
FindInterface(p, name) ==
    IF <<p, name>> \in Interfaces THEN <<p, name>> ELSE None

Minimum(x, y) == IF x < y THEN x ELSE y

\* fixup_wayland_get_display, as far as interfaces are concerned.
\* Broken variant: nothing is fixed up.
UnfixedParent == [i \in Interfaces |-> None]

\* Broken variant: child and parent are swapped.
SwappedParent == [i \in Interfaces |-> IF i = Display THEN Callback ELSE None]

FixedParent == [i \in Interfaces |-> IF i = Callback THEN Display ELSE None]

FixedVersion == [i \in Interfaces |-> IF i = Display THEN 1 ELSE None]

Init ==
    /\ \E input \in Inputs : /\ messages = input.messages
                             /\ allow_missing = input.allow_missing
    /\ phase = "scan" /\ protocol = 1 /\ visited = {}
    /\ parent = FixedParent
    /\ new_id_interface = [m \in messages |-> None]
    /\ externals = {}
    /\ globals = <<>>
    /\ limited_version = FixedVersion
    /\ active = {} /\ active_interfaces = {} /\ active_messages = {}

Panic ==
    /\ phase' = "panicked"
    /\ UNCHANGED <<inputs, protocol, visited, links, globals, results>>

-----------------------------------------------------------------------------
(* First pass: externals_parentless_set_owners.                            *)

NewIdLocal(m) == m.new_id \in Names /\ FindInterface(m.owner[1], m.new_id) # None
NewIdExternal(m) == m.new_id \in Names /\ ~NewIdLocal(m)
Target(m) == FindInterface(m.owner[1], m.new_id)

\* set_parent: OnceLock::set keeps the value it has and hands back the one
\* it was given, so the comparison is of the new parent with itself.
SetParents(i) ==
    [j \in Interfaces |->
        IF parent[j] = None /\ (\E m \in AllMessages(i) : NewIdLocal(m) /\ Target(m) = j)
        THEN i ELSE parent[j]]

\* One interface of the protocol at hand, with all its messages.
VisitInterface(i) ==
    /\ phase = "scan" /\ protocol <= Len(Protocols)
    /\ i \in Of(Protocols[protocol]) \ visited
    /\ \A m \in AllMessages(i) : m.new_id # Untyped
    /\ visited' = visited \union {i}
    /\ parent' = SetParents(i)
    /\ new_id_interface' =
         [m \in messages |-> IF m.owner = i /\ NewIdLocal(m)
                             THEN Target(m) ELSE new_id_interface[m]]
    /\ externals' = externals \union {m \in AllMessages(i) : NewIdExternal(m)}
    /\ UNCHANGED <<inputs, phase, protocol, globals, results>>

\* new_id_interface_name finds a new_id without an interface name, or a second new_id: both
\* panic, and Untyped stands for both.
UntypedNewId(i) ==
    /\ phase = "scan" /\ protocol <= Len(Protocols)
    /\ i \in Of(Protocols[protocol]) \ visited
    /\ \E m \in AllMessages(i) : m.new_id = Untyped
    /\ Panic

NextProtocol ==
    /\ phase = "scan" /\ protocol <= Len(Protocols)
    /\ Of(Protocols[protocol]) \subseteq visited
    /\ protocol' = protocol + 1
    /\ phase' = IF protocol' > Len(Protocols) THEN "globals" ELSE "scan"
    /\ visited' = IF protocol' > Len(Protocols) THEN {} ELSE visited
    /\ UNCHANGED <<inputs, links, globals, results>>

-----------------------------------------------------------------------------
(* The lines of the globals file: get_globals_limits and global_limits.    *)

Parentless(name) == {i \in Interfaces : Name(i) = name /\ parent[i] = None}

\* GlobalLimits::next: 0 is no limit.
VersionLimit(version) == IF version > 0 THEN version ELSE MaxVersion
\* Broken variant: the version in the protocol file is left out.
UncappedVersion(i, version) == VersionLimit(version)

LimitedVersion(i, version) == Minimum(VersionLimit(version), parsed_version[i])

Read(line) ==
    /\ phase = "globals" /\ Len(globals) < MaxLines
    /\ globals' = Append(globals, line)

GlobalLine(name, version) ==
    /\ Read(<<name, version>>)
    /\ \E i \in Interfaces :
         /\ Parentless(name) = {i}
         /\ limited_version[i] = None
         /\ limited_version' = [limited_version EXCEPT ![i] = LimitedVersion(i, version)]
         /\ active' = active \union {i[1]}
    /\ UNCHANGED <<inputs, phase, protocol, visited, links,
                   active_interfaces, active_messages>>

\* The name is of no interface, and -m says to go on.
MissingLine(name, version) ==
    /\ Read(<<name, version>>)
    /\ name \notin Names /\ allow_missing
    /\ UNCHANGED <<inputs, phase, protocol, visited, links, results>>

\* A second line for a global, a name of several, of none that is allowed to
\* be missing, or of interfaces that all have parents.
BadLine(name, version) ==
    /\ Read(<<name, version>>)
    /\ \/ \E i \in Parentless(name) : limited_version[i] # None
       \/ Cardinality(Parentless(name)) > 1
       \/ Parentless(name) = {} /\ name \in Names
       \/ name \notin Names /\ ~allow_missing
    /\ phase' = "panicked"
    /\ UNCHANGED <<inputs, protocol, visited, links, results>>

\* A line without a version, with one that is no number, or with more.
MalformedLine ==
    /\ Read(<<>>)
    /\ phase' = "panicked"
    /\ UNCHANGED <<inputs, protocol, visited, links, results>>

EndOfGlobals ==
    /\ phase = "globals"
    /\ phase' = "limits"
    /\ UNCHANGED <<inputs, protocol, visited, links, globals, results>>

-----------------------------------------------------------------------------
(* Third pass: propagate_limits_find_actives.                              *)

\* global_ancestor walks up until it finds no parent.  On a cycle of parents
\* it never does, and the walk stands at one of them.
GlobalAncestor(i) ==
    LET up == [j \in Interfaces |-> IF parent[j] = None THEN j ELSE parent[j]]
        walk[n \in 0..Cardinality(Interfaces)] == IF n = 0 THEN i ELSE up[walk[n - 1]]
    IN  walk[Cardinality(Interfaces)]

Rooted(i) == parent[GlobalAncestor(i)] = None

Pending == {i \in Interfaces : i[1] \in active} \ visited

\* Broken variant: the limit of a global is not propagated.
OwnLimit(i) == IF parent[i] = None THEN limited_version[i] ELSE parsed_version[i]

\* The version an active interface gets.
Limit(i) == Minimum(parsed_version[i], limited_version[GlobalAncestor(i)])

\* An interface with a parent that has its limit already: wl_display, created by a message.
Clashes(i) == GlobalAncestor(i) # i /\ limited_version[i] # None

\* Broken variant: a second interface of the same name is inserted as well.
ActivateAny(i) ==
    /\ phase = "limits" /\ i \in Pending /\ Rooted(i)
    /\ limited_version[GlobalAncestor(i)] # None
    /\ ~Clashes(i)
    /\ visited' = visited \union {i}
    /\ active_interfaces' = active_interfaces \union {i}
    /\ active_messages' = active_messages \union {m \in AllMessages(i) : m.since <= Limit(i)}
    /\ limited_version' = [limited_version EXCEPT ![i] =
                             IF GlobalAncestor(i) = i THEN @ ELSE Limit(i)]
    /\ UNCHANGED <<inputs, phase, protocol, links, globals, active>>

Activate(i) ==
    /\ phase = "limits" /\ i \in Pending /\ Rooted(i)
    /\ limited_version[GlobalAncestor(i)] # None
    /\ \A j \in active_interfaces : Name(j) # Name(i)
    /\ ~Clashes(i)
    /\ visited' = visited \union {i}
    /\ active_interfaces' = active_interfaces \union {i}
    /\ active_messages' = active_messages \union {m \in AllMessages(i) : m.since <= Limit(i)}
    /\ limited_version' = [limited_version EXCEPT ![i] =
                             IF GlobalAncestor(i) = i THEN @ ELSE Limit(i)]
    /\ UNCHANGED <<inputs, phase, protocol, links, globals, active>>

Skip(i) ==
    /\ phase = "limits" /\ i \in Pending /\ Rooted(i)
    /\ limited_version[GlobalAncestor(i)] = None
    /\ visited' = visited \union {i}
    /\ UNCHANGED <<inputs, phase, protocol, links, globals, results>>

Conflict(i) ==
    /\ phase = "limits" /\ i \in Pending /\ Rooted(i)
    /\ limited_version[GlobalAncestor(i)] # None
    /\ \E j \in active_interfaces : Name(j) = Name(i)
    /\ Panic

LimitClash(i) ==
    /\ phase = "limits" /\ i \in Pending /\ Rooted(i)
    /\ limited_version[GlobalAncestor(i)] # None
    /\ Clashes(i)
    /\ Panic

\* The walk of global_ancestor goes round for ever.
Hang(i) ==
    /\ phase = "limits" /\ i \in Pending /\ ~Rooted(i)
    /\ phase' = "hangs"
    /\ UNCHANGED <<inputs, protocol, visited, links, globals, results>>

EndOfLimits ==
    /\ phase = "limits" /\ Pending = {}
    /\ phase' = "link"
    /\ UNCHANGED <<inputs, protocol, visited, links, globals, results>>

-----------------------------------------------------------------------------
(* Fourth pass: link_externals.                                            *)

ToLink == {m \in externals \intersect active_messages : new_id_interface[m] = None}

LinkExternal(m) ==
    /\ phase = "link" /\ m \in ToLink
    /\ \E i \in active_interfaces :
         /\ Name(i) = m.new_id
         /\ new_id_interface' = [new_id_interface EXCEPT ![m] = i]
    /\ UNCHANGED <<inputs, phase, protocol, visited, parent, externals, globals, results>>

MissingExternal(m) ==
    /\ phase = "link" /\ m \in ToLink
    /\ \A i \in active_interfaces : Name(i) # m.new_id
    /\ Panic

Return ==
    /\ phase = "link" /\ ToLink = {}
    /\ phase' = "handlers"
    /\ UNCHANGED <<inputs, protocol, visited, links, globals, results>>

-----------------------------------------------------------------------------
(* gather_handlers: the built-in handlers are added to wl_display, and to  *)
(* wl_registry, which wl_display makes and which is active with it.        *)

DisplayInMap == \E i \in active_interfaces : Name(i) = Name(Display)

\* Broken variant: what cannot be added is left out.
AddIfActive ==
    /\ phase = "handlers"
    /\ phase' = "ready"
    /\ UNCHANGED <<inputs, protocol, visited, links, globals, results>>

AddBuiltinHandlers ==
    /\ phase = "handlers"
    /\ phase' = IF DisplayInMap THEN "ready" ELSE "panicked"
    /\ UNCHANGED <<inputs, protocol, visited, links, globals, results>>

Ended == phase \in {"ready", "panicked", "hangs"}
Stay == Ended /\ UNCHANGED vars

Next ==
    \/ \E i \in Interfaces : VisitInterface(i) \/ UntypedNewId(i)
    \/ NextProtocol
    \/ \E name \in Names \union {Absent}, version \in 0..MaxLimit :
         GlobalLine(name, version) \/ MissingLine(name, version) \/ BadLine(name, version)
    \/ MalformedLine
    \/ EndOfGlobals
    \/ \E i \in Interfaces : Activate(i) \/ Skip(i) \/ Conflict(i) \/ LimitClash(i) \/ Hang(i)
    \/ EndOfLimits
    \/ \E m \in messages : LinkExternal(m) \/ MissingExternal(m)
    \/ Return
    \/ AddBuiltinHandlers
    \/ Stay

Spec == Init /\ [][Next]_vars /\ WF_vars(Next)

-----------------------------------------------------------------------------
TypeOK ==
    /\ \E input \in Inputs : <<messages, allow_missing>> = <<input.messages, input.allow_missing>>
    /\ phase \in {"scan", "globals", "limits", "link", "handlers", "ready", "panicked", "hangs"}
    /\ protocol \in 1..(Len(Protocols) + 1)
    /\ visited \subseteq Interfaces
    /\ parent \in [Interfaces -> Interfaces \union {None}]
    /\ new_id_interface \in [messages -> Interfaces \union {None}]
    /\ externals \subseteq messages
    /\ limited_version \in [Interfaces -> 1..MaxVersion \union {None}]
    /\ \A i \in Interfaces :
         limited_version[i] # None => limited_version[i] <= parsed_version[i]
    /\ active \subseteq {i[1] : i \in Interfaces}
    /\ active_interfaces \subseteq Interfaces /\ active_messages \subseteq messages

-----------------------------------------------------------------------------
(* The reference: which interfaces a client can get an object of, found    *)
(* downwards from the globals, where the code walks upwards.               *)

\* Who creates an interface in its own protocol.
Creators(i) ==
    IF i = Callback THEN {Display}
    ELSE {m.owner : m \in {n \in messages : NewIdLocal(n) /\ Target(n) = i}}

\* Whether the files keep the single-parent rule.
SingleParents == \A i \in Interfaces : Cardinality(Creators(i)) <= 1

Below(S) ==
    LET step[n \in 0..Cardinality(Interfaces)] ==
          IF n = 0 THEN S
          ELSE LET T == step[n - 1]
               IN  T \union {i \in Interfaces : Creators(i) \intersect T # {}}
    IN  step[Cardinality(Interfaces)]

LineNumbers == 1..Len(globals)
Listed(i) == \E n \in LineNumbers : globals[n][1] = Name(i)
Globals == {i \in Interfaces : Creators(i) = {}}
ListedGlobals == {i \in Globals : Listed(i)}
ActiveGlobals ==
    ListedGlobals \union
    {i \in {Display} : Creators(i) = {} /\ \E j \in ListedGlobals : j[1] = Base}

\* The version a global may be bound with.
BindVersion(g) ==
    IF g = Display THEN 1
    ELSE LET n == CHOOSE n \in LineNumbers : globals[n][1] = Name(g)
         IN  LimitedVersion(g, globals[n][2])

\* The active interfaces are among those a client can reach, by messages of
\* their own protocol, from a global that has a line, or from wl_display where
\* its protocol has one, whatever order the HashMaps come in.  With single
\* parents the result is what the files say: all that can be reached, each with
\* the version of the global it comes from or its own if that is lower, and
\* exactly the messages such versions have; and what an active message creates is
\* active, so that no session gets an object that the globals file rules out.
ResultIsReference ==
    phase \in {"handlers", "ready"} =>
        /\ active_interfaces \subseteq Below(ActiveGlobals)
        /\ SingleParents =>
             /\ active_interfaces = Below(ActiveGlobals)
             /\ \A g \in ActiveGlobals : \A i \in Below({g}) :
                  limited_version[i] = Minimum(parsed_version[i], BindVersion(g))
             /\ active_messages = {m \in messages : /\ m.owner \in active_interfaces
                                                    /\ m.since <= limited_version[m.owner]}
             /\ \A m \in active_messages :
                  m.new_id # None => /\ new_id_interface[m] \in active_interfaces
                                     /\ Name(new_id_interface[m]) = m.new_id

\* What postparse refuses, said of its inputs alone.
BadGlobals ==
    \E n \in LineNumbers :
        \/ globals[n] = <<>>
        \/ \E k \in 1..(n - 1) : globals[k][1] = globals[n][1] /\ globals[n][1] # Absent
        \/ globals[n][1] = Absent /\ ~allow_missing
        \/ globals[n][1] = Name(Display)
        \/ /\ globals[n][1] \in Names
           /\ Cardinality({i \in Globals : Name(i) = globals[n][1]}) # 1

BadMessages == \E m \in messages : m.new_id = Untyped

BadLinks ==
    LET up == Below(ActiveGlobals)
        usable == {m \in messages : \E g \in ActiveGlobals :
                     /\ m.owner \in Below({g})
                     /\ m.since <= Minimum(parsed_version[m.owner], BindVersion(g))}
    IN  \/ Creators(Display) \intersect up # {}
        \/ \E i \in up, j \in up : i # j /\ Name(i) = Name(j)
        \/ \E m \in usable : NewIdExternal(m) /\ ~(\E i \in up : Name(i) = m.new_id)

\* The base protocol comes to nothing, wl_display with it.
NoDisplay == ~(\E i \in Below(ActiveGlobals) : Name(i) = Name(Display))

\* With single parents, whether the proxy starts does not hang on the order
\* of the HashMaps: it refuses exactly the files that are bad, among them those without a
\* line for any global of the base protocol, though wl_display always counts as active.
SameVerdict ==
    phase \in {"ready", "panicked"} /\ SingleParents =>
        (phase = "panicked" <=> BadMessages \/ BadGlobals \/ BadLinks \/ NoDisplay)

\* Postparse ends unless interfaces create one another, or themselves, in a
\* circle (then global_ancestor may walk it for ever).
NoCircle == \A i \in Interfaces : i \notin Below({j \in Interfaces : i \in Creators(j)})
Ends == <>(phase \in {"ready", "panicked"} \/ (phase = "hangs" /\ ~NoCircle))

\* What set_parent says in its comment, that all who create an interface
\* have to agree unless it is wl_callback.  It is violated: see the README.
ParentsAgree ==
    phase \in {"globals", "limits", "link", "handlers", "ready"} =>
        \A m \in messages : NewIdLocal(m) /\ Target(m) # Callback => parent[Target(m)] = m.owner

=============================================================================
