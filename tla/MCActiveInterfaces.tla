--------------------------- MODULE MCActiveInterfaces ---------------------------
(***************************************************************************)
(* Instances of ActiveInterfaces for TLC: the base protocol and another    *)
(* one, with an interface name in common, and up to two messages besides   *)
(* wl_display::sync.  That is enough for an interface with two creators,   *)
(* circles of one and of two, external messages, and a chain whose end,    *)
(* the popup, is newer than the surface in its middle.  The output creates *)
(* nothing: with its line the base protocol is active and surface is not.  *)
(* With a message that creates wl_display no globals file helps: a line    *)
(* for surface and one for the output come to different panics.            *)
(***************************************************************************)
EXTENDS ActiveInterfaces

MCProtocols == <<"wayland", "shell">>
MCDisplay == <<"wayland", "wl_display">>
MCCallback == <<"wayland", "wl_callback">>
Surface == <<"wayland", "surface">>
Output == <<"wayland", "output">>
Shell == <<"shell", "shell">>
ShellSurface == <<"shell", "surface">>
Popup == <<"shell", "popup">>
MCInterfaces == {MCDisplay, MCCallback, Surface, Output, Shell, ShellSurface, Popup}
MCVersions == [i \in MCInterfaces |-> IF i \in {Surface, Shell, Popup} THEN 2 ELSE 1]

Message(i, version, name) == [owner |-> i, since |-> version, new_id |-> name]
Free ==
    {Message(Surface, 1, name) : name \in {"wl_callback", "shell"}} \union
    {Message(Shell, 1, "wl_callback"), Message(Shell, 1, "surface"),
     Message(Shell, 2, "popup")} \union
    {Message(ShellSurface, 1, name) : name \in {"surface", "shell", "popup"}}
Broken == Message(Shell, 1, Untyped)
MakesDisplay == Message(Surface, 1, "wl_display")
Sync == Message(MCDisplay, 1, "wl_callback")
Files(M) == [messages |-> {Sync} \union M, allow_missing |-> TRUE]
MCInputs == {Files({m, n}) : m \in Free, n \in Free} \union
            {Files({}), [Files({}) EXCEPT !.allow_missing = FALSE], Files({Broken}),
             Files({MakesDisplay, Message(Shell, 1, "surface")})}

=============================================================================
