------------------------------- MODULE MCMediator -------------------------------
(***************************************************************************)
(* Mediator for TLC: six declarations, among them the special ones, and    *)
(* strings and arrays that fill their words and that do not.               *)
(***************************************************************************)
EXTENDS Mediator

CONSTANT null

Decl0(opcode, from, special, args, newId) ==
    [opcode |-> opcode, from |-> from, special |-> special, args |-> args, newId |-> newId]

MCDecls ==
    { Decl0(0, "client", "none", <<"String", "Uint", "Array", "Fd">>, NoInterface),
      Decl0(1, "client", "none", <<"Array", "NewId", "Fd">>, <<7>>),
      Decl0(2, "server", "global", <<"Uint", "String", "Uint">>, NoInterface),
      Decl0(3, "client", "bind", <<"Uint", "NewId">>, NoInterface),
      Decl0(4, "client", "sync", <<"NewId">>, <<8>>),
      Decl0(5, "server", "delete_id", <<"Uint">>, NoInterface) }

MCValues ==
    [Uint |-> {<<1>>, <<2>>},
     String |-> {null, <<1>>, <<1, 2, 3>>},
     Array |-> {<<1, 0>>, <<1, 2, 3, 4>>}]

MCNewValues ==
    [Uint |-> {<<3>>},
     String |-> {<<>>, <<1, 1, 1, 1, 1>>},
     Array |-> {<<2>>, <<1, 1, 1, 1, 1, 1, 1, 1>>}]

MCLimits == (<<1>> :> 1) @@ (<<1, 2, 3>> :> 0)
MCDisplay == <<0>>
=============================================================================
