------------------------------ MODULE MCSession -------------------------------
(***************************************************************************)
(* Instances of Session for TLC.  With one message in a chunk the second   *)
(* of a batch is sent lazily and the last waits for force, and a socket    *)
(* that holds one refuses the next.                                        *)
(***************************************************************************)
EXTENDS Session

MCMsgBound == [i \in Sides |-> 3 - i]

=============================================================================
