------------------------------ MODULE MCTransport ------------------------------
(***************************************************************************)
(* Instances of Transport for TLC.  A message is two words or the maximum  *)
(* of three, a send carries one descriptor, and the socket refuses a send  *)
(* as soon as two segments are in it.                                      *)
(***************************************************************************)
EXTENDS Transport

MCMessages == [len : {2, 3}, nfds : {0, 1}, raw : BOOLEAN]

=============================================================================
