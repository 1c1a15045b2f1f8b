----------------------------- MODULE MCOutBuffer -----------------------------
(***************************************************************************)
(* Instances of OutBuffer for TLC.  Messages of two and three words, three *)
(* being the maximum, reach every way a message can meet the end of a      *)
(* chunk; with two descriptors per send and per message one message is     *)
(* enough to fill a send.                                                  *)
(***************************************************************************)
EXTENDS OutBuffer

MCMessages == [len : {2, 3}, nfds : 0..2, raw : BOOLEAN]

=============================================================================
