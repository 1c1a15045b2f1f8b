------------------------------ MODULE MCListener ------------------------------
(***************************************************************************)
(* Instances of Listener for TLC.  An inode can be reused as soon as it is *)
(* neither linked nor open, so one more than there are processes is enough *)
(* for every case.                                                         *)
(***************************************************************************)
EXTENDS Listener

=============================================================================
