------------------------------- MODULE MCDaemon -------------------------------
(***************************************************************************)
(* Instances of Daemon for TLC.  Three sessions make every pattern of one  *)
(* that ends while another starts and a third goes on.                     *)
(***************************************************************************)
EXTENDS Daemon

=============================================================================
