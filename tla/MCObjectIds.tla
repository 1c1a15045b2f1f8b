------------------------------ MODULE MCObjectIds ------------------------------
(***************************************************************************)
(* Instances of ObjectIds for TLC.  Two ids besides the display are enough *)
(* for one to be reused while the other is in use, and for a gap; a reused *)
(* id tells from its former self as a callback and an object.              *)
(***************************************************************************)
EXTENDS ObjectIds

=============================================================================
