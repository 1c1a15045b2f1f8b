------------------------------ MODULE MCSafeClip ------------------------------
(***************************************************************************)
(* An instance of SafeClip for TLC: a client outside, two that share a     *)
(* prefix, one with another prefix, and one with both, whose waydapt adds  *)
(* the second in front of the first.  A message holds a string of eleven   *)
(* characters: the names fit with both prefixes; with either but not with  *)
(* both; and with none.                                                    *)
(***************************************************************************)
EXTENDS SafeClip

CONSTANTS outside, inA, alsoInA, inB, inAB

MCClients == {outside, inA, alsoInA, inB, inAB}

A == <<"a", "a">>
B == <<"b", "c", "d">>

MCChars == {"a", "b", "c", "d", "x", "y"}

MCLine == [c \in MCClients |-> CASE c = outside -> <<>>
                                 [] c \in {inA, alsoInA} -> <<A>>
                                 [] c = inB -> <<B>>
                                 [] c = inAB -> <<A, B>>]

\* The second is what a tool outside offers to be seen behind prefix A.
MCNames == {<<"x", "y">>,
            <<"a", "a", "x">>,
            <<"x", "y", "x", "y", "x", "y", "x">>,
            <<"x", "y", "x", "y", "x", "y", "x", "y", "x", "y", "x">>}

=============================================================================
