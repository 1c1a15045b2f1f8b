---------------------------- MODULE MessageChannel ----------------------------
(***************************************************************************)
(* What the buffers of a session promise to the mediators at both ends of  *)
(* a stream (send, send_raw and try_pop of src/src/buffers.rs): messages   *)
(* arrive whole, once, in the order they were put, each with its own file  *)
(* descriptors, and all of them do arrive, with nothing needed from those  *)
(* who put them or from later messages.                                    *)
(***************************************************************************)
EXTENDS Integers, Sequences

CONSTANT Message    \* a message together with its descriptors

VARIABLES put,        \* the messages handed over so far
          delivered   \* those that arrived

channelVars == <<put, delivered>>

Init ==
    /\ put = <<>>
    /\ delivered = <<>>

PutMessage ==
    /\ \E m \in Message : put' = Append(put, m)
    /\ UNCHANGED delivered

Deliver ==
    /\ Len(delivered) < Len(put)
    /\ delivered' = Append(delivered, put[Len(delivered) + 1])
    /\ UNCHANGED put

Next == PutMessage \/ Deliver

\* What arrives is what was put; and it does arrive.
Safety == Init /\ [][Next]_channelVars
Spec == Safety /\ WF_channelVars(Deliver)

=============================================================================
