------------------------------- MODULE PacketFlow ------------------------------
(***************************************************************************)
(* What a transport promises: the packets of each flow leave in the order  *)
(* in which they were handed over, none is lost, repeated or mistaken for  *)
(* another, and every one of them leaves eventually.                       *)
(***************************************************************************)
EXTENDS Naturals

CONSTANT Flows

VARIABLES
    given,      \* packets handed over, per flow; they are numbered from 1
    left        \* the number of the last packet that left, per flow

Init == given = [f \in Flows |-> 0] /\ left = [f \in Flows |-> 0]

Give(f) ==
    /\ given' = [given EXCEPT ![f] = @ + 1]
    /\ UNCHANGED left

Leave(f) ==
    /\ left[f] < given[f]
    /\ left' = [left EXCEPT ![f] = @ + 1]
    /\ UNCHANGED given

Next == \E f \in Flows : Give(f) \/ Leave(f)

Safe == Init /\ [][Next]_<<given, left>>
Spec == Safe /\ \A f \in Flows : WF_<<given, left>>(Leave(f))
================================================================================
