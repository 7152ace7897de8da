---------------------------- MODULE PacketReader ----------------------------
(***************************************************************************)
(* What the receive path promises the handlers: packets are taken off the  *)
(* connection some at a time and each is dispatched once, in order, before *)
(* more are taken.                                                         *)
(***************************************************************************)
EXTENDS Naturals

CONSTANT N  \* number of packets the broker sends

VARIABLES
  taken,  \* packets taken off the connection
  done    \* packets dispatched

Init == taken = 0 /\ done = 0

Take ==
  /\ done = taken
  /\ \E n \in taken + 1 .. N : taken' = n
  /\ done' = done

Dispatch ==
  /\ done < taken
  /\ done' = done + 1
  /\ taken' = taken

Next == Take \/ Dispatch

Steps == Init /\ [][Next]_<<taken, done>>

Spec == Steps /\ WF_<<taken, done>>(Dispatch)
=============================================================================
