---------------------------- MODULE MCNDMessages ----------------------------
(* Two ports, two readers, messages alternating between the ports.         *)
EXTENDS NDMessages

CONSTANTS p1, p2, r1, r2

Alternate == [m \in Msgs |-> IF m % 3 = 2 THEN p2 ELSE p1]
AllShort == [m \in Msgs |-> 1]
OneLong == [m \in Msgs |-> IF m = 2 THEN 2 ELSE 1]
SmallRoom == [r \in Readers |-> 1]
=============================================================================
