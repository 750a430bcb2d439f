---------------------------- MODULE MCToNDQueue ----------------------------
(***************************************************************************)
(* Message lengths for ToNDQueue in units of two bytes: a header of two,   *)
(* an int of two, bodies of none, one or two units.                        *)
(***************************************************************************)
EXTENDS ToNDQueue

Aligned   == [m \in Msgs |-> IF m \in {2, 13} THEN 2 ELSE 4]
Unaligned == [m \in Msgs |-> 3]
=============================================================================
