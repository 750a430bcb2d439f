---------------------------- MODULE MCArgStream -----------------------------
(* Sizes at which the arguments of a mark meet the ends of messages in every *)
(* way: inside an array, before and after a block, and exactly.             *)
EXTENDS ArgStream

MCGroups == {[size |-> 6, count |-> 1],      \* a structure
             [size |-> 8, count |-> 1],      \* one that leaves a shorter message
             [size |-> 3, count |-> 2],      \* an array of structures
             [size |-> 3, count |-> 6],      \* one that no message can hold
             [size |-> 9, count |-> 1]}      \* a block
=============================================================================
