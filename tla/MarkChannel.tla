---------------------------- MODULE MarkChannel -----------------------------
(***************************************************************************)
(* What the window server may expect of its marks: they are carried out in *)
(* the order it makes them, each once and with the arguments it was given, *)
(* or not at all.                                                          *)
(***************************************************************************)
EXTENDS Sequences, Naturals

CONSTANTS Mark, Dropped

VARIABLES made, outcome

vars == <<made, outcome>>

Init == made = <<>> /\ outcome = <<>>

Make == \E m \in Mark : made' = Append(made, m) /\ UNCHANGED outcome

Settle == /\ Len(outcome) < Len(made)
          /\ \E result \in {made[Len(outcome) + 1], Dropped} : outcome' = Append(outcome, result)
          /\ UNCHANGED made

Next == Make \/ Settle

Spec == Init /\ [][Next]_vars
=============================================================================
