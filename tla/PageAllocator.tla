--------------------------- MODULE PageAllocator ----------------------------
(***************************************************************************)
(* What a resource map promises: whoever asks for a block gets a run of    *)
(* units that nobody else has, and a block given back is there again.      *)
(***************************************************************************)
EXTENDS Integers

CONSTANT Unit             \* the units there are, a set of numbers

VARIABLES avail,          \* units that can be had
          held            \* the blocks that have been taken, as sets of units

vars == <<avail, held>>

Runs == {lo..hi : lo \in Unit, hi \in Unit} \ {{}}

Init == /\ avail \subseteq Unit /\ held \subseteq Runs
        /\ \A run \in held : run \cap avail = {}

Take(run) == /\ run \subseteq avail
             /\ avail' = avail \ run
             /\ held' = held \cup {run}

Give(run) == /\ run \in held
             /\ held' = held \ {run}
             /\ avail' = avail \cup run

Next == \E run \in Runs : Take(run) \/ Give(run)

Spec == Init /\ [][Next]_vars
=============================================================================
