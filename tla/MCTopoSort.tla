----------------------------- MODULE MCTopoSort -----------------------------
(* Instances of TopoSort for TLC. *)
EXTENDS TopoSort, FiniteSetsExt, SequencesExt

\* Every graph over four nodes without repeated edges, loops included.
SetGraphs == {[n \in 1 .. 4 |-> SetToSeq(f[n])] :
                f \in [1 .. 4 -> SUBSET (1 .. 4)]}

\* Every graph over three nodes with up to two out edges each, in every order
\* and with repeats; the fourth node stands alone.
ListGraphs == {[n \in 1 .. 4 |-> IF n = 4 THEN <<>> ELSE f[n]] :
                 f \in [1 .. 3 -> SeqOf(1 .. 3, 2)]}

MCGraphs == SetGraphs \cup ListGraphs

=============================================================================
