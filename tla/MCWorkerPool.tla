---------------------------- MODULE MCWorkerPool ----------------------------
(* Instances of WorkerPool for TLC. *)
EXTENDS WorkerPool, FiniteSetsExt, SequencesExt

CONSTANTS s, a, b, c, d

\* Every graph over the given nodes without repeated edges: the edges lead to
\* steps only, as BuildGraph::add_step makes them.
AllGraphs(nodes, steps) ==
  {[n \in nodes |-> SetToSeq(f[n])] : f \in [nodes -> SUBSET steps]}

SmallNodes == {s, a, b, c}
SmallSteps == {a, b, c}

\* All graphs of a source and two steps, and two where an input is repeated,
\* as a depfile repeats the source file.
SmallGraphs ==
  AllGraphs(SmallNodes, SmallSteps) \cup
  { (s :> <<a, a>>) @@ (a :> <<b>>) @@ (b :> <<>>) @@ (c :> <<>>),
    (s :> <<a, b, b>>) @@ (a :> <<b>>) @@ (b :> <<>>) @@ (c :> <<>>) }

SmallEstimate == [n \in SmallNodes |-> 0]

\* Fan-out and fan-in over four steps and a source, with a repeated edge, and
\* a graph where a chain runs beside a cycle.
WideNodes == {s, a, b, c, d}
WideSteps == {a, b, c, d}
FanOut  == (s :> <<a, b, c, d>>) @@ [n \in WideSteps |-> <<>>]
Diamond == (s :> <<a, b, c, c>>) @@ [n \in {a, b, c} |-> <<d>>] @@ (d :> <<>>)
Mixed   == (s :> <<a>>) @@ (a :> <<b>>) @@ (b :> <<>>)
             @@ (c :> <<d>>) @@ (d :> <<c>>)
WideGraphs == {FanOut, Diamond, Mixed}

\* Two equal estimates and two different ones.
WideEstimate == (s :> 0) @@ (a :> 1) @@ (b :> 1) @@ (c :> 3) @@ (d :> 2)

WorkerSymmetry == Permutations(Worker)

=============================================================================
