---------------------------- MODULE MCInvocations ---------------------------
(* Instances of Invocations for TLC. *)
EXTENDS Invocations, TLC

CONSTANTS m, n, many, pair, a, b, o, p, r

\* A link of two inputs, and two links that share a response file: one of a
\* single input, which needs none, and one of three.
MCLinks ==
  (many :> (o :> <<a, b>>)) @@ (pair :> ((o :> <<b>>) @@ (p :> <<b, a, b>>)))

MCRspOf == (o :> r) @@ (p :> r)

MCBodySize == [t \in {many, pair} |-> 1]
MCStringsSize == [t \in {many, pair} |-> 1]

ManifestsAlike == Permutations({m, n})

=============================================================================
