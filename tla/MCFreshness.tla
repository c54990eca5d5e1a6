----------------------------- MODULE MCFreshness ----------------------------
(* Instances of Freshness for TLC. *)
EXTENDS Freshness, TLC

CONSTANTS s, h, o, p

\* One source that may include one header, compiled and linked.
ChainSource == {s, h}
ChainStep == {o, p}
ChainOrder == <<o, p>>
ChainCompile == {o}
ChainInputs == (o :> <<s>>) @@ (p :> <<o>>)
ChainOpaque == (o :> <<>>) @@ (p :> <<>>)
\* What the .d file lists besides the source itself, which is an input anyway.
ChainIncludes == {<<>>, <<h>>}
AnObject == {o}

\* The same steps where the link step comes first in the manifest and has the
\* object as an opaque input, and the source may include what it makes.
RoundSource == {s}
RoundOrder == <<p, o>>
RoundInputs == (o :> <<s>>) @@ (p :> <<>>)
RoundOpaque == (o :> <<>>) @@ (p :> <<o>>)
RoundIncludes == {<<>>, <<p>>}
Everything == {s, o, p}

\* Builds, and builds and dry runs.  A failed step of the chain leaves nothing
\* else to go on with, so that -k makes no difference.
NoDryRuns == {<<FALSE, FALSE>>}
BuildOptions == {<<FALSE, FALSE>>, <<TRUE, FALSE>>}

=============================================================================
