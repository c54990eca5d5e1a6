---------------------------- MODULE MCBuildGraph ----------------------------
(* Instances of BuildGraph for TLC. *)
EXTENDS BuildGraph

CONSTANTS a, h, o, p, bang_a, bang_o, v, w, x, gcc, flag

MCStripped == (bang_a :> a) @@ (bang_o :> o)

\* Values of definitions, the second with a space too many.
MCParts == (v :> <<gcc>>) @@ (w :> <<gcc, Empty, flag>>) @@ (x :> <<flag>>)

StepLine(tool, inputs, output) ==
  [kind |-> "step", tool |-> tool, inputs |-> inputs, output |-> output]
DefLine(key, val) == [kind |-> "def", key |-> key, val |-> val]

World(words, manifest, depfiles, costs) ==
  [argv |-> words, lines |-> manifest, depfile |-> depfiles, estimates |-> costs]

NoDepfiles == <<>>

MCPath == {a, h, o, p}

-----------------------------------------------------------------------------
(* Manifests. *)

\* Steps that repeat an input, skip an empty one, read their own output or
\* another step's, or name it with '!'; definitions that clash; a bad line.
SomeLine ==
  { StepLine("cc", <<a>>, o), StepLine("cc", <<a, Empty, a>>, o),
    StepLine("cc", <<a, bang_a>>, o), StepLine("cxx", <<o>>, p),
    StepLine("ld", <<o, bang_a>>, p), StepLine("ar", <<bang_o, o>>, p),
    StepLine("sld", <<p, o>>, o),
    DefLine("cc", v), DefLine("cc", w), DefLine("ldlibs", x),
    [kind |-> "malformed"] }

SomeDepfiles ==
  { NoDepfiles, o :> <<o, Colon, Space, a, Newline>>,
    o :> <<o, Colon, Space, a, Space, Backslash, Newline, Space, h, Space, a>> }

\* Up to three lines in every order.
ManifestWorlds ==
  {World(words, manifest, depfiles, <<>>) :
     words \in {<<>>, <<"cc=x", "cc=v">>}, manifest \in SeqOf(SomeLine, 3),
     depfiles \in SomeDepfiles}

-----------------------------------------------------------------------------
(* Depfiles. *)

TextSymbol == {a, h, Space, Newline, Return, Backslash, Colon}

\* Every text of up to two symbols, and every one of up to five that begins
\* with a colon.
Text == SeqOf(TextSymbol, 2) \cup {<<Colon>> \o text : text \in SeqOf(TextSymbol, 4)}

DepfileWorlds ==
  {World(<<>>, <<StepLine("cc", <<a>>, o)>>, o :> text, <<>>) : text \in Text}

-----------------------------------------------------------------------------
(* Command lines. *)

MCAssignment ==
  ("cc=x" :> [key |-> "cc", val |-> x]) @@ ("cc=v" :> [key |-> "cc", val |-> v])
    @@ ("cflags=x" :> [key |-> "cflags", val |-> x])
    @@ ("--jobs=4" :> [key |-> "--jobs", val |-> v])

MCNumber == ("4" :> 4) @@ ("2x" :> 2)

Word == {"-n", "--silent", "-k", "-h", "-f", "catalyst.build", "-C", "-j", "4",
         "2x", "-t", "clean", "commands", "cc=x", "cc=v", "--jobs=4", "build",
         "-d", "--clean"}

CommandWorlds ==
  {World(words, <<DefLine("cxx", v)>>, NoDepfiles, <<>>) : words \in SeqOf(Word, 3)}

\* A second command line that defines, or does not, or is none.
MCLater == {<<>>, <<"-k", "cflags=x">>, <<"-j">>}

-----------------------------------------------------------------------------
(* Estimates.  "10" stands before "9". *)

MCTextOrder == <<o, p, "10", "9", "x">>

MCAmount == ("10" :> 10) @@ ("9" :> 9)

EstimateWorlds ==
  {World(<<>>, <<StepLine("cc", <<a>>, o), StepLine("ld", <<o, a>>, p)>>, NoDepfiles, costs) :
     costs \in SeqOf([path : {o, p}, value : {"10", "9", "x", NoPipe}], 3)}

MCWorlds == ManifestWorlds \cup DepfileWorlds \cup CommandWorlds \cup EstimateWorlds

=============================================================================
