----------------------------- MODULE BuildGraph -----------------------------
(***************************************************************************)
(* From the command line and the manifest to what the executor works on:   *)
(* main reads its arguments, parse reads the manifest line by line into a  *)
(* builder (src/src/cbe.cpp, parser.cpp, graph.cpp), writes .catalyst.bin, *)
(* main adds the definitions of the command line, and later invocations    *)
(* load the snapshot instead (binary.cpp).                                 *)
(*                                                                         *)
(* The loops of add_step over the inputs of one step are one step per      *)
(* input.  The manifest and the depfiles stay as they are; what happens    *)
(* when they change is in Freshness and in Invocations.                    *)
(***************************************************************************)
EXTENDS Naturals, Sequences, FiniteSets, Commands, DepfileLexer, CommandLine,
        WorkEstimate

CONSTANTS
  Path,       \* the names of files that are one symbol in a depfile
  Bang,       \* the names that begin with '!'
  Stripped,   \* what follows the '!' of each of them
  Worlds,     \* what an invocation may find: the lines of the manifest, the
              \* content of .d files by output, the lines of the estimates
              \* file, and its own command line
  Later       \* the command lines of later invocations

\* What a depfile may hold, and the names of files, those that it spells with
\* several symbols included.
Symbol == Path \cup {Space, Newline, Return, Backslash, Colon}
Name == Symbol \cup Seq(Symbol)

\* The lines of a manifest, and a definition of the command line.
Line ==
  [kind : {"step"}, tool : STRING, inputs : Seq(Path \cup Bang \cup {Empty}),
   output : Path]
    \cup [kind : {"def"}, key : STRING, val : DOMAIN Parts]
    \cup [kind : {"malformed"}]
Definition == [key : STRING, val : DOMAIN Parts]

ASSUME BuildGraphAssumption ==
  /\ Path \cap Bang = {} /\ Empty \notin Name \cup Bang
  /\ Stripped \in [Bang -> Path]
  /\ Parts \in [DOMAIN Parts -> Seq(UNION {ToSet(Parts[v]) : v \in DOMAIN Parts})]
  /\ Assignment \in [DOMAIN Assignment -> Definition]
  /\ Later \subseteq Seq(STRING) /\ Limit \in Nat
  /\ \A world \in Worlds :
       /\ world.argv \in Seq(STRING) /\ world.lines \in Seq(Line)
       /\ \A f \in DOMAIN world.depfile : world.depfile[f] \in Seq(Symbol)
       /\ world.estimates \in Seq(EstimateLine)

VARIABLES
  argv,         \* the words of the command line
  lines,        \* the manifest
  depfile,      \* the .d files
  estimates,    \* the lines of the estimates file
  args,         \* what cliArgs returned
  next,         \* the line the parser comes to
  todo,         \* the inputs of the last step not yet connected
  nodes,        \* BuildGraph::nodes_
  steps,        \* BuildGraph::steps_
  definitions,  \* CBEBuilder::definitions_
  bin,          \* .catalyst.bin
  saved,        \* history: the graph that bin was made from
  phase         \* where the process is

files == <<lines, depfile, estimates>>
graph == <<nodes, steps>>
vars == <<argv, files, args, next, todo, graph, definitions, bin, saved, phase>>

NoStep == 0     \* std::nullopt, UINT64_MAX in the snapshot
NoBin == <<>>
NoGraph == [nodes |-> <<>>, steps |-> <<>>]

TypeOK ==
  /\ next \in 1 .. Len(lines) + 1
  /\ todo \in Seq(Name)
  /\ nodes \in Seq([path : Name, step_id : 0 .. Len(steps),
                    out_edges : Seq(DOMAIN nodes)])
  /\ \A i \in DOMAIN steps : /\ steps[i].output \in Path
                             /\ steps[i].opaque_inputs \in Seq(Name)
                             /\ steps[i].depfile_inputs \in Seq(Name)
  /\ phase \in {"arguments", "parsing", "loading", "parsed", "ready",
                "error", "refused", "helped"}
  /\ phase \in {"parsing", "error"} => bin = NoBin
  /\ phase \in {"loading", "parsed", "ready"} => bin # NoBin

-----------------------------------------------------------------------------
(* get_or_create_node. *)

HasNode(ns, p) == \E i \in DOMAIN ns : ns[i].path = p

IdOf(ns, p) == CHOOSE i \in DOMAIN ns : ns[i].path = p

NewNode(p) == [path |-> p, step_id |-> NoStep, out_edges |-> <<>>]

\* Mutated form of WithNode: the index is not consulted.
AnotherNode(ns, p) == Append(ns, NewNode(p))

WithNode(ns, p) == IF HasNode(ns, p) THEN ns ELSE Append(ns, NewNode(p))

-----------------------------------------------------------------------------
(* The command line. *)

Init ==
  /\ \E world \in Worlds :
       /\ argv = world.argv /\ lines = world.lines
       /\ depfile = world.depfile /\ estimates = world.estimates
  /\ args = DefaultArgs
  /\ next = 1 /\ todo = <<>>
  /\ nodes = <<>> /\ steps = <<>> /\ definitions = <<>>
  /\ bin = NoBin /\ saved = NoGraph
  /\ phase = "arguments"

\* The directory and the manifest, under its default name, are the only ones.
Found(r) == r.args.work_dir = "." /\ r.args.build_file = "catalyst.build"

\* main up to parse: cliArgs, current_path, exists; and parse's choice.
ReadArguments ==
  /\ phase = "arguments"
  /\ LET r == CliArgs(argv)
     IN /\ args' = IF r.outcome = "ok" THEN r.args ELSE args
        /\ phase' = CASE r.outcome = "help" -> "helped"
                      [] r.outcome = "error" -> "refused"
                      [] r.outcome = "ok" /\ ~Found(r) -> "refused"
                      [] r.outcome = "ok" /\ Found(r) ->
                           IF bin = NoBin THEN "parsing" ELSE "loading"
  /\ UNCHANGED <<argv, files, next, todo, graph, definitions, bin, saved>>

-----------------------------------------------------------------------------
(* Parsing. *)

AtLine(kind) ==
  /\ phase = "parsing" /\ todo = <<>> /\ next <= Len(lines)
  /\ lines[next].kind = kind

\* Mutated form of Emplaced: the later value replaces the earlier one.
Assigned(defs, key, val) ==
  [k \in DOMAIN defs \cup {key} |-> IF k = key THEN val ELSE defs[k]]

\* add_definition: a key that is there keeps its value.
Emplaced(defs, key, val) ==
  [k \in DOMAIN defs \cup {key} |-> IF k \in DOMAIN defs THEN defs[k] ELSE val]

\* parse_def.
AddDefinition ==
  /\ AtLine("def")
  /\ definitions' = Emplaced(definitions, lines[next].key, lines[next].val)
  /\ next' = next + 1
  /\ UNCHANGED <<argv, files, args, todo, graph, bin, saved, phase>>

\* A line with fewer than two pipes ends the parse.
Malformed ==
  /\ AtLine("malformed")
  /\ phase' = "error"
  /\ UNCHANGED <<argv, files, args, next, todo, graph, definitions, bin, saved>>

\* Mutated form of HasProducer: nobody looks whether there is one.
NeverProduced(ns, p) == FALSE

HasProducer(ns, p) == HasNode(ns, p) /\ ns[IdOf(ns, p)].step_id # NoStep

\* add_step finds that another step makes the same output.
DuplicateProducer ==
  /\ AtLine("step")
  /\ HasProducer(nodes, lines[next].output)
  /\ phase' = "error"
  /\ UNCHANGED <<argv, files, args, next, todo, graph, definitions, bin, saved>>

\* Mutated form of Unbanged: the '!' stays.
WithBang(x) == x

Unbanged(x) == Stripped[x]

\* What parse_depfile finds for an output; a .d file need not exist.
Discovered(o) == IF o \in DOMAIN depfile THEN ParseDepfile(depfile[o]) ELSE <<>>

\* The step of a line, its inputs split, its depfile read.
StepOf(line) ==
  LET parts == NonEmpty(line.inputs)
      opaque == Only(parts, Bang)
  IN [tool |-> line.tool, inputs |-> line.inputs, output |-> line.output,
      opaque_inputs |-> [i \in DOMAIN opaque |-> Unbanged(opaque[i])],
      depfile_inputs |-> IF line.tool \in Compilation THEN Discovered(line.output)
                                                      ELSE <<>>,
      parsed_inputs |-> Only(parts, ToSet(parts) \ Bang)]

\* Mutated form of ToConnect: opaque inputs are only compared, not connected.
ToConnectVisible(st) == st.depfile_inputs \o st.parsed_inputs

\* The inputs an edge is made from, in the order of the three loops.
ToConnect(st) == st.depfile_inputs \o st.parsed_inputs \o st.opaque_inputs

\* add_step, up to its loops.
AddStep ==
  /\ AtLine("step")
  /\ ~HasProducer(nodes, lines[next].output)
  /\ LET st == StepOf(lines[next])
         ns == WithNode(nodes, st.output)
     IN /\ nodes' = [ns EXCEPT ![IdOf(ns, st.output)].step_id = Len(steps) + 1]
        /\ steps' = Append(steps, st)
        /\ todo' = ToConnect(st)
  /\ next' = next + 1
  /\ UNCHANGED <<argv, files, args, definitions, bin, saved, phase>>

\* Mutated form of EdgeTo: the edge leads to the node created last.
EdgeToLast(ns) == Len(ns)

\* The node that the inputs of the last step are connected to.
EdgeTo(ns) == IdOf(ns, steps[Len(steps)].output)

\* One iteration of a loop of add_step.
Connect ==
  /\ phase = "parsing" /\ todo # <<>>
  /\ LET ns == WithNode(nodes, Head(todo))
     IN nodes' = [ns EXCEPT ![IdOf(ns, Head(todo))].out_edges =
                     Append(@, EdgeTo(ns))]
  /\ todo' = Tail(todo)
  /\ UNCHANGED <<argv, files, args, next, steps, definitions, bin, saved, phase>>

\* The whole manifest is read, and the snapshot is written.
EndOfParse ==
  /\ phase = "parsing" /\ todo = <<>> /\ next > Len(lines)
  /\ bin' = EmitBin(definitions, nodes, steps)
  /\ saved' = [nodes |-> nodes, steps |-> steps]
  /\ phase' = "parsed"
  /\ UNCHANGED <<argv, files, args, next, todo, graph, definitions>>

\* The loop of main over the definitions of the command line.
WithOverrides(defs, overrides) ==
  LET with[k \in 0 .. Len(overrides)] ==
        IF k = 0 THEN defs
        ELSE Emplaced(with[k - 1], overrides[k].key, overrides[k].val)
  IN with[Len(overrides)]

\* main adds the definitions of the command line and starts the executor.
ApplyOverrides ==
  /\ phase = "parsed"
  /\ definitions' = WithOverrides(definitions, args.definition_overrides)
  /\ phase' = "ready"
  /\ UNCHANGED <<argv, files, args, next, todo, graph, bin, saved>>

\* Another invocation, a new process.
Invoke ==
  /\ phase = "ready"
  /\ argv' \in Later
  /\ args' = DefaultArgs
  /\ nodes' = <<>> /\ steps' = <<>> /\ definitions' = <<>>
  /\ phase' = "arguments"
  /\ UNCHANGED <<files, next, todo, bin, saved>>

\* Its builder is filled from the snapshot alone.
LoadBin ==
  /\ phase = "loading"
  /\ LET b == ParseBin(bin) IN
       nodes' = b.nodes /\ steps' = b.steps /\ definitions' = b.definitions
  /\ phase' = "parsed"
  /\ UNCHANGED <<argv, files, args, next, todo, bin, saved>>

Next ==
  \/ ReadArguments
  \/ AddDefinition \/ Malformed \/ DuplicateProducer
  \/ AddStep \/ Connect \/ EndOfParse
  \/ ApplyOverrides \/ Invoke \/ LoadBin

Spec == Init /\ [][Next]_vars

-----------------------------------------------------------------------------
(* Properties *)

\* The lines read so far that describe a step, or a definition of k.
StepLines == {i \in 1 .. next - 1 : lines[i].kind = "step"}
DefLines(k) == {i \in 1 .. next - 1 : lines[i].kind = "def" /\ lines[i].key = k}

\* The files a line lists: in its input list, with or without '!', and in the
\* depfile of its output.
ListedBy(line) ==
  [i \in DOMAIN line.inputs |->
     IF line.inputs[i] \in Bang THEN Stripped[line.inputs[i]] ELSE line.inputs[i]]
    \o IF line.tool \in Compilation /\ line.output \in DOMAIN depfile
         THEN NamesIn(depfile[line.output]) ELSE <<>>

Mentions(line, p) == Cardinality({i \in DOMAIN ListedBy(line) : ListedBy(line)[i] = p})

EdgesBetween(u, v) == {i \in DOMAIN nodes[u].out_edges : nodes[u].out_edges[i] = v}

Working == phase \in {"parsing", "parsed", "ready"}

\* Every file has one node and every step one output node, and the two agree
\* about each other, also in a graph that was loaded.
OneProducer ==
  /\ \A i, j \in DOMAIN nodes : nodes[i].path = nodes[j].path => i = j
  /\ \A i \in DOMAIN nodes : nodes[i].step_id # NoStep =>
       steps[nodes[i].step_id].output = nodes[i].path
  /\ \A k \in DOMAIN steps : \E i \in DOMAIN nodes : nodes[i].step_id = k

\* The graph has exactly the edges its manifest and depfiles mention, each as
\* often as it is mentioned: in_degrees counts them, so that an edge lost or
\* made twice would start a step early or never.
EdgesExact ==
  todo = <<>> /\ Working =>
    /\ \A u, v \in DOMAIN nodes :
         Cardinality(EdgesBetween(u, v)) =
           IF \E i \in StepLines : lines[i].output = nodes[v].path
           THEN Mentions(lines[CHOOSE i \in StepLines :
                                 lines[i].output = nodes[v].path], nodes[u].path)
           ELSE 0
    /\ \A i \in StepLines : \A k \in DOMAIN ListedBy(lines[i]) :
         ListedBy(lines[i])[k] # Empty => HasNode(nodes, ListedBy(lines[i])[k])

\* Edges lead only to nodes that a step produces.  WorkerPool assumes it of
\* its graphs: a source file is ready from the start.
EdgesLeadToSteps ==
  \A u \in DOMAIN nodes : \A i \in DOMAIN nodes[u].out_edges :
    nodes[nodes[u].out_edges[i]].step_id # NoStep

\* The parse fails exactly when it comes to a malformed line or to a second
\* line for the same output, whatever that file was used for before.
ErrorJustified ==
  LET bad == \/ lines[next].kind = "malformed"
             \/ /\ lines[next].kind = "step"
                /\ \E i \in StepLines : lines[i].output = lines[next].output
  IN /\ phase = "error" => bad
     /\ \A i, j \in StepLines : lines[i].output = lines[j].output => i = j
     /\ phase \in {"parsed", "ready"} => next = Len(lines) + 1

\* The first line that defines a key decides its value, whatever the command
\* line says; where no line does, the first word of this command line; and a
\* definition of the command line lives for one invocation: what is loaded
\* again is the manifest's own.
FirstDefinitionWins ==
  LET words(k) == {i \in DOMAIN args.definition_overrides :
                     args.definition_overrides[i].key = k}
  IN /\ \A k \in DOMAIN definitions :
          \/ \E i \in DefLines(k) : /\ \A j \in DefLines(k) : i <= j
                                    /\ definitions[k] = lines[i].val
          \/ /\ phase = "ready" /\ DefLines(k) = {}
             /\ \E i \in words(k) :
                  /\ \A j \in words(k) : i <= j
                  /\ definitions[k] = args.definition_overrides[i].val
     /\ Working => \A i \in 1 .. next - 1 :
          lines[i].kind = "def" => lines[i].key \in DOMAIN definitions

\* Loading the snapshot gives the graph that was saved, edge by edge and in the
\* same order, and every step that has no opaque inputs as it was.
SnapshotFaithful ==
  phase = "ready" =>
    /\ nodes = saved.nodes
    /\ Len(steps) = Len(saved.steps)
    /\ \A i \in DOMAIN steps :
         /\ saved.steps[i].opaque_inputs = <<>> => steps[i] = saved.steps[i]
         /\ \A field \in {"tool", "inputs", "output", "depfile_inputs"} :
              steps[i][field] = saved.steps[i][field]

\* The dependencies of a compilation are the names its .d file lists: the
\* pointer walk over blanks, continued lines and escapes loses none, joins no
\* two and splits none.
DepfileAsWritten ==
  Working => \A i \in DOMAIN steps :
    steps[i].depfile_inputs =
      IF steps[i].tool \in Compilation /\ steps[i].output \in DOMAIN depfile
        THEN NamesIn(depfile[steps[i].output]) ELSE <<>>

\* Every command line is understood as the help text says, whatever the order
\* of its words: a word after an option that takes one is its value even if it
\* looks like an option, the last value counts, the first error or question
\* ends the reading, and anything else with a '=' is a definition, "--jobs=4"
\* too.  The options that only docs/cli/reference.md has are refused.
ArgvUnderstood ==
  phase # "arguments" =>
    /\ phase = "helped" <=> OutcomeSaid(argv) = "help"
    /\ phase = "refused" <=> \/ OutcomeSaid(argv) = "error"
                             \/ OutcomeSaid(argv) = "ok" /\ ~Found([args |-> args])
    /\ OutcomeSaid(argv) = "ok" => args = ArgsSaid(argv)

\* The estimate that orders an output in the queue is the one its lines give,
\* in whatever order they stand.
EstimateAsListed ==
  phase = "ready" => \A i \in DOMAIN steps :
    GetWorkEstimate(LoadEstimates(estimates), steps[i].output) =
      EstimateSaid(estimates, steps[i].output)

\* What docs/concepts/manifest.md:49-53 says of the tool of a line: $in are the
\* inputs that have no '!' (lines 58-60), in_rsp that they are in a file.
Documented(line, in_rsp) ==
  LET flags(key) == Flags(definitions, key)
      in == Only(line.inputs, Path)
      to == <<"-o", line.output>>
      compiled == <<"-MMD", "-MF", "out.d", "-c">> \o in \o to
  IN CASE line.tool = "cc" -> flags("cc") \o flags("cflags") \o compiled
       [] line.tool = "cxx" -> flags("cxx") \o flags("cxxflags") \o compiled
       [] line.tool = "ld" -> flags("cxx") \o (IF in_rsp THEN <<"@rsp">> ELSE in)
                                \o to \o flags("ldflags") \o flags("ldlibs")
       [] line.tool = "ar" -> <<"ar", "rcs", line.output>> \o in
       [] line.tool = "sld" -> flags("cxx") \o <<"-shared">> \o in \o to

DocumentedTools == Compilation \cup {"ld", "ar", "sld"}

\* Whether the opaque inputs of a line are taken for others by its step, which
\* is so after every load of the snapshot (OpaqueNotPassed).
TakenForOthers(st, line) ==
  st.opaque_inputs = <<>> /\ ToSet(line.inputs) \cap Bang # {}

\* The command of a line, for a link with a response file if it has more than
\* Limit inputs (note 2, at manifest.md:75), and whatever their number if there
\* is a newer one already; except where the step has lost sight of what is
\* opaque.
RunAsDocumented(line, st) ==
  LET many == Len(Only(line.inputs, Path)) > Limit
  IN line.tool \in DocumentedTools /\ ~TakenForOthers(st, line) =>
       \A newer \in BOOLEAN :
         BuildCommandArgs(definitions, st, newer) = Documented(line, newer \/ many)

\* What -t commands shows and compile_commands.json holds is what a build runs,
\* except that -t commands leaves response files and the flags and libraries
\* of a link out.
CopiesAgree(st) ==
  LET run == BuildCommandArgs(definitions, st, FALSE)
      shown == ShownArgs(definitions, st)
  IN /\ st.tool \in Compilation => DatabaseArgs(definitions, st) = run
     /\ st.tool # "ld" => run = shown
     /\ st.tool = "ld" /\ ~UseRsp(st, FALSE) =>
          run = shown \o Flags(definitions, "ldflags")
                      \o Flags(definitions, "ldlibs")

\* The three functions that build commands, each with a copy of the rules, keep
\* to the documentation of the manifest's lines and to each other.
CommandsAsDocumented ==
  phase = "ready" =>
    /\ \A i \in StepLines : \E k \in DOMAIN steps :
         steps[k].output = lines[i].output /\ RunAsDocumented(lines[i], steps[k])
    /\ \A k \in DOMAIN steps : CopiesAgree(steps[k])

\* What docs/concepts/manifest.md:59-60 says: opaque inputs "are not passed as
\* arguments to the build tool".
OpaqueNotPassed ==
  phase = "ready" => \A i \in DOMAIN steps :
    Bang \cap ToSet(BuildCommandArgs(definitions, steps[i], FALSE)) = {}

=============================================================================
