-------------------------- MODULE BuildGraphProofs --------------------------
(***************************************************************************)
(* The invariants of BuildGraph, for every manifest, depfile and command   *)
(* line.                                                                   *)
(***************************************************************************)
EXTENDS BuildGraph, OperatorProofs

-----------------------------------------------------------------------------
(* The inductive invariant. *)

\* What is in a string that the snapshot keeps.
Atom == STRING \cup DOMAIN Parts \cup Name \cup Bang \cup {Empty}

IsDefinitions(defs) ==
  /\ DOMAIN defs \subseteq STRING /\ IsFiniteSet(DOMAIN defs)
  /\ defs \in [DOMAIN defs -> DOMAIN Parts]

NodeRecord(n, m) == [path : Name, step_id : 0 .. m, out_edges : Seq(1 .. n)]

IsStep(st) ==
  /\ st \in StepRecord(Atom) /\ st.output \in Path
  /\ st.opaque_inputs \in Seq(Name) /\ st.depfile_inputs \in Seq(Name)

\* One node for a file, one output node for a step, and edges to such nodes.
IsGraph(ns, ss) ==
  /\ ns \in Seq(NodeRecord(Len(ns), Len(ss)))
  /\ ss \in Seq(StepRecord(Atom)) /\ \A k \in DOMAIN ss : IsStep(ss[k])
  /\ \A i, j \in DOMAIN ns : ns[i].path = ns[j].path => i = j
  /\ \A i \in DOMAIN ns : ns[i].step_id # NoStep => ss[ns[i].step_id].output = ns[i].path
  /\ \A k \in DOMAIN ss : \E i \in DOMAIN ns : ns[i].step_id = k
  /\ \A i \in DOMAIN ns : \A e \in DOMAIN ns[i].out_edges :
       ns[ns[i].out_edges[e]].step_id # NoStep

\* The steps are those of the lines read, each output is made once.
StepsOfLines(ss) ==
  /\ \A k \in DOMAIN ss : \E i \in StepLines : ss[k] = StepOf(lines[i])
  /\ \A i \in StepLines : \E k \in DOMAIN ss : ss[k] = StepOf(lines[i])
  /\ \A i, j \in StepLines : lines[i].output = lines[j].output => i = j

\* How many edges lead from the node of p to the node of q.
Edges(ns, p, q) ==
  IF HasNode(ns, p) /\ HasNode(ns, q)
    THEN CountIn(ns[IdOf(ns, p)].out_edges, {IdOf(ns, q)}) ELSE 0

\* How often p is still to be connected to q, the output of the last step.
Pending(ss, td, p, q) ==
  IF ss # <<>> /\ ss[Len(ss)].output = q THEN CountIn(td, {p}) ELSE 0

\* The edges made and those still to be made are what the lines mention.
EdgesOfLines(ns, ss, td) ==
  \A i \in StepLines : \A p \in Name :
    Edges(ns, p, lines[i].output) + Pending(ss, td, p, lines[i].output) =
      Mentions(lines[i], p)

\* The definitions are those of the lines read, the first for each key.
DefinitionsOfLines(defs) ==
  /\ IsDefinitions(defs)
  /\ \A k \in DOMAIN defs : \E i \in DefLines(k) :
       (\A j \in DefLines(k) : i <= j) /\ defs[k] = lines[i].val
  /\ \A i \in 1 .. next - 1 : lines[i].kind = "def" => lines[i].key \in DOMAIN defs

\* A step that was loaded.
SameStep(st, sv) ==
  /\ IsStep(st)
  /\ sv.opaque_inputs = <<>> => st = sv
  /\ st.opaque_inputs # <<>> => st = sv
  /\ st.tool = sv.tool /\ st.inputs = sv.inputs /\ st.output = sv.output
  /\ st.depfile_inputs = sv.depfile_inputs

FilesInv ==
  /\ lines \in Seq(Line) /\ argv \in Seq(STRING)
  /\ \A f \in DOMAIN depfile : depfile[f] \in Seq(Symbol)
  /\ estimates \in Seq(EstimateLine)
  /\ args \in ArgsRecord(Definition, STRING)
  /\ next \in 1 .. Len(lines) + 1
  /\ todo \in Seq(Name)
  /\ phase \in {"arguments", "parsing", "loading", "parsed", "ready",
                "error", "refused", "helped"}

\* While the manifest is parsed.
ParsingInv ==
  /\ bin = NoBin
  /\ IsGraph(nodes, steps)
  /\ StepsOfLines(steps) /\ EdgesOfLines(nodes, steps, todo)
  /\ todo # <<>> => steps # <<>>
  /\ DefinitionsOfLines(definitions)

\* Between processes, and before one has a graph.
IdleInv ==
  /\ nodes = <<>> /\ steps = <<>> /\ definitions = <<>> /\ todo = <<>>
  /\ bin = NoBin => next = 1

\* The parse that failed.
ErrorInv ==
  /\ next <= Len(lines)
  /\ \/ lines[next].kind = "malformed"
     \/ /\ lines[next].kind = "step"
        /\ \E i \in StepLines : lines[i].output = lines[next].output

\* What the snapshot is of.
BinInv ==
  /\ next = Len(lines) + 1 /\ todo = <<>>
  /\ IsGraph(saved.nodes, saved.steps)
  /\ StepsOfLines(saved.steps) /\ EdgesOfLines(saved.nodes, saved.steps, <<>>)
  /\ \E defs : DefinitionsOfLines(defs) /\ bin = EmitBin(defs, saved.nodes, saved.steps)

\* The graph that the executor gets.
LoadedInv ==
  /\ bin # NoBin
  /\ nodes = saved.nodes
  /\ steps \in Seq(StepRecord(Atom)) /\ Len(steps) = Len(saved.steps)
  /\ \A i \in DOMAIN steps : SameStep(steps[i], saved.steps[i])

IInv ==
  /\ FilesInv
  /\ bin # NoBin => BinInv
  /\ phase \in {"arguments", "helped", "refused", "loading"} => IdleInv
  /\ phase = "loading" => bin # NoBin
  /\ phase \in {"parsing", "error"} => ParsingInv
  /\ phase = "error" => ErrorInv
  /\ phase \in {"parsed", "ready"} => LoadedInv
  /\ phase = "parsed" => DefinitionsOfLines(definitions)
  /\ phase = "ready" => \E defs : /\ DefinitionsOfLines(defs)
                                  /\ definitions = WithOverrides(defs, args.definition_overrides)

-----------------------------------------------------------------------------
(* Facts about the parts. *)

\* A depfile lists names.
LEMMA DepfileNames ==
  ASSUME NEW text \in Seq(Symbol)
  PROVE  ParseDepfile(text) \in Seq(Name) /\ NamesIn(text) = ParseDepfile(text)
BY NamesListed DEF Name

LEMMA NamesDiffer ==
  /\ Path \subseteq Name /\ Empty \notin Name /\ Empty \notin Bang
  /\ Path \subseteq Symbol /\ Path \cap Bang = {} /\ Stripped \in [Bang -> Path]
  /\ Name \subseteq Atom /\ Bang \subseteq Atom /\ Empty \in Atom
  /\ STRING \subseteq Atom /\ DOMAIN Parts \subseteq Atom
BY BuildGraphAssumption DEF Name, Symbol, Atom

\* get_or_create_node makes sure of a node and leaves the others alone.
Grows(new, ns, p) ==
  /\ HasNode(new, p)
  /\ IdOf(new, p) \in DOMAIN new /\ new[IdOf(new, p)].path = p
  /\ Len(ns) <= Len(new)
  /\ \A i \in DOMAIN ns : i \in DOMAIN new /\ new[i] = ns[i]
  /\ \A i \in DOMAIN new : i \notin DOMAIN ns => ~HasNode(ns, p) /\ new[i] = NewNode(p)
  /\ \A i, j \in DOMAIN new : new[i].path = new[j].path => i = j

LEMMA IdOfHas ==
  ASSUME NEW ns, NEW p, HasNode(ns, p)
  PROVE  IdOf(ns, p) \in DOMAIN ns /\ ns[IdOf(ns, p)].path = p
BY DEF HasNode, IdOf

LEMMA IdOfIs ==
  ASSUME NEW ns, \A i, j \in DOMAIN ns : ns[i].path = ns[j].path => i = j,
         NEW i \in DOMAIN ns
  PROVE  HasNode(ns, ns[i].path) /\ IdOf(ns, ns[i].path) = i
<1>1. HasNode(ns, ns[i].path)
  BY DEF HasNode
<1> QED
  BY <1>1, IdOfHas

LEMMA WithNodeGrows ==
  ASSUME NEW m \in Nat, NEW ns, ns \in Seq(NodeRecord(Len(ns), m)), NEW p \in Name,
         \A i, j \in DOMAIN ns : ns[i].path = ns[j].path => i = j
  PROVE  /\ WithNode(ns, p) \in Seq(NodeRecord(Len(WithNode(ns, p)), m))
         /\ Grows(WithNode(ns, p), ns, p)
<1> DEFINE new == WithNode(ns, p)
<1>1. /\ Len(ns) \in Nat /\ DOMAIN ns = 1 .. Len(ns)
      /\ \A i \in DOMAIN ns : ns[i] \in NodeRecord(Len(ns), m)
  BY LenProperties, ElementOfSeq
<1>2. CASE HasNode(ns, p)
  <2>1. new = ns
    BY <1>2 DEF WithNode
  <2> QED
    BY <1>1, <1>2, <2>1, IdOfHas DEF Grows
<1>3. CASE ~HasNode(ns, p)
  <2>1. new = Append(ns, NewNode(p))
    BY <1>3 DEF WithNode
  <2>2. NewNode(p) \in NodeRecord(Len(ns), m)
    <3>1. <<>> \in Seq(1 .. Len(ns)) /\ 0 \in 0 .. m
      BY EmptySeq
    <3> QED
      BY <3>1 DEF NewNode, NoStep, NodeRecord
  <2>3. /\ Len(new) = Len(ns) + 1 /\ DOMAIN new = 1 .. Len(ns) + 1
        /\ \A i \in 1 .. Len(ns) : new[i] = ns[i]
        /\ new[Len(ns) + 1] = NewNode(p)
        /\ new \in Seq(NodeRecord(Len(ns), m))
    BY <2>1, <2>2, AppendProperties, LenProperties
  <2> HIDE DEF new
  <2>4. \A i \in DOMAIN new : i \in DOMAIN ns \/ i = Len(ns) + 1
    BY <1>1, <2>3
  <2>5. \A i \in DOMAIN ns : i \in DOMAIN new /\ new[i] = ns[i]
    BY <1>1, <2>3
  <2>6. NewNode(p).path = p
    BY DEF NewNode
  <2>7. Len(ns) + 1 \in DOMAIN new /\ Len(ns) + 1 \notin DOMAIN ns
    BY <1>1, <2>3
  <2>8. \A i \in DOMAIN ns : ns[i].path # p
    BY <1>3 DEF HasNode
  <2>9. \A i, j \in DOMAIN new : new[i].path = new[j].path => i = j
    BY <2>3, <2>4, <2>5, <2>6, <2>8
  <2>10. HasNode(new, p)
    BY <2>3, <2>6, <2>7 DEF HasNode
  <2>11. Grows(new, ns, p)
    BY <1>1, <1>3, <2>3, <2>4, <2>5, <2>9, <2>10, IdOfHas DEF Grows
  <2>12. NodeRecord(Len(ns), m) \subseteq NodeRecord(Len(new), m)
    <3>1. 1 .. Len(ns) \subseteq 1 .. Len(new)
      BY <1>1, <2>3
    <3>2. Seq(1 .. Len(ns)) \subseteq Seq(1 .. Len(new))
      BY <3>1, SeqMonotonic
    <3> QED
      BY <3>2 DEF NodeRecord
  <2>13. new \in Seq(NodeRecord(Len(new), m))
    BY <2>3, <2>12, SeqMonotonic
  <2> QED
    BY <2>11, <2>13 DEF new
<1> QED
  BY <1>2, <1>3

-----------------------------------------------------------------------------
(* The step of a line. *)

LEMMA CountSame ==
  ASSUME NEW s, NEW t, NEW P, NEW Q, DOMAIN s = DOMAIN t,
         \A i \in DOMAIN s : s[i] \in P <=> t[i] \in Q
  PROVE  CountIn(s, P) = CountIn(t, Q)
<1>1. {i \in DOMAIN s : s[i] \in P} = {i \in DOMAIN t : t[i] \in Q}
  OBVIOUS
<1> QED
  BY <1>1 DEF CountIn

\* The inputs of a step line that are not empty, and those of them with '!' and
\* without.
LEMMA InputsSplit ==
  ASSUME NEW inputs \in Seq(Path \cup Bang \cup {Empty})
  PROVE  LET parts == NonEmpty(inputs)
             opaque == Only(parts, Bang)
             parsed == Only(parts, ToSet(parts) \ Bang)
         IN  /\ parts \in Seq(Path \cup Bang) /\ opaque \in Seq(Bang)
             /\ parsed \in Seq(Path)
             /\ \A P : P \subseteq Bang => CountIn(opaque, P) = CountIn(inputs, P)
             /\ \A P : Empty \notin P =>
                  CountIn(parsed, P) = CountIn(inputs, P \ Bang)
<1> DEFINE All == Path \cup Bang \cup {Empty}
           Full == ToSet(inputs) \ {Empty}
           parts == NonEmpty(inputs)
           opaque == Only(parts, Bang)
           Bare == ToSet(parts) \ Bang
           parsed == Only(parts, Bare)
<1>1. parts = Only(inputs, Full)
  BY DEF NonEmpty
<1>2. parts \in Seq(Path \cup Bang)
  <2>1. parts \in Seq(All \cap Full)
    <3> HIDE DEF Full, parts
    <3> QED
      BY <1>1, OnlyType
  <2>2. All \cap Full \subseteq Path \cup Bang
    OBVIOUS
  <2> HIDE DEF Full, All, parts
  <2> QED
    BY <2>1, <2>2, SeqMonotonic
<1> HIDE DEF parts
<1>3. opaque \in Seq(Bang)
  <2>1. opaque \in Seq((Path \cup Bang) \cap Bang)
    BY <1>2, OnlyType
  <2>2. (Path \cup Bang) \cap Bang = Bang
    OBVIOUS
  <2> QED
    BY <2>1, <2>2
<1>4. parsed \in Seq(Path)
  <2>1. parsed \in Seq((Path \cup Bang) \cap Bare)
    <3> HIDE DEF Bare
    <3> QED
      BY <1>2, OnlyType
  <2>2. (Path \cup Bang) \cap Bare \subseteq Path
    OBVIOUS
  <2> HIDE DEF parsed, Bare
  <2> QED
    BY <2>1, <2>2, SeqMonotonic
<1>5. ASSUME NEW P, Empty \notin P PROVE CountIn(parts, P) = CountIn(inputs, P)
  <2>1. CountIn(parts, P) = CountIn(inputs, P \cap Full)
    <3> HIDE DEF Full
    <3> QED
      BY <1>1, OnlyCount
  <2>2. \A i \in DOMAIN inputs : inputs[i] \in P \cap Full <=> inputs[i] \in P
    BY <1>5 DEF ToSet
  <2>3. CountIn(inputs, P \cap Full) = CountIn(inputs, P)
    <3> HIDE DEF Full
    <3> QED
      BY <2>2, CountSame
  <2> QED
    BY <2>1, <2>3
<1>6. ASSUME NEW P, P \subseteq Bang PROVE CountIn(opaque, P) = CountIn(inputs, P)
  <2>1. CountIn(opaque, P) = CountIn(parts, P \cap Bang)
    BY <1>2, OnlyCount
  <2>2. P \cap Bang = P /\ Empty \notin P
    BY <1>6, NamesDiffer
  <2> QED
    BY <1>5, <2>1, <2>2
<1>7. ASSUME NEW P, Empty \notin P
      PROVE  CountIn(parsed, P) = CountIn(inputs, P \ Bang)
  <2>1. CountIn(parsed, P) = CountIn(parts, P \cap Bare)
    <3> HIDE DEF Bare
    <3> QED
      BY <1>2, OnlyCount
  <2>2. \A i \in DOMAIN parts : parts[i] \in P \cap Bare <=> parts[i] \in P \ Bang
    BY DEF ToSet
  <2>3. CountIn(parts, P \cap Bare) = CountIn(parts, P \ Bang)
    <3> HIDE DEF Bare
    <3> QED
      BY <2>2, CountSame
  <2>4. CountIn(parts, P \ Bang) = CountIn(inputs, P \ Bang)
    BY <1>5, <1>7
  <2> QED
    BY <2>1, <2>3, <2>4
<1> QED
  BY <1>2, <1>3, <1>4, <1>6, <1>7 DEF parts

IsStepLine(line) == line \in Line /\ line.kind = "step"

LEMMA StepLineFields ==
  ASSUME NEW line, IsStepLine(line)
  PROVE  /\ line.tool \in STRING /\ line.output \in Path
         /\ line.inputs \in Seq(Path \cup Bang \cup {Empty})
BY DEF IsStepLine, Line

\* The depfile of an output lists names.
LEMMA DiscoveredNames ==
  ASSUME NEW o, \A f \in DOMAIN depfile : depfile[f] \in Seq(Symbol)
  PROVE  /\ Discovered(o) \in Seq(Name)
         /\ Discovered(o) = IF o \in DOMAIN depfile THEN NamesIn(depfile[o]) ELSE <<>>
<1>1. CASE o \in DOMAIN depfile
  BY <1>1, DepfileNames DEF Discovered
<1>2. CASE o \notin DOMAIN depfile
  BY <1>2, EmptySeq DEF Discovered
<1> QED
  BY <1>1, <1>2

\* The inputs of a step are well formed, and its edges are to be made from each
\* file as often as its line mentions it.
LEMMA StepOfLine ==
  ASSUME NEW line, IsStepLine(line),
         \A f \in DOMAIN depfile : depfile[f] \in Seq(Symbol)
  PROVE  /\ IsStep(StepOf(line)) /\ StepOf(line).output = line.output
         /\ ToConnect(StepOf(line)) \in Seq(Name)
         /\ \A p \in Name : CountIn(ToConnect(StepOf(line)), {p}) = Mentions(line, p)
<1> DEFINE st == StepOf(line)
           parts == NonEmpty(line.inputs)
           opaque == Only(parts, Bang)
           parsed == Only(parts, ToSet(parts) \ Bang)
           bare == [i \in DOMAIN opaque |-> Stripped[opaque[i]]]
           found == IF line.tool \in Compilation THEN Discovered(line.output) ELSE <<>>
<1>1. /\ line.tool \in STRING /\ line.output \in Path
      /\ line.inputs \in Seq(Path \cup Bang \cup {Empty})
  BY StepLineFields
<1>2. st = [tool |-> line.tool, inputs |-> line.inputs, output |-> line.output,
            opaque_inputs |-> bare, depfile_inputs |-> found, parsed_inputs |-> parsed]
  BY DEF StepOf, Unbanged
<1>3. /\ parts \in Seq(Path \cup Bang) /\ opaque \in Seq(Bang) /\ parsed \in Seq(Path)
      /\ \A P : P \subseteq Bang => CountIn(opaque, P) = CountIn(line.inputs, P)
      /\ \A P : Empty \notin P => CountIn(parsed, P) = CountIn(line.inputs, P \ Bang)
  BY <1>1, InputsSplit
<1>4. found \in Seq(Name) /\
        found = IF line.tool \in Compilation /\ line.output \in DOMAIN depfile
                  THEN NamesIn(depfile[line.output]) ELSE <<>>
  BY DiscoveredNames, EmptySeq
<1> HIDE DEF parts, found
<1>5. bare \in Seq(Path) /\ Len(bare) = Len(opaque) /\ DOMAIN bare = DOMAIN opaque
  <2>1. \A i \in DOMAIN opaque : opaque[i] \in Bang
    <3> HIDE DEF opaque
    <3> QED
      BY <1>3, LenProperties, ElementOfSeq
  <2>2. bare \in [DOMAIN opaque -> Path]
    BY <2>1, NamesDiffer
  <2> HIDE DEF bare, opaque
  <2> QED
    BY <1>3, <2>2, MappedSeq
<1>6. \A i \in DOMAIN opaque : bare[i] = Stripped[opaque[i]]
  OBVIOUS
<1> HIDE DEF bare, opaque, parsed
<1>7. bare \in Seq(Name) /\ parsed \in Seq(Name) /\ parsed \in Seq(Atom)
        /\ bare \in Seq(Atom) /\ found \in Seq(Atom) /\ line.inputs \in Seq(Atom)
  <2>1. Path \subseteq Name /\ Path \subseteq Atom /\ Name \subseteq Atom
          /\ Path \cup Bang \cup {Empty} \subseteq Atom
    BY NamesDiffer
  <2> QED
    BY <1>1, <1>3, <1>4, <1>5, <2>1, SeqMonotonic
<1>8. IsStep(st)
  <2>1. line.tool \in Atom /\ line.output \in Atom
    BY <1>1, NamesDiffer
  <2>2. st \in StepRecord(Atom)
    BY <1>2, <1>7, <2>1 DEF StepRecord
  <2> QED
    BY <1>1, <1>2, <1>4, <1>7, <2>2 DEF IsStep
<1>9. ToConnect(st) = (found \o parsed) \o bare /\ found \o parsed \in Seq(Name)
        /\ ToConnect(st) \in Seq(Name)
  <2>1. ToConnect(st) = (found \o parsed) \o bare
    BY <1>2 DEF ToConnect
  <2>2. found \o parsed \in Seq(Name)
    BY <1>4, <1>7, ConcatProperties
  <2>3. (found \o parsed) \o bare \in Seq(Name)
    BY <1>7, <2>2, ConcatProperties
  <2> QED
    BY <2>1, <2>2, <2>3
<1>10. ASSUME NEW p \in Name PROVE CountIn(ToConnect(st), {p}) = Mentions(line, p)
  <2> DEFINE listed == [i \in DOMAIN line.inputs |->
                          IF line.inputs[i] \in Bang THEN Stripped[line.inputs[i]]
                                                     ELSE line.inputs[i]]
             B == {x \in Bang : Stripped[x] = p}
             N == {p} \ Bang
  <2>1. ListedBy(line) = listed \o found
    BY <1>4 DEF ListedBy
  <2>2. listed \in Seq(Path \cup {Empty}) /\ DOMAIN listed = DOMAIN line.inputs
    <3>1. \A i \in DOMAIN line.inputs : line.inputs[i] \in Path \cup Bang \cup {Empty}
      BY <1>1, LenProperties, ElementOfSeq
    <3>2. listed \in [DOMAIN line.inputs -> Path \cup {Empty}]
      BY <3>1, NamesDiffer
    <3> HIDE DEF listed
    <3> QED
      BY <1>1, <3>2, MappedSeq
  <2>3. CountIn(listed, {p}) = CountIn(line.inputs, B \cup N)
    <3>1. \A i \in DOMAIN listed : listed[i] \in {p} <=> line.inputs[i] \in B \cup N
      OBVIOUS
    <3> HIDE DEF listed, B, N
    <3> QED
      BY <2>2, <3>1, CountSame
  <2>4. CountIn(line.inputs, B \cup N) = CountIn(line.inputs, B) + CountIn(line.inputs, N)
    <3>1. B \cap N = {}
      OBVIOUS
    <3> HIDE DEF B, N
    <3> QED
      BY <1>1, <3>1, CountUnion
  <2>5. CountIn(bare, {p}) = CountIn(line.inputs, B)
    <3>1. CountIn(bare, {p}) = CountIn(opaque, B)
      <4>1. \A i \in DOMAIN opaque : opaque[i] \in Bang
        BY <1>3, LenProperties, ElementOfSeq
      <4>2. \A i \in DOMAIN bare : bare[i] \in {p} <=> opaque[i] \in B
        BY <1>5, <1>6, <4>1
      <4> HIDE DEF B
      <4> QED
        BY <1>5, <4>2, CountSame
    <3>2. B \subseteq Bang
      OBVIOUS
    <3> HIDE DEF B
    <3> QED
      BY <1>3, <3>1, <3>2
  <2>6. CountIn(parsed, {p}) = CountIn(line.inputs, N)
    <3>1. Empty \notin {p}
      BY NamesDiffer
    <3> QED
      BY <1>3, <3>1
  <2>7. CountIn(ToConnect(st), {p}) =
          CountIn(found, {p}) + CountIn(parsed, {p}) + CountIn(bare, {p})
    <3>1. CountIn(found \o parsed, {p}) = CountIn(found, {p}) + CountIn(parsed, {p})
      BY <1>4, <1>7, CountConcat, ZenonT(30)
    <3>2. CountIn((found \o parsed) \o bare, {p}) =
            CountIn(found \o parsed, {p}) + CountIn(bare, {p})
      BY <1>7, <1>9, CountConcat, ZenonT(30)
    <3> QED
      BY <1>9, <3>1, <3>2
  <2>8. CountIn(listed \o found, {p}) = CountIn(listed, {p}) + CountIn(found, {p})
    <3> HIDE DEF listed
    <3>1. Path \cup {Empty} \subseteq Atom
      BY NamesDiffer
    <3>2. listed \in Seq(Atom)
      BY <2>2, <3>1, SeqMonotonic
    <3> QED
      BY <1>7, <3>2, CountConcat
  <2>9. Mentions(line, p) = CountIn(listed \o found, {p})
    <3>1. {i \in DOMAIN ListedBy(line) : ListedBy(line)[i] = p} =
            {i \in DOMAIN ListedBy(line) : ListedBy(line)[i] \in {p}}
      OBVIOUS
    <3> HIDE DEF listed
    <3> QED
      BY <2>1, <3>1 DEF Mentions, CountIn
  <2>10. CountIn(found, {p}) \in Nat /\ CountIn(line.inputs, B) \in Nat
           /\ CountIn(line.inputs, N) \in Nat
    BY <1>1, <1>4, CountIsUpto
  <2> HIDE DEF listed, B, N
  <2> QED
    BY <2>3, <2>4, <2>5, <2>6, <2>7, <2>8, <2>9, <2>10
<1> HIDE DEF st
<1>11. st.output = line.output
  BY <1>2
<1> QED
  BY <1>8, <1>9, <1>10, <1>11 DEF st

-----------------------------------------------------------------------------
(* The graph, node by node and edge by edge. *)

UniquePaths(ns) == \A i, j \in DOMAIN ns : ns[i].path = ns[j].path => i = j

LEMMA NodeFields ==
  ASSUME NEW m \in Nat, NEW ns, ns \in Seq(NodeRecord(Len(ns), m)), NEW i \in DOMAIN ns
  PROVE  /\ ns[i].path \in Name /\ ns[i].step_id \in 0 .. m
         /\ ns[i].out_edges \in Seq(1 .. Len(ns))
         /\ Len(ns) \in Nat /\ DOMAIN ns = 1 .. Len(ns)
         /\ \A e \in DOMAIN ns[i].out_edges : ns[i].out_edges[e] \in DOMAIN ns
<1>1. ns[i] \in NodeRecord(Len(ns), m) /\ DOMAIN ns = 1 .. Len(ns) /\ Len(ns) \in Nat
  BY LenProperties, ElementOfSeq
<1>2. ns[i].path \in Name /\ ns[i].step_id \in 0 .. m
        /\ ns[i].out_edges \in Seq(1 .. Len(ns))
  BY <1>1 DEF NodeRecord
<1> QED
  BY <1>1, <1>2, LenProperties, ElementOfSeq

\* Nodes keep their places when their contents change.
LEMMA SamePaths ==
  ASSUME NEW a, NEW b, UniquePaths(a), DOMAIN a = DOMAIN b,
         \A i \in DOMAIN a : a[i].path = b[i].path, NEW p
  PROVE  /\ UniquePaths(b) /\ (HasNode(a, p) <=> HasNode(b, p))
         /\ (HasNode(a, p) => IdOf(a, p) = IdOf(b, p))
<1>1. UniquePaths(b) /\ (HasNode(a, p) <=> HasNode(b, p))
  BY DEF UniquePaths, HasNode
<1>2. ASSUME HasNode(a, p) PROVE IdOf(a, p) = IdOf(b, p)
  <2>1. IdOf(a, p) \in DOMAIN a /\ a[IdOf(a, p)].path = p
    BY <1>2, IdOfHas
  <2>2. IdOf(b, p) \in DOMAIN b /\ b[IdOf(b, p)].path = p
    BY <1>1, <1>2, IdOfHas
  <2> QED
    BY <2>1, <2>2 DEF UniquePaths
<1> QED
  BY <1>1, <1>2

\* A new node has no edges and gets none.
LEMMA GrowsKeepsEdges ==
  ASSUME NEW m \in Nat, NEW ns, ns \in Seq(NodeRecord(Len(ns), m)), UniquePaths(ns),
         NEW new, NEW x, Grows(new, ns, x), NEW p, NEW q
  PROVE  /\ HasNode(ns, p) => HasNode(new, p) /\ IdOf(new, p) = IdOf(ns, p)
         /\ Edges(new, p, q) = Edges(ns, p, q)
<1>1. UniquePaths(new)
  BY DEF Grows, UniquePaths
<1>2. ASSUME NEW r, HasNode(ns, r) PROVE HasNode(new, r) /\ IdOf(new, r) = IdOf(ns, r)
  <2>1. IdOf(ns, r) \in DOMAIN ns /\ ns[IdOf(ns, r)].path = r
    BY <1>2, IdOfHas
  <2>2. IdOf(ns, r) \in DOMAIN new /\ new[IdOf(ns, r)].path = r
    BY <2>1 DEF Grows
  <2> QED
    BY <1>1, <2>2, IdOfIs DEF UniquePaths
<1>3. ASSUME NEW r, ~HasNode(ns, r), HasNode(new, r)
      PROVE  IdOf(new, r) \notin DOMAIN ns /\ new[IdOf(new, r)] = NewNode(x)
  <2>1. IdOf(new, r) \in DOMAIN new /\ new[IdOf(new, r)].path = r
    BY <1>3, IdOfHas
  <2>2. IdOf(new, r) \notin DOMAIN ns
    BY <1>3, <2>1 DEF Grows, HasNode
  <2> QED
    BY <2>1, <2>2 DEF Grows
<1>4. CASE HasNode(ns, p) /\ HasNode(ns, q)
  <2>1. new[IdOf(ns, p)] = ns[IdOf(ns, p)]
    BY <1>4, IdOfHas DEF Grows
  <2>2. /\ HasNode(new, p) /\ IdOf(new, p) = IdOf(ns, p)
        /\ HasNode(new, q) /\ IdOf(new, q) = IdOf(ns, q)
    BY <1>2, <1>4
  <2> QED
    BY <1>4, <2>1, <2>2 DEF Edges
<1>5. CASE ~HasNode(ns, p)
  <2>1. ASSUME HasNode(new, p) PROVE CountIn(new[IdOf(new, p)].out_edges, {IdOf(new, q)}) = 0
    <3>1. new[IdOf(new, p)].out_edges = <<>>
      BY <1>3, <1>5, <2>1 DEF NewNode
    <3>2. <<>> \in Seq({}) /\ \A i \in DOMAIN <<>> : <<>>[i] \notin {IdOf(new, q)}
      BY EmptySeq
    <3>3. CountIn(<<>>, {IdOf(new, q)}) = 0
      BY <3>2, CountIsUpto
    <3> QED
      BY <3>1, <3>3
  <2> QED
    BY <1>5, <2>1 DEF Edges
<1>6. CASE HasNode(ns, p) /\ ~HasNode(ns, q)
  <2>1. ASSUME HasNode(new, q) PROVE CountIn(new[IdOf(new, p)].out_edges, {IdOf(new, q)}) = 0
    <3>1. IdOf(new, q) \notin DOMAIN ns
      BY <1>3, <1>6, <2>1
    <3>2. IdOf(new, p) \in DOMAIN ns /\ new[IdOf(new, p)] = ns[IdOf(new, p)]
      BY <1>2, <1>6, IdOfHas DEF Grows
    <3>3. /\ ns[IdOf(new, p)].out_edges \in Seq(1 .. Len(ns))
          /\ \A e \in DOMAIN ns[IdOf(new, p)].out_edges :
               ns[IdOf(new, p)].out_edges[e] \in DOMAIN ns
      BY <3>2, NodeFields
    <3>4. \A e \in DOMAIN ns[IdOf(new, p)].out_edges :
            ns[IdOf(new, p)].out_edges[e] \notin {IdOf(new, q)}
      BY <3>1, <3>3
    <3> QED
      BY <3>2, <3>3, <3>4, CountIsUpto
  <2>2. Edges(ns, p, q) = 0
    BY <1>6 DEF Edges
  <2>3. Edges(new, p, q) = 0
    BY <2>1 DEF Edges
  <2> QED
    BY <1>2, <1>6, <2>2, <2>3
<1> QED
  BY <1>2, <1>4, <1>5, <1>6

\* add_step, up to its loops, adds a producer where there was none, and no edge;
\* none led there.
LEMMA AddStepGraph ==
  ASSUME NEW ns, NEW ss, IsGraph(ns, ss), NEW st, IsStep(st),
         ~HasProducer(ns, st.output)
  PROVE  LET new == WithNode(ns, st.output)
             ns2 == [new EXCEPT ![IdOf(new, st.output)].step_id = Len(ss) + 1]
         IN  /\ IsGraph(ns2, Append(ss, st))
             /\ \A p, q : Edges(ns2, p, q) = Edges(ns, p, q)
             /\ \A p : Edges(ns, p, st.output) = 0
<1> DEFINE o == st.output
           m == Len(ss)
           new == WithNode(ns, o)
           id == IdOf(new, o)
           ns2 == [new EXCEPT ![id].step_id = m + 1]
           ss2 == Append(ss, st)
<1>1. /\ m \in Nat /\ ns \in Seq(NodeRecord(Len(ns), m)) /\ UniquePaths(ns)
      /\ DOMAIN ss = 1 .. m /\ ss \in Seq(StepRecord(Atom))
      /\ st \in StepRecord(Atom) /\ o \in Name
  BY LenProperties, NamesDiffer DEF IsGraph, UniquePaths, IsStep
<1>2. new \in Seq(NodeRecord(Len(new), m)) /\ Grows(new, ns, o)
  BY <1>1, WithNodeGrows DEF UniquePaths
<1> HIDE DEF new
<1>3. id \in DOMAIN new /\ new[id].path = o /\ UniquePaths(new)
        /\ DOMAIN new = 1 .. Len(new) /\ Len(new) \in Nat
  BY <1>2, LenProperties DEF Grows, UniquePaths
<1>4. /\ ss2 \in Seq(StepRecord(Atom)) /\ Len(ss2) = m + 1 /\ DOMAIN ss2 = 1 .. m + 1
      /\ \A k \in 1 .. m : ss2[k] = ss[k]
      /\ ss2[m + 1] = st
  BY <1>1, AppendProperties, LenProperties
<1> HIDE DEF ss2
<1>5. /\ DOMAIN ns2 = DOMAIN new /\ Len(ns2) = Len(new)
      /\ \A i \in DOMAIN new :
           /\ ns2[i].path = new[i].path /\ ns2[i].out_edges = new[i].out_edges
           /\ ns2[i].step_id = IF i = id THEN m + 1 ELSE new[i].step_id
           /\ ns2[i] \in NodeRecord(Len(new), m + 1)
  <2>1. \A i \in DOMAIN new : new[i] \in NodeRecord(Len(new), m)
    BY <1>2, LenProperties, ElementOfSeq
  <2>2. ASSUME NEW i \in DOMAIN new
        PROVE  /\ ns2[i].path = new[i].path /\ ns2[i].out_edges = new[i].out_edges
               /\ ns2[i].step_id = IF i = id THEN m + 1 ELSE new[i].step_id
               /\ ns2[i] \in NodeRecord(Len(new), m + 1)
    <3>1. new[i] \in NodeRecord(Len(new), m)
      BY <2>1
    <3>2. 0 .. m \subseteq 0 .. m + 1 /\ m + 1 \in 0 .. m + 1
      BY <1>1
    <3>3. CASE i = id
      <4>1. ns2[i] = [new[i] EXCEPT !.step_id = m + 1]
        BY <3>3
      <4> HIDE DEF ns2, id, o, m
      <4> QED
        BY <3>1, <3>2, <3>3, <4>1 DEF NodeRecord
    <3>4. CASE i # id
      <4>1. ns2[i] = new[i]
        BY <3>4
      <4> HIDE DEF ns2, id, o, m
      <4> QED
        BY <3>1, <3>2, <3>4, <4>1 DEF NodeRecord
    <3> QED
      BY <3>3, <3>4
  <2>3. ns2 \in [1 .. Len(new) -> NodeRecord(Len(new), m + 1)]
    <3>1. DOMAIN ns2 = 1 .. Len(new) /\ ns2 = [i \in 1 .. Len(new) |-> ns2[i]]
      BY <1>3
    <3> HIDE DEF ns2, id, o, m
    <3> QED
      BY <1>3, <2>2, <3>1
  <2>4. Len(ns2) = Len(new)
    <3> HIDE DEF ns2, id, o, m
    <3> QED
      BY <1>3, <2>3, FunctionIsSeq
  <2> QED
    BY <2>2, <2>4
<1> HIDE DEF ns2, id
<1>6. ns2 \in Seq(NodeRecord(Len(ns2), Len(ss2)))
  <2>1. ns2 \in [1 .. Len(new) -> NodeRecord(Len(new), m + 1)]
    <3>1. ns2 = [i \in DOMAIN ns2 |-> ns2[i]]
      BY DEF ns2
    <3> QED
      BY <1>3, <1>5, <3>1
  <2>2. ns2 \in Seq(NodeRecord(Len(new), m + 1))
    BY <1>3, <2>1, FunctionIsSeq
  <2> QED
    BY <1>4, <1>5, <2>2
<1>7. ASSUME NEW i \in DOMAIN new
      PROVE  new[i].step_id \in 0 .. m /\
             (new[i].step_id # NoStep => i \in DOMAIN ns /\ new[i] = ns[i])
  <2>1. new[i].step_id \in 0 .. m
    BY <1>1, <1>2, NodeFields
  <2>2. CASE i \in DOMAIN ns
    BY <1>2, <2>1, <2>2 DEF Grows
  <2>3. CASE i \notin DOMAIN ns
    BY <1>2, <2>1, <2>3 DEF Grows, NewNode
  <2> QED
    BY <2>2, <2>3
\* The output had no producer.
<1>8. new[id].step_id = NoStep
  <2>1. CASE id \in DOMAIN ns
    <3>1. new[id] = ns[id] /\ ns[id].path = o
      BY <1>2, <1>3, <2>1 DEF Grows
    <3>2. HasNode(ns, o) /\ IdOf(ns, o) = id
      BY <1>1, <2>1, <3>1, IdOfIs DEF UniquePaths
    <3> QED
      BY <3>1, <3>2 DEF HasProducer
  <2>2. CASE id \notin DOMAIN ns
    BY <1>2, <1>3, <2>2 DEF Grows, NewNode
  <2> QED
    BY <2>1, <2>2
<1>9. \A k \in DOMAIN ss2 : IsStep(ss2[k])
  <2>1. \A k \in DOMAIN ss : IsStep(ss[k])
    BY DEF IsGraph
  <2>2. ASSUME NEW k \in 1 .. m + 1 PROVE k \in 1 .. m \/ k = m + 1
    BY <1>1
  <2> QED
    BY <1>1, <1>4, <2>1, <2>2
<1>10. UniquePaths(ns2)
  BY <1>3, <1>5 DEF UniquePaths
<1>11. ASSUME NEW i \in DOMAIN ns2, ns2[i].step_id # NoStep
       PROVE  ss2[ns2[i].step_id].output = ns2[i].path
  <2>1. CASE i = id
    BY <1>3, <1>4, <1>5, <2>1
  <2>2. CASE i # id
    <3>1. ns2[i].step_id = new[i].step_id /\ new[i].step_id # NoStep /\ i \in DOMAIN new
      BY <1>5, <1>11, <2>2
    <3>2. i \in DOMAIN ns /\ new[i] = ns[i] /\ new[i].step_id \in 0 .. m
      BY <1>7, <3>1
    <3>3. ss[ns[i].step_id].output = ns[i].path
      BY <3>1, <3>2 DEF IsGraph
    <3>4. ns[i].step_id \in 1 .. m
      BY <3>1, <3>2 DEF NoStep
    <3> QED
      BY <1>4, <1>5, <3>1, <3>2, <3>3, <3>4
  <2> QED
    BY <2>1, <2>2
<1>12. ASSUME NEW k \in DOMAIN ss2 PROVE \E i \in DOMAIN ns2 : ns2[i].step_id = k
  <2>1. CASE k = m + 1
    BY <1>3, <1>5, <2>1
  <2>2. CASE k # m + 1
    <3>1. k \in DOMAIN ss
      BY <1>1, <1>4, <2>2
    <3>2. PICK i \in DOMAIN ns : ns[i].step_id = k
      BY <3>1 DEF IsGraph
    <3>3. i \in DOMAIN new /\ new[i].step_id = k /\ k # NoStep
      BY <1>1, <1>2, <3>1, <3>2 DEF Grows, NoStep
    <3> QED
      BY <1>5, <1>8, <3>3
  <2> QED
    BY <2>1, <2>2
<1>13. ASSUME NEW i \in DOMAIN ns2, NEW e \in DOMAIN ns2[i].out_edges
       PROVE  ns2[ns2[i].out_edges[e]].step_id # NoStep
  <2>1. i \in DOMAIN new /\ ns2[i].out_edges = new[i].out_edges
    BY <1>5
  <2>2. i \in DOMAIN ns /\ new[i] = ns[i]
    <3>1. CASE i \notin DOMAIN ns
      <4>1. new[i].out_edges = <<>>
        BY <1>2, <2>1, <3>1 DEF Grows, NewNode
      <4> QED
        BY <2>1, <4>1
    <3> QED
      BY <1>2, <3>1 DEF Grows
  <2> DEFINE v == ns[i].out_edges[e]
  <2>3. v \in DOMAIN ns
    BY <1>1, <2>1, <2>2, NodeFields
  <2>4. ns[v].step_id # NoStep
    BY <2>1, <2>2 DEF IsGraph
  <2> HIDE DEF v
  <2>5. v \in DOMAIN new /\ new[v] = ns[v]
    BY <1>2, <2>3 DEF Grows
  <2>6. ns2[v].step_id = m + 1 \/ ns2[v].step_id = new[v].step_id
    BY <1>5, <2>5
  <2>7. ns2[v].step_id # NoStep
    BY <1>1, <2>4, <2>5, <2>6 DEF NoStep
  <2> QED
    BY <2>1, <2>2, <2>7 DEF v
<1>14. IsGraph(ns2, ss2)
  <2> HIDE DEF o, m
  <2> QED
    BY <1>4, <1>6, <1>9, <1>10, <1>11, <1>12, <1>13 DEF IsGraph, UniquePaths
<1>15. ASSUME NEW p, NEW q PROVE Edges(ns2, p, q) = Edges(ns, p, q)
  <2>1. Edges(new, p, q) = Edges(ns, p, q)
    BY <1>1, <1>2, GrowsKeepsEdges
  <2>2. ASSUME NEW r
        PROVE  /\ HasNode(new, r) <=> HasNode(ns2, r)
               /\ HasNode(new, r) => IdOf(new, r) = IdOf(ns2, r)
    BY <1>3, <1>5, SamePaths
  <2>3. HasNode(new, p) => ns2[IdOf(new, p)].out_edges = new[IdOf(new, p)].out_edges
    BY <1>5, IdOfHas
  <2> QED
    BY <2>1, <2>2, <2>3 DEF Edges
<1>16. ASSUME NEW p PROVE Edges(ns, p, o) = 0
  <2> SUFFICES ASSUME HasNode(ns, p), HasNode(ns, o)
               PROVE  CountIn(ns[IdOf(ns, p)].out_edges, {IdOf(ns, o)}) = 0
    BY DEF Edges
  <2> DEFINE i == IdOf(ns, p)
  <2>1. i \in DOMAIN ns
    BY IdOfHas
  <2>2. ns[i].out_edges \in Seq(1 .. Len(ns))
    BY <1>1, <2>1, NodeFields
  <2>3. ns[IdOf(ns, o)].step_id = NoStep
    BY DEF HasProducer
  <2>4. \A e \in DOMAIN ns[i].out_edges : ns[i].out_edges[e] \notin {IdOf(ns, o)}
    BY <2>1, <2>3 DEF IsGraph
  <2> QED
    BY <2>2, <2>4, CountIsUpto
<1> QED
  BY <1>14, <1>15, <1>16 DEF ns2, ss2, new, id

\* What Connect makes of the nodes.
Connected(ns, x, o) ==
  LET new == WithNode(ns, x)
  IN [new EXCEPT ![IdOf(new, x)].out_edges = Append(@, IdOf(new, o))]

OneMoreEdge(new, ns, x, o) ==
  \A p, q : Edges(new, p, q) = Edges(ns, p, q) + IF p = x /\ q = o THEN 1 ELSE 0

\* One iteration of the loops of add_step makes one edge, to the last step.
LEMMA ConnectGraph ==
  ASSUME NEW ns, NEW ss, IsGraph(ns, ss), ss # <<>>, NEW x \in Name
  PROVE  LET new == Connected(ns, x, ss[Len(ss)].output)
         IN  IsGraph(new, ss) /\ OneMoreEdge(new, ns, x, ss[Len(ss)].output)
<1> DEFINE m == Len(ss)
           o == ss[m].output
           new == WithNode(ns, x)
           id == IdOf(new, x)
           to == IdOf(new, o)
           ns2 == [new EXCEPT ![id].out_edges = Append(@, to)]
<1>1. /\ m \in Nat /\ m \in DOMAIN ss /\ m # 0 /\ DOMAIN ss = 1 .. m
      /\ ns \in Seq(NodeRecord(Len(ns), m)) /\ UniquePaths(ns)
      /\ ss \in Seq(StepRecord(Atom))
  BY LenProperties, EmptySeq DEF IsGraph, UniquePaths
<1>2. new \in Seq(NodeRecord(Len(new), m)) /\ Grows(new, ns, x)
  BY <1>1, WithNodeGrows DEF UniquePaths
<1> HIDE DEF new
<1>3. id \in DOMAIN new /\ new[id].path = x /\ UniquePaths(new)
        /\ DOMAIN new = 1 .. Len(new) /\ Len(new) \in Nat
  BY <1>2, LenProperties DEF Grows, UniquePaths
<1>4. to \in DOMAIN new /\ new[to].path = o /\ new[to].step_id # NoStep
  <2>1. PICK i \in DOMAIN ns : ns[i].step_id = m
    BY <1>1 DEF IsGraph
  <2>2. ns[i].step_id # NoStep
    BY <1>1, <2>1 DEF NoStep
  <2>3. ns[i].path = o
    BY <2>1, <2>2 DEF IsGraph
  <2>4. i \in DOMAIN new /\ new[i] = ns[i]
    BY <1>2, <2>1 DEF Grows
  <2>5. to = i
    BY <1>3, <2>3, <2>4, IdOfIs DEF UniquePaths
  <2> QED
    BY <2>2, <2>3, <2>4, <2>5
<1> HIDE DEF m, o, id, to
<1>5. \A i \in DOMAIN new : new[i] \in NodeRecord(Len(new), m)
  BY <1>2, LenProperties, ElementOfSeq
<1>6. ASSUME NEW i \in DOMAIN new
      PROVE  /\ ns2[i].path = new[i].path /\ ns2[i].step_id = new[i].step_id
             /\ ns2[i].out_edges = IF i = id THEN Append(new[i].out_edges, to)
                                             ELSE new[i].out_edges
             /\ ns2[i] \in NodeRecord(Len(new), m)
             /\ new[i].out_edges \in Seq(1 .. Len(new))
  <2>1. new[i] \in NodeRecord(Len(new), m) /\ new[i].out_edges \in Seq(1 .. Len(new))
    BY <1>5 DEF NodeRecord
  <2>2. Append(new[i].out_edges, to) \in Seq(1 .. Len(new))
    BY <1>3, <1>4, <2>1, AppendProperties
  <2>3. CASE i = id
    <3>1. ns2[i] = [new[i] EXCEPT !.out_edges = Append(new[i].out_edges, to)]
      BY <2>3
    <3> HIDE DEF ns2
    <3> QED
      BY <2>1, <2>2, <2>3, <3>1 DEF NodeRecord
  <2>4. CASE i # id
    BY <2>1, <2>4
  <2> QED
    BY <2>3, <2>4
<1>7. DOMAIN ns2 = DOMAIN new /\ ns2 = [i \in DOMAIN ns2 |-> ns2[i]]
  OBVIOUS
<1> HIDE DEF ns2
<1>8. ns2 \in Seq(NodeRecord(Len(ns2), m)) /\ Len(ns2) = Len(new)
  <2>1. ns2 \in [1 .. Len(new) -> NodeRecord(Len(new), m)]
    BY <1>3, <1>6, <1>7
  <2> QED
    BY <1>3, <2>1, FunctionIsSeq
<1>9. UniquePaths(ns2)
  BY <1>3, <1>6, <1>7 DEF UniquePaths
<1>10. ASSUME NEW i \in DOMAIN ns2, ns2[i].step_id # NoStep
       PROVE  ss[ns2[i].step_id].output = ns2[i].path
  <2>1. i \in DOMAIN new /\ ns2[i].step_id = new[i].step_id /\ ns2[i].path = new[i].path
    BY <1>6, <1>7
  <2>2. i \in DOMAIN ns /\ new[i] = ns[i]
    <3>1. CASE i \notin DOMAIN ns
      BY <1>2, <1>10, <2>1, <3>1 DEF Grows, NewNode
    <3> QED
      BY <1>2, <3>1 DEF Grows
  <2> QED
    BY <1>10, <2>1, <2>2 DEF IsGraph
<1>11. ASSUME NEW k \in DOMAIN ss PROVE \E i \in DOMAIN ns2 : ns2[i].step_id = k
  <2>1. PICK i \in DOMAIN ns : ns[i].step_id = k
    BY DEF IsGraph
  <2>2. i \in DOMAIN new /\ new[i] = ns[i]
    BY <1>2 DEF Grows
  <2> QED
    BY <1>6, <1>7, <2>1, <2>2
<1>12. ASSUME NEW i \in DOMAIN new, NEW e \in DOMAIN new[i].out_edges
       PROVE  new[i].out_edges[e] \in DOMAIN new
              /\ new[new[i].out_edges[e]].step_id # NoStep
  <2>1. CASE i \notin DOMAIN ns
    <3>1. new[i].out_edges = <<>>
      BY <1>2, <2>1 DEF Grows, NewNode
    <3> QED
      BY <3>1
  <2>2. CASE i \in DOMAIN ns
    <3>1. new[i] = ns[i]
      BY <1>2, <2>2 DEF Grows
    <3> DEFINE v == ns[i].out_edges[e]
    <3>2. v \in DOMAIN ns
      BY <1>1, <2>2, <3>1, NodeFields
    <3>3. ns[v].step_id # NoStep
      BY <2>2, <3>1 DEF IsGraph
    <3> HIDE DEF v
    <3>4. v \in DOMAIN new /\ new[v] = ns[v]
      BY <1>2, <3>2 DEF Grows
    <3> QED
      BY <3>1, <3>3, <3>4 DEF v
  <2> QED
    BY <2>1, <2>2
<1>13. ASSUME NEW i \in DOMAIN ns2, NEW e \in DOMAIN ns2[i].out_edges
       PROVE  ns2[ns2[i].out_edges[e]].step_id # NoStep
  <2>1. i \in DOMAIN new
    BY <1>7
  <2>2. CASE i # id
    <3> DEFINE v == new[i].out_edges[e]
    <3>1. ns2[i].out_edges = new[i].out_edges
      BY <1>6, <2>1, <2>2
    <3>2. v \in DOMAIN new /\ new[v].step_id # NoStep
      BY <1>12, <2>1, <3>1
    <3> HIDE DEF v
    <3>3. ns2[v].step_id # NoStep
      BY <1>6, <3>2
    <3> QED
      BY <3>1, <3>3 DEF v
  <2>3. CASE i = id
    <3> DEFINE old == new[i].out_edges
    <3>1. ns2[i].out_edges = Append(old, to) /\ old \in Seq(1 .. Len(new))
      BY <1>6, <2>1, <2>3
    <3> HIDE DEF old
    <3>2. Len(old) \in Nat /\ DOMAIN old = 1 .. Len(old)
            /\ DOMAIN Append(old, to) = 1 .. Len(old) + 1
            /\ Append(old, to)[Len(old) + 1] = to
            /\ \A n \in 1 .. Len(old) : Append(old, to)[n] = old[n]
      BY <1>3, <1>4, <3>1, AppendProperties, LenProperties
    <3>3. e \in DOMAIN old \/ e = Len(old) + 1
      BY <3>1, <3>2
    <3>4. CASE e = Len(old) + 1
      BY <1>4, <1>6, <3>1, <3>2, <3>4
    <3>5. CASE e \in DOMAIN old
      <4>1. ns2[i].out_edges[e] = old[e]
        BY <3>1, <3>2, <3>5
      <4>2. old[e] \in DOMAIN new /\ new[old[e]].step_id # NoStep
        BY <1>12, <2>1, <3>5 DEF old
      <4> QED
        BY <1>6, <4>1, <4>2
    <3> QED
      BY <3>3, <3>4, <3>5
  <2> QED
    BY <2>2, <2>3
<1>14. IsGraph(ns2, ss)
  <2>1. \A k \in DOMAIN ss : IsStep(ss[k])
    BY DEF IsGraph
  <2> QED
    BY <1>1, <1>8, <1>9, <1>10, <1>11, <1>13, <2>1 DEF IsGraph, UniquePaths, m
<1>15. ASSUME NEW p, NEW q
       PROVE  Edges(ns2, p, q) = Edges(ns, p, q) + IF p = x /\ q = o THEN 1 ELSE 0
  <2>1. Edges(new, p, q) = Edges(ns, p, q)
    BY <1>1, <1>2, GrowsKeepsEdges
  <2>2. ASSUME NEW r
        PROVE  /\ HasNode(new, r) <=> HasNode(ns2, r)
               /\ HasNode(new, r) => IdOf(new, r) = IdOf(ns2, r)
    BY <1>3, <1>6, <1>7, SamePaths
  <2>3. HasNode(new, x) /\ HasNode(new, o)
    BY <1>3, <1>4 DEF HasNode
  <2>4. CASE ~(HasNode(new, p) /\ HasNode(new, q))
    <3>1. Edges(new, p, q) = 0 /\ Edges(ns2, p, q) = 0
      BY <2>2, <2>4 DEF Edges
    <3> QED
      BY <2>1, <2>3, <2>4, <3>1
  <2>5. CASE HasNode(new, p) /\ HasNode(new, q)
    <3> DEFINE i == IdOf(new, p)
               j == IdOf(new, q)
    <3>1. i \in DOMAIN new /\ new[i].path = p /\ j \in DOMAIN new /\ new[j].path = q
      BY <2>5, IdOfHas
    <3>2. Edges(new, p, q) = CountIn(new[i].out_edges, {j})
            /\ Edges(ns2, p, q) = CountIn(ns2[i].out_edges, {j})
      BY <2>2, <2>5 DEF Edges
    <3> HIDE DEF i, j
    <3>3. (i = id <=> p = x) /\ (to \in {j} <=> q = o)
      BY <1>3, <1>4, <3>1 DEF UniquePaths
    <3>4. new[i].out_edges \in Seq(1 .. Len(new)) /\ to \in 1 .. Len(new)
      BY <1>3, <1>4, <1>6, <3>1
    <3>5. CountIn(new[i].out_edges, {j}) \in Nat
      BY <3>4, CountIsUpto
    <3>6. CASE i = id
      <4>1. ns2[i].out_edges = Append(new[i].out_edges, to)
        BY <1>6, <3>1, <3>6
      <4>2. CountIn(Append(new[i].out_edges, to), {j}) =
              CountIn(new[i].out_edges, {j}) + IF to \in {j} THEN 1 ELSE 0
        BY <3>4, CountAppend
      <4> QED
        BY <2>1, <3>2, <3>3, <3>6, <4>1, <4>2
    <3>7. CASE i # id
      <4>1. ns2[i].out_edges = new[i].out_edges
        BY <1>6, <3>1, <3>7
      <4> QED
        BY <2>1, <3>2, <3>3, <3>5, <3>7, <4>1
    <3> QED
      BY <3>6, <3>7
  <2> QED
    BY <2>4, <2>5
<1>16. Connected(ns, x, o) = ns2
  BY DEF Connected, ns2, new, id, to
<1> HIDE DEF ns2
<1> QED
  BY <1>14, <1>15, <1>16 DEF OneMoreEdge, o, m

-----------------------------------------------------------------------------
(* Definitions. *)

LEMMA EmplacedDefinitions ==
  ASSUME NEW defs, IsDefinitions(defs), NEW key \in STRING, NEW val \in DOMAIN Parts
  PROVE  IsDefinitions(Emplaced(defs, key, val))
<1> DEFINE new == Emplaced(defs, key, val)
<1>1. DOMAIN new = DOMAIN defs \cup {key} /\ new \in [DOMAIN new -> DOMAIN Parts]
  BY DEF Emplaced, IsDefinitions
<1>2. IsFiniteSet(DOMAIN new)
  BY <1>1, FS_AddElement DEF IsDefinitions
<1> HIDE DEF new
<1>3. IsDefinitions(new)
  BY <1>1, <1>2 DEF IsDefinitions
<1> QED
  BY <1>3 DEF new

\* Definitions, as a set.
SomeDefinitions == UNION {[D -> DOMAIN Parts] : D \in SUBSET STRING}

\* What the recursive function of WithOverrides has as its values.
Overrides(table, defs, words) ==
  /\ table[0] = defs
  /\ \A k \in 1 .. Len(words) : table[k] = Emplaced(table[k - 1], words[k].key, words[k].val)
  /\ WithOverrides(defs, words) = table[Len(words)]

LEMMA OverrideRecursion ==
  ASSUME NEW words \in Seq(Definition), NEW defs \in SomeDefinitions
  PROVE  \E table \in [0 .. Len(words) -> SomeDefinitions] : Overrides(table, defs, words)
<1> DEFINE n == Len(words)
           s == [k \in 1 .. n |-> [u \in SomeDefinitions |-> Emplaced(u, words[k].key, words[k].val)]]
           body(f) == [k \in 0 .. n |-> IF k = 0 THEN defs ELSE Emplaced(f[k - 1], words[k].key, words[k].val)]
           table == CHOOSE f : f = body(f)
<1>1. n \in Nat /\ defs \in SomeDefinitions
  BY LenProperties
<1>2. s \in [1 .. n -> [SomeDefinitions -> SomeDefinitions]]
  <2>1. ASSUME NEW k \in 1 .. n, NEW u \in SomeDefinitions
        PROVE  Emplaced(u, words[k].key, words[k].val) \in SomeDefinitions
    <3>1. words[k] \in Definition
      BY ElementOfSeq
    <3>2. PICK D \in SUBSET STRING : u \in [D -> DOMAIN Parts]
      BY DEF SomeDefinitions
    <3>3. Emplaced(u, words[k].key, words[k].val) \in
            [D \cup {words[k].key} -> DOMAIN Parts]
      BY <3>1, <3>2 DEF Emplaced, Definition
    <3>4. D \cup {words[k].key} \in SUBSET STRING
      BY <3>1 DEF Definition
    <3> QED
      BY <3>3, <3>4 DEF SomeDefinitions
  <2> QED
    BY <2>1
<1>3. PICK f \in [0 .. n -> SomeDefinitions] : Iterates(f, defs, n, s)
  <2> HIDE DEF s, n
  <2> QED
    BY <1>1, <1>2, Recursion, Zenon
<1>4. f[0] = defs /\ \A k \in 1 .. n : f[k] = Emplaced(f[k - 1], words[k].key, words[k].val)
  <2>1. ASSUME NEW k \in 1 .. n PROVE f[k] = Emplaced(f[k - 1], words[k].key, words[k].val)
    <3>1. f[k] = s[k][f[k - 1]]
      BY <1>3 DEF Iterates
    <3>2. f[k - 1] \in SomeDefinitions
      BY <1>3
    <3> QED
      BY <3>1, <3>2
  <2>2. f[0] = defs
    BY <1>3 DEF Iterates
  <2> HIDE DEF n, s
  <2> QED
    BY <2>1, <2>2
<1>5. f = body(f)
  <2>1. f = [k \in 0 .. n |-> f[k]]
    BY <1>3
  <2> HIDE DEF s, n
  <2>2. ASSUME NEW k \in 0 .. n
        PROVE  f[k] = IF k = 0 THEN defs ELSE Emplaced(f[k - 1], words[k].key, words[k].val)
    <3>1. CASE k = 0
      BY <3>1, <1>4
    <3>2. CASE k # 0
      <4>1. k \in 1 .. n
        BY <1>1, <3>2
      <4> QED
        BY <4>1, <3>2, <1>4
    <3> QED
      BY <3>1, <3>2
  <2> QED
    BY <2>1, <2>2
<1>6. table = body(table)
  <2> HIDE DEF body
  <2> QED
    BY <1>5
<1>7. WithOverrides(defs, words) = table[n]
  BY DEF WithOverrides
<1>8. ASSUME NEW k \in 0 .. n PROVE table[k] = f[k]
  <2> DEFINE Same == {j \in 0 .. n : table[j] = f[j]}
  <2> HIDE DEF table, s, n
  <2>1. 0 \in Same
    <3>1. table[0] = defs
      BY <1>1, <1>6
    <3> QED
      BY <3>1, <1>1, <1>4
  <2>2. ASSUME NEW j \in 1 .. n, j - 1 \in Same PROVE j \in Same
    <3>1. table[j] = body(table)[j] /\ j \in 0 .. n /\ j # 0
      <4> HIDE DEF body
      <4> QED
        BY <1>1, <1>6
    <3>2. table[j] = Emplaced(table[j - 1], words[j].key, words[j].val)
      BY <3>1
    <3> QED
      BY <3>1, <3>2, <2>2, <1>4
  <2>3. \A j \in 0 .. n : j \in Same
    <3> HIDE DEF Same
    <3> QED
      BY <1>1, <2>1, <2>2, SetInduction
  <2> QED
    BY <2>3
<1>9. WithOverrides(defs, words) = f[n]
  <2> HIDE DEF table, s, n
  <2> QED
    BY <1>1, <1>7, <1>8
<1> QED
  <2> HIDE DEF s
  <2>1. Overrides(f, defs, words)
    BY <1>4, <1>9 DEF Overrides
  <2> QED
    BY <1>3, <2>1

\* A key that is defined keeps its value; another gets that of the first word
\* that defines it.
LEMMA OverridesFirst ==
  ASSUME NEW words \in Seq(Definition), NEW defs, IsDefinitions(defs)
  PROVE  LET new == WithOverrides(defs, words)
         IN  /\ IsDefinitions(new)
             /\ \A k \in DOMAIN defs : k \in DOMAIN new /\ new[k] = defs[k]
             /\ \A k \in DOMAIN new : k \notin DOMAIN defs =>
                  \E i \in DOMAIN words :
                    /\ words[i].key = k /\ new[k] = words[i].val
                    /\ \A j \in DOMAIN words : words[j].key = k => i <= j
<1>1. defs \in SomeDefinitions
  BY DEF IsDefinitions, SomeDefinitions
<1>2. PICK table \in [0 .. Len(words) -> SomeDefinitions] : Overrides(table, defs, words)
  BY <1>1, OverrideRecursion, Zenon
<1> DEFINE n == Len(words)
           From(d, k, m) == \E i \in 1 .. m :
                              /\ words[i].key = k /\ d[k] = words[i].val
                              /\ \A j \in 1 .. m : words[j].key = k => i <= j
           Fine == {m \in 0 .. n :
                      /\ IsDefinitions(table[m])
                      /\ \A k \in DOMAIN defs : k \in DOMAIN table[m]
                                              /\ table[m][k] = defs[k]
                      /\ \A j \in 1 .. m : words[j].key \in DOMAIN table[m]
                      /\ \A k \in DOMAIN table[m] : k \notin DOMAIN defs =>
                           From(table[m], k, m)}
<1>3. n \in Nat /\ DOMAIN words = 1 .. n
  BY LenProperties
<1>4. 0 \in Fine
  BY <1>2, <1>3 DEF Overrides
<1>5. ASSUME NEW m \in 1 .. n, m - 1 \in Fine PROVE m \in Fine
  <2> DEFINE d == table[m - 1]
             key == words[m].key
             val == words[m].val
             new == table[m]
  <2>1. new = Emplaced(d, key, val)
    BY <1>2 DEF Overrides
  <2>2. key \in STRING /\ val \in DOMAIN Parts
    <3>1. words[m] \in Definition
      BY ElementOfSeq
    <3> QED
      BY <3>1 DEF Definition
  <2>3. /\ IsDefinitions(d)
        /\ \A k \in DOMAIN defs : k \in DOMAIN d /\ d[k] = defs[k]
        /\ \A j \in 1 .. m - 1 : words[j].key \in DOMAIN d
        /\ \A k \in DOMAIN d : k \notin DOMAIN defs => From(d, k, m - 1)
    BY <1>5
  <2> HIDE DEF d, new, key, val
  <2>4. /\ DOMAIN new = DOMAIN d \cup {key} /\ IsDefinitions(new)
        /\ \A k \in DOMAIN d : new[k] = d[k]
        /\ key \notin DOMAIN d => new[key] = val
    <3>1. IsDefinitions(Emplaced(d, key, val))
      BY <2>2, <2>3, EmplacedDefinitions
    <3>2. /\ DOMAIN Emplaced(d, key, val) = DOMAIN d \cup {key}
          /\ \A k \in DOMAIN d : Emplaced(d, key, val)[k] = d[k]
          /\ key \notin DOMAIN d => Emplaced(d, key, val)[key] = val
      BY DEF Emplaced
    <3> QED
      BY <2>1, <3>1, <3>2
  <2>5. \A j \in 1 .. m : j \in 1 .. m - 1 \/ j = m
    BY <1>3
  <2>6. \A j \in 1 .. m : words[j].key \in DOMAIN new
    BY <2>3, <2>4, <2>5 DEF key
  <2>7. ASSUME NEW k \in DOMAIN new, k \notin DOMAIN defs PROVE From(new, k, m)
    <3>1. CASE k \in DOMAIN d
      <4>1. PICK i \in 1 .. m - 1 :
              /\ words[i].key = k /\ d[k] = words[i].val
              /\ \A j \in 1 .. m - 1 : words[j].key = k => i <= j
        BY <2>3, <2>7, <3>1
      <4>2. i \in 1 .. m /\ i <= m
        BY <1>3
      <4>3. new[k] = words[i].val
        BY <2>4, <3>1, <4>1
      <4>4. \A j \in 1 .. m : words[j].key = k => i <= j
        BY <2>5, <4>1, <4>2
      <4> QED
        BY <4>1, <4>2, <4>3, <4>4
    <3>2. CASE k \notin DOMAIN d
      <4>1. k = key /\ new[k] = val /\ m \in 1 .. m
        BY <1>3, <2>4, <3>2
      <4>2. \A j \in 1 .. m : words[j].key = k => m <= j
        BY <2>3, <2>5, <3>2, <1>3
      <4> QED
        BY <4>1, <4>2 DEF key, val
    <3> QED
      BY <3>1, <3>2
  <2>8. \A k \in DOMAIN defs : k \in DOMAIN new /\ new[k] = defs[k]
    BY <2>3, <2>4
  <2> HIDE DEF From
  <2>9. m \in 0 .. n
    BY <1>3
  <2> QED
    BY <2>4, <2>6, <2>7, <2>8, <2>9 DEF new
<1>6. \A m \in 0 .. n : m \in Fine
  <2> HIDE DEF Fine, n
  <2> QED
    BY <1>3, <1>4, <1>5, SetInduction
<1>7. n \in Fine /\ WithOverrides(defs, words) = table[n]
  <2>1. n \in 0 .. n
    BY <1>3
  <2>2. n \in Fine
    <3> HIDE DEF Fine
    <3> QED
      BY <1>6, <2>1
  <2> QED
    BY <1>2, <2>2 DEF Overrides
<1> QED
  BY <1>3, <1>7

-----------------------------------------------------------------------------
(* The inductive invariant is one: what a step leaves alone. *)

LEMMA NoEdgesYet ==
  ASSUME NEW ns, NEW p, NEW q, ns = <<>>
  PROVE  Edges(ns, p, q) = 0 /\ IsGraph(ns, <<>>)
<1>1. DOMAIN ns = {} /\ ns \in Seq(NodeRecord(Len(ns), 0)) /\ Len(<<>>) = 0
        /\ DOMAIN <<>> = {} /\ <<>> \in Seq(StepRecord(Atom))
  BY EmptySeq
<1>2. Edges(ns, p, q) = 0
  BY <1>1 DEF Edges, HasNode
<1> QED
  BY <1>1, <1>2 DEF IsGraph

LEMMA FilesKept ==
  ASSUME UNCHANGED <<lines, depfile>>
  PROVE  /\ UNCHANGED next => StepLines' = StepLines
         /\ \A line : StepOf(line)' = StepOf(line)
         /\ \A line, p : Mentions(line, p)' = Mentions(line, p)
<1>1. UNCHANGED next => StepLines' = StepLines
  BY DEF StepLines
<1>2. ASSUME NEW line PROVE StepOf(line)' = StepOf(line)
  BY DEF StepOf, Discovered
<1>3. ASSUME NEW line, NEW p PROVE Mentions(line, p)' = Mentions(line, p)
  BY DEF Mentions, ListedBy
<1> QED
  BY <1>1, <1>2, <1>3

\* The sets of lines read when one more is read.
LEMMA LinesRead ==
  ASSUME FilesInv, next <= Len(lines), lines' = lines, next' = next + 1
  PROVE  /\ lines[next] \in Line /\ next \in 1 .. next /\ next + 1 \in 1 .. Len(lines) + 1
         /\ 1 .. next' - 1 = (1 .. next - 1) \cup {next} /\ next \notin 1 .. next - 1
         /\ StepLines' = StepLines \cup {i \in {next} : lines[i].kind = "step"}
         /\ \A k : DefLines(k)' = DefLines(k) \cup
                     {i \in {next} : lines[i].kind = "def" /\ lines[i].key = k}
<1>1. Len(lines) \in Nat /\ next \in 1 .. Len(lines) /\ next \in Nat
        /\ lines[next] \in Line
  BY LenProperties, ElementOfSeq DEF FilesInv
<1>2. 1 .. next' - 1 = (1 .. next - 1) \cup {next} /\ next \notin 1 .. next - 1
  BY <1>1
<1>3. StepLines' = StepLines \cup {i \in {next} : lines[i].kind = "step"}
  BY <1>2 DEF StepLines
<1>4. ASSUME NEW k
      PROVE  DefLines(k)' = DefLines(k) \cup
               {i \in {next} : lines[i].kind = "def" /\ lines[i].key = k}
  BY <1>2 DEF DefLines
<1> QED
  BY <1>1, <1>2, <1>3, <1>4

LEMMA BinKept ==
  ASSUME bin # NoBin => BinInv, UNCHANGED <<files, next, todo, bin, saved>>
  PROVE  (bin # NoBin => BinInv)'
<1> SUFFICES ASSUME bin # NoBin PROVE BinInv'
  OBVIOUS
<1>0. UNCHANGED <<lines, depfile, next, todo, bin, saved>>
  BY DEF files
<1>1. /\ StepLines' = StepLines
      /\ \A line : StepOf(line)' = StepOf(line)
      /\ \A line, p : Mentions(line, p)' = Mentions(line, p)
  BY <1>0, FilesKept
<1>2. StepsOfLines(saved.steps)'
  BY <1>0, <1>1 DEF BinInv, StepsOfLines
<1>3. EdgesOfLines(saved.nodes, saved.steps, <<>>)'
  BY <1>0, <1>1 DEF BinInv, EdgesOfLines
<1>4. PICK defs : DefinitionsOfLines(defs) /\ bin = EmitBin(defs, saved.nodes, saved.steps)
  BY DEF BinInv
<1>5. DefinitionsOfLines(defs)'
  BY <1>0, <1>4 DEF DefinitionsOfLines, DefLines
<1>6. bin' = EmitBin(defs, saved'.nodes, saved'.steps)
  BY <1>0, <1>4
<1> QED
  BY <1>0, <1>2, <1>3, <1>5, <1>6 DEF BinInv

LEMMA ParsingKept ==
  ASSUME ParsingInv, UNCHANGED <<lines, depfile, next, todo, graph, definitions, bin>>
  PROVE  ParsingInv'
<1>0. UNCHANGED <<lines, depfile, next, todo, nodes, steps, definitions, bin>>
  BY DEF graph
<1>1. /\ StepLines' = StepLines
      /\ \A line : StepOf(line)' = StepOf(line)
      /\ \A line, p : Mentions(line, p)' = Mentions(line, p)
  BY <1>0, FilesKept
<1>2. StepsOfLines(steps)'
  BY <1>0, <1>1 DEF ParsingInv, StepsOfLines
<1>3. EdgesOfLines(nodes, steps, todo)'
  BY <1>0, <1>1 DEF ParsingInv, EdgesOfLines
<1>4. DefinitionsOfLines(definitions)'
  BY <1>0 DEF ParsingInv, DefinitionsOfLines, DefLines
<1> QED
  BY <1>0, <1>2, <1>3, <1>4 DEF ParsingInv

LEMMA InitInv == Init => IInv
<1> SUFFICES ASSUME Init PROVE IInv
  OBVIOUS
<1>1. FilesInv
  <2>1. PICK world \in Worlds : argv = world.argv /\ lines = world.lines
                                /\ depfile = world.depfile
                                /\ estimates = world.estimates
    BY DEF Init
  <2>2. estimates \in Seq(EstimateLine) /\ lines \in Seq(Line) /\ argv \in Seq(STRING)
          /\ \A f \in DOMAIN depfile : depfile[f] \in Seq(Symbol)
    BY <2>1, BuildGraphAssumption
  <2>3. args \in ArgsRecord(Definition, STRING)
    BY ReadingType, BuildGraphAssumption DEF Init
  <2>4. next \in 1 .. Len(lines) + 1
    BY <2>2, LenProperties DEF Init
  <2>5. todo \in Seq(Name)
    BY EmptySeq DEF Init
  <2> QED
    BY <2>2, <2>3, <2>4, <2>5 DEF Init, FilesInv
<1> QED
  BY <1>1 DEF Init, IInv, IdleInv, NoBin

-----------------------------------------------------------------------------
(* The inductive invariant is one: action by action. *)

LEMMA ReadArgumentsInv == ASSUME IInv, ReadArguments PROVE IInv'
<1> DEFINE r == CliArgs(argv)
<1>1. /\ phase = "arguments" /\ FilesInv /\ IdleInv
      /\ UNCHANGED <<argv, files, next, todo, graph, definitions, bin, saved>>
      /\ args' = IF r.outcome = "ok" THEN r.args ELSE args
      /\ phase' \in {"helped", "refused", "parsing", "loading"}
      /\ phase' = "parsing" => bin = NoBin
      /\ phase' = "loading" => bin # NoBin
  <2>1. r \in ReadingRecord(Definition, STRING)
    BY CliArgsType, BuildGraphAssumption DEF IInv, FilesInv
  <2>2. r.outcome \in {"ok", "help", "error"}
    BY <2>1 DEF ReadingRecord
  <2> HIDE DEF r
  <2> QED
    BY <2>2 DEF ReadArguments, r, IInv
<1>2. UNCHANGED <<argv, lines, depfile, estimates, next, todo, nodes, steps, definitions,
                  bin, saved>>
  BY <1>1 DEF files, graph
<1>3. FilesInv'
  <2>1. r \in ReadingRecord(Definition, STRING)
    BY CliArgsType, BuildGraphAssumption, <1>1 DEF FilesInv
  <2>2. args' \in ArgsRecord(Definition, STRING)
    BY <1>1, <2>1 DEF FilesInv, ReadingRecord
  <2> HIDE DEF r
  <2> QED
    BY <1>1, <1>2, <2>2 DEF FilesInv
<1>4. (bin # NoBin => BinInv)'
  BY <1>1, BinKept DEF IInv
<1>5. IdleInv'
  BY <1>1, <1>2 DEF IdleInv
<1>6. ASSUME phase' = "parsing" PROVE ParsingInv'
  <2>1. /\ nodes' = <<>> /\ steps' = <<>> /\ todo' = <<>> /\ definitions' = <<>>
        /\ next' = 1 /\ bin' = NoBin
    BY <1>1, <1>2, <1>6 DEF IdleInv
  <2>2. IsGraph(nodes', steps')
    BY <2>1, NoEdgesYet
  <2>3. StepLines' = {} /\ \A k : DefLines(k)' = {}
    BY <2>1 DEF StepLines, DefLines
  <2>4. StepsOfLines(steps)' /\ EdgesOfLines(nodes, steps, todo)'
    BY <2>1, <2>3 DEF StepsOfLines, EdgesOfLines
  <2>5. DefinitionsOfLines(definitions)'
    <3>1. DOMAIN definitions' = {} /\ definitions' \in [{} -> DOMAIN Parts]
      BY <2>1
    <3> QED
      BY <2>1, <3>1, FS_EmptySet DEF DefinitionsOfLines, IsDefinitions
  <2> QED
    BY <2>1, <2>2, <2>4, <2>5 DEF ParsingInv
<1> QED
  <2> HIDE DEF r
  <2> QED
    BY <1>1, <1>2, <1>3, <1>4, <1>5, <1>6 DEF IInv

\* What is common to the steps that stay in the parse.
LEMMA StillParsing ==
  ASSUME IInv, phase = "parsing", UNCHANGED <<argv, files, args, bin, phase>>,
         next' \in 1 .. Len(lines) + 1, todo' \in Seq(Name), ParsingInv'
  PROVE  IInv'
<1>1. FilesInv'
  BY DEF IInv, FilesInv, files
<1>2. bin' = NoBin
  BY DEF IInv, ParsingInv
<1> QED
  BY <1>1, <1>2 DEF IInv

LEMMA AddDefinitionInv == ASSUME IInv, AddDefinition PROVE IInv'
<1>1. /\ AtLine("def") /\ FilesInv /\ ParsingInv /\ phase = "parsing" /\ todo = <<>>
      /\ next <= Len(lines) /\ lines[next].kind = "def"
      /\ definitions' = Emplaced(definitions, lines[next].key, lines[next].val)
      /\ next' = next + 1 /\ UNCHANGED <<lines, depfile, todo, nodes, steps, bin, phase>>
  BY DEF IInv, AddDefinition, AtLine, files, graph
<1> DEFINE key == lines[next].key
           val == lines[next].val
<1>2. /\ lines[next] \in Line /\ next \in 1 .. next /\ next' \in 1 .. Len(lines) + 1
      /\ 1 .. next' - 1 = (1 .. next - 1) \cup {next} /\ next \notin 1 .. next - 1
      /\ StepLines' = StepLines \cup {i \in {next} : lines[i].kind = "step"}
      /\ \A k : DefLines(k)' = DefLines(k) \cup
                  {i \in {next} : lines[i].kind = "def" /\ lines[i].key = k}
  BY <1>1, LinesRead
<1>3. StepLines' = StepLines
  BY <1>1, <1>2
<1>4. (\A line : StepOf(line)' = StepOf(line))
      /\ (\A line, p : Mentions(line, p)' = Mentions(line, p))
  BY <1>1, FilesKept
<1>5. StepsOfLines(steps)'
  BY <1>1, <1>3, <1>4 DEF ParsingInv, StepsOfLines
<1>6. EdgesOfLines(nodes, steps, todo)'
  BY <1>1, <1>3, <1>4 DEF ParsingInv, EdgesOfLines
<1>7. key \in STRING /\ val \in DOMAIN Parts
  BY <1>1, <1>2 DEF Line
<1> HIDE DEF key, val
<1>8. /\ DOMAIN definitions' = DOMAIN definitions \cup {key}
      /\ \A k \in DOMAIN definitions : definitions'[k] = definitions[k]
      /\ key \notin DOMAIN definitions => definitions'[key] = val
      /\ IsDefinitions(definitions')
  <2>1. IsDefinitions(definitions)
    BY <1>1 DEF ParsingInv, DefinitionsOfLines
  <2>2. definitions' = Emplaced(definitions, key, val)
    BY <1>1 DEF key, val
  <2>3. IsDefinitions(Emplaced(definitions, key, val))
    BY <1>7, <2>1, EmplacedDefinitions
  <2>4. /\ DOMAIN Emplaced(definitions, key, val) = DOMAIN definitions \cup {key}
        /\ \A k \in DOMAIN definitions :
             Emplaced(definitions, key, val)[k] = definitions[k]
        /\ key \notin DOMAIN definitions => Emplaced(definitions, key, val)[key] = val
    BY DEF Emplaced
  <2> QED
    BY <2>2, <2>3, <2>4
<1>9. /\ \A k \in DOMAIN definitions : \E i \in DefLines(k) :
           (\A j \in DefLines(k) : i <= j) /\ definitions[k] = lines[i].val
      /\ \A i \in 1 .. next - 1 : lines[i].kind = "def" => lines[i].key \in DOMAIN definitions
  BY <1>1 DEF ParsingInv, DefinitionsOfLines
<1>10. ASSUME NEW k \in DOMAIN definitions'
       PROVE  \E i \in DefLines(k)' :
                (\A j \in DefLines(k)' : i <= j) /\ definitions'[k] = lines'[i].val
  <2>1. next \in Nat /\ \A j \in DefLines(k) : j \in 1 .. next - 1
    BY <1>1 DEF FilesInv, DefLines
  <2>2. \A j \in DefLines(k)' : j \in DefLines(k) \/ j = next
    BY <1>2
  <2>3. CASE k \in DOMAIN definitions
    <3>1. PICK i \in DefLines(k) :
            (\A j \in DefLines(k) : i <= j) /\ definitions[k] = lines[i].val
      BY <1>9, <2>3
    <3>2. i \in DefLines(k)' /\ i <= next
      BY <1>2, <2>1
    <3>3. \A j \in DefLines(k)' : i <= j
      BY <2>2, <3>1, <3>2
    <3> QED
      BY <1>1, <1>8, <2>3, <3>1, <3>2, <3>3
  <2>4. CASE k \notin DOMAIN definitions
    <3>1. k = key /\ definitions'[k] = val
      BY <1>8, <2>4
    <3>2. next \in DefLines(k)'
      BY <1>1, <1>2, <3>1 DEF key
    <3>3. DefLines(k) = {}
      BY <1>9, <2>4 DEF DefLines
    <3>4. \A j \in DefLines(k)' : next <= j
      BY <2>1, <2>2, <3>3
    <3> QED
      BY <1>1, <3>1, <3>2, <3>4 DEF val
  <2> QED
    BY <2>3, <2>4
<1>11. ASSUME NEW i \in 1 .. next' - 1, lines'[i].kind = "def"
       PROVE  lines'[i].key \in DOMAIN definitions'
  <2>1. CASE i = next
    BY <1>1, <1>8, <2>1 DEF key
  <2>2. CASE i # next
    BY <1>1, <1>2, <1>8, <1>9, <1>11, <2>2
  <2> QED
    BY <2>1, <2>2
<1>12. DefinitionsOfLines(definitions)'
  BY <1>8, <1>10, <1>11 DEF DefinitionsOfLines
<1>13. ParsingInv'
  BY <1>1, <1>5, <1>6, <1>12 DEF ParsingInv
<1>14. todo' \in Seq(Name) /\ UNCHANGED <<argv, files, args, bin, phase>>
  BY <1>1 DEF AddDefinition, FilesInv
<1> QED
  BY <1>1, <1>2, <1>13, <1>14, StillParsing

\* A file has a producer if a line read so far describes its step.
LEMMA ProducedByLines ==
  ASSUME NEW ns, NEW ss, IsGraph(ns, ss), StepsOfLines(ss), NEW p
  PROVE  HasProducer(ns, p) <=> \E i \in StepLines : lines[i].output = p
<1>1. ASSUME NEW line PROVE StepOf(line).output = line.output
  BY DEF StepOf
<1>2. Len(ss) \in Nat /\ DOMAIN ss = 1 .. Len(ss) /\ UniquePaths(ns)
        /\ ns \in Seq(NodeRecord(Len(ns), Len(ss)))
  BY LenProperties DEF IsGraph, UniquePaths
<1>3. ASSUME HasProducer(ns, p) PROVE \E i \in StepLines : lines[i].output = p
  <2> DEFINE id == IdOf(ns, p)
  <2>1. id \in DOMAIN ns /\ ns[id].path = p /\ ns[id].step_id # NoStep
    BY <1>3, IdOfHas DEF HasProducer
  <2> HIDE DEF id
  <2>2. ns[id].step_id \in DOMAIN ss
    BY <1>2, <2>1, NodeFields DEF NoStep
  <2>3. ss[ns[id].step_id].output = p
    BY <2>1 DEF IsGraph
  <2>4. PICK i \in StepLines : ss[ns[id].step_id] = StepOf(lines[i])
    BY <2>2 DEF StepsOfLines
  <2> QED
    BY <1>1, <2>3, <2>4
<1>4. ASSUME NEW i \in StepLines, lines[i].output = p PROVE HasProducer(ns, p)
  <2>1. PICK k \in DOMAIN ss : ss[k] = StepOf(lines[i])
    BY DEF StepsOfLines
  <2>2. PICK j \in DOMAIN ns : ns[j].step_id = k
    BY DEF IsGraph
  <2>3. ns[j].step_id # NoStep
    BY <1>2, <2>2 DEF NoStep
  <2>4. ns[j].path = p
    BY <1>1, <1>4, <2>1, <2>2, <2>3 DEF IsGraph
  <2>5. HasNode(ns, p) /\ IdOf(ns, p) = j
    BY <1>2, <2>4, IdOfIs DEF UniquePaths
  <2> QED
    BY <2>3, <2>5 DEF HasProducer
<1> QED
  BY <1>3, <1>4

\* The parse ends with an error.
LEMMA FailedParse ==
  ASSUME IInv, phase = "parsing", phase' = "error",
         UNCHANGED <<argv, files, args, next, todo, graph, definitions, bin, saved>>,
         ErrorInv
  PROVE  IInv'
<1>1. /\ FilesInv /\ ParsingInv /\ bin = NoBin
      /\ UNCHANGED <<argv, lines, depfile, estimates, args, next, todo, bin>>
  BY DEF IInv, ParsingInv, files
<1>2. FilesInv'
  BY <1>1 DEF FilesInv
<1>3. ParsingInv'
  BY <1>1, ParsingKept
<1>4. StepLines' = StepLines
  BY <1>1, FilesKept
<1>5. ErrorInv'
  BY <1>1, <1>4 DEF ErrorInv
<1> QED
  BY <1>1, <1>2, <1>3, <1>5 DEF IInv

LEMMA MalformedInv == ASSUME IInv, Malformed PROVE IInv'
<1>1. ErrorInv /\ phase = "parsing"
  BY DEF Malformed, AtLine, ErrorInv
<1> QED
  BY <1>1, FailedParse DEF Malformed

LEMMA DuplicateProducerInv == ASSUME IInv, DuplicateProducer PROVE IInv'
<1>1. /\ phase = "parsing" /\ next <= Len(lines) /\ lines[next].kind = "step"
      /\ HasProducer(nodes, lines[next].output)
      /\ IsGraph(nodes, steps) /\ StepsOfLines(steps)
  BY DEF DuplicateProducer, AtLine, IInv, ParsingInv
<1>2. \E i \in StepLines : lines[i].output = lines[next].output
  BY <1>1, ProducedByLines
<1>3. ErrorInv
  BY <1>1, <1>2 DEF ErrorInv
<1> QED
  BY <1>1, <1>3, FailedParse DEF DuplicateProducer

LEMMA NothingPending ==
  ASSUME NEW ss, NEW p, NEW q
  PROVE  Pending(ss, <<>>, p, q) = 0
<1>1. <<>> \in Seq({}) /\ \A i \in DOMAIN <<>> : <<>>[i] \notin {p}
  BY EmptySeq
<1>2. CountIn(<<>>, {p}) = 0
  BY <1>1, CountIsUpto
<1> QED
  BY <1>2 DEF Pending

LEMMA AddStepInv == ASSUME IInv, AddStep PROVE IInv'
<1> DEFINE line == lines[next]
           st == StepOf(line)
           o == st.output
           m == Len(steps)
           ns == WithNode(nodes, o)
<1>1. /\ FilesInv /\ ParsingInv /\ phase = "parsing" /\ todo = <<>>
      /\ next <= Len(lines) /\ line.kind = "step"
      /\ ~HasProducer(nodes, line.output)
      /\ nodes' = [ns EXCEPT ![IdOf(ns, o)].step_id = Len(steps) + 1]
      /\ steps' = Append(steps, st) /\ todo' = ToConnect(st)
      /\ next' = next + 1
      /\ UNCHANGED <<argv, files, args, definitions, bin, saved, phase>>
      /\ UNCHANGED <<lines, depfile>>
  BY DEF IInv, AddStep, AtLine, files
<1>2. /\ line \in Line /\ next \in 1 .. next /\ next' \in 1 .. Len(lines) + 1
      /\ 1 .. next' - 1 = (1 .. next - 1) \cup {next} /\ next \notin 1 .. next - 1
      /\ StepLines' = StepLines \cup {i \in {next} : lines[i].kind = "step"}
      /\ \A k : DefLines(k)' = DefLines(k) \cup
                  {i \in {next} : lines[i].kind = "def" /\ lines[i].key = k}
  BY <1>1, LinesRead
<1>3. StepLines' = StepLines \cup {next} /\ next \notin StepLines
  BY <1>1, <1>2 DEF StepLines
<1>4. /\ IsStep(st) /\ st.output = line.output /\ ToConnect(st) \in Seq(Name)
      /\ \A p \in Name : CountIn(ToConnect(st), {p}) = Mentions(line, p)
  BY <1>1, <1>2, StepOfLine DEF FilesInv, IsStepLine
<1>5. (\A x : StepOf(x)' = StepOf(x)) /\ (\A x, p : Mentions(x, p)' = Mentions(x, p))
  BY <1>1, FilesKept
<1>6. IsGraph(nodes, steps) /\ StepsOfLines(steps) /\ EdgesOfLines(nodes, steps, <<>>)
        /\ DefinitionsOfLines(definitions)
  BY <1>1 DEF ParsingInv
<1>7. /\ IsGraph(nodes', steps')
      /\ \A p, q : Edges(nodes', p, q) = Edges(nodes, p, q)
      /\ \A p : Edges(nodes, p, o) = 0
  <2>1. ~HasProducer(nodes, o)
    BY <1>1, <1>4
  <2> DEFINE new == [ns EXCEPT ![IdOf(ns, o)].step_id = Len(steps) + 1]
  <2>2. nodes' = new /\ steps' = Append(steps, st)
    BY <1>1
  <2> HIDE DEF st, line
  <2>3. /\ IsGraph(new, Append(steps, st))
        /\ \A p, q : Edges(new, p, q) = Edges(nodes, p, q)
        /\ \A p : Edges(nodes, p, o) = 0
    BY <1>4, <1>6, <2>1, AddStepGraph
  <2> HIDE DEF new
  <2> QED
    BY <2>2, <2>3
<1>8. ASSUME NEW i \in StepLines PROVE lines[i].output # o
  BY <1>1, <1>4, <1>6, ProducedByLines
<1> HIDE DEF st, line, ns
<1>9. /\ m \in Nat /\ DOMAIN steps = 1 .. m /\ DOMAIN steps' = 1 .. m + 1
      /\ Len(steps') = m + 1 /\ steps' # <<>> /\ steps'[m + 1] = st
      /\ \A k \in 1 .. m : steps'[k] = steps[k]
  <2>1. steps \in Seq(StepRecord(Atom)) /\ st \in StepRecord(Atom)
    BY <1>4, <1>6 DEF IsGraph, IsStep
  <2>2. /\ m \in Nat /\ DOMAIN steps = 1 .. m /\ DOMAIN steps' = 1 .. m + 1
        /\ Len(steps') = m + 1 /\ steps'[m + 1] = st
        /\ \A k \in 1 .. m : steps'[k] = steps[k]
    BY <1>1, <2>1, AppendProperties, LenProperties
  <2> QED
    BY <2>2
<1> HIDE DEF m
<1>10. StepsOfLines(steps)'
  <2>1. ASSUME NEW k \in DOMAIN steps' PROVE \E i \in StepLines' : steps'[k] = StepOf(lines[i])
    <3>1. CASE k = m + 1
      BY <1>3, <1>9, <3>1 DEF st, line
    <3>2. CASE k # m + 1
      <4>1. k \in 1 .. m
        BY <1>9, <3>2
      <4> QED
        BY <1>3, <1>6, <1>9, <4>1 DEF StepsOfLines
    <3> QED
      BY <3>1, <3>2
  <2>2. ASSUME NEW i \in StepLines' PROVE \E k \in DOMAIN steps' : steps'[k] = StepOf(lines[i])
    <3>1. CASE i = next
      <4>1. m + 1 \in DOMAIN steps'
        BY <1>9
      <4> QED
        BY <1>9, <3>1, <4>1 DEF st, line
    <3>2. CASE i # next
      <4>1. PICK k \in DOMAIN steps : steps[k] = StepOf(lines[i])
        BY <1>3, <1>6, <3>2 DEF StepsOfLines
      <4>2. k \in DOMAIN steps' /\ steps'[k] = steps[k]
        BY <1>9
      <4> QED
        BY <4>1, <4>2
    <3> QED
      BY <3>1, <3>2
  <2>3. ASSUME NEW i \in StepLines', NEW j \in StepLines', lines[i].output = lines[j].output
        PROVE  i = j
    <3>1. lines[next].output = o
      BY <1>4 DEF line
    <3>2. \A a, b \in StepLines : lines[a].output = lines[b].output => a = b
      BY <1>6 DEF StepsOfLines
    <3>3. (i \in StepLines \/ i = next) /\ (j \in StepLines \/ j = next)
      BY <1>3
    <3> QED
      BY <1>8, <2>3, <3>1, <3>2, <3>3
  <2> QED
    BY <1>1, <1>5, <2>1, <2>2, <2>3 DEF StepsOfLines
<1>11. EdgesOfLines(nodes, steps, todo)'
  <2>1. ASSUME NEW i \in StepLines', NEW p \in Name
        PROVE  Edges(nodes', p, lines[i].output) + Pending(steps', todo', p, lines[i].output) =
                 Mentions(lines[i], p)
    <3>1. CASE i = next
      <4>1. lines[i].output = o /\ Edges(nodes', p, o) = 0
        BY <1>4, <1>7, <3>1 DEF line
      <4>2. Pending(steps', todo', p, o) = CountIn(ToConnect(st), {p})
        BY <1>1, <1>9 DEF Pending
      <4>3. CountIn(ToConnect(st), {p}) \in Nat
        BY <1>4, CountIsUpto
      <4> QED
        BY <1>4, <3>1, <4>1, <4>2, <4>3 DEF line
    <3>2. CASE i # next
      <4>1. i \in StepLines
        BY <1>3, <3>2
      <4>2. Edges(nodes, p, lines[i].output) + Pending(steps, <<>>, p, lines[i].output) =
              Mentions(lines[i], p)
        BY <1>6, <4>1 DEF EdgesOfLines
      <4>3. Pending(steps, <<>>, p, lines[i].output) = 0
        BY NothingPending
      <4>4. Pending(steps', todo', p, lines[i].output) = 0
        BY <1>8, <1>9, <4>1 DEF Pending
      <4> QED
        BY <1>7, <4>2, <4>3, <4>4
    <3> QED
      BY <3>1, <3>2
  <2> QED
    BY <1>1, <1>5, <2>1 DEF EdgesOfLines
<1>12. DefinitionsOfLines(definitions)'
  <2>1. \A k : DefLines(k)' = DefLines(k)
    BY <1>1, <1>2 DEF line
  <2>2. \A i \in 1 .. next' - 1 : lines[i].kind = "def" => i \in 1 .. next - 1
    BY <1>1, <1>2 DEF line
  <2> QED
    BY <1>1, <1>6, <2>1, <2>2 DEF DefinitionsOfLines
<1>13. ParsingInv'
  BY <1>1, <1>7, <1>9, <1>10, <1>11, <1>12 DEF ParsingInv
<1> QED
  BY <1>1, <1>2, <1>4, <1>13, StillParsing

\* What is counted in a sequence is its head or in its tail.
LEMMA CountHeadTail ==
  ASSUME NEW T, NEW seq \in Seq(T), seq # <<>>, NEW P
  PROVE  /\ Head(seq) \in T /\ Tail(seq) \in Seq(T)
         /\ CountIn(seq, P) = (IF Head(seq) \in P THEN 1 ELSE 0) + CountIn(Tail(seq), P)
<1>1. /\ Head(seq) \in T /\ Tail(seq) \in Seq(T) /\ seq = <<Head(seq)>> \o Tail(seq)
      /\ <<Head(seq)>> \in Seq(T)
  OBVIOUS
<1>2. CountIn(<<Head(seq)>> \o Tail(seq), P) =
        CountIn(<<Head(seq)>>, P) + CountIn(Tail(seq), P)
  BY <1>1, CountConcat
<1>3. CountIn(<<Head(seq)>>, P) = IF Head(seq) \in P THEN 1 ELSE 0
  BY CountOne
<1> QED
  BY <1>1, <1>2, <1>3

LEMMA ConnectInv == ASSUME IInv, Connect PROVE IInv'
<1> DEFINE x == Head(todo)
           o == steps[Len(steps)].output
           new == Connected(nodes, x, o)
<1>1. /\ FilesInv /\ ParsingInv /\ phase = "parsing" /\ todo # <<>> /\ todo \in Seq(Name)
      /\ nodes' = new /\ todo' = Tail(todo)
      /\ UNCHANGED <<argv, lines, depfile, args, next, steps, definitions, bin, phase>>
      /\ UNCHANGED files
  BY DEF IInv, Connect, files, FilesInv, EdgeTo, Connected
<1>2. x \in Name /\ Tail(todo) \in Seq(Name)
  BY <1>1, CountHeadTail
<1>3. IsGraph(nodes, steps) /\ StepsOfLines(steps) /\ EdgesOfLines(nodes, steps, todo)
        /\ DefinitionsOfLines(definitions) /\ steps # <<>>
  BY <1>1 DEF ParsingInv
<1> HIDE DEF x
<1>4. IsGraph(new, steps) /\ OneMoreEdge(new, nodes, x, o)
  BY <1>2, <1>3, ConnectGraph
<1> HIDE DEF new, o
<1>5. /\ StepLines' = StepLines
      /\ \A line : StepOf(line)' = StepOf(line)
      /\ \A line, p : Mentions(line, p)' = Mentions(line, p)
  BY <1>1, FilesKept
<1>6. StepsOfLines(steps)'
  BY <1>1, <1>3, <1>5 DEF StepsOfLines
<1>7. ASSUME NEW i \in StepLines, NEW p \in Name
      PROVE  Edges(new, p, lines[i].output) + Pending(steps, Tail(todo), p, lines[i].output) =
               Mentions(lines[i], p)
  <2> DEFINE q == lines[i].output
  <2>1. Edges(nodes, p, q) + Pending(steps, todo, p, q) = Mentions(lines[i], p)
    BY <1>3 DEF EdgesOfLines
  <2>2. Edges(nodes, p, q) \in Nat
    <3>1. CASE HasNode(nodes, p) /\ HasNode(nodes, q)
      <4>1. IdOf(nodes, p) \in DOMAIN nodes
        BY <3>1, IdOfHas
      <4>2. nodes[IdOf(nodes, p)].out_edges \in Seq(1 .. Len(nodes))
        BY <1>3, <4>1, LenProperties, NodeFields DEF IsGraph
      <4> QED
        BY <3>1, <4>2, CountIsUpto DEF Edges
    <3>2. CASE ~(HasNode(nodes, p) /\ HasNode(nodes, q))
      BY <3>2 DEF Edges
    <3> QED
      BY <3>1, <3>2
  <2>3. CASE q = o
    <3>1. Pending(steps, todo, p, q) = CountIn(todo, {p})
            /\ Pending(steps, Tail(todo), p, q) = CountIn(Tail(todo), {p})
      BY <1>3, <2>3 DEF Pending, o
    <3>2. CountIn(todo, {p}) = (IF x \in {p} THEN 1 ELSE 0) + CountIn(Tail(todo), {p})
      BY <1>1, CountHeadTail DEF x
    <3>3. CountIn(Tail(todo), {p}) \in Nat
      BY <1>2, CountIsUpto
    <3>4. Edges(new, p, q) = Edges(nodes, p, q) + IF p = x THEN 1 ELSE 0
      BY <1>4, <2>3 DEF OneMoreEdge
    <3> HIDE DEF q
    <3> QED
      BY <2>1, <2>2, <3>1, <3>2, <3>3, <3>4 DEF q
  <2>4. CASE q # o
    <3>1. Pending(steps, todo, p, q) = 0 /\ Pending(steps, Tail(todo), p, q) = 0
      BY <2>4 DEF Pending, o
    <3>2. Edges(new, p, q) = Edges(nodes, p, q)
      BY <1>4, <2>2, <2>4 DEF OneMoreEdge
    <3> QED
      BY <2>1, <3>1, <3>2
  <2> QED
    BY <2>3, <2>4
<1>8. EdgesOfLines(nodes, steps, todo)'
  BY <1>1, <1>5, <1>7 DEF EdgesOfLines
<1>9. DefinitionsOfLines(definitions)'
  BY <1>1, <1>3 DEF DefinitionsOfLines, DefLines
<1>10. ParsingInv'
  BY <1>1, <1>3, <1>4, <1>6, <1>8, <1>9 DEF ParsingInv
<1>11. next' \in 1 .. Len(lines) + 1
  BY <1>1 DEF FilesInv
<1> QED
  BY <1>1, <1>2, <1>10, <1>11, StillParsing

LEMMA EmitBinThere ==
  ASSUME NEW defs, NEW ns, NEW ss
  PROVE  EmitBin(defs, ns, ss) # NoBin
<1>1. "strings" \in DOMAIN EmitBin(defs, ns, ss)
  BY DEF EmitBin
<1>2. DOMAIN NoBin = {}
  BY DEF NoBin
<1> QED
  BY <1>1, <1>2

LEMMA EndOfParseInv == ASSUME IInv, EndOfParse PROVE IInv'
<1>1. /\ FilesInv /\ ParsingInv /\ phase = "parsing" /\ todo = <<>> /\ next > Len(lines)
      /\ bin' = EmitBin(definitions, nodes, steps)
      /\ saved' = [nodes |-> nodes, steps |-> steps] /\ phase' = "parsed"
      /\ UNCHANGED <<argv, lines, depfile, estimates, args, next, todo, nodes, steps,
                     definitions>>
  BY DEF IInv, EndOfParse, files, graph
<1>2. IsGraph(nodes, steps) /\ StepsOfLines(steps) /\ EdgesOfLines(nodes, steps, <<>>)
        /\ DefinitionsOfLines(definitions)
  BY <1>1 DEF ParsingInv
<1>3. /\ StepLines' = StepLines
      /\ \A line : StepOf(line)' = StepOf(line)
      /\ \A line, p : Mentions(line, p)' = Mentions(line, p)
  BY <1>1, FilesKept
<1>4. saved'.nodes = nodes /\ saved'.steps = steps
  BY <1>1
<1>5. next' = Len(lines) + 1
  BY <1>1, LenProperties DEF FilesInv
<1>6. StepsOfLines(saved.steps)'
  BY <1>1, <1>2, <1>3, <1>4 DEF StepsOfLines
<1>7. EdgesOfLines(saved.nodes, saved.steps, <<>>)'
  BY <1>1, <1>2, <1>3, <1>4 DEF EdgesOfLines
<1>8. DefinitionsOfLines(definitions)'
  BY <1>1, <1>2 DEF DefinitionsOfLines, DefLines
<1>9. \E defs : DefinitionsOfLines(defs)' /\ bin' = EmitBin(defs, nodes, steps)
  BY <1>1, <1>8
<1>10. BinInv'
  BY <1>1, <1>2, <1>4, <1>5, <1>6, <1>7, <1>9 DEF BinInv
<1>11. LoadedInv'
  <2>1. /\ steps \in Seq(StepRecord(Atom))
        /\ \A i \in DOMAIN steps : SameStep(steps[i], steps[i])
    BY <1>2 DEF IsGraph, SameStep
  <2> QED
    BY <1>1, <1>4, <2>1, EmitBinThere DEF LoadedInv
<1>12. FilesInv'
  BY <1>1 DEF FilesInv
<1> QED
  BY <1>1, <1>8, <1>10, <1>11, <1>12 DEF IInv

LEMMA ApplyOverridesInv == ASSUME IInv, ApplyOverrides PROVE IInv'
<1>1. /\ FilesInv /\ LoadedInv /\ bin # NoBin /\ phase = "parsed" /\ phase' = "ready"
      /\ definitions' = WithOverrides(definitions, args.definition_overrides)
      /\ UNCHANGED <<argv, lines, depfile, estimates, args, next, todo, nodes, steps, bin,
                     saved>>
      /\ UNCHANGED <<files, next, todo, bin, saved>>
      /\ DefinitionsOfLines(definitions)
  BY DEF IInv, ApplyOverrides, files, graph, LoadedInv
<1>2. BinInv'
  BY <1>1, BinKept DEF IInv
<1>3. LoadedInv'
  BY <1>1 DEF LoadedInv
<1>4. FilesInv'
  BY <1>1 DEF FilesInv
<1>5. PICK defs : defs = definitions
  OBVIOUS
<1>6. DefinitionsOfLines(defs)'
  BY <1>1, <1>5 DEF DefinitionsOfLines, DefLines
<1>7. definitions' = WithOverrides(defs, args'.definition_overrides)
  BY <1>1, <1>5
<1> QED
  BY <1>1, <1>2, <1>3, <1>4, <1>6, <1>7 DEF IInv

LEMMA InvokeInv == ASSUME IInv, Invoke PROVE IInv'
<1>1. /\ FilesInv /\ LoadedInv /\ bin # NoBin /\ phase = "ready" /\ phase' = "arguments"
      /\ argv' \in Later /\ args' = DefaultArgs
      /\ nodes' = <<>> /\ steps' = <<>> /\ definitions' = <<>>
      /\ UNCHANGED <<lines, depfile, estimates, next, todo, bin, saved>>
      /\ UNCHANGED <<files, next, todo, bin, saved>>
  BY DEF IInv, Invoke, files, LoadedInv
<1>2. BinInv'
  BY <1>1, BinKept DEF IInv
<1>3. argv' \in Seq(STRING) /\ args' \in ArgsRecord(Definition, STRING)
  BY <1>1, BuildGraphAssumption, ReadingType
<1>4. FilesInv'
  BY <1>1, <1>3 DEF FilesInv
<1>5. IdleInv'
  BY <1>1, <1>2 DEF IdleInv, BinInv
<1> QED
  BY <1>1, <1>2, <1>4, <1>5 DEF IInv

\* A step whose line has no '!' is loaded as it was, any other without its
\* opaque inputs.
LEMMA ReloadedStep ==
  ASSUME NEW ss, StepsOfLines(ss), NEW k \in DOMAIN ss, IsStep(ss[k]), FilesInv
  PROVE  Reloaded(ss[k]) \in StepRecord(Atom) /\ SameStep(Reloaded(ss[k]), ss[k])
<1> DEFINE sv == ss[k]
           st == Reloaded(sv)
<1>1. PICK i \in StepLines : sv = StepOf(lines[i])
  BY DEF StepsOfLines
<1>2. IsStepLine(lines[i])
  BY <1>1, ElementOfSeq, LenProperties DEF StepLines, FilesInv, IsStepLine
<1> DEFINE line == lines[i]
           parts == NonEmpty(line.inputs)
           opaque == Only(parts, Bang)
<1>3. parts \in Seq(Path \cup Bang)
  BY <1>2, StepLineFields, InputsSplit
<1>4. /\ sv.inputs = line.inputs /\ sv.parsed_inputs = Only(parts, ToSet(parts) \ Bang)
      /\ sv.opaque_inputs = [j \in DOMAIN opaque |-> Unbanged(opaque[j])]
  BY <1>1 DEF StepOf
<1>5. st.parsed_inputs = parts /\ parts \in Seq(Atom)
  BY <1>3, <1>4, NamesDiffer, SeqMonotonic DEF Reloaded
<1> HIDE DEF line, parts
<1>6. ASSUME sv.opaque_inputs = <<>> PROVE sv.parsed_inputs = parts
  <2>1. DOMAIN opaque = {}
    BY <1>4, <1>6
  <2>2. opaque \in Seq(Bang)
    BY <1>3, OnlyType DEF opaque
  <2>3. opaque = <<>>
    BY <2>1, <2>2, EmptySeq, LenProperties
  <2> QED
    BY <1>3, <1>4, <2>3, OnlyNone
<1>7. sv \in StepRecord(Atom) /\ sv.output \in Path /\ sv.depfile_inputs \in Seq(Name)
  BY DEF IsStep
<1> HIDE DEF sv
<1>8. st \in StepRecord(Atom)
  <2>1. <<>> \in Seq(Atom)
    BY EmptySeq
  <2> QED
    BY <1>5, <1>7, <2>1 DEF Reloaded, StepRecord
<1>9. IsStep(st)
  BY <1>7, <1>8, EmptySeq DEF IsStep, Reloaded
<1>10. ASSUME sv.opaque_inputs = <<>> PROVE st = sv
  BY <1>5, <1>6, <1>7, <1>10 DEF Reloaded, StepRecord
<1> QED
  BY <1>8, <1>9, <1>10 DEF SameStep, Reloaded, sv

LEMMA GraphRoundTrip ==
  ASSUME NEW ns, NEW ss, IsGraph(ns, ss), NEW defs, IsDefinitions(defs)
  PROVE  ReadBack(ParseBin(EmitBin(defs, ns, ss)), defs, ns, ss)
<1> DEFINE K == DOMAIN defs
           W == 0 .. Len(ss)
           X == Seq(1 .. Len(ns))
<1>1. IsFiniteSet(K) /\ K \subseteq Atom /\ defs \in [K -> Atom]
  BY NamesDiffer DEF IsDefinitions
<1>2. ns \in Seq([path : Atom, step_id : W, out_edges : X])
  <2>1. NodeRecord(Len(ns), Len(ss)) \subseteq [path : Atom, step_id : W, out_edges : X]
    BY NamesDiffer DEF NodeRecord
  <2> QED
    BY <2>1, SeqMonotonic DEF IsGraph
<1>3. ss \in Seq(StepRecord(Atom))
  BY DEF IsGraph
<1> HIDE DEF K, W, X
<1>4. Storable(Atom, W, X, K, defs, ns, ss)
  BY <1>1, <1>2, <1>3 DEF Storable
<1> QED
  BY <1>4, SnapshotRoundTrip

LEMMA LoadBinInv == ASSUME IInv, LoadBin PROVE IInv'
<1> DEFINE b == ParseBin(bin)
           ns == saved.nodes
           ss == saved.steps
<1>1. /\ FilesInv /\ BinInv /\ bin # NoBin /\ phase = "loading" /\ phase' = "parsed"
      /\ nodes' = b.nodes /\ steps' = b.steps /\ definitions' = b.definitions
      /\ UNCHANGED <<argv, lines, depfile, estimates, args, next, todo, bin, saved>>
      /\ UNCHANGED <<files, next, todo, bin, saved>>
  BY DEF IInv, LoadBin, files
<1>2. PICK defs : DefinitionsOfLines(defs) /\ bin = EmitBin(defs, ns, ss)
  BY <1>1 DEF BinInv
<1>3. IsGraph(ns, ss) /\ StepsOfLines(ss)
  BY <1>1 DEF BinInv
<1> HIDE DEF ns, ss
<1>4. b.nodes = ns /\ b.definitions = defs /\ b.steps = [i \in DOMAIN ss |-> Reloaded(ss[i])]
  <2>1. ReadBack(b, defs, ns, ss)
    BY <1>2, <1>3, GraphRoundTrip DEF DefinitionsOfLines
  <2> QED
    BY <2>1 DEF ReadBack
<1>5. ASSUME NEW k \in DOMAIN ss
      PROVE  Reloaded(ss[k]) \in StepRecord(Atom) /\ SameStep(Reloaded(ss[k]), ss[k])
  BY <1>1, <1>3, ReloadedStep DEF IsGraph
<1>6. steps' \in Seq(StepRecord(Atom)) /\ Len(steps') = Len(ss) /\ DOMAIN steps' = DOMAIN ss
  <2>1. steps' \in [DOMAIN ss -> StepRecord(Atom)]
    BY <1>1, <1>4, <1>5
  <2>2. ss \in Seq(StepRecord(Atom))
    BY <1>3 DEF IsGraph
  <2> QED
    BY <2>1, <2>2, MappedSeq
<1>7. LoadedInv'
  <2>1. \A k \in DOMAIN steps' : SameStep(steps'[k], ss[k])
    BY <1>1, <1>4, <1>5, <1>6
  <2> QED
    BY <1>1, <1>4, <1>6, <2>1 DEF LoadedInv, ns, ss
<1>8. BinInv'
  BY <1>1, BinKept DEF IInv
<1>9. DefinitionsOfLines(definitions)'
  <2>1. definitions' = defs
    BY <1>1, <1>4
  <2> QED
    BY <1>1, <1>2, <2>1 DEF DefinitionsOfLines, DefLines
<1>10. FilesInv'
  BY <1>1 DEF FilesInv
<1> QED
  BY <1>1, <1>7, <1>8, <1>9, <1>10 DEF IInv

LEMMA StutterInv == ASSUME IInv, UNCHANGED vars PROVE IInv'
<1>1. UNCHANGED <<argv, lines, depfile, estimates, args, next, todo, nodes, steps,
                  definitions, bin, saved, phase>>
  BY DEF vars, files, graph
<1>2. UNCHANGED <<files, next, todo, bin, saved>>
        /\ UNCHANGED <<lines, depfile, next, todo, graph, definitions, bin>>
  BY DEF vars, files, graph
<1>3. (bin # NoBin => BinInv)'
  BY <1>2, BinKept DEF IInv
<1>4. phase \in {"parsing", "error"} => ParsingInv'
  BY <1>2, ParsingKept DEF IInv
<1>5. StepLines' = StepLines /\ \A k : DefLines(k)' = DefLines(k)
  BY <1>1 DEF StepLines, DefLines
<1>6. FilesInv' /\ (phase = "error" => ErrorInv')
  BY <1>1, <1>5 DEF IInv, FilesInv, ErrorInv
<1>7. ASSUME NEW defs, DefinitionsOfLines(defs) PROVE DefinitionsOfLines(defs)'
  BY <1>1, <1>5, <1>7 DEF DefinitionsOfLines
<1>8. phase = "parsed" => DefinitionsOfLines(definitions)'
  BY <1>1, <1>5 DEF IInv, DefinitionsOfLines
<1>9. phase = "ready" =>
        \E defs : DefinitionsOfLines(defs)'
                  /\ definitions' = WithOverrides(defs, args'.definition_overrides)
  BY <1>1, <1>7 DEF IInv
<1> QED
  BY <1>1, <1>3, <1>4, <1>6, <1>8, <1>9 DEF IInv, IdleInv, LoadedInv

\* The graph, the snapshot and the definitions are what the lines say, in every
\* phase of every invocation.
LEMMA Always == Spec => []IInv
<1>1. ASSUME IInv, [Next]_vars PROVE IInv'
  <2>1. CASE UNCHANGED vars
    BY <1>1, <2>1, StutterInv
  <2>2. CASE Next
    BY <1>1, <2>2, ReadArgumentsInv, AddDefinitionInv, MalformedInv,
       DuplicateProducerInv, AddStepInv, ConnectInv, EndOfParseInv,
       ApplyOverridesInv, InvokeInv, LoadBinInv DEF Next
  <2> QED
    BY <1>1, <2>1, <2>2
<1> QED
  BY <1>1, InitInv, PTL DEF Spec

-----------------------------------------------------------------------------
(* The properties, from the inductive invariant. *)

\* In every phase, nodes and steps make a graph.
LEMMA AlwaysGraph ==
  ASSUME IInv
  PROVE  IsGraph(nodes, steps)
<1>1. CASE phase \in {"arguments", "helped", "refused", "loading"}
  BY <1>1, NoEdgesYet DEF IInv, IdleInv
<1>2. CASE phase \in {"parsing", "error"}
  BY <1>2 DEF IInv, ParsingInv
<1>3. CASE phase \in {"parsed", "ready"}
  <2> DEFINE ss == saved.steps
  <2>1. /\ nodes = saved.nodes /\ IsGraph(nodes, ss)
        /\ steps \in Seq(StepRecord(Atom)) /\ Len(steps) = Len(ss)
        /\ \A i \in DOMAIN steps : SameStep(steps[i], ss[i])
    BY <1>3 DEF IInv, LoadedInv, BinInv
  <2> HIDE DEF ss
  <2>2. ss \in Seq(StepRecord(Atom))
    BY <2>1 DEF IsGraph
  <2>3. DOMAIN steps = DOMAIN ss /\ DOMAIN ss = 1 .. Len(ss) /\ Len(ss) \in Nat
    BY <2>1, <2>2, LenProperties
  <2>4. \A i \in DOMAIN steps : IsStep(steps[i]) /\ steps[i].output = ss[i].output
    BY <2>1 DEF SameStep
  <2>5. ASSUME NEW i \in DOMAIN nodes, nodes[i].step_id # NoStep
        PROVE  steps[nodes[i].step_id].output = nodes[i].path
    <3>1. nodes[i].step_id \in DOMAIN ss
      BY <2>1, <2>3, <2>5, NodeFields DEF IsGraph, NoStep
    <3>2. ss[nodes[i].step_id].output = nodes[i].path
      BY <2>1, <2>5 DEF IsGraph
    <3> QED
      BY <2>3, <2>4, <3>1, <3>2
  <2> QED
    BY <2>1, <2>3, <2>4, <2>5 DEF IsGraph
<1> QED
  BY <1>1, <1>2, <1>3 DEF IInv, FilesInv

LEMMA TypesFollow == ASSUME IInv PROVE TypeOK
<1>1. IsGraph(nodes, steps)
  BY AlwaysGraph
<1>2. nodes \in Seq([path : Name, step_id : 0 .. Len(steps), out_edges : Seq(DOMAIN nodes)])
  <2>1. DOMAIN nodes = 1 .. Len(nodes)
    BY <1>1, LenProperties DEF IsGraph
  <2> QED
    BY <1>1, <2>1 DEF IsGraph, NodeRecord
<1>3. \A i \in DOMAIN steps : /\ steps[i].output \in Path
                              /\ steps[i].opaque_inputs \in Seq(Name)
                              /\ steps[i].depfile_inputs \in Seq(Name)
  BY <1>1 DEF IsGraph, IsStep
<1>4. /\ phase \in {"parsing", "error"} => bin = NoBin
      /\ phase \in {"loading", "parsed", "ready"} => bin # NoBin
  BY DEF IInv, ParsingInv, LoadedInv
<1> QED
  BY <1>2, <1>3, <1>4 DEF IInv, FilesInv, TypeOK

LEMMA ProducersFollow == ASSUME IInv PROVE OneProducer /\ EdgesLeadToSteps
BY AlwaysGraph DEF IsGraph, OneProducer, EdgesLeadToSteps

\* The lines read are consistent in every phase.
LEMMA LinesOnce ==
  ASSUME IInv
  PROVE  \A i, j \in StepLines : lines[i].output = lines[j].output => i = j
<1>1. CASE bin # NoBin
  BY <1>1 DEF IInv, BinInv, StepsOfLines
<1>2. CASE phase \in {"parsing", "error"}
  BY <1>2 DEF IInv, ParsingInv, StepsOfLines
<1>3. CASE bin = NoBin /\ phase \in {"arguments", "helped", "refused", "loading"}
  <2>1. next = 1
    BY <1>3 DEF IInv, IdleInv
  <2> QED
    BY <2>1 DEF StepLines
<1>4. phase \in {"parsed", "ready"} => bin # NoBin
  BY DEF IInv, LoadedInv
<1> QED
  BY <1>1, <1>2, <1>3, <1>4 DEF IInv, FilesInv

LEMMA ErrorsFollow == ASSUME IInv PROVE ErrorJustified
<1>1. phase \in {"parsed", "ready"} => next = Len(lines) + 1
  BY DEF IInv, LoadedInv, BinInv
<1>2. phase = "error" => ErrorInv
  BY DEF IInv
<1> QED
  BY <1>1, <1>2, LinesOnce DEF ErrorJustified, ErrorInv

LEMMA DefinitionsFollow == ASSUME IInv PROVE FirstDefinitionWins
<1> DEFINE over == args.definition_overrides
           words(k) == {i \in DOMAIN over : over[i].key = k}
           ByLine(defs, k) == \E i \in DefLines(k) : /\ \A j \in DefLines(k) : i <= j
                                                     /\ defs[k] = lines[i].val
           ByWord(defs, k) == \E i \in words(k) : /\ \A j \in words(k) : i <= j
                                                  /\ defs[k] = over[i].val
<1>1. CASE phase \in {"parsing", "error", "parsed"}
  BY <1>1 DEF IInv, ParsingInv, DefinitionsOfLines, FirstDefinitionWins
<1>2. CASE phase \in {"arguments", "helped", "refused", "loading"}
  <2>1. DOMAIN definitions = {}
    BY <1>2 DEF IInv, IdleInv
  <2> QED
    BY <1>2, <2>1 DEF FirstDefinitionWins, Working
<1>3. CASE phase = "ready"
  <2>1. PICK defs : DefinitionsOfLines(defs) /\ definitions = WithOverrides(defs, over)
    BY <1>3 DEF IInv
  <2>2. over \in Seq(Definition)
    BY DEF IInv, FilesInv, ArgsRecord
  <2> HIDE DEF over
  <2>3. /\ \A k \in DOMAIN defs : k \in DOMAIN definitions /\ definitions[k] = defs[k]
        /\ \A k \in DOMAIN definitions : k \notin DOMAIN defs =>
             \E i \in DOMAIN over :
               /\ over[i].key = k /\ definitions[k] = over[i].val
               /\ \A j \in DOMAIN over : over[j].key = k => i <= j
    BY <2>1, <2>2, OverridesFirst DEF DefinitionsOfLines
  <2>4. /\ \A k \in DOMAIN defs : ByLine(defs, k)
        /\ \A i \in 1 .. next - 1 : lines[i].kind = "def" => lines[i].key \in DOMAIN defs
    BY <2>1 DEF DefinitionsOfLines
  <2>5. ASSUME NEW k \in DOMAIN definitions
        PROVE  ByLine(definitions, k) \/ (DefLines(k) = {} /\ ByWord(definitions, k))
    <3>1. CASE k \in DOMAIN defs
      BY <2>3, <2>4, <3>1
    <3>2. CASE k \notin DOMAIN defs
      <4>1. DefLines(k) = {}
        BY <2>4, <3>2 DEF DefLines
      <4>2. ByWord(definitions, k)
        BY <2>3, <3>2
      <4> QED
        BY <4>1, <4>2
    <3> QED
      BY <3>1, <3>2
  <2>6. \A i \in 1 .. next - 1 : lines[i].kind = "def" => lines[i].key \in DOMAIN definitions
    BY <2>3, <2>4
  <2> QED
    BY <1>3, <2>5, <2>6 DEF FirstDefinitionWins, over
<1> QED
  BY <1>1, <1>2, <1>3 DEF IInv, FilesInv

LEMMA SnapshotFollows == ASSUME IInv PROVE SnapshotFaithful
<1> SUFFICES ASSUME phase = "ready" PROVE
      /\ nodes = saved.nodes
      /\ Len(steps) = Len(saved.steps)
      /\ \A i \in DOMAIN steps :
           /\ saved.steps[i].opaque_inputs = <<>> => steps[i] = saved.steps[i]
           /\ \A field \in {"tool", "inputs", "output", "depfile_inputs"} :
                steps[i][field] = saved.steps[i][field]
  BY DEF SnapshotFaithful
<1>1. LoadedInv
  BY DEF IInv
<1>2. ASSUME NEW st, NEW sv, SameStep(st, sv),
             NEW field \in {"tool", "inputs", "output", "depfile_inputs"}
      PROVE  st[field] = sv[field]
  BY <1>2 DEF SameStep
<1> QED
  BY <1>1, <1>2 DEF LoadedInv, SameStep

\* The steps of a graph at work are those of the lines, but for what a
\* snapshot leaves out.
LEMMA WorkingSteps ==
  ASSUME IInv, Working, NEW k \in DOMAIN steps
  PROVE  \E i \in StepLines : LET st == StepOf(lines[i])
                              IN  /\ steps[k].tool = st.tool
                                  /\ steps[k].output = st.output
                                  /\ steps[k].depfile_inputs = st.depfile_inputs
<1>1. CASE phase = "parsing"
  BY <1>1 DEF IInv, ParsingInv, StepsOfLines
<1>2. CASE phase \in {"parsed", "ready"}
  <2>1. LoadedInv /\ BinInv
    BY <1>2 DEF IInv, LoadedInv
  <2>2. SameStep(steps[k], saved.steps[k])
    BY <2>1 DEF LoadedInv
  <2>3. k \in DOMAIN saved.steps
    BY <2>1, LenProperties DEF LoadedInv, BinInv, IsGraph
  <2>4. PICK i \in StepLines : saved.steps[k] = StepOf(lines[i])
    BY <2>1, <2>3 DEF BinInv, StepsOfLines
  <2> QED
    BY <2>2, <2>4 DEF SameStep
<1> QED
  BY <1>1, <1>2 DEF Working

LEMMA DepfilesFollow == ASSUME IInv PROVE DepfileAsWritten
<1> SUFFICES ASSUME Working, NEW k \in DOMAIN steps
             PROVE  steps[k].depfile_inputs =
                      IF steps[k].tool \in Compilation /\ steps[k].output \in DOMAIN depfile
                        THEN NamesIn(depfile[steps[k].output]) ELSE <<>>
  BY DEF DepfileAsWritten
<1>1. PICK i \in StepLines : LET st == StepOf(lines[i])
                             IN  /\ steps[k].tool = st.tool
                                 /\ steps[k].output = st.output
                                 /\ steps[k].depfile_inputs = st.depfile_inputs
  BY WorkingSteps
<1> DEFINE tool == lines[i].tool
           o == lines[i].output
<1>2. /\ steps[k].tool = tool /\ steps[k].output = o
      /\ steps[k].depfile_inputs = IF tool \in Compilation THEN Discovered(o) ELSE <<>>
  BY <1>1 DEF StepOf
<1>3. Discovered(o) = IF o \in DOMAIN depfile THEN NamesIn(depfile[o]) ELSE <<>>
  BY DiscoveredNames DEF IInv, FilesInv
<1> QED
  BY <1>2, <1>3

\* A line lists names and empty inputs.
LEMMA ListedNames ==
  ASSUME NEW line, IsStepLine(line),
         \A f \in DOMAIN depfile : depfile[f] \in Seq(Symbol)
  PROVE  ListedBy(line) \in Seq(Name \cup {Empty})
<1> DEFINE listed == [i \in DOMAIN line.inputs |->
                        IF line.inputs[i] \in Bang THEN Stripped[line.inputs[i]]
                                                   ELSE line.inputs[i]]
           found == IF line.tool \in Compilation /\ line.output \in DOMAIN depfile
                      THEN NamesIn(depfile[line.output]) ELSE <<>>
<1>1. line.inputs \in Seq(Path \cup Bang \cup {Empty})
  BY StepLineFields
<1>2. listed \in Seq(Name \cup {Empty})
  <2>1. \A i \in DOMAIN line.inputs : line.inputs[i] \in Path \cup Bang \cup {Empty}
    BY <1>1, LenProperties, ElementOfSeq
  <2>2. listed \in [DOMAIN line.inputs -> Name \cup {Empty}]
    BY <2>1, NamesDiffer
  <2> HIDE DEF listed
  <2> QED
    BY <1>1, <2>2, MappedSeq
<1>3. found \in Seq(Name)
  BY DiscoveredNames, EmptySeq
<1>4. found \in Seq(Name \cup {Empty})
  BY <1>3, SeqMonotonic
<1>5. ListedBy(line) = listed \o found
  BY DEF ListedBy
<1> HIDE DEF listed, found
<1> QED
  BY <1>2, <1>4, <1>5, ConcatProperties

\* When no input is left to connect, the edges are the mentions.
LEMMA EdgesAreMentions ==
  ASSUME FilesInv, NEW ns, NEW ss, IsGraph(ns, ss), StepsOfLines(ss),
         EdgesOfLines(ns, ss, <<>>)
  PROVE  /\ \A u, v \in DOMAIN ns :
              CountIn(ns[u].out_edges, {v}) =
                IF \E i \in StepLines : lines[i].output = ns[v].path
                  THEN Mentions(lines[CHOOSE i \in StepLines :
                                        lines[i].output = ns[v].path], ns[u].path)
                  ELSE 0
         /\ \A i \in StepLines : \A k \in DOMAIN ListedBy(lines[i]) :
              ListedBy(lines[i])[k] # Empty => HasNode(ns, ListedBy(lines[i])[k])
<1>1. Len(ss) \in Nat /\ UniquePaths(ns) /\ ns \in Seq(NodeRecord(Len(ns), Len(ss)))
  BY LenProperties DEF IsGraph, UniquePaths
<1>2. ASSUME NEW p, NEW q PROVE Edges(ns, p, q) \in Nat
  <2>1. CASE HasNode(ns, p) /\ HasNode(ns, q)
    <3>1. IdOf(ns, p) \in DOMAIN ns
      BY <2>1, IdOfHas
    <3>2. ns[IdOf(ns, p)].out_edges \in Seq(1 .. Len(ns))
      BY <1>1, <3>1, NodeFields
    <3> QED
      BY <2>1, <3>2, CountIsUpto DEF Edges
  <2>2. CASE ~(HasNode(ns, p) /\ HasNode(ns, q))
    BY <2>2 DEF Edges
  <2> QED
    BY <2>1, <2>2
<1>3. ASSUME NEW i \in StepLines, NEW p \in Name
      PROVE  Edges(ns, p, lines[i].output) = Mentions(lines[i], p)
  BY <1>2, NothingPending DEF EdgesOfLines
<1>4. ASSUME NEW u \in DOMAIN ns, NEW v \in DOMAIN ns
      PROVE  CountIn(ns[u].out_edges, {v}) =
               IF \E i \in StepLines : lines[i].output = ns[v].path
                 THEN Mentions(lines[CHOOSE i \in StepLines :
                                       lines[i].output = ns[v].path], ns[u].path)
                 ELSE 0
  <2> DEFINE p == ns[u].path
             q == ns[v].path
             i == CHOOSE i \in StepLines : lines[i].output = q
  <2>1. /\ HasNode(ns, p) /\ IdOf(ns, p) = u
        /\ HasNode(ns, q) /\ IdOf(ns, q) = v
    BY <1>1, IdOfIs DEF UniquePaths
  <2>2. Edges(ns, p, q) = CountIn(ns[u].out_edges, {v})
    BY <2>1 DEF Edges
  <2>3. p \in Name /\ ns[u].out_edges \in Seq(1 .. Len(ns))
    BY <1>1, NodeFields
  <2>4. CASE \E j \in StepLines : lines[j].output = q
    <3>1. i \in StepLines /\ lines[i].output = q
      BY <2>4
    <3> HIDE DEF i
    <3>2. Edges(ns, p, q) = Mentions(lines[i], p)
      BY <1>3, <2>3, <3>1
    <3> QED
      BY <2>2, <2>4, <3>2 DEF i
  <2>5. CASE ~\E j \in StepLines : lines[j].output = q
    <3>1. ~HasProducer(ns, q)
      BY <2>5, ProducedByLines
    <3>2. ns[v].step_id = NoStep
      BY <2>1, <3>1 DEF HasProducer
    <3>3. \A e \in DOMAIN ns[u].out_edges : ns[u].out_edges[e] \notin {v}
      BY <3>2 DEF IsGraph
    <3>4. CountIn(ns[u].out_edges, {v}) = 0
      BY <2>3, <3>3, CountIsUpto
    <3> QED
      BY <2>5, <3>4
  <2> QED
    BY <2>4, <2>5
<1>5. ASSUME NEW i \in StepLines, NEW k \in DOMAIN ListedBy(lines[i]),
             ListedBy(lines[i])[k] # Empty
      PROVE  HasNode(ns, ListedBy(lines[i])[k])
  <2> DEFINE listed == ListedBy(lines[i])
             p == listed[k]
  <2>1. IsStepLine(lines[i])
    BY ElementOfSeq, LenProperties DEF StepLines, FilesInv, IsStepLine
  <2>2. listed \in Seq(Name \cup {Empty})
    BY <2>1, ListedNames DEF FilesInv
  <2>3. Mentions(lines[i], p) = CountIn(listed, {p})
    <3>1. {j \in DOMAIN listed : listed[j] = p} = {j \in DOMAIN listed : listed[j] \in {p}}
      OBVIOUS
    <3> QED
      BY <3>1 DEF Mentions, CountIn
  <2> HIDE DEF listed
  <2>4. p \in Name
    BY <1>5, <2>2, LenProperties, ElementOfSeq DEF listed
  <2>5. CountIn(listed, {p}) # 0
    <3>1. k \in DOMAIN listed /\ listed[k] \in {p}
      BY DEF listed
    <3> HIDE DEF p
    <3> QED
      BY <2>2, <3>1, CountIsUpto
  <2>6. Edges(ns, p, lines[i].output) # 0
    BY <1>3, <2>3, <2>4, <2>5
  <2> QED
    BY <2>6 DEF Edges, listed
<1> QED
  BY <1>4, <1>5

LEMMA EdgesFollow == ASSUME IInv PROVE EdgesExact
<1> SUFFICES ASSUME todo = <<>>, Working PROVE
    /\ \A u, v \in DOMAIN nodes :
         Cardinality(EdgesBetween(u, v)) =
           IF \E i \in StepLines : lines[i].output = nodes[v].path
           THEN Mentions(lines[CHOOSE i \in StepLines :
                                 lines[i].output = nodes[v].path], nodes[u].path)
           ELSE 0
    /\ \A i \in StepLines : \A k \in DOMAIN ListedBy(lines[i]) :
         ListedBy(lines[i])[k] # Empty => HasNode(nodes, ListedBy(lines[i])[k])
  BY DEF EdgesExact
<1>1. PICK ss : IsGraph(nodes, ss) /\ StepsOfLines(ss) /\ EdgesOfLines(nodes, ss, <<>>)
  <2>1. CASE phase = "parsing"
    BY <2>1 DEF IInv, ParsingInv
  <2>2. CASE phase \in {"parsed", "ready"}
    BY <2>2 DEF IInv, LoadedInv, BinInv
  <2> QED
    BY <2>1, <2>2 DEF Working
<1>2. ASSUME NEW u, NEW v
      PROVE  Cardinality(EdgesBetween(u, v)) = CountIn(nodes[u].out_edges, {v})
  <2>1. EdgesBetween(u, v) =
          {i \in DOMAIN nodes[u].out_edges : nodes[u].out_edges[i] \in {v}}
    BY DEF EdgesBetween
  <2> QED
    BY <2>1 DEF CountIn
<1>3. FilesInv
  BY DEF IInv
<1>4. /\ \A u, v \in DOMAIN nodes :
           CountIn(nodes[u].out_edges, {v}) =
             IF \E i \in StepLines : lines[i].output = nodes[v].path
               THEN Mentions(lines[CHOOSE i \in StepLines :
                                     lines[i].output = nodes[v].path], nodes[u].path)
               ELSE 0
      /\ \A i \in StepLines : \A k \in DOMAIN ListedBy(lines[i]) :
           ListedBy(lines[i])[k] # Empty => HasNode(nodes, ListedBy(lines[i])[k])
  BY <1>1, <1>3, EdgesAreMentions
<1>5. ASSUME NEW u \in DOMAIN nodes, NEW v \in DOMAIN nodes
      PROVE  Cardinality(EdgesBetween(u, v)) =
               IF \E i \in StepLines : lines[i].output = nodes[v].path
                 THEN Mentions(lines[CHOOSE i \in StepLines :
                                       lines[i].output = nodes[v].path], nodes[u].path)
                 ELSE 0
  <2>1. Cardinality(EdgesBetween(u, v)) = CountIn(nodes[u].out_edges, {v})
    BY <1>2
  <2> QED
    BY <1>4, <2>1
<1> QED
  BY <1>4, <1>5

-----------------------------------------------------------------------------
(* Commands. *)

\* What is in an argument.
Argument ==
  {"-o", "-MMD", "-MF", "out.d", "-c"} \cup Atom
    \cup UNION {ToSet(Parts[v]) : v \in DOMAIN Parts}

Joined(s, t) == s \o t

LEMMA JoinedAssociates ==
  ASSUME NEW T
  PROVE  \A s, t, u \in Seq(T) : /\ Joined(s, t) \in Seq(T)
                                /\ Joined(Joined(s, t), u) = Joined(s, Joined(t, u))
BY ConcatProperties, ConcatAssociative DEF Joined

Regroups(c, f, h, in, to) == c \o f \o h \o in \o to = c \o f \o (h \o in \o to)

\* The compiler and its flags, then the rest, in either grouping.
LEMMA Regrouped ==
  ASSUME NEW T, NEW c \in Seq(T), NEW f \in Seq(T), NEW h \in Seq(T), NEW in \in Seq(T),
         NEW to \in Seq(T)
  PROVE  Regroups(c, f, h, in, to)
<1>1. Joined(c, f) \in Seq(T) /\ Joined(h, in) \in Seq(T)
  BY JoinedAssociates
<1>2. Joined(Joined(Joined(c, f), h), in) = Joined(Joined(c, f), Joined(h, in))
  BY <1>1, JoinedAssociates
<1>3. Joined(Joined(Joined(c, f), Joined(h, in)), to) =
        Joined(Joined(c, f), Joined(Joined(h, in), to))
  BY <1>1, JoinedAssociates
<1>4. Joined(Joined(Joined(Joined(c, f), h), in), to) =
        Joined(Joined(c, f), Joined(Joined(h, in), to))
  BY <1>2, <1>3
<1> QED
  BY <1>4 DEF Joined, Regroups

LEMMA FlagsAreArguments ==
  ASSUME NEW defs, IsDefinitions(defs), NEW key
  PROVE  Flags(defs, key) \in Seq(Argument)
<1> DEFINE All == UNION {ToSet(Parts[v]) : v \in DOMAIN Parts}
           parts == GetDefinitionOf(defs, key)
<1>1. parts \in Seq(All)
  <2>1. CASE key \in DOMAIN defs
    <3>1. defs[key] \in DOMAIN Parts
      BY <2>1 DEF IsDefinitions
    <3>2. Parts[defs[key]] \in Seq(All)
      BY <3>1, BuildGraphAssumption
    <3> QED
      BY <2>1, <3>2 DEF GetDefinitionOf
  <2>2. CASE key \notin DOMAIN defs
    BY <2>2, EmptySeq DEF GetDefinitionOf
  <2> QED
    BY <2>1, <2>2
<1>2. All \subseteq Argument
  BY DEF Argument
<1> HIDE DEF All, parts
<1>3. Only(parts, ToSet(parts) \ {Empty}) \in Seq(All \cap (ToSet(parts) \ {Empty}))
  BY <1>1, OnlyType
<1>4. All \cap (ToSet(parts) \ {Empty}) \subseteq Argument
  BY <1>2
<1> QED
  BY <1>3, <1>4, SeqMonotonic DEF Flags, NonEmpty, parts

\* The inputs without '!' are those whose names do not begin so.
LEMMA PlainInputs ==
  ASSUME NEW inputs \in Seq(Path \cup Bang \cup {Empty})
  PROVE  LET parts == NonEmpty(inputs)
         IN /\ Only(parts, ToSet(parts) \ Bang) = Only(inputs, Path)
            /\ ToSet(inputs) \cap Bang = {} => Only(parts, Bang) = <<>>
<1> DEFINE All == Path \cup Bang \cup {Empty}
           Full == ToSet(inputs) \ {Empty}
           parts == NonEmpty(inputs)
           Bare == ToSet(parts) \ Bang
<1>1. parts = Only(inputs, Full) /\ parts \in Seq(Path \cup Bang)
  BY InputsSplit DEF NonEmpty
<1>2. \A i \in DOMAIN inputs : inputs[i] \in All
  <2> HIDE DEF All
  <2> QED
    BY LenProperties, ElementOfSeq DEF All
<1>3. \A i \in DOMAIN inputs : inputs[i] \in Path <=> inputs[i] \in Full /\ inputs[i] \notin Bang
  BY <1>2, NamesDiffer DEF ToSet
<1>4. Only(parts, Path) = Only(inputs, Path)
  <2>1. \A i \in DOMAIN inputs : inputs[i] \in Path <=> inputs[i] \in Full /\ inputs[i] \in Path
    BY <1>3
  <2> HIDE DEF parts, Full
  <2> QED
    BY <1>1, <2>1, OnlyTwice
<1>5. Only(parts, Bare) = Only(parts, Path)
  <2>1. \A i \in DOMAIN parts : parts[i] \in Path \cup Bang /\ parts[i] \in ToSet(parts)
    <3> HIDE DEF parts
    <3> QED
      BY <1>1, LenProperties, ElementOfSeq DEF ToSet
  <2> HIDE DEF parts
  <2>2. Path \cap Bang = {}
    BY NamesDiffer
  <2>3. Only(parts, ToSet(parts)) = parts
    BY <1>1, <2>1, OnlyAll
  <2>4. \A i \in DOMAIN parts : parts[i] \in Path <=> parts[i] \in ToSet(parts) /\ parts[i] \in Bare
    BY <2>1, <2>2
  <2>5. \A i \in DOMAIN parts : parts[i] \in Path <=> parts[i] \in ToSet(parts) /\ parts[i] \in Path
    BY <2>1
  <2> HIDE DEF Bare
  <2>6. Only(Only(parts, ToSet(parts)), Bare) = Only(parts, Path)
    <3> DEFINE P == Path \cup Bang
               S == ToSet(parts)
    <3>1. parts \in Seq(P) /\ \A i \in DOMAIN parts : parts[i] \in Path <=> parts[i] \in S /\ parts[i] \in Bare
      BY <1>1, <2>4
    <3> HIDE DEF P, S
    <3>2. Only(Only(parts, S), Bare) = Only(parts, Path)
      BY <3>1, OnlyTwice
    <3> QED
      BY <3>2 DEF S
  <2> QED
    BY <2>3, <2>6
<1>6. ASSUME ToSet(inputs) \cap Bang = {} PROVE Only(parts, Bang) = <<>>
  <2>1. \A i \in DOMAIN inputs : inputs[i] \in {} <=> inputs[i] \in Full /\ inputs[i] \in Bang
    BY <1>6 DEF ToSet
  <2>2. Only(parts, Bang) = Only(inputs, {})
    <3> HIDE DEF parts, Full
    <3> QED
      BY <1>1, <2>1, OnlyTwice
  <2>3. Only(inputs, {}) \in Seq(All \cap {})
    <3> HIDE DEF All
    <3> QED
      BY OnlyType DEF All
  <2>4. All \cap {} = {}
    OBVIOUS
  <2>5. \A z \in Seq({}) : z = <<>>
    OBVIOUS
  <2> QED
    BY <2>2, <2>3, <2>4, <2>5
<1> QED
  BY <1>4, <1>5, <1>6 DEF parts, Bare

\* In a graph that is ready, each line read has its step, which is the one made
\* of it unless its opaque inputs are taken for others.
LEMMA StepOfEachLine ==
  ASSUME IInv, phase = "ready", NEW i \in StepLines
  PROVE  /\ IsStepLine(lines[i])
         /\ \E k \in DOMAIN steps :
              /\ steps[k].output = lines[i].output
              /\ ~TakenForOthers(steps[k], lines[i]) => steps[k] = StepOf(lines[i])
<1> DEFINE line == lines[i]
           ss == saved.steps
           parts == NonEmpty(line.inputs)
<1>1. IsStepLine(line)
  BY ElementOfSeq, LenProperties DEF StepLines, IInv, FilesInv, IsStepLine
<1>2. /\ IsGraph(saved.nodes, ss) /\ StepsOfLines(ss)
      /\ steps \in Seq(StepRecord(Atom)) /\ Len(steps) = Len(ss)
      /\ \A k \in DOMAIN steps : SameStep(steps[k], ss[k])
  BY DEF IInv, LoadedInv, BinInv
<1>3. DOMAIN steps = DOMAIN ss
  BY <1>2, LenProperties DEF IsGraph
<1>4. PICK k \in DOMAIN ss : ss[k] = StepOf(line)
  BY <1>2 DEF StepsOfLines
<1> DEFINE st == steps[k]
<1>5. SameStep(st, StepOf(line))
  BY <1>2, <1>3, <1>4
<1>6. StepOf(line).output = line.output
  BY DEF StepOf
<1>7. ASSUME ToSet(line.inputs) \cap Bang = {} PROVE StepOf(line).opaque_inputs = <<>>
  <2>1. line.inputs \in Seq(Path \cup Bang \cup {Empty})
    BY <1>1, StepLineFields
  <2>2. Only(parts, Bang) = <<>>
    BY <1>7, <2>1, PlainInputs
  <2>3. StepOf(line).opaque_inputs = [j \in DOMAIN <<>> |-> Unbanged(Only(parts, Bang)[j])]
    BY <2>2 DEF StepOf
  <2>4. DOMAIN <<>> = {}
    BY EmptySeq
  <2> QED
    BY <2>3, <2>4
<1> HIDE DEF st, line
<1>8. ~TakenForOthers(st, line) => st = StepOf(line)
  BY <1>5, <1>7 DEF SameStep, TakenForOthers
<1>9. st.output = line.output
  BY <1>5, <1>6 DEF SameStep
<1> QED
  BY <1>1, <1>3, <1>8, <1>9 DEF st, line

\* The definitions that an executor gets.
LEMMA ReadyDefinitions == ASSUME IInv, phase = "ready" PROVE IsDefinitions(definitions)
<1>1. PICK defs : /\ DefinitionsOfLines(defs)
                  /\ definitions = WithOverrides(defs, args.definition_overrides)
  BY DEF IInv
<1>2. args.definition_overrides \in Seq(Definition)
  BY DEF IInv, FilesInv, ArgsRecord
<1> QED
  BY <1>1, <1>2, OverridesFirst DEF DefinitionsOfLines

\* The words around the flags of a compiler.
How == <<"-MMD", "-MF", "out.d", "-c">>

LEMMA HowIsWords ==
  /\ How \in Seq(Argument)
  /\ \A o \in Atom : <<"-o", o>> \in Seq(Argument)
<1>1. {"-o", "-MMD", "-MF", "out.d", "-c"} \subseteq Argument /\ Atom \subseteq Argument
  BY Zenon DEF Argument
<1> QED
  BY <1>1 DEF How

\* The step of a line runs as documented.
LEMMA RunFollows ==
  ASSUME IInv, phase = "ready", NEW line, IsStepLine(line)
  PROVE  RunAsDocumented(line, StepOf(line))
<1> DEFINE st == StepOf(line)
           in == Only(line.inputs, Path)
           to == <<"-o", line.output>>
           F(key) == Flags(definitions, key)
<1>1. /\ line.inputs \in Seq(Path \cup Bang \cup {Empty}) /\ line.output \in Path
  BY StepLineFields
<1>2. st.tool = line.tool /\ st.output = line.output /\ st.parsed_inputs = in
  BY <1>1, PlainInputs DEF StepOf
<1>3. in \in Seq(Argument) /\ to \in Seq(Argument)
  <2>1. in \in Seq((Path \cup Bang \cup {Empty}) \cap Path)
    BY <1>1, OnlyType
  <2>2. (Path \cup Bang \cup {Empty}) \cap Path \subseteq Argument
    BY NamesDiffer, Zenon DEF Argument
  <2>3. line.output \in Atom
    BY <1>1, NamesDiffer
  <2> HIDE DEF in
  <2> QED
    BY <2>1, <2>2, <2>3, SeqMonotonic, HowIsWords
<1>4. \A key : F(key) \in Seq(Argument)
  BY ReadyDefinitions, FlagsAreArguments
<1> SUFFICES ASSUME line.tool \in DocumentedTools, NEW newer \in BOOLEAN
             PROVE  BuildCommandArgs(definitions, st, newer) =
                      Documented(line, newer \/ Len(in) > Limit)
  BY DEF RunAsDocumented
<1> HIDE DEF st, in
<1>5. CASE line.tool = "cc"
  <2>1. BuildCommandArgs(definitions, st, newer) =
          F("cc") \o F("cflags") \o How \o in \o to
    BY <1>2, <1>5 DEF BuildCommandArgs, How
  <2>2. Documented(line, newer \/ Len(in) > Limit) =
          F("cc") \o F("cflags") \o (How \o in \o to)
    BY <1>5 DEF Documented, How, in
  <2> DEFINE c == F("cc")
             f == F("cflags")
  <2>3. c \in Seq(Argument) /\ f \in Seq(Argument)
    BY <1>4
  <2> HIDE DEF c, f, to
  <2>4. Regroups(c, f, How, in, to)
    BY <1>3, <2>3, HowIsWords, Regrouped
  <2> QED
    BY <2>1, <2>2, <2>4 DEF c, f, Regroups
<1>6. CASE line.tool = "cxx"
  <2>1. BuildCommandArgs(definitions, st, newer) =
          F("cxx") \o F("cxxflags") \o How \o in \o to
    BY <1>2, <1>6 DEF BuildCommandArgs, How
  <2>2. Documented(line, newer \/ Len(in) > Limit) =
          F("cxx") \o F("cxxflags") \o (How \o in \o to)
    BY <1>6 DEF Documented, How, in
  <2> DEFINE c == F("cxx")
             f == F("cxxflags")
  <2>3. c \in Seq(Argument) /\ f \in Seq(Argument)
    BY <1>4
  <2> HIDE DEF c, f, to
  <2>4. Regroups(c, f, How, in, to)
    BY <1>3, <2>3, HowIsWords, Regrouped
  <2> QED
    BY <2>1, <2>2, <2>4 DEF c, f, Regroups
<1>7. CASE line.tool = "ld"
  <2>1. UseRsp(st, newer) <=> newer \/ Len(in) > Limit
    BY <1>2 DEF UseRsp
  <2>2. BuildCommandArgs(definitions, st, newer) =
          F("cxx") \o (IF UseRsp(st, newer) THEN <<"@rsp">> ELSE in) \o to
            \o F("ldflags") \o F("ldlibs")
    BY <1>2, <1>7 DEF BuildCommandArgs
  <2>3. Documented(line, newer \/ Len(in) > Limit) =
          F("cxx") \o (IF newer \/ Len(in) > Limit THEN <<"@rsp">> ELSE in) \o to
            \o F("ldflags") \o F("ldlibs")
    BY <1>7 DEF Documented, in
  <2> QED
    BY <2>1, <2>2, <2>3
<1>8. CASE line.tool = "ar"
  BY <1>2, <1>8 DEF BuildCommandArgs, Documented, in
<1>9. CASE line.tool = "sld"
  BY <1>2, <1>9 DEF BuildCommandArgs, Documented, in
<1> QED
  BY <1>5, <1>6, <1>7, <1>8, <1>9 DEF DocumentedTools, Compilation

\* The three copies of the rules agree.
LEMMA CopiesFollow ==
  ASSUME IInv, phase = "ready", NEW k \in DOMAIN steps
  PROVE  CopiesAgree(steps[k])
<1> DEFINE st == steps[k]
<1>1. st.tool \in Compilation =>
        /\ BuildCommandArgs(definitions, st, FALSE) = ShownArgs(definitions, st)
        /\ DatabaseArgs(definitions, st) = ShownArgs(definitions, st)
  BY DEF BuildCommandArgs, ShownArgs, DatabaseArgs, Compilation
<1>2. st.tool = "ld" /\ ~UseRsp(st, FALSE) =>
        BuildCommandArgs(definitions, st, FALSE) =
          ShownArgs(definitions, st) \o Flags(definitions, "ldflags")
                                    \o Flags(definitions, "ldlibs")
  BY DEF BuildCommandArgs, ShownArgs, Compilation
<1>3. st.tool \notin Compilation \cup {"ld"} =>
        BuildCommandArgs(definitions, st, FALSE) = ShownArgs(definitions, st)
  BY DEF BuildCommandArgs, ShownArgs, Compilation
<1>4. "ld" \notin Compilation
  BY DEF Compilation
<1> HIDE DEF st
<1> QED
  BY <1>1, <1>2, <1>3, <1>4 DEF CopiesAgree, st

LEMMA CommandsFollow == ASSUME IInv PROVE CommandsAsDocumented
<1> SUFFICES ASSUME phase = "ready"
             PROVE  /\ \A i \in StepLines : \E k \in DOMAIN steps :
                         /\ steps[k].output = lines[i].output
                         /\ RunAsDocumented(lines[i], steps[k])
                    /\ \A k \in DOMAIN steps : CopiesAgree(steps[k])
  BY DEF CommandsAsDocumented
<1>1. ASSUME NEW i \in StepLines
      PROVE  \E k \in DOMAIN steps :
               steps[k].output = lines[i].output /\ RunAsDocumented(lines[i], steps[k])
  <2>1. IsStepLine(lines[i])
    BY StepOfEachLine
  <2>2. PICK k \in DOMAIN steps :
          /\ steps[k].output = lines[i].output
          /\ ~TakenForOthers(steps[k], lines[i]) => steps[k] = StepOf(lines[i])
    BY StepOfEachLine
  <2>3. CASE TakenForOthers(steps[k], lines[i])
    BY <2>2, <2>3 DEF RunAsDocumented
  <2>4. CASE ~TakenForOthers(steps[k], lines[i])
    BY <2>1, <2>2, <2>4, RunFollows
  <2> QED
    BY <2>2, <2>3, <2>4
<1> QED
  BY <1>1, CopiesFollow

-----------------------------------------------------------------------------
(* Theorems. *)

\* The graph is well formed in every phase of every invocation: an edge leads
\* to a node that is there, a node names a step that is there, and there is a
\* graph to execute only when there is a snapshot of it (graph.cpp, main).
THEOREM GraphTypeCorrect == Spec => []TypeOK
<1> QED
  BY TypesFollow, Always, PTL

\* Whatever the manifest, the depfiles and the command line, a file has one
\* node, a step one output node, and they agree about each other, also after
\* the snapshot is loaded (get_or_create_node, add_step, parse_bin).
THEOREM OneProducerAlways == Spec => []OneProducer
<1>1. IInv => OneProducer
  BY ProducersFollow
<1> QED
  BY <1>1, Always, PTL

\* An edge never leads to a source file, which WorkerPool assumes (add_step).
THEOREM EdgesReachSteps == Spec => []EdgesLeadToSteps
<1>1. IInv => EdgesLeadToSteps
  BY ProducersFollow
<1> QED
  BY <1>1, Always, PTL

\* When all inputs of the lines read are connected, and after every load, the
\* edges between two files are as many as their mentions in the manifest and
\* the depfiles (add_step, parseDepfile, emit_bin, parse_bin).
THEOREM EdgesAsMentioned == Spec => []EdgesExact
<1> QED
  BY EdgesFollow, Always, PTL

\* The parse stops at a malformed line or at a second line for one output, and
\* otherwise reads them all (parse, add_step).
THEOREM ErrorsHaveReasons == Spec => []ErrorJustified
<1> QED
  BY ErrorsFollow, Always, PTL

\* The first definition of a key in the manifest decides, then the first on
\* the command line, in every invocation anew (add_definition, main, emit_bin).
THEOREM FirstDefinitionDecides == Spec => []FirstDefinitionWins
<1> QED
  BY DefinitionsFollow, Always, PTL

\* The graph that an invocation loads is the graph that was saved: the table of
\* strings and the references into it lose and confuse nothing (emit_bin,
\* StringBuffer, parse_bin).
THEOREM SnapshotReloads == Spec => []SnapshotFaithful
<1> QED
  BY SnapshotFollows, Always, PTL

\* For every text of a depfile, of any length, the names that the scanner finds
\* are those the text has after its first colon (parseDepfile, skipWhitespace,
\* extractToken).
THEOREM DepfilesReadAsWritten == Spec => []DepfileAsWritten
<1> QED
  BY DepfilesFollow, Always, PTL

\* For every line of the manifest and all definitions the command that runs is
\* the documented one, with a response file from the documented number of inputs
\* on, unless the step was loaded from the snapshot and its line has opaque
\* inputs; and the commands shown and in the database differ from it as the
\* property says (execute, emit_commands, buildCompdb).
THEOREM CommandsAgree == Spec => []CommandsAsDocumented
<1> QED
  BY CommandsFollow, Always, PTL

-----------------------------------------------------------------------------
(* The estimates. *)

LEMMA EstimatesFollow == IInv => EstimateAsListed
<1> SUFFICES ASSUME IInv PROVE EstimateAsListed
  OBVIOUS
<1>1. estimates \in Seq(EstimateLine)
  BY DEF IInv, FilesInv
<1>2. ASSUME NEW path
      PROVE GetWorkEstimate(LoadEstimates(estimates), path) = EstimateSaid(estimates, path)
  BY <1>1, EstimateFound
<1> QED
  BY <1>2 DEF EstimateAsListed

\* Whatever the lines of the estimates file and their order, every output gets
\* the estimate its lines give it (load_estimates, get_work_estimate).
THEOREM EstimatesListed == Spec => []EstimateAsListed
<1> QED
  BY EstimatesFollow, Always, PTL

-----------------------------------------------------------------------------
(* The command line. *)

\* The property is inductive, given the types.
LEMMA ArgvKept ==
  ASSUME IInv, ArgvUnderstood, [Next]_vars
  PROVE  ArgvUnderstood'
<1>1. CASE ReadArguments
  <2> DEFINE r == CliArgs(argv)
  <2>1. argv \in Seq(STRING) /\ Assignment \in [DOMAIN Assignment -> Definition]
    BY BuildGraphAssumption DEF IInv, FilesInv
  <2>2. r.outcome = OutcomeSaid(argv) /\ (OutcomeSaid(argv) = "ok" => r.args = ArgsSaid(argv))
    BY <2>1, ReadAsSaid
  <2>3. r \in ReadingRecord(Definition, STRING)
    BY <2>1, CliArgsType
  <2>4. r.outcome \in {"ok", "help", "error"}
    BY <2>3 DEF ReadingRecord
  <2> HIDE DEF r
  <2>5. /\ argv' = argv
        /\ r.outcome = "ok" => args' = r.args
        /\ phase' = CASE r.outcome = "help" -> "helped"
                      [] r.outcome = "error" -> "refused"
                      [] r.outcome = "ok" /\ ~Found(r) -> "refused"
                      [] r.outcome = "ok" /\ Found(r) ->
                           IF bin = NoBin THEN "parsing" ELSE "loading"
    BY <1>1 DEF ReadArguments, r
  <2>6. r.outcome = "ok" => /\ Found(r) <=> Found([args |-> args'])
                            /\ args' = ArgsSaid(argv)
    BY <2>2, <2>5 DEF Found
  <2>7. OutcomeSaid(argv)' = OutcomeSaid(argv) /\ ArgsSaid(argv)' = ArgsSaid(argv)
    BY <2>5
  <2> QED
    BY <2>2, <2>4, <2>5, <2>6, <2>7 DEF ArgvUnderstood
<1>2. CASE Invoke
  BY <1>2 DEF Invoke, ArgvUnderstood
<1>3. CASE ~ReadArguments /\ ~Invoke
  <2>1. UNCHANGED <<argv, args>>
    BY <1>3 DEF Next, vars, AddDefinition, Malformed, DuplicateProducer, AddStep, Connect,
                EndOfParse, ApplyOverrides, LoadBin
  <2>2. \/ phase' = phase
        \/ /\ phase \in {"parsing", "parsed", "loading"}
           /\ phase' \in {"parsing", "error", "parsed", "ready"}
    BY <1>3 DEF Next, vars, AddDefinition, Malformed, DuplicateProducer, AddStep, Connect,
                EndOfParse, ApplyOverrides, LoadBin, AtLine
  <2> QED
    BY <2>1, <2>2 DEF ArgvUnderstood
<1> QED
  BY <1>1, <1>2, <1>3

\* For every command line, of any length, main answers, gives up or goes on as
\* its words say, with the arguments that they say (cliArgs, main).
THEOREM CommandLinesUnderstood == Spec => []ArgvUnderstood
<1>1. Init => ArgvUnderstood
  BY DEF Init, ArgvUnderstood
<1>2. IInv /\ ArgvUnderstood /\ [Next]_vars => ArgvUnderstood'
  BY ArgvKept
<1> QED
  BY <1>1, <1>2, Always, PTL DEF Spec

=============================================================================
