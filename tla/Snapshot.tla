------------------------------ MODULE Snapshot ------------------------------
(***************************************************************************)
(* The format of .catalyst.bin: emit_bin writes the definitions, nodes and *)
(* steps of a builder with every string replaced by a reference into one   *)
(* table of strings, and parse_bin reads them back (src/src/binary.cpp).   *)
(*                                                                         *)
(* A string is the sequence of its parts between commas, so that a path p  *)
(* is <<p>>; offset and length of a StringRef are the string's position in *)
(* the table.                                                              *)
(***************************************************************************)
EXTENDS Naturals, Sequences, SequencesExt, SequenceHelpers

CONSTANT Empty    \* the empty part, as in "a,,b"

NonEmpty(parts) == Only(parts, ToSet(parts) \ {Empty})

\* StringBuffer::add: a string that is there already is not added again.
Intern(table, str) ==
  IF \E i \in DOMAIN table : table[i] = str THEN table ELSE Append(table, str)

\* The table after all the strings.
TableOf(strs) ==
  LET table[k \in 0 .. Len(strs)] ==
        IF k = 0 THEN <<>> ELSE Intern(table[k - 1], strs[k])
  IN table[Len(strs)]

Ref(table, str) == CHOOSE i \in DOMAIN table : table[i] = str

\* The strings in the order emit_bin adds them.
StringsOf(defs, nodes, steps) ==
  LET ofDef(d) == <<d.key, d.val>>
      ofStep(st) == <<<<st.tool>>, st.inputs, <<st.output>>>>
                      \o [i \in DOMAIN st.depfile_inputs |-> <<st.depfile_inputs[i]>>]
  IN FlattenSeq([i \in DOMAIN defs |-> ofDef(defs[i])])
       \o [i \in DOMAIN nodes |-> <<nodes[i].path>>]
       \o FlattenSeq([i \in DOMAIN steps |-> ofStep(steps[i])])

\* emit_bin.  The hash map of definitions is walked in some order.
EmitBin(definitions, nodes, steps) ==
  LET keys == SetToSeq(DOMAIN definitions)
      defs == [i \in DOMAIN keys |->
                 [key |-> <<keys[i]>>, val |-> <<definitions[keys[i]]>>]]
      table == TableOf(StringsOf(defs, nodes, steps))
      ref(str) == Ref(table, str)
  IN [definitions |-> [i \in DOMAIN defs |->
                         [key |-> ref(defs[i].key), val |-> ref(defs[i].val)]],
      nodes |-> [i \in DOMAIN nodes |->
                   [path |-> ref(<<nodes[i].path>>), step_id |-> nodes[i].step_id,
                    out_edges |-> nodes[i].out_edges]],
      steps |-> [i \in DOMAIN steps |->
                   [tool |-> ref(<<steps[i].tool>>), inputs |-> ref(steps[i].inputs),
                    output |-> ref(<<steps[i].output>>),
                    depfile_inputs |-> [j \in DOMAIN steps[i].depfile_inputs |->
                                          ref(<<steps[i].depfile_inputs[j]>>)]]],
      strings |-> table]

\* Mutated form of DepfileRefs: the depfile is left for the next text parse.
NoDepfile(st) == <<>>

\* The references of the inputs found in the depfile.
DepfileRefs(st) == st.depfile_inputs

\* parse_bin.  An input whose name begins with '!' is not told from others.
ParseBin(bin) ==
  LET part(ref) == bin.strings[ref][1]
      keyAt(i) == part(bin.definitions[i].key)
      keys == {keyAt(i) : i \in DOMAIN bin.definitions}
      defAt(k) == CHOOSE i \in DOMAIN bin.definitions :
                    keyAt(i) = k /\ \A j \in 1 .. i - 1 : keyAt(j) # k
  IN [definitions |-> [k \in keys |-> part(bin.definitions[defAt(k)].val)],
      nodes |-> [i \in DOMAIN bin.nodes |->
                   [path |-> part(bin.nodes[i].path),
                    step_id |-> bin.nodes[i].step_id,
                    out_edges |-> bin.nodes[i].out_edges]],
      steps |-> [i \in DOMAIN bin.steps |->
                   [tool |-> part(bin.steps[i].tool),
                    inputs |-> bin.strings[bin.steps[i].inputs],
                    output |-> part(bin.steps[i].output),
                    opaque_inputs |-> <<>>,
                    depfile_inputs |-> [j \in DOMAIN DepfileRefs(bin.steps[i]) |->
                                          part(DepfileRefs(bin.steps[i])[j])],
                    parsed_inputs |-> NonEmpty(bin.strings[bin.steps[i].inputs])]]]

=============================================================================
