---------------------------- MODULE WorkEstimate ----------------------------
(***************************************************************************)
(* The file of work estimates: how its lines are loaded, and how the       *)
(* estimate of an output is found (src/src/work_estimate.cpp).  A line is  *)
(* a path and what follows its first '|', or NoPipe.                       *)
(***************************************************************************)
EXTENDS Naturals, Sequences, FiniteSets, SequencesExt, SequenceHelpers

CONSTANTS
  TextOrder,  \* the texts a line may hold, in the order of their characters
  NoPipe,     \* what follows the '|' of a line that has none
  Amount      \* the number at the beginning of a text; a text without has none

\* No text comes twice.
ASSUME TextOrderAssumption ==
  /\ TextOrder \in Seq(ToSet(TextOrder))
  /\ \A i, j \in DOMAIN TextOrder : TextOrder[i] = TextOrder[j] => i = j

EstimateLine == [path : ToSet(TextOrder), value : ToSet(TextOrder) \cup {NoPipe}]

Rank(text) == CHOOSE i \in DOMAIN TextOrder : TextOrder[i] = text

\* Mutated form of Before: only the paths are compared.
BeforeByPath(e, f) == Rank(e.path) < Rank(f.path)

\* operator<=> of EstimateEntry: by path, then by the text of the value.
Before(e, f) ==
  \/ Rank(e.path) < Rank(f.path)
  \/ e.path = f.path /\ Rank(e.value) < Rank(f.value)

\* std::ranges::sort: each entry is put where as many precede it as go ahead of
\* it.  The order of two that compare equal does not matter.
Sorted(entries) ==
  LET ahead(i, j) == \/ Before(entries[i], entries[j])
                     \/ i < j /\ ~Before(entries[j], entries[i])
      place(i) == Cardinality({j \in DOMAIN entries : ahead(j, i)}) + 1
  IN [n \in DOMAIN entries |->
        entries[CHOOSE i \in DOMAIN entries : place(i) = n]]

\* The constructor; a file that is missing is one without lines.
LoadEstimates(lines) ==
  Sorted(Only(lines, {e \in ToSet(lines) : e.value # NoPipe}))

\* getWorkEstimate: the first entry whose path is not before the one asked for.
GetWorkEstimate(entries, path) ==
  LET i == 1 + Cardinality({k \in DOMAIN entries :
                              Rank(entries[k].path) < Rank(path)})
  IN IF /\ i <= Len(entries)
        /\ entries[i].path = path
        /\ entries[i].value \in DOMAIN Amount
       THEN Amount[entries[i].value] ELSE 0

-----------------------------------------------------------------------------
\* The texts that the file gives for a path.
Listed(lines, path) ==
  {lines[i].value : i \in {k \in DOMAIN lines : lines[k].path = path}} \ {NoPipe}

\* The estimate as the lines have it, whatever their order: the text that comes
\* first decides, which need not be the least number.
EstimateSaid(lines, path) ==
  LET least == {v \in Listed(lines, path) :
                  \A w \in Listed(lines, path) : Rank(v) <= Rank(w)}
      numbers == {Amount[v] : v \in least \cap DOMAIN Amount}
  IN IF numbers = {} THEN 0 ELSE CHOOSE n \in numbers : TRUE

=============================================================================
