-------------------------- MODULE SequenceHelpers ---------------------------
(***************************************************************************)
(* Sequences made from others, for the modules about text.  They say what  *)
(* SelectSeq, SortSeq and SetToSortSeq do without their operator           *)
(* parameters, so that facts about them can be proved.                     *)
(***************************************************************************)
EXTENDS Naturals, Sequences, FiniteSets, SequencesExt

\* The elements of a sequence that are in S, in their order.
Only(seq, S) ==
  LET only[k \in 0 .. Len(seq)] ==
        IF k = 0 THEN <<>>
        ELSE IF seq[k] \in S THEN Append(only[k - 1], seq[k]) ELSE only[k - 1]
  IN only[Len(seq)]

\* The numbers of a finite set, the least first.
Ascending(S) ==
  CHOOSE seq \in [1 .. Cardinality(S) -> S] :
    \A i, j \in 1 .. Cardinality(S) : i < j => seq[i] < seq[j]

=============================================================================
