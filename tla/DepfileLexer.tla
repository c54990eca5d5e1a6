---------------------------- MODULE DepfileLexer ----------------------------
(***************************************************************************)
(* How parseDepfile finds the dependencies in a .d file that a compiler    *)
(* wrote for make (src/src/graph.cpp).  A file is a sequence of symbols:   *)
(* the five with a meaning, and others, each of which stands for a stretch *)
(* of ordinary characters.  A token of one symbol is that symbol; other    *)
(* tokens, with their backslashes, are names of their own.                 *)
(***************************************************************************)
EXTENDS Naturals, Sequences, FiniteSets, FiniteSetsExt, SequencesExt,
        SequenceHelpers

CONSTANTS Space, Newline, Return, Backslash, Colon

Blank == {Space, Newline, Return}    \* the characters up to ' '
LineEnd == {Newline, Return}

ASSUME LexerAssumption == Backslash \notin Blank

\* A backslash at the end of a line.
ContinuesAt(text, i) ==
  text[i] = Backslash /\ i < Len(text) /\ text[i + 1] \in LineEnd

\* The position after a backslash and the end of the line, CR, LF or both.
AfterContinuation(text, i) ==
  IF text[i + 1] = Return /\ i + 2 <= Len(text) /\ text[i + 2] = Newline
    THEN i + 3 ELSE i + 2

\* skipWhitespace, from each position.
SkipWhitespace(text) ==
  LET skip[i \in 1 .. Len(text) + 1] ==
        IF i > Len(text) THEN i
        ELSE IF text[i] \in Blank THEN skip[i + 1]
        ELSE IF ContinuesAt(text, i) THEN skip[AfterContinuation(text, i)]
        ELSE i
  IN skip

\* Mutated form of AfterEscape: the character after a backslash is not skipped.
AfterBackslash(text, i) == i + 1

\* The position after a backslash and what it escapes, if anything is there.
AfterEscape(text, i) == IF i = Len(text) THEN i + 1 ELSE i + 2

\* extractToken: where the token that begins at each position ends.
TokenEnd(text) ==
  LET end[i \in 1 .. Len(text) + 1] ==
        IF i > Len(text) \/ text[i] \in Blank \/ ContinuesAt(text, i) THEN i
        ELSE end[IF text[i] = Backslash THEN AfterEscape(text, i) ELSE i + 1]
  IN end

NameOf(token) == IF Len(token) = 1 THEN token[1] ELSE token

\* parseDepfile, of the content of a file: the tokens after the first colon.
ParseDepfile(text) ==
  LET skip == SkipWhitespace(text)
      end == TokenEnd(text)
      tokens[i \in 1 .. Len(text) + 1] ==
        IF skip[i] > Len(text) THEN <<>>
        ELSE <<NameOf(SubSeq(text, skip[i], end[skip[i]] - 1))>>
               \o tokens[end[skip[i]]]
      colons == {i \in DOMAIN text : text[i] = Colon}
  IN IF colons = {} THEN <<>> ELSE tokens[Min(colons) + 1]

-----------------------------------------------------------------------------
(* What a depfile lists, without a scanner. *)

\* The backslashes just before position i, after position from.
BackslashesBefore(text, from, i) ==
  Cardinality({k \in from + 1 .. i - 1 : \A j \in k .. i - 1 : text[j] = Backslash})

\* A character belongs to a name if it is escaped, unless it ends a line, or
\* if it neither is blank nor continues a line.
InName(text, from, i) ==
  IF BackslashesBefore(text, from, i) % 2 = 1 THEN text[i] \notin LineEnd
  ELSE text[i] \notin Blank /\ ~ContinuesAt(text, i)

\* The names are the longest stretches of such characters.
NamesIn(text) ==
  LET from == Min({i \in DOMAIN text : text[i] = Colon} \cup {Len(text)})
      inName == {i \in from + 1 .. Len(text) : InName(text, from, i)}
      first == {i \in inName : i - 1 \notin inName}
      last(i) == CHOOSE j \in inName :
                   j >= i /\ j + 1 \notin inName /\ i .. j \subseteq inName
      names == Ascending(first)
  IN [k \in DOMAIN names |-> NameOf(SubSeq(text, names[k], last(names[k])))]

=============================================================================
