----------------------------- MODULE CommandLine ----------------------------
(***************************************************************************)
(* How cliArgs reads the command line of cbe, word by word                 *)
(* (src/src/cli_args.cpp), with the estimates feature and without logging. *)
(***************************************************************************)
EXTENDS Naturals, Sequences, FiniteSets, FiniteSetsExt, SequencesExt,
        SequenceHelpers

CONSTANTS
  Assignment,  \* key and value of each word that has a '='
  Number       \* the number from_chars finds at the beginning of a text; a
               \* text that begins with none, or with one too large, has none

\* The options that take the next word as their value, whatever it is.
Valued == {"-C", "-f", "--estimates", "-j", "--jobs", "-t"}
Switches == {"-n", "--dry-run", "-s", "--silent", "-k", "--keep-going"}
Questions == {"-h", "--help", "-v", "--version"}
Tools == {"clean", "compdb", "graph", "commands"}

\* The options of the help text (src/src/cli_args.cpp:96-115), and those that
\* only docs/cli/reference.md:17-25 has.
HelpValued == {"-C", "-f", "-j", "--jobs", "-t", "--estimates"}
HelpSwitches == {"-k", "--keep-going", "-n", "--dry-run", "-s", "--silent"}
HelpQuestions == {"-h", "--help", "-v", "--version"}
HelpTools == {"clean", "compdb", "graph", "commands"}
ReferenceOnly == {"-d", "-e", "--clean", "--compdb", "--graph"}

\* No option has a '='.
ASSUME CommandLineAssumption ==
  DOMAIN Assignment
    \cap (Valued \cup Switches \cup Questions \cup ReferenceOnly) = {}

DefaultArgs ==
  [dry_run |-> FALSE, silent |-> FALSE, keep_going |-> FALSE, jobs |-> 0,
   clean |-> FALSE, compdb |-> FALSE, graph |-> FALSE, commands |-> FALSE,
   build_file |-> "catalyst.build", estimates_file |-> "catalyst.estimates",
   work_dir |-> ".", definition_overrides |-> <<>>]

\* While words are read, option is the one whose value comes next.
Nothing == "nothing"
Reading == [outcome |-> "ok", option |-> Nothing, args |-> DefaultArgs]

Fails(r) == [r EXCEPT !.outcome = "error"]

\* The value of an option.
Value(r, word) ==
  LET read == [r EXCEPT !.option = Nothing]
  IN CASE r.option = "-C" -> [read EXCEPT !.args.work_dir = word]
       [] r.option = "-f" -> [read EXCEPT !.args.build_file = word]
       [] r.option = "--estimates" -> [read EXCEPT !.args.estimates_file = word]
       [] r.option \in {"-j", "--jobs"} ->
            IF word \in DOMAIN Number
              THEN [read EXCEPT !.args.jobs = Number[word]] ELSE Fails(r)
       [] r.option = "-t" ->
            IF word \in Tools THEN [read EXCEPT !.args[word] = TRUE] ELSE Fails(r)

\* A word that is an option, a definition or an error.
Option(r, word) ==
  CASE word \in Questions -> [r EXCEPT !.outcome = "help"]
    [] word \in Valued -> [r EXCEPT !.option = word]
    [] word \in {"-n", "--dry-run"} -> [r EXCEPT !.args.dry_run = TRUE]
    [] word \in {"-s", "--silent"} -> [r EXCEPT !.args.silent = TRUE]
    [] word \in {"-k", "--keep-going"} -> [r EXCEPT !.args.keep_going = TRUE]
    [] word \in DOMAIN Assignment ->
         [r EXCEPT !.args.definition_overrides = Append(@, Assignment[word])]
    [] OTHER -> Fails(r)

\* Mutated form of ReadWord: an option is an option also where a value is due.
ReadOptionFirst(r, word) ==
  IF r.outcome # "ok" THEN r
  ELSE IF word \in Valued \cup Switches \cup Questions THEN Option(r, word)
  ELSE IF r.option # Nothing THEN Value(r, word) ELSE Option(r, word)

\* One iteration of the loop; what follows an error or a question is not read.
ReadWord(r, word) ==
  IF r.outcome # "ok" THEN r
  ELSE IF r.option # Nothing THEN Value(r, word) ELSE Option(r, word)

\* cliArgs.
CliArgs(argv) ==
  LET read[k \in 0 .. Len(argv)] ==
        IF k = 0 THEN Reading ELSE ReadWord(read[k - 1], argv[k])
      r == read[Len(argv)]
  IN IF r.outcome = "ok" /\ r.option # Nothing THEN Fails(r) ELSE r

-----------------------------------------------------------------------------
(* What a command line means by the documents, without a loop. *)

\* The words that are not the value of the option before them.
Heads(argv) ==
  CHOOSE heads \in SUBSET DOMAIN argv : \A i \in DOMAIN argv :
    i \in heads <=> ~(i - 1 \in heads /\ argv[i - 1] \in HelpValued)

Options ==
  HelpValued \cup HelpSwitches \cup HelpQuestions \cup ReferenceOnly

\* The heads that no document gives a meaning, or not with that value.
Wrong(argv) ==
  {i \in Heads(argv) :
     \/ argv[i] \notin Options \cup DOMAIN Assignment
     \/ argv[i] \in HelpValued /\ i = Len(argv)
     \/ argv[i] \in {"-j", "--jobs"} /\ argv[i + 1] \notin DOMAIN Number
     \/ argv[i] = "-t" /\ argv[i + 1] \notin HelpTools}

Given(argv, words) == {i \in Heads(argv) : argv[i] \in words}

\* The value given last, or the default.
LastValue(argv, words, default) ==
  IF Given(argv, words) = {} THEN default ELSE argv[Max(Given(argv, words)) + 1]

\* The options that are documented, but not known to cliArgs.
Unknown(argv) == Given(argv, ReferenceOnly)

\* How cliArgs should end if it has to refuse the unknown ones, and what it
\* should have found if it ends well.
OutcomeSaid(argv) ==
  LET errors == Wrong(argv) \cup Unknown(argv)
      ends == errors \cup Given(argv, HelpQuestions)
  IN IF ends = {} THEN "ok" ELSE IF Min(ends) \in errors THEN "error" ELSE "help"

ArgsSaid(argv) ==
  LET tool(t) == \E i \in Given(argv, {"-t"}) : argv[i + 1] = t
      jobs == Given(argv, {"-j", "--jobs"})
      at == Ascending(Given(argv, DOMAIN Assignment))
  IN [dry_run |-> Given(argv, {"-n", "--dry-run"}) # {},
      silent |-> Given(argv, {"-s", "--silent"}) # {},
      keep_going |-> Given(argv, {"-k", "--keep-going"}) # {},
      jobs |-> IF jobs = {} THEN 0 ELSE Number[argv[Max(jobs) + 1]],
      clean |-> tool("clean"), compdb |-> tool("compdb"),
      graph |-> tool("graph"), commands |-> tool("commands"),
      build_file |-> LastValue(argv, {"-f"}, "catalyst.build"),
      estimates_file |-> LastValue(argv, {"--estimates"}, "catalyst.estimates"),
      work_dir |-> LastValue(argv, {"-C"}, "."),
      definition_overrides |-> [i \in DOMAIN at |-> Assignment[argv[at[i]]]]]

=============================================================================
