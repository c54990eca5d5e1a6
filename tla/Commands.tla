------------------------------ MODULE Commands ------------------------------
(***************************************************************************)
(* The commands of the steps.  Three functions build them: execute(),      *)
(* which runs them, emit_commands() and buildCompdb() (src/src/            *)
(* executor.cpp).  A command is the sequence of its arguments; the         *)
(* arguments made from the name of the output, <output>.d and @<output>    *)
(* with the extension .rsp, are written as "out.d" and "@rsp".             *)
(***************************************************************************)
EXTENDS Naturals, Sequences, Snapshot

CONSTANTS
  Parts,   \* what stands between the spaces of each value
  Limit    \* TUNABLE_INPUT_SZ, 50 in the code

Compilation == {"cc", "cxx"}

\* getDefinitionOf a sequence.
GetDefinitionOf(definitions, key) ==
  IF key \in DOMAIN definitions THEN Parts[definitions[key]] ELSE <<>>

\* add_parts: what two spaces in a row leave between them is no argument.
Flags(definitions, key) == NonEmpty(GetDefinitionOf(definitions, key))

\* Mutated form of UseRsp: the threshold is one too low.
UseRspAtLimit(step, newer) == newer \/ Len(step.parsed_inputs) >= Limit

\* Whether the inputs of ld are in a response file: one that is there and newer
\* than the manifest, or one that is written for so many.
UseRsp(step, newer) == newer \/ Len(step.parsed_inputs) > Limit

\* build_command_args of execute().
BuildCommandArgs(defs, step, newer) ==
  LET in == step.parsed_inputs
      to == <<"-o", step.output>>
  IN CASE step.tool = "cc" ->
            Flags(defs, "cc") \o Flags(defs, "cflags")
              \o <<"-MMD", "-MF", "out.d", "-c">> \o in \o to
       [] step.tool = "cxx" ->
            Flags(defs, "cxx") \o Flags(defs, "cxxflags")
              \o <<"-MMD", "-MF", "out.d", "-c">> \o in \o to
       [] step.tool = "ld" ->
            Flags(defs, "cxx")
              \o (IF UseRsp(step, newer) THEN <<"@rsp">> ELSE in) \o to
              \o Flags(defs, "ldflags") \o Flags(defs, "ldlibs")
       [] step.tool = "ar" -> <<"ar", "rcs", step.output>> \o in
       [] step.tool = "sld" -> Flags(defs, "cxx") \o <<"-shared">> \o in \o to
       [] OTHER -> <<>>

\* build_command_args_internal of emit_commands().
ShownArgs(defs, step) ==
  LET in == step.parsed_inputs
      to == <<"-o", step.output>>
  IN CASE step.tool \in Compilation ->
            Flags(defs, step.tool)
              \o Flags(defs, IF step.tool = "cc" THEN "cflags" ELSE "cxxflags")
              \o <<"-MMD", "-MF", "out.d", "-c">> \o in \o to
       [] step.tool = "ld" -> Flags(defs, "cxx") \o in \o to
       [] step.tool = "ar" -> <<"ar", "rcs", step.output>> \o in
       [] step.tool = "sld" -> Flags(defs, "cxx") \o <<"-shared">> \o in \o to
       [] OTHER -> <<>>

\* buildCompdb, for the steps it has entries for.
DatabaseArgs(defs, step) ==
  Flags(defs, step.tool)
    \o Flags(defs, IF step.tool = "cc" THEN "cflags" ELSE "cxxflags")
    \o <<"-MMD", "-MF", "out.d", "-c">> \o step.parsed_inputs
    \o <<"-o", step.output>>

=============================================================================
