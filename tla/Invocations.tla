---------------------------- MODULE Invocations -----------------------------
(***************************************************************************)
(* The files that cbe writes for itself and trusts later: .catalyst.bin,   *)
(* one for all the manifests that -f may name (src/src/parser.cpp,         *)
(* binary.cpp), and the response files of link steps, one for all outputs  *)
(* that differ in their extension only (src/src/executor.cpp).  Manifests  *)
(* are edited and removed, response files are removed, invocations are     *)
(* killed at any time, and disks are full.                                 *)
(*                                                                         *)
(* A manifest is one of a few texts, of which only the link steps matter;  *)
(* a snapshot is its size and the text it is made from.  Which links are   *)
(* due is the subject of Freshness; here it may be any of them.  Other     *)
(* tasks than building, and dry runs, link nothing.                        *)
(***************************************************************************)
EXTENDS Naturals, Sequences, FiniteSets

CONSTANTS
  Manifest,     \* the names -f may give
  Text,         \* what a manifest may hold
  File,         \* what a link may read
  Output,       \* the outputs of link steps
  Links,        \* parsed_inputs of the link steps of each text, by output
  Rsp,          \* the names of response files
  RspOf,        \* the one of each output: replace_extension(".rsp")
  Limit,        \* TUNABLE_INPUT_SZ, 50 in the code
  BodySize,     \* the sizes of definitions, nodes and steps in the snapshot of
  StringsSize,  \* a text, and of its strings
  MaxTime       \* bound of the clock

NoFile == "none"        \* no invocation is running
NoText == "none"        \* nothing is loaded
Refused == "refused"    \* parse_bin returned an error
Garbage == "garbage"    \* parse_bin took what is no snapshot for one

ASSUME InvocationsAssumption ==
  /\ \A t \in Text : /\ DOMAIN Links[t] \subseteq Output
                    /\ Links[t] \in [DOMAIN Links[t] -> Seq(File)]
  /\ RspOf \in [Output -> Rsp]
  /\ Limit \in Nat /\ MaxTime \in Nat \ {0}
  /\ Text # {} /\ {NoText, Refused, Garbage} \cap Text = {}
  /\ BodySize \in [Text -> Nat] /\ StringsSize \in [Text -> Nat]

VARIABLES
  now,         \* the clock of the file system, coarse and monotonic
  manifest,    \* text and last_write_time of each manifest
  bin,         \* .catalyst.bin
  rsp,         \* the response files
  phase,       \* where the invocation is
  build_file,  \* the manifest it was started for
  loaded,      \* the text its graph is made from
  link,        \* where each link step is
  read,        \* the files each link step has read
  suspect,     \* history: the manifests for which bin or a response file may
               \* be wrong
  doubt        \* history: this invocation may link with wrong response files

derived == <<bin, rsp>>
process == <<phase, build_file, loaded, link, read>>
history == <<suspect, doubt>>
vars == <<now, manifest, derived, process, history>>

Missing == 0
Time == 0 .. MaxTime

HeaderSize == 1

\* Mutated form of SnapshotSize: the header is counted twice.
SizeWithTwoHeaders(t) == HeaderSize + HeaderSize + BodySize[t] + StringsSize[t]

SnapshotSize(t) == HeaderSize + BodySize[t] + StringsSize[t]

Outputs(t) == IF t \in Text THEN DOMAIN Links[t] ELSE {}

Inputs(o) == Links[loaded][o]

\* How far a link is: it is due, has found a response file, is to make one, has
\* opened it, goes by the command line, or by the file, and is over.
Progress ==
  {"idle", "due", "found", "generating", "open", "listed", "named", "done", "failed"}

TypeOK ==
  /\ now \in Time \ {Missing}
  /\ manifest \in [Manifest -> [text : Text, time : Time]]
  /\ bin.time \in Time /\ bin.text \in Text
  /\ bin.size \in 0 .. HeaderSize + BodySize[bin.text] + StringsSize[bin.text]
  /\ rsp \in [Rsp -> [time : Time, lines : Seq(File)]]
  /\ phase \in {"idle", "mapped", "writing", "building"}
  /\ build_file \in Manifest \cup {NoFile}
  /\ phase # "idle" => build_file \in Manifest
  /\ loaded \in Text \cup {NoText, Refused, Garbage}
  /\ phase \in {"mapped", "writing"} => loaded \in Text
  /\ link \in [Output -> Progress]
  /\ \A o \in Output : link[o] # "idle" => phase = "building" /\ o \in Outputs(loaded)
  /\ read \in [Output -> Seq(File)]
  /\ suspect \subseteq Manifest /\ doubt \in BOOLEAN

-----------------------------------------------------------------------------
(* What goes wrong for a manifest, and when it is right again. *)

\* A snapshot of the text misleads whoever starts cbe for another one.
SuspectForBin(t) ==
  /\ suspect' = suspect \cup {m \in Manifest : manifest[m].text # t}
  /\ UNCHANGED doubt

\* A response file for o misleads the links of other outputs, and those of
\* other inputs.
Misleads(o, t) ==
  \E q \in Outputs(t) :
    RspOf[q] = RspOf[o] /\ (q # o \/ Links[t][q] # Links[loaded][o])

\* One that two links share may hold a mixture, good for nobody.
SuspectForRsp(o) ==
  /\ suspect' = IF Misleads(o, loaded) THEN Manifest
                ELSE suspect \cup {m \in Manifest : Misleads(o, manifest[m].text)}
  /\ doubt' = (doubt \/ Misleads(o, loaded))

-----------------------------------------------------------------------------
(* The user. *)

Idle == [o \in Output |-> "idle"]
NothingRead == [o \in Output |-> <<>>]

Init ==
  /\ now = 1
  /\ manifest \in [Manifest -> [text : Text, time : {1}]]
  /\ bin = [time |-> Missing, text |-> CHOOSE t \in Text : TRUE, size |-> 0]
  /\ rsp = [r \in Rsp |-> [time |-> Missing, lines |-> <<>>]]
  /\ phase = "idle" /\ build_file = NoFile /\ loaded = NoText
  /\ link = Idle /\ read = NothingRead
  /\ suspect = {} /\ doubt = FALSE

Tick ==
  /\ now < MaxTime
  /\ now' = now + 1
  /\ UNCHANGED <<manifest, derived, process, history>>

Exists(m) == manifest[m].time # Missing
RspExists(r) == rsp[r].time # Missing

\* A manifest is written, also while cbe runs: now it is as new as any file.
Edit(m, t) ==
  /\ manifest' = [manifest EXCEPT ![m] = [text |-> t, time |-> now]]
  /\ suspect' = suspect \ {m}
  /\ UNCHANGED <<now, derived, process, doubt>>

\* A link that has not made its choice yet would find a file that is not its
\* own.
MayMistake(o) ==
  /\ link[o] \in {"idle", "due", "found"} /\ RspExists(RspOf[o])
  /\ rsp[RspOf[o]].lines # Inputs(o)

\* A manifest is removed, also while cbe runs: there is nothing left that a
\* response file could be older than.
Remove(m) ==
  /\ Exists(m)
  /\ manifest' = [manifest EXCEPT ![m].time = Missing]
  /\ doubt' = (doubt \/ (m = build_file /\ \E o \in Outputs(loaded) : MayMistake(o)))
  /\ UNCHANGED <<now, derived, process, suspect>>

\* A response file is removed, but not while it is being written.
RemoveRsp(r) ==
  /\ RspExists(r)
  /\ \A o \in Output : RspOf[o] = r => link[o] # "open"
  /\ rsp' = [rsp EXCEPT ![r] = [time |-> Missing, lines |-> <<>>]]
  /\ UNCHANGED <<now, manifest, bin, process, history>>

-----------------------------------------------------------------------------
(* Parsing. *)

\* Mutated form of BinIsNewer: the same time will do.
BinIsNotOlder(m) == bin.time # Missing /\ bin.time >= manifest[m].time

BinIsNewer(m) == bin.time # Missing /\ bin.time > manifest[m].time

\* parse_bin: the checks of the header compare sizes only.  The strings are
\* taken from the end of the file, wherever it ends.
ParseBin ==
  IF bin.size < HeaderSize \/ StringsSize[bin.text] > bin.size - HeaderSize
    THEN Refused
  ELSE IF bin.size = SnapshotSize(bin.text) THEN bin.text
  ELSE Garbage

\* The links that are due.  With a graph that is garbage anything may happen;
\* with none nothing does.
Begin(t) ==
  \E due \in SUBSET Outputs(t) : link' = [o \in Output |-> IF o \in due THEN "due" ELSE "idle"]

\* main for the manifest m, which it asks for: parse loads the snapshot, or maps
\* the manifest and reads it.
Start(m) ==
  /\ phase = "idle" /\ Exists(m)
  /\ build_file' = m
  /\ IF BinIsNewer(m)
       THEN /\ loaded' = ParseBin
            /\ phase' = "building"
            /\ Begin(loaded')
       ELSE /\ loaded' = manifest[m].text
            /\ phase' = "mapped"
            /\ link' = Idle
  /\ read' = NothingRead
  /\ doubt' = (m \in suspect)
  /\ UNCHANGED <<now, manifest, derived, suspect>>

\* emit_bin opens the file, and thereby empties it.
OpenBin ==
  /\ phase = "mapped"
  /\ bin' = [time |-> now, text |-> loaded, size |-> 0]
  /\ phase' = "writing"
  /\ SuspectForBin(loaded)
  /\ UNCHANGED <<now, manifest, rsp, build_file, loaded, link, read>>

\* It cannot be opened; parse does not ask whether it was.
NoBin ==
  /\ phase = "mapped"
  /\ phase' = "building"
  /\ Begin(loaded)
  /\ UNCHANGED <<now, manifest, derived, build_file, loaded, read, history>>

\* The end of emit_bin, with all that was to be written.
WriteBin ==
  /\ phase = "writing"
  /\ bin' = [time |-> now, text |-> loaded, size |-> SnapshotSize(loaded)]
  /\ phase' = "building"
  /\ Begin(loaded)
  /\ SuspectForBin(loaded)
  /\ UNCHANGED <<now, manifest, rsp, build_file, loaded, read>>

\* Only a part of the snapshot gets to the disk.
CutBin ==
  /\ \E size \in 0 .. SnapshotSize(loaded) - 1 :
       bin' = [time |-> now, text |-> loaded, size |-> size]
  /\ suspect' = Manifest

\* The disk is full, which nobody notices.
FullDiskAtBin ==
  /\ phase = "writing"
  /\ CutBin /\ UNCHANGED doubt
  /\ phase' = "building"
  /\ Begin(loaded)
  /\ UNCHANGED <<now, manifest, rsp, build_file, loaded, read>>

-----------------------------------------------------------------------------
(* Linking: build_command_args and the tool. *)

\* Mutated form of RspIsNewer: the same time will do.
RspIsNotOlder(r) ==
  \/ ~RspExists(r) \/ ~Exists(build_file)
  \/ rsp[r].time >= manifest[build_file].time

\* isNewer(rsp_path, config.build_file): yes, too, if one of them has gone.
RspIsNewer(r) ==
  \/ ~RspExists(r) \/ ~Exists(build_file)
  \/ rsp[r].time > manifest[build_file].time

Moves(o, from, to) ==
  /\ phase = "building" /\ link[o] = from
  /\ link' = [link EXCEPT ![o] = to]
  /\ UNCHANGED <<now, manifest, bin, phase, build_file, loaded>>

\* With no file to go by: a new one, if the inputs are many.
Otherwise(o) == IF Len(Inputs(o)) > Limit THEN "generating" ELSE "listed"

\* exists(rsp_path)
AskForRsp(o) ==
  /\ Moves(o, "due", IF RspExists(RspOf[o]) THEN "found" ELSE Otherwise(o))
  /\ UNCHANGED <<rsp, read, history>>

\* What there is, however few the inputs are.
ChooseInputs(o) ==
  /\ Moves(o, "found", IF RspIsNewer(RspOf[o]) THEN "named" ELSE Otherwise(o))
  /\ UNCHANGED <<rsp, read, history>>

\* The response file is opened, and thereby emptied.
OpenRsp(o) ==
  /\ Moves(o, "generating", "open")
  /\ rsp' = [rsp EXCEPT ![RspOf[o]] = [time |-> now, lines |-> <<>>]]
  /\ SuspectForRsp(o)
  /\ UNCHANGED read

\* Lines written from the start of a file that somebody else may have filled.
Over(new, old) == new \o SubSeq(old, Len(new) + 1, Len(old))

WriteRsp(o) ==
  /\ Moves(o, "open", "named")
  /\ rsp' = [rsp EXCEPT ![RspOf[o]] =
               [time |-> now, lines |-> Over(Inputs(o), @.lines)]]
  /\ SuspectForRsp(o)
  /\ UNCHANGED read

\* Only some of the lines get to the disk.
CutRsp(o) ==
  /\ \E n \in 0 .. Len(Inputs(o)) - 1 :
       rsp' = [rsp EXCEPT ![RspOf[o]] =
                 [time |-> now, lines |-> Over(SubSeq(Inputs(o), 1, n), @.lines)]]
  /\ suspect' = Manifest

FullDiskAtRsp(o) ==
  /\ Moves(o, "open", "named")
  /\ CutRsp(o) /\ doubt' = TRUE
  /\ UNCHANGED read

\* The tool reads its inputs, from the command line or from the file.
Link(o) ==
  \E how \in {"listed", "named"} :
    /\ how = "named" => RspExists(RspOf[o])
    /\ Moves(o, how, "done")
    /\ read' = [read EXCEPT ![o] = IF how = "named" THEN rsp[RspOf[o]].lines ELSE Inputs(o)]
    /\ UNCHANGED <<rsp, history>>

\* The tool finds no file of the name it was given.
FailToLink(o) ==
  /\ ~RspExists(RspOf[o])
  /\ Moves(o, "named", "failed")
  /\ UNCHANGED <<rsp, read, history>>

-----------------------------------------------------------------------------
(* The end of an invocation. *)

Ends ==
  /\ phase' = "idle" /\ loaded' = NoText
  /\ build_file' = NoFile /\ link' = Idle /\ read' = NothingRead
  /\ doubt' = FALSE
  /\ UNCHANGED <<now, manifest>>

\* Everything is linked, or nothing more is begun after a failure.
Return ==
  /\ phase = "building"
  /\ \A o \in Output :
       \/ link[o] \in {"idle", "done", "failed"}
       \/ link[o] = "due" /\ \E p \in Output : link[p] = "failed"
  /\ Ends
  /\ UNCHANGED <<derived, suspect>>

\* cbe is killed between two writes.
Kill ==
  /\ phase \in {"mapped", "building"} /\ \A o \in Output : link[o] # "open"
  /\ Ends
  /\ UNCHANGED <<derived, suspect>>

\* cbe is killed in a write.
KillInWrite ==
  /\ \/ phase = "writing" /\ CutBin /\ UNCHANGED rsp
     \/ \E o \in Output : phase = "building" /\ link[o] = "open" /\ CutRsp(o) /\ UNCHANGED bin
  /\ Ends

Next ==
  \/ Tick
  \/ \E m \in Manifest, t \in Text : Edit(m, t)
  \/ \E m \in Manifest : Remove(m) \/ Start(m)
  \/ \E r \in Rsp : RemoveRsp(r)
  \/ OpenBin \/ NoBin \/ WriteBin \/ FullDiskAtBin
  \/ \E o \in Output : \/ AskForRsp(o) \/ ChooseInputs(o) \/ OpenRsp(o) \/ WriteRsp(o)
                       \/ FullDiskAtRsp(o) \/ Link(o) \/ FailToLink(o)
  \/ Return \/ Kill \/ KillInWrite

Spec == Init /\ [][Next]_vars

-----------------------------------------------------------------------------
(* Properties *)

\* cbe builds what the manifest says: an invocation works on the text of the
\* manifest it was started for, and is neither refused nor misled, unless,
\* after that manifest was last written, a snapshot was written from a text it
\* does not have (another manifest's, or its own of before the edit) or was
\* cut short by a kill or a full disk.  To write the manifest heals everything.
NamedManifestLoaded ==
  [][\A m \in Manifest :
       Start(m) /\ m \notin suspect => loaded' = manifest[m].text]_vars

\* A link reads its own inputs, all of them and in their order, whether they
\* are on the command line or in a response file, also when the manifest is
\* edited meanwhile.  The exceptions are an invocation started for a manifest
\* that has become suspect as above, or since it was last written by a response
\* file that another output or other inputs were written to or that was cut
\* short; links of one graph that share a response file; a full disk; and a
\* manifest removed while it is built and a link may still find a file with the
\* lines of others, which isNewer then takes for newer.
LinkReadsItsInputs ==
  \A o \in Output : link[o] = "done" /\ ~doubt => read[o] = Inputs(o)

=============================================================================
