----------------------------- MODULE Freshness ------------------------------
(***************************************************************************)
(* Incremental builds: a sequence of cbe invocations over files that a     *)
(* user edits.  An invocation parses the manifest (or loads the snapshot   *)
(* .catalyst.bin), counts the steps that need rebuilding, which fills the  *)
(* stat cache, and then processes the steps in dependency order with       *)
(* needs_rebuild asking that same cache (src/src/executor.cpp,             *)
(* executor_stat_cache.cpp, parser.cpp, binary.cpp).                       *)
(*                                                                         *)
(* The thread pool is replaced by the specification BuildOrder, which      *)
(* WorkerPool implements.  Nodes without a step do nothing when they are   *)
(* processed and are left out of the schedule.                             *)
(***************************************************************************)
EXTENDS Naturals, Sequences, FiniteSets, SequencesExt

CONSTANTS
  Manifest,     \* config.build_file
  Source,       \* the files a user edits: sources, headers, data files
  Step,         \* the build steps, each named by its output file
  Bang,         \* the name of an opaque input with its '!', never a file
  ScanOrder,    \* the steps in the order of their nodes
  Compile,      \* the steps of the tools cc and cxx, which write a .d file
  Inputs,       \* parsed_inputs of each step
  Opaque,       \* opaque_inputs of each step
  IncludeLists, \* what the tool may list in the .d file
  Binary,       \* the feature FF_cbe__binary
  Deletable,    \* the sources and outputs that users remove
  Options,      \* the pairs <<dry_run, keep_going>> that -n and -k give
  MaxTime       \* bound of the clock

File == {Manifest, Bang} \cup Source \cup Step

ASSUME FreshnessAssumption ==
  /\ Manifest # Bang /\ {Manifest, Bang} \cap (Source \cup Step) = {}
  /\ Step # {} /\ Source \cap Step = {} /\ Compile \subseteq Step
  /\ ScanOrder \in Seq(Step) /\ ToSet(ScanOrder) = Step
  /\ Inputs \in [Step -> Seq(Source \cup Step)]
  /\ Opaque \in [Step -> Seq(Source \cup Step)]
  /\ IncludeLists \subseteq Seq(Source \cup Step)
  /\ Binary \in BOOLEAN
  /\ Deletable \subseteq Source \cup Step
  /\ Options \subseteq BOOLEAN \X BOOLEAN
  /\ MaxTime \in Nat \ {0}

VARIABLES
  now,         \* the clock of the file system, coarse and monotonic
  mtime,       \* last_write_time of each file, Missing if there is none
  includes,    \* what each compilation would read besides its inputs
  depfile,     \* the .d file of each step, <<>> if there is none
  bin,         \* .catalyst.bin: its time and the depfile_inputs it holds
  unseen,      \* history: what each existing output has not taken into account,
               \* itself if it is not what its tool makes of its inputs: a tool
               \* left part of it, or made it of files that changed meanwhile
  phase,       \* where the invocation is
  out_edges,   \* BuildGraph::Node::out_edges, among the steps
  loaded,      \* the graph in memory: whether from .catalyst.bin, depfile_inputs
  dry_run,     \* ExecutorConfig::dry_run
  keep_going,  \* ExecutorConfig::keep_going
  scanned,     \* how many steps the pre-count has looked at
  stat_cache,  \* the times the StatCache holds
  counted,     \* the steps the pre-count found: steps_to_build of them
  ran,         \* the steps announced by print_message
  status,      \* how far each step is, as in BuildOrder
  verdict,     \* what execute() returned, as in BuildOrder
  overtaken,   \* history: the steps whose tool works with the old contents of
               \* a file that has changed since
  disturbed    \* history: something interfered since the invocation began

disk == <<now, mtime, includes, depfile, unseen>>
setup == <<out_edges, loaded, dry_run, keep_going>>
progress == <<scanned, stat_cache, counted, ran>>
history == <<overtaken, disturbed>>
vars == <<disk, bin, phase, setup, progress, status, verdict, history>>

Missing == 0
Time == 0 .. MaxTime
Depfiles == [Step -> IncludeLists \cup {<<>>}]

TypeOK ==
  /\ now \in Time \ {Missing}
  /\ mtime \in [File -> Time]
  /\ includes \in [Compile -> IncludeLists]
  /\ depfile \in Depfiles
  /\ bin \in [time : Time, deps : Depfiles]
  /\ unseen \in [Step -> SUBSET File]
  /\ phase \in {"idle", "counting", "building"}
  /\ out_edges \in [Step -> Seq(Step)]
  /\ loaded \in [bin : BOOLEAN, deps : Depfiles]
  /\ dry_run \in BOOLEAN /\ keep_going \in BOOLEAN
  /\ scanned \in 0 .. Len(ScanOrder)
  /\ phase = "building" => scanned = Len(ScanOrder)
  /\ DOMAIN stat_cache \subseteq File
  /\ \A f \in DOMAIN stat_cache : stat_cache[f] \in Time
  /\ counted \in SUBSET Step /\ ran \in SUBSET Step
  /\ status \in [Step -> {"pending", "running", "succeeded", "failed"}]
  /\ verdict \in {"none", "ok", "build_failed", "cycle"}
  /\ overtaken \in SUBSET Step
  /\ disturbed \in BOOLEAN

-----------------------------------------------------------------------------
(* Parsing, and the graph it makes. *)

Exists(f) == mtime[f] # Missing

\* parse() prefers .catalyst.bin if it is strictly newer than the manifest.
BinIsCurrent == Binary /\ bin.time # Missing /\ bin.time > mtime[Manifest]

\* The graph the next invocation works on.
NextLoad ==
  IF BinIsCurrent THEN [bin |-> TRUE, deps |-> bin.deps]
                  ELSE [bin |-> FALSE, deps |-> depfile]

\* Mutated form of ParsedInputs: the snapshot loses the opaque inputs.
OpaqueInputsLost(g, o) == Inputs[o]

\* parse_bin does not split off opaque inputs: their names keep the '!'.
ParsedInputs(g, o) ==
  Inputs[o] \o (IF g.bin /\ Opaque[o] # <<>> THEN <<Bang>> ELSE <<>>)

OpaqueInputs(g, o) == IF g.bin THEN <<>> ELSE Opaque[o]

\* Mutated form of Deps: the depfile is not consulted.
DepsWithoutHeaders(g, o) ==
  <<Manifest>> \o OpaqueInputs(g, o) \o ParsedInputs(g, o)

\* The files needs_rebuild compares with the output, in its order.
Deps(g, o) ==
  <<Manifest>> \o g.deps[o] \o OpaqueInputs(g, o) \o ParsedInputs(g, o)

\* Mutated form of StepEdges: outputs are not connected to their readers.
NoEdges(g) == [u \in Step |-> <<>>]

\* The edges among the steps, for the schedule.  The snapshot keeps those of
\* the opaque inputs.
StepEdges(g) ==
  [u \in Step |-> SetToSeq({v \in Step :
     u \in ToSet(Inputs[v]) \cup ToSet(g.deps[v]) \cup ToSet(Opaque[v])})]

\* A parse of the text writes .catalyst.bin.
Parse ==
  /\ loaded' = NextLoad
  /\ out_edges' = StepEdges(NextLoad)
  /\ bin' = IF Binary /\ ~BinIsCurrent
              THEN [time |-> now, deps |-> depfile] ELSE bin

Order == INSTANCE BuildOrder WITH
  Node <- Step, Graphs <- [Step -> Seq(Step)]

\* What the output of a step depends on; the flags of its tool are in the
\* manifest.
Reads(o) ==
  {Manifest} \cup ToSet(Inputs[o]) \cup ToSet(Opaque[o])
    \cup (IF o \in Compile THEN ToSet(includes[o]) ELSE {})

-----------------------------------------------------------------------------
(* needs_rebuild and the stat cache. *)

\* get_or_update: a cached time is never refreshed.
CachedTime(cache, f) == IF f \in DOMAIN cache THEN cache[f] ELSE mtime[f]

\* Mutated forms of ChangedSince: a file as old as the output is unchanged;
\* a file that cannot be stated is unchanged.
ChangedStrictly(cache, f, t) ==
  CachedTime(cache, f) = Missing \/ CachedTime(cache, f) > t
ChangedIfThere(cache, f, t) ==
  CachedTime(cache, f) # Missing /\ CachedTime(cache, f) >= t

ChangedSince(cache, f, t) ==
  CachedTime(cache, f) = Missing \/ CachedTime(cache, f) >= t

NeedsRebuild(g, cache, o) ==
  \/ ~Exists(o)
  \/ \E i \in DOMAIN Deps(g, o) : ChangedSince(cache, Deps(g, o)[i], mtime[o])

\* The files looked at before the first changed one, and that one.
Looked(g, cache, o) ==
  {Deps(g, o)[i] : i \in {k \in DOMAIN Deps(g, o) :
     /\ Exists(o)
     /\ \A j \in 1 .. k - 1 : ~ChangedSince(cache, Deps(g, o)[j], mtime[o])}}

\* The cache after needs_rebuild(o).
CacheAfter(g, cache, o) ==
  [f \in DOMAIN cache \cup Looked(g, cache, o) |-> CachedTime(cache, f)]

-----------------------------------------------------------------------------
(* What happens to files. *)

NoGraph == [bin |-> FALSE, deps |-> [o \in Step |-> <<>>]]
NoCache == <<>>

Init ==
  /\ now = 1
  /\ mtime = [f \in File |-> IF f \in Step \cup {Bang} THEN Missing ELSE 1]
  /\ includes \in [Compile -> IncludeLists]
  /\ depfile = [o \in Step |-> <<>>]
  /\ bin = [time |-> Missing, deps |-> depfile]
  /\ unseen = [o \in Step |-> {}]
  /\ phase = "idle"
  /\ out_edges = [u \in Step |-> <<>>]
  /\ loaded = NoGraph
  /\ dry_run = FALSE /\ keep_going = FALSE
  /\ scanned = 0 /\ stat_cache = NoCache /\ counted = {} /\ ran = {}
  /\ status = [o \in Step |-> "pending"]
  /\ verdict = "none"
  /\ overtaken = {} /\ disturbed = FALSE

Tick ==
  /\ now < MaxTime
  /\ now' = now + 1
  /\ UNCHANGED <<mtime, includes, depfile, unseen, bin, phase, setup, progress,
                 status, verdict, history>>

\* The steps whose tool is running.  A tool may outlive the process.
Active == {o \in ran : ~dry_run /\ status[o] = "running"}

\* The steps that get, or have got, their flags from the manifest as it was
\* when the invocation began.
Bound ==
  IF phase = "idle" THEN Active
  ELSE {o \in Step : status[o] \in {"pending", "running"}}

\* A change to a file is something its readers have not taken into account.
UnseenAfter(files) == [o \in Step |-> unseen[o] \cup (files \cap Reads(o))]

\* The files have changed.  What reads them may include other files now, and a
\* tool that has not ended may have read them before.
Changed(files, ended) ==
  /\ includes' \in [Compile -> IncludeLists]
  /\ \A o \in Compile :
       (files \ {o}) \cap Reads(o) = {} => includes'[o] = includes[o]
  /\ \E late \in SUBSET {o \in Active : files \cap Reads(o) # {}} :
       overtaken' = (overtaken \cup late
                       \cup (IF Manifest \in files THEN Bound ELSE {})) \ ended

\* A user writes a file, at any time.
Edit(f) ==
  /\ mtime' = [mtime EXCEPT ![f] = now]
  /\ unseen' = UnseenAfter({f})
  /\ Changed({f}, {})
  /\ disturbed' = TRUE
  /\ UNCHANGED <<now, depfile, bin, phase, setup, progress, status, verdict>>

\* A user removes a source or an output, at any time.
Delete(f) ==
  /\ Exists(f)
  /\ mtime' = [mtime EXCEPT ![f] = Missing]
  /\ unseen' = UnseenAfter({f})
  /\ Changed({f}, {})
  /\ disturbed' = TRUE
  /\ UNCHANGED <<now, depfile, bin, phase, setup, progress, status, verdict>>

\* cbe -t clean: outputs and .d files go, .catalyst.bin is written or stays.
Clean ==
  /\ phase = "idle" /\ Active = {}
  /\ Parse
  /\ mtime' = [f \in File |-> IF f \in Step THEN Missing ELSE mtime[f]]
  /\ depfile' = [o \in Step |-> <<>>]
  /\ disturbed' = TRUE
  /\ UNCHANGED <<now, includes, unseen, phase, dry_run, keep_going, progress,
                 status, verdict, overtaken>>

-----------------------------------------------------------------------------
(* One invocation. *)

\* main: parse, then execute() up to the pre-count.
StartBuild(n, k) ==
  /\ phase = "idle" /\ Active = {} /\ <<n, k>> \in Options
  /\ Parse
  /\ phase' = "counting"
  /\ dry_run' = n /\ keep_going' = k
  /\ scanned' = 0 /\ stat_cache' = NoCache /\ counted' = {} /\ ran' = {}
  /\ status' = [o \in Step |-> "pending"]
  /\ verdict' = "none"
  /\ disturbed' = FALSE
  /\ UNCHANGED <<disk, overtaken>>

\* Mutated form of LastScanned: the loop over the nodes ends one early.
OneBeforeLast(i) == i + 1 >= Len(ScanOrder)

LastScanned(i) == i = Len(ScanOrder)

\* The pre-count asks needs_rebuild of the next step.
Count ==
  /\ phase = "counting"
  /\ LET st == ScanOrder[scanned + 1] IN
       /\ counted' = IF NeedsRebuild(loaded, stat_cache, st)
                       THEN counted \cup {st} ELSE counted
       /\ stat_cache' = CacheAfter(loaded, stat_cache, st)
  /\ scanned' = scanned + 1
  /\ phase' = IF LastScanned(scanned') THEN "building" ELSE "counting"
  /\ UNCHANGED <<disk, bin, setup, ran, status, verdict, history>>

\* Mutated form of CacheAtBegin: execution starts from an empty cache.
FreshCache == NoCache

\* process_step uses the cache of the pre-count.
CacheAtBegin == stat_cache

\* process_step asks needs_rebuild again and announces the step.
Begin(o) ==
  /\ phase = "building"
  /\ Order!Start(o)
  /\ ran' = IF NeedsRebuild(loaded, CacheAtBegin, o) THEN ran \cup {o} ELSE ran
  /\ stat_cache' = CacheAfter(loaded, CacheAtBegin, o)
  /\ UNCHANGED <<disk, bin, phase, setup, scanned, counted, history>>

\* Nothing to run: the step is up to date, or this is a dry run.
EndIdle(o) ==
  /\ phase = "building" /\ o \notin Active
  /\ Order!Finish(o) /\ status'[o] = "succeeded"
  /\ UNCHANGED <<disk, bin, phase, setup, progress, history>>

\* A tool needs its arguments and what it reads; what has gone meanwhile it may
\* have read before.
CanSucceed(o) ==
  /\ Bang \notin ToSet(ParsedInputs(loaded, o))
  /\ o \in overtaken \/ \A f \in Reads(o) : Exists(f)

\* The tool succeeds: it has written the output and, for a compilation, the .d
\* file.
EndOfTool(o) ==
  /\ o \in Active /\ CanSucceed(o)
  /\ Order!Finish(o) /\ status'[o] = "succeeded"
  /\ mtime' = [mtime EXCEPT ![o] = now]
  /\ IF o \in Compile
       THEN \E list \in IncludeLists :
              /\ o \notin overtaken => list = includes[o]
              /\ depfile' = [depfile EXCEPT ![o] = list]
       ELSE depfile' = depfile
  /\ unseen' = [UnseenAfter({o}) EXCEPT ![o] = overtaken \cap {o}]
  /\ Changed({o}, {o})
  /\ UNCHANGED <<now, bin, phase, setup, progress, disturbed>>

\* Tools that do not come to their end: some remove the output, some leave
\* part of a new one, and some leave it as it was.  Lost are outputs that
\* somebody else removes.
Unfinished(tools, lost, ended) ==
  \E gone \in SUBSET {o \in tools : Exists(o)} :
  \E partial \in SUBSET (tools \ gone) :
    /\ mtime' = [f \in File |-> IF f \in gone \cup lost THEN Missing
                                ELSE IF f \in partial THEN now ELSE mtime[f]]
    /\ unseen' = [o \in Step |->
                    IF o \in partial THEN {o}
                    ELSE UnseenAfter(gone \cup lost \cup partial)[o]]
    /\ Changed(gone \cup lost \cup partial, ended)

\* The tool fails, or cannot be started.
FailureOfTool(o) ==
  /\ o \in Active
  /\ Order!Finish(o) /\ status'[o] = "failed"
  /\ Unfinished({o}, {}, {o})
  /\ disturbed' = TRUE
  /\ UNCHANGED <<now, depfile, bin, phase, setup, progress>>

\* The process is gone, with its cache and, but for the command lines of tools
\* that outlive it, its graph.
EndOfProcess(orphans) ==
  /\ phase' = "idle"
  /\ loaded' = IF orphans = {} THEN NoGraph ELSE loaded
  /\ scanned' = 0 /\ stat_cache' = NoCache
  /\ UNCHANGED <<out_edges, dry_run, keep_going, ran>>

Return ==
  /\ phase = "building"
  /\ Order!Conclude
  /\ EndOfProcess({})
  /\ overtaken' = {}
  /\ UNCHANGED <<disk, bin, counted, disturbed>>

\* The process ends at once.  Some of its tools end with it, some go on.
Killed(lost) ==
  \E orphans \in SUBSET Active :
    /\ EndOfProcess(orphans) /\ counted' = ran
    /\ status' = [o \in Step |-> IF o \in Active \ orphans THEN "failed"
                                 ELSE status[o]]
    /\ Unfinished(Active \ orphans, lost, Step \ orphans)
    /\ disturbed' = TRUE
    /\ UNCHANGED <<now, depfile, bin, verdict>>

\* cbe is killed, alone or with its tools.
Crash == phase # "idle" /\ Killed({})

\* The steps of which needs_rebuild may be asked next.
Asked ==
  {o \in Step : \/ phase = "counting" /\ o = ScanOrder[scanned + 1]
                \/ phase = "building" /\ Order!Ready(o)}

\* Somebody removes an output when needs_rebuild has just found that it
\* exists: last_write_time throws, nobody catches it, and the process ends.
RemovedWhileAsked(o) == o \in Asked /\ Exists(o) /\ Killed({o})

BuildStep ==
  \/ Count
  \/ \E o \in Step : Begin(o) \/ EndIdle(o) \/ EndOfTool(o)
  \/ \E o \in Step : ~CanSucceed(o) /\ FailureOfTool(o)
  \/ Return

\* What keeps an invocation from doing its work.
Disturbance ==
  \/ \E f \in Source \cup {Manifest} : Edit(f)
  \/ \E f \in Deletable : Delete(f)
  \/ \E o \in Step : RemovedWhileAsked(o) \/ (CanSucceed(o) /\ FailureOfTool(o))
  \/ Clean \/ Crash
  \/ \E k \in BOOLEAN : StartBuild(TRUE, k)

Next ==
  \/ Tick
  \/ \E k \in BOOLEAN : StartBuild(FALSE, k)
  \/ BuildStep
  \/ Disturbance

Spec == Init /\ [][Next]_vars

\* Somebody keeps starting builds, and a build goes on while it can.
FairSpec ==
  /\ Spec
  /\ WF_vars(BuildStep)
  /\ WF_vars(\E k \in BOOLEAN : StartBuild(FALSE, k))

-----------------------------------------------------------------------------
(* Properties *)

Finished == phase = "idle" /\ verdict = "ok" /\ ~dry_run

\* The next invocation, before anything else changes, would run the step.
WillBeRebuilt(o) == NeedsRebuild(NextLoad, NoCache, o)

\* What an output should be made again for.  Where an output is not what its
\* tool makes of its inputs, or the next invocation goes by another list than
\* the .d file, cbe can know no more than what it compares.
Pending(o) ==
  IF o \in unseen[o] \/ NextLoad.deps[o] # depfile[o]
    THEN unseen[o] \cap ToSet(Deps(NextLoad, o)) ELSE unseen[o]

\* No output is silently out of date: whenever a file has changed after the
\* tool of an output had read it and ended, the times on disk show it to the
\* next invocation.  What they do not show is that a tool left an output in
\* part, or made it while files changed that it reads.
NoSilentStaleness ==
  \A o \in Step : Pending(o) # {} => WillBeRebuilt(o)

\* A step whose tool failed, was killed or is still running is run again by
\* the next invocation, unless the tool left part of a new output: cbe neither
\* removes what a failed tool wrote nor remembers that it failed.
UnfinishedIsRetried ==
  \A o \in ran : ~dry_run /\ status[o] # "succeeded" =>
    WillBeRebuilt(o) \/ o \in unseen[o]

\* A step is announced if it was counted, although users edit files meanwhile,
\* or if its output has gone since; and all that were counted are announced by
\* the end of a successful build.  So "[current/total]" overruns only by removed
\* outputs, and a dry run lists what a build would run.
ProgressExact ==
  [][/\ \A o \in ran' \ ran : o \in counted \/ ~Exists(o)
     /\ verdict # "ok" /\ verdict' = "ok" => counted \subseteq ran]_vars

\* After an undisturbed successful build an output can lag only behind other
\* outputs of this very build: every edit has reached its direct readers.
EditsAbsorbed ==
  Finished /\ ~disturbed => \A o \in Step : Pending(o) \subseteq ran

\* The outputs that the compilation of o has read, by its .d file, had an edge
\* to it when the build began.
Ordered(o) ==
  o \in Compile =>
    /\ o \notin unseen[o]
    /\ \A p \in ToSet(depfile[o]) \cap Step : o \in ToSet(out_edges[p])

\* A successful build that had to run every step leaves nothing out of date,
\* except where a compilation read an output that no edge made it wait for.
CleanBuildIsFresh ==
  Finished /\ ~disturbed /\ counted = Step =>
    \A o \in Step : Exists(o) /\ (Ordered(o) => unseen[o] = {})

\* If disturbances end with all sources there, repeated builds bring every
\* output up to date, except for what the times do not show.
Converges ==
  <>[][~Disturbance]_vars /\ <>[](\A f \in Source : Exists(f)) =>
    <>[](phase = "idle" => \A o \in Step : Exists(o) /\ Pending(o) = {})

\* What docs/implementation/overview.md:31 says: "If *any* dependency is newer
\* than the object file, the step is re-executed."  A successful build that
\* nobody disturbed leaves no input newer than the output made from it.
NewerInputsReexecuted ==
  Finished /\ ~disturbed =>
    \A o \in Step : \A f \in ToSet(Inputs[o]) : mtime[f] <= mtime[o]

\* The same sentence for "Dependencies discovered from the .d file"
\* (overview.md:29), which line 20 says are looked for on the next pass.
NewerHeadersReexecuted ==
  Finished /\ ~disturbed =>
    \A o \in Step : \A f \in ToSet(depfile[o]) : mtime[f] <= mtime[o]

=============================================================================
