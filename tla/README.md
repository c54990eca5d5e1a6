# A verification project for catalyst-build-executor

`cbe` reads a manifest of build steps (`catalyst.build`), makes a graph of files
from it and from the compilers' `.d` files, and runs the steps whose outputs are
out of date on a pool of threads. This directory holds TLA+ models of that
program, the TLC configurations that check them, and machine-checked proofs.

    tlc -config WorkerPoolSafety.cfg MCWorkerPool      # any run: <cfg> <MC module>
    tlapm WorkerPoolProofs.tla                         # any ...Proofs module

`PROJECT.json` lists the runs, a mutant for every checked property (a plausible
bug the property catches), the source lines behind every definition, the places
where code and documentation disagree, the hazards, and the theorems.

## 1. Inventory

| Component | State | Operations | Hard behaviour | What makes it correct |
| --- | --- | --- | --- | --- |
| Thread pool, `Executor::execute` (executor.cpp 311-362, 569-680) | ready queue, in-degrees, `completed_count`, `error_occurred`, `active_workers`, a mutex, a condition variable | spawn, wait, take, finish with success or failure, notify, exit, join, verdict | interleavings, lost or spurious wake-ups, fail-fast, stalls on cycles | dependency order, every node once, no idle worker beside work, termination, a verdict that follows from the outcomes |
| Rebuild decision (executor.cpp 124-179, 378-392, 479-567) | files and their times, the stat cache of an invocation, the counters of the progress line | pre-count, `needs_rebuild`, run a tool, dry run, clean | edits, removals, failures and kills around a build, partial outputs, coarse times, times cached before the build | no output silently stale, unfinished steps retried, exact progress, convergence |
| `StatCache` (executor_stat_cache.cpp) | a vector sorted by path, a shared mutex | `get_or_update`, `changed_since` | a lookup and an insertion in two critical sections | sorted, found again, answers never go back |
| `BuildGraph` and builder (graph.cpp, builder.hpp) | nodes, steps, index, definitions | `get_or_create_node`, `add_step`, `add_definition` | any order of lines, repeated inputs, duplicate producers | exactly the edges listed, one producer, edges lead to steps only |
| `topo_sort` (graph.cpp 203-234) | status, order, the recursion | dfs | diamonds, repeated edges, cycles | topological order, or a real cycle |
| Manifest parser (parser.cpp) | position in the file | definition, step, end of parse | which of text and snapshot is read | fails exactly on bad lines |
| Snapshot `.catalyst.bin` (binary.cpp) | the file | `emit_bin`, `parse_bin` | staleness, truncation, one file for all manifests, round trip | what is loaded is what was saved, of this manifest |
| Depfile lexer (graph.cpp 29-132) | none | tokens of a `.d` file | escapes, continuations, ends of file | the paths the compiler wrote |
| Command construction, `.rsp` (executor.cpp 107-116, 399-477) | response files | argument vectors | stale, shared and truncated response files | the documented command, on the step's own inputs |
| `emit_commands`, `emit_compdb` | none | print | a copy of the rules each | the command that is run |
| Command line and `main` (cli_args.cpp, cbe.cpp) | the arguments | `cliArgs`, the checks of `main` | options that swallow words, errors after questions | read as the words say |
| Work estimates (work_estimate.cpp) | sorted vector | load, lookup | repeated paths, order as text, bad lines | the estimate of the path |
| `process_exec`, file mapping, `emit_graph`, logging, profiling | none | I/O | errors | |

How they interact: `main` reads the arguments, `parse` fills a builder from the
manifest (through `add_step`, which reads the `.d` files) or from the snapshot,
`main` adds the definitions of the command line and moves the builder into an
`Executor`. `execute()` moves the graph out, counts the stale steps with
`needs_rebuild` (which fills the `StatCache`), and starts the workers, which
share the graph, the counters and the cache. Invocations share nothing but the
disk: outputs, `.d` files, `.rsp` files and `.catalyst.bin`.

The hazards, each at its line and with the properties that cover it, are in
`PROJECT.json`. Those without a property have a note there that says why. For
most of them the modules have the event (an input written while a running tool
has read it, a manifest edited during a build, a partial output, a snapshot or a
response file cut short or made for others), but the code keeps nothing on disk
that could tell, and no document promises that it does; the properties name
these events as their exceptions and hold everything else to the full. Two are
not modelled: a depfile that is out of date may close a cycle with a step added
since, and two spellings of one file are two nodes (section 6).

## 2. Modules

| Module | Models |
| --- | --- |
| `BuildOrder` | the abstract specification: a dependency-ordered execution of a graph and its verdict, without threads |
| `WorkerPool` | the thread pool, one action per critical section; implements `BuildOrder` |
| `Freshness` | invocations over files that a user edits and removes; the pool is replaced by an instance of `BuildOrder` |
| `Invocations` | the files cbe writes for itself, over invocations that are killed and manifests that are edited and removed |
| `StatCache` | the racing threads inside `get_or_update` |
| `BuildGraph` | command line and manifest to graph to snapshot to graph to commands |
| `CommandLine`, `DepfileLexer`, `WorkEstimate`, `Commands`, `Snapshot` | pure operators that `BuildGraph` is built from |
| `SequenceHelpers` | two operators on sequences they share: the elements that are in a set, and the numbers of a set in ascending order |
| `TopoSort` | the depth-first sort |
| `WorkerPoolProofs`, `FreshnessProofs`, `StalenessProofs`, `InvocationsProofs`, `StatCacheProofs`, `TopoSortProofs`, `BuildGraphProofs` | the theorems, see section 4 |
| `OperatorProofs` | what the pure operators compute, for every input: the lemmas of `BuildGraphProofs` |
| `MC...` | the instances for TLC |

### WorkerPool

The shared variables have the code's names. A critical section of `mtx` is one
step because every access of them is inside one, and `process_step`, which runs
outside, is the time between `Take` and `Succeed` or `Fail`. `cv_ready.wait` is
`Sleep` (predicate false: release the mutex and wait in one step) or goes on
with `Take` or `Exit`; a woken thread evaluates the predicate again, so waking
is only `pc = "runnable"`; `SpuriousWake` needs no notification. `Notify` has
the three ways of the code: everyone, nobody, or `new_work_count` times
`notify_one`, whose choice of thread is free. The walk over `out_edges` that
decrements `in_degrees` is one step because it is inside one critical section;
a repeated edge decrements twice (`Hits`). `out_edges` and `keep_going` are
variables that never change, so that one run covers many graphs. The edges lead
to steps only, which `BuildGraph` checks (`EdgesLeadToSteps`). Only a node with
a step can fail. `outcome` is a history variable. The priority queue is the
set `ready_queue` (a node is pushed once, `PushedOnce`) with `TopTasks`, the
tasks that `top()` may return: ties are broken by the heap, so any of them.

### Freshness

One invocation is `StartBuild` (parse, choice of text or snapshot, writing the
snapshot), one `Count` per step of the pre-count, then `Begin` (`needs_rebuild`
and `print_message`) and `EndIdle`, `EndOfTool` or `FailureOfTool` for each
step in the order `BuildOrder` allows, and `Return`. At any time, while tools run
too, a user writes a source or the manifest (`Edit`), removes a source or an
output (`Delete`), or the clock moves (`Tick`); between builds `-t clean` runs.
`Crash` ends the process at any step, and each of its tools ends with it or goes
on as an orphan, which may succeed or fail later. `RemovedWhileAsked` is the
removal between `exists` and `last_write_time` in `needs_rebuild`: the exception
ends the process in the same way, from a worker too. A tool that does not come
to its end leaves its old output, none, or part of a new one with a new time
(`Unfinished`). A tool that lacks an input, or gets an argument that names no
file, fails (`CanSucceed`).

`unseen[o]` is the history variable the properties speak of: the files that have
been written or removed since the tool of `o` had read them, and `o` itself if it
is not what its tool makes of its inputs. That is so when a tool left only part
of it, and when a file changed that the tool had read before it ended; for the
time of its run such a step is in `overtaken`. A change of the manifest overtakes
every step of the invocation that has not ended (`Bound`), since their flags are
those of before. In these cases the output is newer than what it does not
contain, and nothing on disk tells: an edit in the middle of a compilation is
lost until the next edit. `Pending` therefore takes such an output at what the
times can show, its files that `needs_rebuild` compares; the same goes for an
output for which the next invocation has a list, from the snapshot, that is not
its `.d` file's. `UnfinishedIsRetried` and `Converges` name the same exceptions.
A compiler may find another header in a file after every change (`includes`),
which is what makes the depfile stale, and outputs of other steps may be among
them. A stat of the cache is taken when the code would take it: `Looked` is
exactly the files read before the first changed one. `StepEdges` gives the
schedule the edges among the steps, from the inputs, the opaque ones and those of
the depfile; their order within one list is free.

What is assumed of the world: times do not go back; the manifest is not removed
(in `Invocations` it is); cbe is not started again while a tool of a killed one
still runs; a tool that is killed or fails leaves its `.d` file as it was; source
nodes do nothing when they are processed and are left out of the schedule, and
so are edges from them; several `needs_rebuild` calls at once are taken one after
the other, which `StatCache` justifies (answers for one path never go back, and
the file times that differ are those of files an earlier action changed).

### Invocations

The two kinds of file that cbe writes in one invocation and trusts in a later
one. A manifest holds one of a few texts, of which only the link steps matter;
several manifests, as `-f` may name them, share one `.catalyst.bin`, and outputs
that differ in their extension only share a response file (`RspOf`). Reading
and writing are apart: `Start` maps the manifest or loads the snapshot,
`OpenBin` empties the file, `WriteBin` fills it, and manifests are edited in
between; `FullDiskAtBin`, `KillInWrite` leave any prefix of it. `ParseBin` makes
the checks of the header, which compare sizes only, so that a file cut short is
refused or taken for a graph it does not hold (`Garbage`). Links do the same
with their response files, concurrently: `AskForRsp` is `exists`, `ChooseInputs`
is `isNewer`, which answers yes if one of the two files cannot be stated, then
`OpenRsp`, `WriteRsp`, `Link`. Manifests and response files are removed at any
time (`Remove`, `RemoveRsp`), the latter not while they are being written; a tool
that finds no file of the name it was given fails (`FailToLink`). `suspect` and
`doubt` are history variables that collect the events after which the code has
no way to be right; the properties say that nothing else misleads it.

### StatCache

`Call`, then under the shared lock `Hit` or `Miss`, and after a miss `Update`
under the exclusive lock. Between the two sections other threads insert and
files change (`Write`). Paths are numbers because only their order matters;
time 0 is a failed stat.

### BuildGraph and its operators

`Init` picks a world: the words of a command line, the lines of a manifest, the
texts of `.d` files and the lines of an estimates file. `ReadArguments` is
`main` up to `parse`. Then there is one action per line of the manifest; the
loops of `add_step` over the inputs of a step are one `Connect` per input. A
line is abstracted to its kind and its fields, an input list to the sequence of
its parts, with the empty part and the names that begin with `!`. `EndOfParse`
writes the snapshot, `ApplyOverrides` is the loop of `main`, `Invoke` is a later
invocation with a command line of its own, and `LoadBin` fills its builder,
which sees the snapshot only.

The loops of the pure algorithms are recursive functions, over the number of
words, strings or definitions already handled or over positions of a text, so
that `OperatorProofs` can reason about them; `std::ranges::sort` is what it
achieves, each entry at the place its predecessors leave it (`Sorted`). Each
algorithm is translated as it is written, and compared with a second
definition that says what it should compute in another way:

| Module | Algorithm | Reference |
| --- | --- | --- |
| `DepfileLexer` | `ParseDepfile`: positions moved by `SkipWhitespace` and `TokenEnd` | `NamesIn`: the longest stretches of characters that belong to a name, no scanner |
| `CommandLine` | `CliArgs`: a loop over the words with the option that waits for its value | `OutcomeSaid`, `ArgsSaid`: from the set of the words that are not values, with the options of the help text (cli_args.cpp:96-115) and, as options that are refused, those that docs/cli/reference.md:17-25 has besides |
| `WorkEstimate` | load, sort, `lower_bound` | `EstimateSaid`: the least text listed for the path |
| `Commands` | the three functions that build commands | `Documented`: the table of docs/concepts/manifest.md, from the line of the manifest, without its opaque inputs, and with or without a response file |
| `Snapshot` | `EmitBin` with references into a table without repeats, `ParseBin` | the graph that was saved (`SnapshotFaithful`) |

### TopoSort

The recursion is a stack of frames with the next edge to look at; one step per
iteration of the inner loop, one per iteration of the outer one.

## 3. Runs

| Run | Bounds | Result |
| --- | --- | --- |
| `pool_safety` | every graph of a source and three steps (4096, cycles and self-loops included) and two with repeated edges; three workers; `-k` or not | 0.33 M states up to symmetry |
| `pool_live` | fan-out, diamond with a repeated edge, chain beside a cycle; five nodes, three workers | terminates, implements `BuildOrder!FairSpec` |
| `pool_force_exit` | the same graphs | violation, see section 5 |
| `fresh_safety` | a source, an object whose `.d` file may list the program, and a link that has the object as an opaque input and comes first; the snapshot on; source, object and program removable; dry runs; two ticks | 1.0 M states |
| `fresh_converges` | source, discovered header, object, program; no snapshot; the object removable; two ticks, fair | 0.51 M states; converges |
| `fresh_one_build`, `fresh_headers` | the chain of `fresh_converges`, without removals; with the snapshot for the second | violations |
| `invocations_safety` | two manifests, two texts (one long link; a short one and a longer that share a file, whose inputs differ), two ticks | 1.8 M states |
| `stat_safety` | three threads, two paths, three times | 2.0 M states |
| `graph_safety` | manifests of up to three of eleven lines with three depfiles and two command lines; every `.d` text of up to two of seven symbols, and of four more after a colon; every command line of up to three of nineteen words; every estimates file of up to three of eight lines; response files for more than one input | 0.15 M states |
| `graph_opaque` | the same | violation |
| `topo_safety` | every graph over four nodes (65536) and all small ones with repeated edges | 0.27 M states |

Why the bounds are enough. Three workers are the fewest for one to run, one to
be notified and one to sleep un-notified. `NotifyAllCriteria` is 4 in the safety
run, so that up to three tasks released at once are announced one by one, and 3
in the others, where four tasks released at once exceed it. Four nodes give
chains, fan-in, fan-out and every cycle up to length three beside free nodes.
Two ticks give older, equal and newer; a third, which `fresh_one_build` needs,
separates an edit, an output and a later edit. Between them the two instances of
`Freshness` have everything a step can depend on: a source, a discovered header,
an opaque input, another output by each of the three lists, the manifest; in
`fresh_safety` the pre-count meets the consumer before the producer, and a `.d`
file may name an output that is made later. A dry run leaves the disk as it is,
so `fresh_converges` does without. Two manifests are enough for one to mislead
the other; a snapshot has three parts, each of size one, so that a cut falls
before and between them; `Limit` is 1, so that two inputs go to a response file
and one does not. Three lines of a manifest give an input before, after and
without its producer, and a duplicate with something between. Four symbols after
the colon hold a name, an escape or a continuation with CR LF, and a second
name; a lexer has no memory beyond that. Three words hold an option, the value
that looks like an option, and what follows. `MaxTime` bounds the clock, nothing
else is capped: the counters are bounded by the number of nodes.

Fairness. `WorkerPool!FairSpec`: each thread that can run does (the scheduler),
a running tool ends, and the main thread joins; spurious wake-ups are not
assumed. `Freshness!FairSpec`: a build goes on while it can and somebody keeps
starting builds; a tool ends, with a failure if it lacks an input, and also when
its cbe has been killed. Nothing is assumed of edits, removals, other failures,
kills, cleans, dry runs or the clock, and `Converges` speaks of runs in which the
disturbances end with all sources there. `CHECK_DEADLOCK FALSE` is set where the
modelled call returns (the pool, the sort, a parse or a command line that ends
the process).

## 4. Theorems

Proved with TLAPS for every value of the constants, from the named assumptions
of the modules (finite sets of nodes, workers and threads, edges that lead to
steps, estimates that are numbers, at least one path, a scan order that names
every step, inputs and listed dependencies that are sources or outputs; for
`BuildGraph`, that what an invocation finds is made of lines,
texts and words, that a name does not both begin with `!` and not, that no
option has a `=`, that a backslash is no blank and that the order of texts has
no text twice). They are evaluated in the runs. None of the invariants is inductive by itself; each module has the
strengthening it needs, one lemma per action, and the theorems at its end.

`WorkerPoolProofs`. `IInv` conjoins: the types; counters equal to what they
count (`active_workers` to the running threads, `in_degrees` to the edges whose
source has not succeeded, `completed_count` to the processed nodes while it is
not overwritten); the exact place of every node (waiting, queued, running or
processed); the facts about sleepers; and what the verdict may be. The
counters need cardinalities of sets that lose one element per step, which the
lemmas at the head of the module give from `FiniteSetTheorems`; a step that
releases k nodes needs that k of the sleepers, or all, are awakened, which is
where the counting of notifications is used.
- `TypeCorrect`, `CountersCorrect`, `NodesPushedOnce`, `NoLostWakeup`,
  `NobodySleepsAlone`, `NothingLeftBehind`, `TasksInDependencyOrder`,
  `VerdictCorrect`: all the invariants of `pool_safety`.
- `PoolImplementsOrder`: `Spec => Order!Spec`; `Take` maps to `Start`,
  `Succeed` and `Fail` to `Finish`, `Return` to `Conclude`, all else stutters.

`FreshnessProofs` and `StalenessProofs` hold for both values of `Binary`. `PInv`
adds `CountInv` to the types: while steps are processed, whatever the pre-count
decided about a pending step is settled by the times already in the cache, so
that asking again gives the same answer, whoever edits the files, unless its
output has gone. `OrderInv` says that a step starts after the steps it has edges
from, `LateInv` which tools an event can have overtaken, `DoneInv` that what an
undisturbed build has made in order is up to date so far. A compilation that
reads, by its `.d` file, an output without an edge to it when the build began is
the exception (`Ordered`).
- `BuildTypesCorrect`, `CountersAreExact`, `CleanBuildsAreFresh`.

The heart of `StalenessProofs` is `DiskInv`, a fact about the disk alone that
does not mention any invocation: each file that an output lags behind is gone or
at least as new as the output; if the output is otherwise what its tool makes of
its inputs, one of those files is among what a parse of the text compares; and if
it lags behind nothing, its depfile lists what its compilation includes, which is
what makes the next edit show. `ClockInv` adds that nothing on disk is from the
future. `LoadInv` and `CacheInv` connect `DiskInv` to a build that is under way:
the depfile inputs in memory are those on disk, or in the snapshot, for steps not
yet begun, and a cached time that says "changed" is right. `QuietInv` is what the
pre-count has found out in an undisturbed build; there the cache has the times of
the disk.
- `StalenessIsNeverSilent`, `UnfinishedStepsAreRetried`,
  `EditsReachTheirReaders`: the remaining invariants of `fresh_safety`.

What these theorems do not say: that a write which overtakes a running tool is
noticed. It is not; the tool's output is newer than the write (section 2).

`InvocationsProofs`. `IInv` says that a snapshot newer than a manifest that is
there and not suspect holds its text, wholly once it is written (`BinInv`); that the same
is true of response files and the inputs of every link they serve (`RspInv`);
and what each link that is under way may rely on (`OpenInv`, `LinkInv`).
- `InvocationsTypeCorrect`, `SnapshotsAreTrusted`, `ResponseFilesAreTrusted`:
  all the properties of `invocations_safety`.

`StatCacheProofs`. `SInv` adds to the sorted vector that no entry and no answer
is later than the file on disk, that the latest answer given for a path is still
in the vector, and that the stats done and the threads about to do one are
together no more than the threads: a thread misses only while there is no entry.
That `lower_bound` cuts the vector in two is `PrefixByCardinality`.
- `CacheTypeCorrect`, `CacheStaysSorted`, `NoReplyGoesBack`, `StatsAreBounded`:
  the invariants and the action property of `stat_safety`, for any number of
  threads and paths. That the vector is no longer than the type says needs the
  bound on the stats: each entry was paid for by one.

`TopoSortProofs`. `TInv` says that the calls on the stack stand on a simple path
of the marked nodes; that every edge a call has passed leads to a finished node
or to the call above it; and that the order holds the finished nodes, each after
all those it has an edge to. `Return` reverses that order, so every edge then
points forwards. The marked node that ends the search is on the stack, and from
there to the top is the cycle. For the converse, a set of nodes that can reach
each other would have an element whose position in the order is least.
- `SortTypeCorrect`, `RecursionIsPath`, `SortCorrect`, `CycleIsReal`,
  `NoCycleIsSorted`: the invariants of `topo_safety`, for every graph over any
  number of nodes.

`BuildGraphProofs`. `IInv` ties the graph to the lines read so far. While the
manifest is parsed (`ParsingInv`): nodes and steps make a graph, every step is
that of its line (`StepsOfLines`), and for every two files the edges made and
the inputs still to be connected are together as many as the mentions
(`EdgesOfLines`); this sum is what makes the number of edges inductive, input by
input. Every definition is the first of its key among the lines read
(`DefinitionsOfLines`). The snapshot is that of such a graph (`BinInv`), and a
loaded graph is the saved one except for opaque inputs (`LoadedInv`). What the
command line adds comes on top of what the lines give, in phase `"ready"` only.
- `GraphTypeCorrect`, `OneProducerAlways`, `EdgesReachSteps`, `EdgesAsMentioned`,
  `ErrorsHaveReasons`, `FirstDefinitionDecides`, `SnapshotReloads`,
  `DepfilesReadAsWritten`, `CommandLinesUnderstood`, `EstimatesListed`,
  `CommandsAgree`: all the invariants of `graph_safety`, for manifests,
  depfiles, command lines and estimates files of any length.

`OperatorProofs` has the lemmas under them, each a fact about one algorithm:
- `SnapshotRoundTrip`: after `EmitBin`, `ParseBin` finds every definition, node
  and step again, because the table of strings only grows and has no string
  twice (`TableHolds`, `WalkedOnce`).
- `NamesListed`: the scanner's tokens are the names of the reference. A position
  that is skipped is in no name (`SkipsNoName`), a token ends where its name does
  (`EndsName`), and whether a backslash is escaped is a matter of how many stand
  before it (`BackslashCounts`).
- `ReadAsSaid`: after k words, cliArgs has understood just the heads among them
  whose values are read too, and has ended at the first wrong word or question
  (`Progress`, `WordProgress`); which words are heads is determined from the
  left (`HeadsAre`).
- `EstimateFound`: sorting is a permutation in order (`SortedSorts`), the
  entries below a path are those at the front (`LowerNumbers`), so that the entry
  found is the least listed.

An induction over numbers is put as a fact about a set of numbers
(`SetInduction`, `Descent`), which follows from the existence of a least
element; that a recursive function has the value its definition says is a fact
about functions (`Recursion`, `DownwardRecursion`). Neither needs an operator
parameter, which the provers here cannot instantiate.

Every invariant and action property that a run checks is a theorem. Left to TLC
is liveness: `Termination`, `Converges`, and the fairness part of
`ImplementsBuildOrder`, whose safety part is `PoolImplementsOrder`.

## 5. Where code and documents disagree

- `pool_force_exit`: without `-k` steps still start after a failure.
- `fresh_one_build`: times cached by the pre-count make a build skip a step
  whose input the same build remade; a second build repairs it (`Converges`).
- `fresh_headers`: the snapshot hides headers discovered after it was written.
- `graph_opaque`: read back from the snapshot, opaque inputs become arguments.

`fresh_headers` shows in the staleness properties, which hold with the snapshot
too, as the clause of `Pending` about its list: the next invocation goes by what
it loads, and what the list lacks it cannot see.

Some disagreements are stated as exceptions of properties that hold: `-f` does
not select the snapshot, and a snapshot may miss an edit made during the parse
(`NamedManifestLoaded`); a response file newer than the manifest is used again
whatever the number of inputs, which no document says (`CommandsAsDocumented`),
and whatever the link needs now (`LinkReadsItsInputs`); the options `-d`, `-e`,
`--clean`, `--compdb` and `--graph` of docs/cli/reference.md:17-25 are unknown to
`cliArgs`, whose help text has `-C`, `--estimates` and `-t` instead, and are
refused (`ArgvUnderstood`); a command from the snapshot holds opaque inputs
(`CommandsAsDocumented` leaves those steps to `graph_opaque`); `-t commands`
leaves out the flags and libraries of a link (`CommandsAsDocumented`);
definitions of the command line cannot replace the manifest's
(`FirstDefinitionWins`); `--jobs=4` is a definition
(`ArgvUnderstood`); threads that miss a path together each stat it
(`StatsBounded`, against executor.hpp:20). Met while reading, without a run: a
cycle is reported only when the pool stalls, after everything beside it ran
(overview.md:8 says graph construction finds it); the response file is named
differently from the documentation; the depfile lexer keeps the backslash of an
escaped space, so that such a file is never found.

## 6. Not modelled

- Depfiles that change between two parses of a graph: one that is out of date
  may close a cycle. `BuildGraph` makes the edge (`EdgesExact`), the pool then
  stalls and says so (`VerdictJustified`), the sort refuses (`ErrorIsACycle`);
  that somebody has to remove the file has no promise in the code to be checked
  against.
- Two spellings of one file. Names stand for files one to one; the code compares
  spellings and nowhere says otherwise.
- `--build-log` (docs/cli/reference.md:20) exists with the feature logging only,
  which is off by default.
- A manifest that is removed between `main`'s check and `parse`: the process ends
  before it has done anything.
- A tool that writes its `.d` file and then fails, two `cbe` processes at once
  in one directory, and a manifest changed in place while it is mapped: what
  tools and file systems do then is not determined by the code in `src/`.
- `emit_graph` prints what `BuildGraph` and `Freshness` hold. The `mmap` wrappers,
  the JSON text of the compilation database, messages, logging and profiling
  change no state the program reads. reproc is a library; of a process only how
  it ends is modelled.
