--------------------------- MODULE StalenessProofs ---------------------------
(***************************************************************************)
(* Nothing is silently out of date: for every graph of steps, every use of *)
(* the clock, every interference, and with the feature binary on or off.   *)
(*                                                                         *)
(* DiskInv says that an output that lags behind shows it by a time on      *)
(* disk, and that a depfile is as good as its output; LoadInv and CacheInv,*)
(* that the graph and the cache of a running invocation are good enough to *)
(* see it; QuietInv, what an undisturbed invocation has achieved.          *)
(***************************************************************************)
EXTENDS FreshnessProofs

\* A time on disk shows that o, made before f was written, needs rebuilding.
Newer(f, o) == mtime[f] = Missing \/ mtime[f] >= mtime[o]

\* What the next invocation compares with o.
DepSet(o) == ToSet(Deps(NextLoad, o))

\* What a text with the list dep in the depfile compares with o.
Compared(dep, o) == {Manifest} \cup ToSet(dep) \cup ToSet(Opaque[o]) \cup ToSet(Inputs[o])

\* What the disk tells of an output that is there.
DiskOk(o) ==
  Exists(o) =>
    /\ \A f \in unseen[o] : Newer(f, o)
    /\ o \notin unseen[o] /\ unseen[o] # {} => unseen[o] \cap Compared(depfile[o], o) # {}
    /\ unseen[o] = {} /\ o \in Compile => depfile[o] = includes[o]

ClockInv ==
  /\ \A f \in File : mtime[f] <= now
  /\ mtime[Bang] = Missing /\ \A o \in Step : Bang \notin unseen[o]

DiskInv == \A o \in Step : DiskOk(o)

LoadInv ==
  phase # "idle" =>
    /\ Binary => bin.deps = loaded.deps
    /\ loaded.bin => /\ Binary /\ bin.time # Missing
                     /\ \/ bin.time > mtime[Manifest]
                        \/ \A o \in Step : status[o] = "pending" => Newer(Manifest, o)
    /\ ~loaded.bin => \A o \in Step : status[o] = "pending" => loaded.deps[o] = depfile[o]

CacheInv ==
  phase # "idle" => \A o \in Step : \A f \in DOMAIN stat_cache :
    /\ status[o] = "pending" /\ Exists(o)
    /\ stat_cache[f] = Missing \/ stat_cache[f] >= mtime[o]
    => Newer(f, o)

QuietInv ==
  ~disturbed /\ ~dry_run /\ phase # "idle" =>
    /\ loaded.bin => bin.time > mtime[Manifest]
    /\ phase = "counting" => \A f \in DOMAIN stat_cache : stat_cache[f] = mtime[f]
    /\ \A o \in ran : status[o] = "succeeded" => unseen[o] \subseteq ran
    /\ \A o \in Step : IsScanned(o) /\ o \notin counted => Pending(o) \subseteq ran

-----------------------------------------------------------------------------
(* What is compared, before and after a step. *)

LEMMA LoadFacts ==
  ASSUME TypeOK
  PROVE  /\ NextLoad \in Graph /\ (NextLoad.bin <=> BinIsCurrent)
         /\ NextLoad.deps = IF BinIsCurrent THEN bin.deps ELSE depfile
BY DEF NextLoad, Graph, TypeOK

\* What the next invocation compares, by its graph.
LEMMA DepSetFacts ==
  ASSUME TypeOK, NEW o \in Step
  PROVE  DepSet(o) =
           {Manifest} \cup ToSet(NextLoad.deps[o]) \cup ToSet(Inputs[o])
             \cup (IF NextLoad.bin THEN (IF Opaque[o] = <<>> THEN {} ELSE {Bang})
                   ELSE ToSet(Opaque[o]))
BY LoadFacts, DepsElements DEF DepSet

LEMMA DepSetNext ==
  ASSUME TypeOK', NEW o \in Step
  PROVE  DepSet(o)' =
           {Manifest} \cup ToSet(NextLoad'.deps[o]) \cup ToSet(Inputs[o])
             \cup (IF NextLoad'.bin THEN (IF Opaque[o] = <<>> THEN {} ELSE {Bang})
                   ELSE ToSet(Opaque[o]))
<1>1. NextLoad' \in Graph
  BY DEF NextLoad, Graph, TypeOK
<1> QED
  BY <1>1, DepsElements DEF DepSet

LEMMA DepSetFiles ==
  ASSUME TypeOK, NEW o \in Step PROVE DepSet(o) \subseteq File
<1>1. Deps(NextLoad, o) \in Seq(File)
  BY LoadFacts, DepsType
<1> QED
  BY <1>1 DEF DepSet, ToSet

\* The next invocation would go by the same graph.
LEMMA SameDeps ==
  ASSUME TypeOK, TypeOK', NEW o \in Step,
         bin' = bin, mtime'[Manifest] = mtime[Manifest], depfile'[o] = depfile[o]
  PROVE  /\ NextLoad'.deps[o] = NextLoad.deps[o]
         /\ DepSet(o)' = DepSet(o)
<1>1. BinIsCurrent' <=> BinIsCurrent
  BY DEF BinIsCurrent
<1>2. /\ NextLoad'.deps[o] = NextLoad.deps[o]
      /\ NextLoad'.bin <=> NextLoad.bin
  BY <1>1 DEF NextLoad
<1> QED
  BY <1>2, DepSetFacts, DepSetNext

\* The next invocation, with an empty cache, goes by the times on disk.
LEMMA WillFacts ==
  ASSUME NEW o \in Step
  PROVE  WillBeRebuilt(o) <=> ~Exists(o) \/ \E f \in DepSet(o) : Newer(f, o)
<1>1. \A f : ChangedSince(NoCache, f, mtime[o]) <=> Newer(f, o)
  BY DEF ChangedSince, CachedTime, NoCache, Newer
<1> QED
  BY <1>1 DEF WillBeRebuilt, NeedsRebuild, DepSet, ToSet

LEMMA WillNext ==
  ASSUME NEW o \in Step
  PROVE  WillBeRebuilt(o)' <=> ~Exists(o)' \/ \E f \in DepSet(o)' : Newer(f, o)'
<1>1. \A f : ChangedSince(NoCache, f, mtime[o])' <=> Newer(f, o)'
  BY DEF ChangedSince, CachedTime, NoCache, Newer
<1> QED
  BY <1>1 DEF WillBeRebuilt, NeedsRebuild, DepSet, ToSet

\* What a graph compares shows what the text would show: for an opaque input
\* the name with the '!', which is never there.
LEMMA Shown ==
  ASSUME TypeOK, ClockInv, NEW g \in Graph, NEW o \in Step,
         NEW f \in Compared(g.deps[o], o), Newer(f, o)
  PROVE  \E x \in ToSet(Deps(g, o)) : Newer(x, o)
<1>1. ToSet(Deps(g, o)) =
        {Manifest} \cup ToSet(g.deps[o]) \cup ToSet(Inputs[o])
          \cup (IF g.bin THEN (IF Opaque[o] = <<>> THEN {} ELSE {Bang}) ELSE ToSet(Opaque[o]))
  BY DepsElements
<1>2. CASE f \in ToSet(Deps(g, o))
  BY <1>2
<1>3. CASE f \notin ToSet(Deps(g, o))
  <2>1. f \in ToSet(Opaque[o]) /\ g.bin
    BY <1>1, <1>3 DEF Compared
  <2>2. Opaque[o] # <<>>
    BY <2>1 DEF ToSet
  <2>3. Bang \in ToSet(Deps(g, o))
    BY <1>1, <2>1, <2>2
  <2>4. Newer(Bang, o)
    BY DEF ClockInv, Newer
  <2> QED
    BY <2>3, <2>4
<1> QED
  BY <1>2, <1>3

\* A tool reads nothing that is not compared, if the depfile is up to date.
LEMMA ReadsFacts ==
  ASSUME NEW o \in Step, o \in Compile => depfile[o] = includes[o]
  PROVE  Reads(o) \subseteq Compared(depfile[o], o)
BY DEF Reads, Compared

-----------------------------------------------------------------------------
(* An output that a step leaves alone. *)

\* The time of the output is kept, what is written meanwhile has the time of
\* the clock, and what is not taken into account only grows.
LeftAlone(o) ==
  /\ mtime'[o] = mtime[o] /\ depfile'[o] = depfile[o]
  /\ \A f \in File : mtime'[f] = mtime[f] \/ mtime'[f] = Missing \/ mtime'[f] = now
  /\ unseen[o] \subseteq unseen'[o]
  /\ \A f \in unseen'[o] \ unseen[o] :
       f \in Reads(o) /\ (mtime'[f] = Missing \/ mtime'[f] = now)
  /\ o \in Compile /\ unseen'[o] = {} => includes'[o] = includes[o]

LEMMA NewerComes ==
  ASSUME TypeOK, ClockInv, NEW o \in Step, mtime'[o] = mtime[o], NEW f \in File,
         mtime'[f] = Missing \/ mtime'[f] = now
  PROVE  Newer(f, o)'
<1>1. o \in File /\ mtime[o] \in Nat /\ now \in Nat
  BY NumberFacts
<1>2. mtime[o] <= now
  BY <1>1 DEF ClockInv
<1> QED
  BY <1>1, <1>2 DEF Newer

LEMMA NewerStays ==
  ASSUME TypeOK, ClockInv, NEW o \in Step, mtime'[o] = mtime[o], NEW f \in File, Newer(f, o),
         mtime'[f] = mtime[f] \/ mtime'[f] = Missing \/ mtime'[f] = now
  PROVE  Newer(f, o)'
<1>1. CASE mtime'[f] = mtime[f]
  BY <1>1 DEF Newer
<1> QED
  BY <1>1, NewerComes

\* Nothing is as old as an output that is not there.
LEMMA NewerThanNothing ==
  ASSUME TypeOK', NEW o \in Step, ~Exists(o)', NEW f \in File PROVE Newer(f, o)'
<1>1. mtime'[f] \in Nat
  BY FreshnessAssumption DEF TypeOK, Time
<1> QED
  BY <1>1 DEF Newer, Exists, Missing

LEMMA RebuiltStays ==
  ASSUME TypeOK, TypeOK', ClockInv, NEW o \in Step, LeftAlone(o), WillBeRebuilt(o), bin' = bin
  PROVE  WillBeRebuilt(o)'
<1>1. CASE ~Exists(o)
  BY <1>1, WillNext DEF Exists, LeftAlone
<1>2. CASE Exists(o) /\ mtime'[Manifest] = mtime[Manifest]
  <2>1. PICK f \in DepSet(o) : Newer(f, o)
    BY <1>2, WillFacts
  <2>2. f \in File /\ f \in DepSet(o)'
    BY <1>2, SameDeps, DepSetFiles DEF LeftAlone
  <2>3. Newer(f, o)'
    BY <2>1, <2>2, NewerStays DEF LeftAlone
  <2> QED
    BY <2>2, <2>3, WillNext
<1>3. CASE Exists(o) /\ mtime'[Manifest] # mtime[Manifest]
  <2>1. Manifest \in File
    BY DEF File
  <2>2. Newer(Manifest, o)'
    BY <1>3, <2>1, NewerComes DEF LeftAlone
  <2>3. Manifest \in DepSet(o)'
    BY DepSetNext
  <2> QED
    BY <2>2, <2>3, WillNext
<1> QED
  BY <1>1, <1>2, <1>3

LEMMA DiskStays ==
  ASSUME TypeOK, TypeOK', ClockInv, NEW o \in Step, LeftAlone(o), DiskOk(o)
  PROVE  DiskOk(o)'
<1>1. Exists(o)' <=> Exists(o)
  BY DEF LeftAlone, Exists
<1>2. unseen'[o] \subseteq File /\ unseen[o] \subseteq File
  BY DEF TypeOK
<1>3. ASSUME Exists(o), NEW f \in unseen'[o] PROVE Newer(f, o)'
  <2>1. f \in File
    BY <1>2, <1>3
  <2>2. CASE f \in unseen[o]
    BY <1>3, <2>1, <2>2, NewerStays DEF LeftAlone, DiskOk
  <2>3. CASE f \notin unseen[o]
    BY <1>3, <2>1, <2>3, NewerComes DEF LeftAlone
  <2> QED
    BY <2>2, <2>3
<1>4. Compared(depfile[o], o)' = Compared(depfile[o], o)
  BY DEF Compared, LeftAlone
<1>5. ASSUME Exists(o), o \notin unseen'[o], unseen'[o] # {}
      PROVE  unseen'[o] \cap Compared(depfile[o], o) # {}
  <2>1. unseen[o] \subseteq unseen'[o]
    BY DEF LeftAlone
  <2>2. CASE unseen[o] # {}
    BY <1>5, <2>1, <2>2 DEF DiskOk
  <2>3. CASE unseen[o] = {}
    <3>1. PICK f \in unseen'[o] : TRUE
      BY <1>5
    <3>2. f \in Reads(o)
      BY <2>3 DEF LeftAlone
    <3>3. Reads(o) \subseteq Compared(depfile[o], o)
      BY <1>5, <2>3, ReadsFacts DEF DiskOk
    <3> QED
      BY <3>2, <3>3
  <2> QED
    BY <2>2, <2>3
<1>6. ASSUME Exists(o), unseen'[o] = {}, o \in Compile PROVE depfile'[o] = includes'[o]
  BY <1>6 DEF LeftAlone, DiskOk
<1> QED
  BY <1>1, <1>3, <1>4, <1>5, <1>6 DEF DiskOk

-----------------------------------------------------------------------------
(* The steps of the others and of the build leave the other outputs alone. *)

\* Nothing is written.
LEMMA QuietStep ==
  ASSUME TypeOK, NEW o \in Step, UNCHANGED <<mtime, includes, depfile, unseen>>
  PROVE  LeftAlone(o)
BY DEF LeftAlone

LEMMA TouchLeaves ==
  ASSUME TypeOK, NEW f \in File, Edit(f) \/ Delete(f), NEW o \in Step, o # f
  PROVE  LeftAlone(o)
<1>1. /\ mtime'[f] = now \/ mtime'[f] = Missing
      /\ \A x \in File : x # f => mtime'[x] = mtime[x]
      /\ o \in File
  BY NumberFacts DEF Edit, Delete, TypeOK
<1>2. unseen' = UnseenAfter({f}) /\ Changed({f}, {}) /\ depfile' = depfile
  BY DEF Edit, Delete
<1>3. unseen'[o] = unseen[o] \cup ({f} \cap Reads(o))
  <2>1. {f} \in SUBSET File
    OBVIOUS
  <2> QED
    BY <1>2, <2>1, UnseenAfterFacts
<1>4. o \in Compile /\ unseen'[o] = {} => includes'[o] = includes[o]
  BY <1>2, <1>3, ChangedKeeps
<1> QED
  BY <1>1, <1>2, <1>3, <1>4 DEF LeftAlone

LEMMA DeleteRemoves ==
  ASSUME TypeOK, NEW o \in Step, Delete(o) PROVE ~Exists(o)'
BY NumberFacts DEF Delete, Exists, TypeOK

LEMMA EndOfToolLeaves ==
  ASSUME TypeOK, NEW p \in Step, EndOfTool(p), NEW o \in Step, o # p
  PROVE  LeftAlone(o)
<1>1. \A x \in File : mtime'[x] = IF x = p THEN now ELSE mtime[x]
  BY NumberFacts DEF EndOfTool, TypeOK
<1>2. unseen'[o] = unseen[o] \cup ({p} \cap Reads(o))
  <2>1. {p} \in SUBSET File
    BY NumberFacts
  <2> QED
    BY <2>1, UnseenAfterFacts DEF EndOfTool
<1>3. o \in File /\ p \in File /\ depfile'[o] = depfile[o] /\ Changed({p}, {p})
  BY NumberFacts DEF EndOfTool, TypeOK, Depfiles
<1>4. o \in Compile /\ unseen'[o] = {} => includes'[o] = includes[o]
  BY <1>2, <1>3, ChangedKeeps
<1> QED
  BY <1>1, <1>2, <1>3, <1>4 DEF LeftAlone

\* Tools that do not come to their end: an output that is neither removed nor
\* left in part is left alone.
LEMMA UnfinishedLeaves ==
  ASSUME TypeOK, NEW tools \in SUBSET Step, NEW lost \in SUBSET Step, NEW ended,
         Unfinished(tools, lost, ended), depfile' = depfile, NEW o \in Step
  PROVE  /\ LeftAlone(o) \/ ~Exists(o)' \/ unseen'[o] = {o}
         /\ o \notin tools => LeftAlone(o) \/ ~Exists(o)'
<1>1. PICK gone \in SUBSET tools, partial \in SUBSET tools :
        /\ mtime' = [f \in File |-> IF f \in gone \cup lost THEN Missing
                                    ELSE IF f \in partial THEN now ELSE mtime[f]]
        /\ unseen' = [x \in Step |->
                        IF x \in partial THEN {x}
                        ELSE UnseenAfter(gone \cup lost \cup partial)[x]]
        /\ Changed(gone \cup lost \cup partial, ended)
  BY UnfinishedFacts
<1> DEFINE files == gone \cup lost \cup partial
<1>2. o \in File /\ files \in SUBSET File /\ partial \subseteq tools
  BY NumberFacts
<1>3. CASE o \in partial
  BY <1>1, <1>2, <1>3
<1>4. CASE o \in gone \cup lost
  BY <1>1, <1>2, <1>4 DEF Exists
<1>5. CASE o \notin partial /\ o \notin gone \cup lost
  <2>1. unseen'[o] = unseen[o] \cup (files \cap Reads(o)) /\ mtime'[o] = mtime[o]
    BY <1>1, <1>2, <1>5, UnseenAfterFacts
  <2>2. \A f \in File : mtime'[f] = mtime[f] \/ mtime'[f] = Missing \/ mtime'[f] = now
    BY <1>1
  <2>3. \A f \in files : mtime'[f] = Missing \/ mtime'[f] = now
    BY <1>1, <1>2
  <2>4. o \in Compile /\ unseen'[o] = {} => includes'[o] = includes[o]
    <3>1. Changed(files, ended)
      BY <1>1
    <3> HIDE DEF files
    <3> QED
      BY <2>1, <3>1, ChangedKeeps
  <2> HIDE DEF files
  <2> QED
    BY <2>1, <2>2, <2>3, <2>4 DEF LeftAlone
<1> QED
  BY <1>3, <1>4, <1>5

\* What a kill does to an output.
LEMMA KilledLeaves ==
  ASSUME TypeOK, NEW lost \in SUBSET Step, Killed(lost), NEW o \in Step
  PROVE  LeftAlone(o) \/ ~Exists(o)' \/ unseen'[o] = {o}
<1>1. PICK orphans \in SUBSET Active :
        Unfinished(Active \ orphans, lost, Step \ orphans) /\ depfile' = depfile
  BY DEF Killed
<1>2. Active \ orphans \in SUBSET Step
  BY ActiveSteps
<1> DEFINE tools == Active \ orphans
           ended == Step \ orphans
<1> HIDE DEF tools, ended
<1>3. tools \in SUBSET Step /\ Unfinished(tools, lost, ended)
  BY <1>1, <1>2 DEF tools, ended
<1> QED
  BY <1>1, <1>3, UnfinishedLeaves

-----------------------------------------------------------------------------
(* The times on disk tell. *)

\* The files that a step writes or removes.
Writes(files) ==
  /\ files \subseteq Source \cup Step \cup {Manifest}
  /\ \A f \in File : mtime'[f] = mtime[f]
                     \/ (f \in files /\ (mtime'[f] = Missing \/ mtime'[f] = now))
  /\ \A o \in Step : unseen'[o] \subseteq unseen[o] \cup files

LEMMA UnfinishedWrites ==
  ASSUME TypeOK, NEW tools \in SUBSET Step, NEW lost \in SUBSET Step, NEW ended,
         Unfinished(tools, lost, ended)
  PROVE  Writes(tools \cup lost)
<1>1. PICK gone \in SUBSET tools, partial \in SUBSET tools :
        /\ mtime' = [f \in File |-> IF f \in gone \cup lost THEN Missing
                                    ELSE IF f \in partial THEN now ELSE mtime[f]]
        /\ unseen' = [x \in Step |->
                        IF x \in partial THEN {x}
                        ELSE UnseenAfter(gone \cup lost \cup partial)[x]]
        /\ Changed(gone \cup lost \cup partial, ended)
  BY UnfinishedFacts
<1>2. gone \cup lost \cup partial \in SUBSET File
  BY NumberFacts
<1>3. \A o \in Step : UnseenAfter(gone \cup lost \cup partial)[o] \subseteq unseen[o] \cup tools \cup lost
  BY <1>2, UnseenAfterFacts
<1> QED
  BY <1>1, <1>3 DEF Writes

LEMMA WhatIsWritten ==
  ASSUME TypeOK, [Next]_vars
  PROVE  /\ now' = now \/ (now' = now + 1 /\ mtime' = mtime)
         /\ \E files : Writes(files)
<1>1. ASSUME UNCHANGED <<mtime, unseen>> PROVE Writes({})
  BY <1>1 DEF Writes
<1>2. CASE UNCHANGED vars \/ Tick \/ Count \/ Return \/ \E n, k \in BOOLEAN : StartBuild(n, k)
  BY <1>1, <1>2 DEF vars, disk, Tick, Count, Return, StartBuild
<1>3. CASE \E o \in Step : Begin(o) \/ EndIdle(o)
  BY <1>1, <1>3 DEF Begin, EndIdle, disk
<1>4. ASSUME NEW f \in Source \cup Step \cup {Manifest}, Edit(f) \/ Delete(f)
      PROVE  now' = now /\ Writes({f})
  <2>1. f \in File /\ {f} \in SUBSET File
    BY Touched DEF File
  <2>2. unseen' = UnseenAfter({f}) /\ now' = now
        /\ \A x \in File : mtime'[x] = mtime[x] \/ (x = f /\ (mtime'[x] = Missing \/ mtime'[x] = now))
    BY <1>4, <2>1 DEF Edit, Delete, TypeOK
  <2>3. \A o \in Step : unseen'[o] = unseen[o] \cup ({f} \cap Reads(o))
    BY <2>1, <2>2, UnseenAfterFacts
  <2> QED
    BY <2>2, <2>3 DEF Writes
<1>5. ASSUME NEW o \in Step, EndOfTool(o) PROVE now' = now /\ Writes({o})
  <2>1. o \in File /\ {o} \in SUBSET File
    BY NumberFacts
  <2>2. /\ unseen' = [UnseenAfter({o}) EXCEPT ![o] = overtaken \cap {o}] /\ now' = now
        /\ \A x \in File : mtime'[x] = mtime[x] \/ (x = o /\ mtime'[x] = now)
    BY <1>5, <2>1 DEF EndOfTool, TypeOK
  <2>3. \A x \in Step : unseen'[x] \subseteq unseen[x] \cup {o}
    BY <2>1, <2>2, UnseenAfterFacts
  <2> QED
    BY <2>2, <2>3 DEF Writes
<1>6. ASSUME NEW o \in Step, FailureOfTool(o) PROVE now' = now /\ \E files : Writes(files)
  <2>1. {o} \in SUBSET Step /\ {} \in SUBSET Step /\ Unfinished({o}, {}, {o}) /\ now' = now
    BY <1>6 DEF FailureOfTool
  <2> QED
    BY <2>1, UnfinishedWrites
<1>7. ASSUME NEW lost \in SUBSET Step, Killed(lost) PROVE now' = now /\ \E files : Writes(files)
  <2>1. PICK orphans \in SUBSET Active :
          Unfinished(Active \ orphans, lost, Step \ orphans) /\ now' = now
    BY <1>7 DEF Killed
  <2>2. Active \ orphans \in SUBSET Step
    BY ActiveSteps
  <2> DEFINE tools == Active \ orphans
             ended == Step \ orphans
  <2> HIDE DEF tools, ended
  <2>3. tools \in SUBSET Step /\ Unfinished(tools, lost, ended) /\ now' = now
    BY <2>1, <2>2 DEF tools, ended
  <2> QED
    BY <2>3, UnfinishedWrites
<1>8. CASE Clean
  <2>1. Writes(Step)
    BY <1>8 DEF Clean, Writes
  <2> QED
    BY <1>8, <2>1 DEF Clean
<1>9. ASSUME NEW o \in Step, Crash \/ RemovedWhileAsked(o)
      PROVE  now' = now /\ \E files : Writes(files)
  BY <1>7, <1>9, Kills
<1>10. \E o \in Step : TRUE
  BY FreshnessAssumption
<1>11. now' = now \/ (now' = now + 1 /\ mtime' = mtime)
  <2>1. CASE UNCHANGED vars \/ Tick \/ Count \/ Return \/ \E n, k \in BOOLEAN : StartBuild(n, k)
    BY <2>1 DEF vars, disk, Tick, Count, Return, StartBuild
  <2>2. CASE \E o \in Step : Begin(o) \/ EndIdle(o)
    BY <2>2 DEF Begin, EndIdle, disk
  <2> QED
    BY <1>4, <1>5, <1>6, <1>8, <1>9, <1>10, <2>1, <2>2, Touched DEF Next, BuildStep, Disturbance
<1> QED
  BY <1>2, <1>3, <1>4, <1>5, <1>6, <1>8, <1>9, <1>10, <1>11, Touched
    DEF Next, BuildStep, Disturbance

LEMMA ClockKeeps == ASSUME TypeOK, ClockInv, [Next]_vars PROVE ClockInv'
<1>1. PICK files : Writes(files)
  BY WhatIsWritten
<1>2. now' = now \/ (now' = now + 1 /\ mtime' = mtime)
  BY WhatIsWritten
<1>3. \A f \in File : mtime[f] \in Nat /\ mtime[f] <= now /\ now \in Nat /\ Missing <= now
  BY NumberFacts DEF ClockInv, Missing
<1>4. Bang \notin files /\ Bang \in File
  BY <1>1, FreshnessAssumption DEF Writes, File
<1>5. \A f \in File : mtime'[f] <= now'
  BY <1>1, <1>2, <1>3 DEF Writes
<1>6. mtime'[Bang] = Missing /\ \A o \in Step : Bang \notin unseen'[o]
  BY <1>1, <1>4 DEF Writes, ClockInv
<1> QED
  BY <1>5, <1>6 DEF ClockInv

\* What a step does to an output: it leaves it alone, removes it, leaves part
\* of it, or makes it.
LEMMA WhatAStepDoes ==
  ASSUME TypeOK, [Next]_vars, NEW o \in Step
  PROVE  LeftAlone(o) \/ ~Exists(o)' \/ unseen'[o] = {o} \/ EndOfTool(o)
<1>1. ASSUME NEW p \in Step, Crash \/ RemovedWhileAsked(p)
      PROVE  LeftAlone(o) \/ ~Exists(o)' \/ unseen'[o] = {o}
  BY <1>1, Kills, KilledLeaves
<1>2. ASSUME NEW p \in Step, FailureOfTool(p)
      PROVE  LeftAlone(o) \/ ~Exists(o)' \/ unseen'[o] = {o}
  <2>1. {p} \in SUBSET Step /\ {} \in SUBSET Step /\ Unfinished({p}, {}, {p}) /\ depfile' = depfile
    BY <1>2 DEF FailureOfTool
  <2> QED
    BY <2>1, UnfinishedLeaves
<1>3. ASSUME NEW f \in Source \cup {Manifest}, Edit(f) PROVE LeftAlone(o)
  <2>1. f \in File /\ f # o
    BY Touched, NumberFacts
  <2> QED
    BY <1>3, <2>1, TouchLeaves
<1>4. ASSUME NEW f \in File, Delete(f) PROVE LeftAlone(o) \/ ~Exists(o)'
  BY <1>4, TouchLeaves, DeleteRemoves
<1>5. ASSUME NEW p \in Step, EndOfTool(p), p # o PROVE LeftAlone(o)
  BY <1>5, EndOfToolLeaves
<1>6. CASE Clean
  BY <1>6, NumberFacts DEF Clean, Exists
<1>7. CASE UNCHANGED vars \/ Tick \/ Count \/ Return \/ \E n, k \in BOOLEAN : StartBuild(n, k)
  BY <1>7, QuietStep DEF vars, disk, Tick, Count, Return, StartBuild
<1>8. ASSUME NEW p \in Step, Begin(p) \/ EndIdle(p) PROVE LeftAlone(o)
  BY <1>8, QuietStep DEF Begin, EndIdle, disk
<1> QED
  BY <1>1, <1>2, <1>3, <1>4, <1>5, <1>6, <1>7, <1>8, Touched DEF Next, BuildStep, Disturbance

LEMMA DiskKeeps ==
  ASSUME TypeOK, TypeOK', ClockInv, DiskInv, [Next]_vars PROVE DiskInv'
<1> SUFFICES ASSUME NEW o \in Step PROVE DiskOk(o)'
  BY DEF DiskInv
<1>0. o \in File /\ mtime'[o] \in Nat
  BY FreshnessAssumption DEF TypeOK, Time, File
<1>1. CASE LeftAlone(o)
  BY <1>1, DiskStays DEF DiskInv
<1>2. CASE ~Exists(o)'
  BY <1>2 DEF DiskOk
<1>3. CASE unseen'[o] = {o}
  <2>1. Newer(o, o)'
    BY <1>0 DEF Newer
  <2> QED
    BY <1>3, <2>1 DEF DiskOk
<1>4. CASE EndOfTool(o)
  <2>1. unseen'[o] = overtaken \cap {o}
    BY <1>4, NumberFacts, UnseenAfterFacts DEF EndOfTool
  <2>2. CASE o \in overtaken
    BY <1>3, <2>1, <2>2
  <2>3. CASE o \notin overtaken
    <3>1. ASSUME o \in Compile PROVE depfile'[o] = includes'[o]
      <4>1. includes'[o] = includes[o]
        BY <1>4, <3>1, ChangedKeeps DEF EndOfTool
      <4>2. depfile' = [depfile EXCEPT ![o] = includes[o]]
        BY <1>4, <2>3, <3>1 DEF EndOfTool
      <4> QED
        BY <4>1, <4>2 DEF TypeOK, Depfiles
    <3>2. unseen'[o] = {}
      BY <2>1, <2>3
    <3> QED
      BY <3>1, <3>2 DEF DiskOk
  <2> QED
    BY <2>2, <2>3
<1> QED
  BY <1>1, <1>2, <1>3, <1>4, WhatAStepDoes

LEMMA PendingIs ==
  ASSUME NEW o \in Step
  PROVE  Pending(o) = IF o \in unseen[o] \/ NextLoad.deps[o] # depfile[o]
                        THEN unseen[o] \cap DepSet(o) ELSE unseen[o]
BY DEF Pending, DepSet

LEMMA DiskTells ==
  ASSUME TypeOK, ClockInv, DiskInv, NEW o \in Step, Pending(o) # {} PROVE WillBeRebuilt(o)
<1>1. CASE ~Exists(o)
  BY <1>1, WillFacts
<1>2. CASE Exists(o) /\ (o \in unseen[o] \/ NextLoad.deps[o] # depfile[o])
  <2>1. PICK f \in unseen[o] : f \in DepSet(o)
    BY <1>2, PendingIs
  <2>2. Newer(f, o)
    BY <1>2, <2>1 DEF DiskInv, DiskOk
  <2> QED
    BY <2>1, <2>2, WillFacts
<1>3. CASE Exists(o) /\ o \notin unseen[o] /\ NextLoad.deps[o] = depfile[o]
  <2>1. unseen[o] # {}
    BY <1>3, PendingIs
  <2>2. PICK f \in unseen[o] : f \in Compared(depfile[o], o)
    BY <1>3, <2>1 DEF DiskInv, DiskOk
  <2>3. Newer(f, o)
    BY <1>3, <2>2 DEF DiskInv, DiskOk
  <2>4. NextLoad \in Graph /\ f \in Compared(NextLoad.deps[o], o)
    BY <1>3, <2>2, LoadFacts
  <2>5. \E x \in ToSet(Deps(NextLoad, o)) : Newer(x, o)
    BY <2>3, <2>4, Shown
  <2> QED
    BY <2>5, WillFacts DEF DepSet
<1> QED
  BY <1>1, <1>2, <1>3

StaleInv == PInv /\ ClockInv /\ DiskInv

LEMMA InitDisk == Init => ClockInv /\ DiskInv
<1> SUFFICES ASSUME Init PROVE ClockInv /\ DiskInv
  OBVIOUS
<1>1. ClockInv
  BY DEF Init, ClockInv, Missing, File
<1>2. \A o \in Step : ~Exists(o)
  BY DEF Init, Exists, File
<1> QED
  BY <1>1, <1>2 DEF DiskInv, DiskOk

LEMMA AlwaysTold == Spec => []StaleInv
<1>1. Init => StaleInv
  BY InitDisk, InitTypes, InitCounts DEF StaleInv, PInv
<1>2. StaleInv /\ [Next]_vars => StaleInv'
  <2> SUFFICES ASSUME StaleInv, [Next]_vars PROVE StaleInv'
    OBVIOUS
  <2>1. TypeOK /\ CountInv /\ ClockInv /\ DiskInv
    BY DEF StaleInv, PInv
  <2>2. TypeOK' /\ CountInv'
    BY <2>1, TypesKeep, CountsKeep
  <2>3. ClockInv' /\ DiskInv'
    BY <2>1, <2>2, ClockKeeps, DiskKeeps
  <2> QED
    BY <2>2, <2>3 DEF StaleInv, PInv
<1> QED
  BY <1>1, <1>2, PTL DEF Spec

\* Nothing that is pending is hidden.  Whenever a file has been written or
\* removed after the tool of an output had read it and ended, the next
\* invocation sees it by the times, whoever edits, removes, kills or fails, at
\* whatever moment, however coarse the clock is, and with the feature binary on
\* or off.  A change that a tool overtakes while it reads the file is not
\* pending: its output is marked by itself and goes by what is compared.
THEOREM StalenessIsNeverSilent == Spec => []NoSilentStaleness
<1>1. StaleInv => NoSilentStaleness
  BY DiskTells DEF StaleInv, PInv, NoSilentStaleness
<1> QED
  BY <1>1, AlwaysTold, PTL

-----------------------------------------------------------------------------
(* The graph and the cache of a running invocation. *)

\* Steps move from pending on only.
LEMMA PendingBefore ==
  ASSUME TypeOK, [Next]_vars, phase' # "idle", phase # "idle"
  PROVE  /\ UNCHANGED <<loaded, bin>>
         /\ \A o \in Step : status'[o] = "pending" => status[o] = "pending"
<1>0. ASSUME UNCHANGED <<loaded, bin, status>>
      PROVE  /\ UNCHANGED <<loaded, bin>>
             /\ \A o \in Step : status'[o] = "pending" => status[o] = "pending"
  BY <1>0
<1>1. CASE UNCHANGED vars \/ Tick \/ Count \/ \E f \in File : Edit(f) \/ Delete(f)
  BY <1>0, <1>1 DEF vars, setup, Tick, Count, Edit, Delete
<1>2. ASSUME NEW p \in Step, Begin(p)
      PROVE  /\ UNCHANGED <<loaded, bin>>
             /\ \A o \in Step : status'[o] = "pending" => status[o] = "pending"
  <2>1. status'[p] = "running" /\ \A x \in Step : x # p => status'[x] = status[x]
    BY <1>2, StartFacts DEF Begin
  <2> QED
    BY <1>2, <2>1 DEF Begin, setup
<1>3. ASSUME NEW p \in Step, EndIdle(p) \/ EndOfTool(p) \/ FailureOfTool(p)
      PROVE  /\ UNCHANGED <<loaded, bin>>
             /\ \A o \in Step : status'[o] = "pending" => status[o] = "pending"
  <2>1. PICK to \in {"succeeded", "failed"} : Order!Finish(p) /\ status'[p] = to
    BY <1>3 DEF EndIdle, EndOfTool, FailureOfTool
  <2>2. \A x \in Step : x # p => status'[x] = status[x]
    BY <2>1, FinishFacts
  <2>3. UNCHANGED <<loaded, bin>>
    BY <1>3 DEF EndIdle, EndOfTool, FailureOfTool, setup
  <2> QED
    BY <2>1, <2>2, <2>3
<1>4. ASSUME phase = "idle" \/ phase' = "idle" PROVE FALSE
  BY <1>4
<1>5. CASE Return \/ Clean \/ \E n, k \in BOOLEAN : StartBuild(n, k)
  BY <1>4, <1>5 DEF Return, Clean, StartBuild, EndOfProcess
<1>6. ASSUME NEW p \in Step, Crash \/ RemovedWhileAsked(p) PROVE FALSE
  BY <1>4, <1>6, Kills, KilledFacts DEF EndOfProcess
<1>7. \E o \in Step : TRUE
  BY FreshnessAssumption
<1> QED
  BY <1>1, <1>2, <1>3, <1>5, <1>6, <1>7, Touched DEF Next, BuildStep, Disturbance

\* An invocation begins with StartBuild.
LEMMA Beginning ==
  ASSUME [Next]_vars, phase = "idle", phase' # "idle"
  PROVE  \E n, k \in BOOLEAN : StartBuild(n, k)
<1>1. ASSUME phase' = phase PROVE FALSE
  BY <1>1
<1>2. CASE UNCHANGED vars \/ Tick \/ Clean \/ \E f \in File : Edit(f) \/ Delete(f)
  BY <1>1, <1>2 DEF vars, Tick, Edit, Delete, Clean
<1>3. CASE Count \/ Return
  BY <1>3 DEF Count, Return
<1>4. ASSUME NEW o \in Step, Begin(o) \/ EndIdle(o) \/ EndOfTool(o) \/ FailureOfTool(o)
      PROVE  FALSE
  BY <1>1, <1>4 DEF Begin, EndIdle, EndOfTool, FailureOfTool
<1>5. ASSUME NEW o \in Step, Crash \/ RemovedWhileAsked(o) PROVE FALSE
  BY <1>5, Kills
<1>6. \E o \in Step : TRUE
  BY FreshnessAssumption
<1> QED
  BY <1>2, <1>3, <1>4, <1>5, <1>6, Touched DEF Next, BuildStep, Disturbance

\* The output of a pending step is at most removed while an invocation runs.
LEMMA PendingLeft ==
  ASSUME TypeOK, [Next]_vars, phase # "idle", phase' # "idle", NEW o \in Step,
         status'[o] = "pending"
  PROVE  depfile'[o] = depfile[o] /\ (LeftAlone(o) \/ ~Exists(o)')
<1>0. ASSUME LeftAlone(o) PROVE depfile'[o] = depfile[o]
  BY <1>0 DEF LeftAlone
<1>1. CASE UNCHANGED vars \/ Tick \/ Count
  BY <1>0, <1>1, QuietStep DEF vars, disk, Tick, Count
<1>2. CASE \E p \in Step : Begin(p) \/ EndIdle(p)
  BY <1>0, <1>2, QuietStep DEF Begin, EndIdle, disk
<1>3. ASSUME NEW p \in Step, EndOfTool(p) PROVE LeftAlone(o)
  BY <1>3, EndOfToolLeaves DEF EndOfTool
<1>4. ASSUME NEW p \in Step, FailureOfTool(p)
      PROVE  depfile' = depfile /\ (LeftAlone(o) \/ ~Exists(o)')
  <2>1. /\ {p} \in SUBSET Step /\ {} \in SUBSET Step /\ Unfinished({p}, {}, {p})
        /\ depfile' = depfile /\ o \notin {p}
    BY <1>4 DEF FailureOfTool
  <2> QED
    BY <2>1, UnfinishedLeaves
<1>5. ASSUME NEW f \in Source \cup {Manifest}, Edit(f) PROVE LeftAlone(o)
  <2>1. f \in File /\ f # o
    BY Touched, NumberFacts
  <2> QED
    BY <1>5, <2>1, TouchLeaves
<1>6. ASSUME NEW f \in File, Delete(f)
      PROVE  depfile' = depfile /\ (LeftAlone(o) \/ ~Exists(o)')
  BY <1>6, TouchLeaves, DeleteRemoves DEF Delete
<1>7. CASE Clean \/ Return \/ \E n, k \in BOOLEAN : StartBuild(n, k)
  BY <1>7 DEF Clean, Return, StartBuild, EndOfProcess
<1>8. ASSUME NEW p \in Step, Crash \/ RemovedWhileAsked(p) PROVE FALSE
  BY <1>8, Kills, KilledFacts DEF EndOfProcess
<1>9. \E p \in Step : TRUE
  BY FreshnessAssumption
<1> QED
  BY <1>0, <1>1, <1>2, <1>3, <1>4, <1>5, <1>6, <1>7, <1>8, <1>9, Touched
    DEF Next, BuildStep, Disturbance

\* A graph from .catalyst.bin is the one the next invocation takes, unless the
\* manifest has been written meanwhile; and the depfile of a step that is not
\* started yet is the one a graph made from the text holds.
LEMMA LoadBegins ==
  ASSUME TypeOK, NEW n \in BOOLEAN, NEW k \in BOOLEAN, StartBuild(n, k) PROVE LoadInv'
<1>1. /\ loaded' = NextLoad /\ UNCHANGED <<depfile, mtime>>
      /\ bin' = IF Binary /\ ~BinIsCurrent THEN [time |-> now, deps |-> depfile] ELSE bin
  BY DEF StartBuild, Parse, disk
<1>2. CASE BinIsCurrent
  <2>1. bin' = bin /\ loaded' = [bin |-> TRUE, deps |-> bin.deps] /\ Binary
        /\ bin.time # Missing /\ bin.time > mtime[Manifest]
    BY <1>1, <1>2 DEF NextLoad, BinIsCurrent
  <2> QED
    BY <1>1, <2>1 DEF LoadInv
<1>3. CASE ~BinIsCurrent
  <2>1. loaded' = [bin |-> FALSE, deps |-> depfile] /\ (Binary => bin'.deps = depfile)
    BY <1>1, <1>3 DEF NextLoad
  <2> QED
    BY <1>1, <2>1 DEF LoadInv
<1> QED
  BY <1>2, <1>3

LEMMA LoadKeeps ==
  ASSUME TypeOK, TypeOK', ClockInv, LoadInv, [Next]_vars PROVE LoadInv'
<1>1. CASE phase' = "idle"
  BY <1>1 DEF LoadInv
<1>2. CASE phase = "idle" /\ phase' # "idle"
  BY <1>2, Beginning, LoadBegins
<1>3. CASE phase # "idle" /\ phase' # "idle"
  <2>1. UNCHANGED <<loaded, bin>> /\ \A o \in Step : status'[o] = "pending" => status[o] = "pending"
    BY <1>3, PendingBefore
  <2>2. ASSUME NEW o \in Step, status'[o] = "pending"
        PROVE  depfile'[o] = depfile[o] /\ (LeftAlone(o) \/ ~Exists(o)')
    BY <1>3, <2>2, PendingLeft
  <2>3. Manifest \in File
    BY DEF File
  <2>4. ASSUME NEW o \in Step, status'[o] = "pending",
               mtime'[Manifest] # mtime[Manifest] \/ Newer(Manifest, o)
        PROVE  Newer(Manifest, o)'
    <3>1. CASE ~Exists(o)'
      BY <2>3, <3>1, NewerThanNothing
    <3>2. CASE LeftAlone(o) /\ Newer(Manifest, o)
      BY <2>3, <3>2, NewerStays DEF LeftAlone
    <3>3. CASE LeftAlone(o) /\ mtime'[Manifest] # mtime[Manifest]
      BY <2>3, <3>3, NewerComes DEF LeftAlone
    <3> QED
      BY <2>2, <2>4, <3>1, <3>2, <3>3
  <2>5. ASSUME loaded.bin
        PROVE  /\ Binary /\ bin.time # Missing
               /\ \/ bin.time > mtime'[Manifest]
                  \/ \A o \in Step : status'[o] = "pending" => Newer(Manifest, o)'
    <3>1. /\ Binary /\ bin.time # Missing
          /\ \/ bin.time > mtime[Manifest]
             \/ \A o \in Step : status[o] = "pending" => Newer(Manifest, o)
      BY <1>3, <2>5 DEF LoadInv
    <3>2. CASE bin.time > mtime[Manifest] /\ mtime'[Manifest] = mtime[Manifest]
      BY <3>1, <3>2
    <3>3. CASE ~(bin.time > mtime[Manifest]) \/ mtime'[Manifest] # mtime[Manifest]
      BY <2>1, <2>4, <3>1, <3>3
    <3> QED
      BY <3>2, <3>3
  <2>6. Binary => bin.deps = loaded.deps
    BY <1>3 DEF LoadInv
  <2>7. ~loaded.bin => \A o \in Step : status'[o] = "pending" => loaded.deps[o] = depfile'[o]
    BY <1>3, <2>1, <2>2 DEF LoadInv
  <2> QED
    BY <2>1, <2>5, <2>6, <2>7 DEF LoadInv
<1> QED
  BY <1>1, <1>2, <1>3

\* What is in the cache was there before or is on disk.
LEMMA CacheGrows ==
  ASSUME [Next]_vars, phase # "idle", phase' # "idle", NEW f \in DOMAIN stat_cache'
  PROVE  \/ f \in DOMAIN stat_cache /\ stat_cache'[f] = stat_cache[f]
         \/ stat_cache'[f] = mtime[f] /\ mtime' = mtime
<1>1. ASSUME stat_cache' = stat_cache
      PROVE  f \in DOMAIN stat_cache /\ stat_cache'[f] = stat_cache[f]
  BY <1>1
<1>2. ASSUME NEW o, stat_cache' = CacheAfter(loaded, stat_cache, o), mtime' = mtime
      PROVE  \/ f \in DOMAIN stat_cache /\ stat_cache'[f] = stat_cache[f]
             \/ stat_cache'[f] = mtime[f] /\ mtime' = mtime
  <2>1. stat_cache'[f] = CachedTime(stat_cache, f)
    BY <1>2 DEF CacheAfter
  <2> QED
    BY <1>2, <2>1 DEF CachedTime
<1>3. CASE Count
  BY <1>2, <1>3 DEF Count, disk
<1>4. ASSUME NEW o \in Step, Begin(o)
      PROVE  \/ f \in DOMAIN stat_cache /\ stat_cache'[f] = stat_cache[f]
             \/ stat_cache'[f] = mtime[f] /\ mtime' = mtime
  BY <1>2, <1>4 DEF Begin, CacheAtBegin, disk
<1>5. CASE UNCHANGED vars \/ Tick \/ \E x \in File : Edit(x) \/ Delete(x)
  BY <1>1, <1>5 DEF vars, Tick, Edit, Delete, progress
<1>6. CASE \E o \in Step : EndIdle(o) \/ EndOfTool(o) \/ FailureOfTool(o)
  BY <1>1, <1>6 DEF EndIdle, EndOfTool, FailureOfTool, progress
<1>7. CASE Clean \/ Return \/ \E n, k \in BOOLEAN : StartBuild(n, k)
  BY <1>7 DEF Clean, Return, StartBuild, EndOfProcess
<1>8. ASSUME NEW p \in Step, Crash \/ RemovedWhileAsked(p) PROVE FALSE
  BY <1>8, Kills, KilledFacts DEF EndOfProcess
<1>9. \E p \in Step : TRUE
  BY FreshnessAssumption
<1> QED
  BY <1>3, <1>4, <1>5, <1>6, <1>7, <1>8, <1>9, Touched DEF Next, BuildStep, Disturbance

\* A cached time that calls for a rebuild is backed by a time on disk.
LEMMA CacheKeeps == ASSUME TypeOK, ClockInv, CacheInv, [Next]_vars PROVE CacheInv'
<1> SUFFICES ASSUME phase' # "idle", NEW o \in Step, NEW f \in DOMAIN stat_cache',
                    status'[o] = "pending", Exists(o)',
                    stat_cache'[f] = Missing \/ stat_cache'[f] >= mtime'[o]
             PROVE  Newer(f, o)'
  BY DEF CacheInv
<1>1. CASE phase = "idle"
  <2>1. PICK n \in BOOLEAN, k \in BOOLEAN : StartBuild(n, k)
    BY <1>1, Beginning
  <2> QED
    BY <2>1 DEF StartBuild, NoCache
<1>2. CASE phase # "idle"
  <2>1. LeftAlone(o) /\ status[o] = "pending"
    BY <1>2, PendingLeft, PendingBefore
  <2>2. CASE f \in DOMAIN stat_cache /\ stat_cache'[f] = stat_cache[f]
    <3>1. Newer(f, o) /\ f \in File
      BY <1>2, <2>1, <2>2 DEF CacheInv, Exists, LeftAlone, TypeOK
    <3> QED
      BY <2>1, <3>1, NewerStays DEF LeftAlone
  <2>3. CASE stat_cache'[f] = mtime[f] /\ mtime' = mtime
    BY <2>3 DEF Newer
  <2> QED
    BY <1>2, <2>2, <2>3, CacheGrows
<1> QED
  BY <1>1, <1>2

-----------------------------------------------------------------------------
(* A step that did not succeed is run again. *)

\* The graph of this invocation and that of the next compare the same depfile,
\* if the next does not take the text because the manifest has been written.
LEMMA SameGraph ==
  ASSUME TypeOK, LoadInv, phase # "idle", NEW o \in Step, status[o] = "pending",
         loaded.bin => NextLoad.bin
  PROVE  NextLoad.deps[o] = loaded.deps[o]
<1>1. CASE NextLoad.bin
  <2>1. Binary /\ NextLoad.deps = bin.deps
    BY <1>1, LoadFacts DEF BinIsCurrent
  <2> QED
    BY <2>1 DEF LoadInv
<1>2. CASE ~NextLoad.bin
  <2>1. ~loaded.bin /\ NextLoad.deps = depfile
    BY <1>2, LoadFacts
  <2> QED
    BY <2>1 DEF LoadInv
<1> QED
  BY <1>1, <1>2

\* What process_step decides, the next invocation would decide.
LEMMA DecisionBacked ==
  ASSUME TypeOK, ClockInv, LoadInv, CacheInv, phase # "idle",
         NEW o \in Step, status[o] = "pending", NeedsRebuild(loaded, stat_cache, o)
  PROVE  WillBeRebuilt(o)
<1>1. loaded \in Graph /\ NextLoad \in Graph
  BY LoadFacts DEF TypeOK, Graph
<1>2. CASE ~Exists(o)
  BY <1>2, WillFacts
<1>3. CASE Exists(o) /\ loaded.bin /\ ~NextLoad.bin
  <2>1. ~(bin.time > mtime[Manifest]) /\ Newer(Manifest, o)
    BY <1>3, LoadFacts DEF LoadInv, BinIsCurrent
  <2>2. Manifest \in DepSet(o)
    BY DepSetFacts
  <2> QED
    BY <2>1, <2>2, WillFacts
<1>4. CASE Exists(o) /\ (loaded.bin => NextLoad.bin)
  <2>1. PICK i \in DOMAIN Deps(loaded, o) : ChangedSince(stat_cache, Deps(loaded, o)[i], mtime[o])
    BY <1>4 DEF NeedsRebuild
  <2> DEFINE x == Deps(loaded, o)[i]
  <2>2. x \in ToSet(Deps(loaded, o))
    BY <2>1 DEF ToSet
  <2>3. Newer(x, o)
    BY <1>4, <2>1 DEF ChangedSince, CachedTime, CacheInv, Newer
  <2>4. NextLoad.deps[o] = loaded.deps[o]
    BY <1>4, SameGraph
  <2> HIDE DEF x
  <2>5. x \in Compared(NextLoad.deps[o], o) \/ (loaded.bin /\ Opaque[o] # <<>> /\ x = Bang)
    BY <1>1, <2>2, <2>4, DepsElements DEF Compared
  <2>6. CASE x \in Compared(NextLoad.deps[o], o)
    <3>1. \E y \in ToSet(Deps(NextLoad, o)) : Newer(y, o)
      BY <1>1, <2>3, <2>6, Shown
    <3> QED
      BY <3>1, WillFacts DEF DepSet
  <2>7. CASE loaded.bin /\ Opaque[o] # <<>> /\ x = Bang
    <3>1. x \in DepSet(o)
      BY <1>4, <2>7, DepSetFacts
    <3> QED
      BY <2>3, <3>1, WillFacts
  <2> QED
    BY <2>5, <2>6, <2>7
<1> QED
  BY <1>2, <1>3, <1>4

\* How a step comes to be announced and not have succeeded.
LEMMA UnsuccessfulBefore ==
  ASSUME TypeOK, [Next]_vars, NEW o \in Step, o \in ran', ~dry_run', status'[o] # "succeeded"
  PROVE  \/ o \in ran /\ ~dry_run /\ status[o] # "succeeded"
         \/ Begin(o) /\ NeedsRebuild(loaded, stat_cache, o)
<1>1. ASSUME UNCHANGED <<ran, dry_run>>, status'[o] = status[o]
      PROVE  o \in ran /\ ~dry_run /\ status[o] # "succeeded"
  BY <1>1
<1>2. CASE UNCHANGED vars \/ Tick \/ \E f \in File : Edit(f) \/ Delete(f)
  BY <1>1, <1>2 DEF vars, Tick, Edit, Delete, setup, progress
<1>3. CASE Count
  BY <1>1, <1>3 DEF Count, setup
<1>4. CASE Clean
  BY <1>1, <1>4 DEF Clean, progress
<1>5. CASE Return
  BY <1>1, <1>5 DEF Return, EndOfProcess, Order!Conclude
<1>6. ASSUME NEW p \in Step, Crash \/ RemovedWhileAsked(p)
      PROVE  o \in ran /\ ~dry_run /\ status[o] # "succeeded"
  <2>1. PICK lost \in SUBSET Step : Killed(lost)
    BY <1>6, Kills
  <2>2. PICK orphans \in SUBSET Active :
          /\ EndOfProcess(orphans)
          /\ status' = [x \in Step |-> IF x \in Active \ orphans THEN "failed" ELSE status[x]]
    BY <2>1 DEF Killed
  <2>3. UNCHANGED <<ran, dry_run>>
    BY <2>2 DEF EndOfProcess
  <2>4. CASE o \in Active
    BY <2>3, <2>4, ActiveFacts
  <2>5. CASE o \notin Active
    BY <1>1, <2>2, <2>3, <2>5
  <2> QED
    BY <2>4, <2>5
<1>7. ASSUME NEW n \in BOOLEAN, NEW k \in BOOLEAN, StartBuild(n, k) PROVE FALSE
  BY <1>7 DEF StartBuild
<1>8. ASSUME NEW p \in Step, EndIdle(p) \/ EndOfTool(p) \/ FailureOfTool(p)
      PROVE  o \in ran /\ ~dry_run /\ status[o] # "succeeded"
  <2>1. PICK to \in {"succeeded", "failed"} : Order!Finish(p) /\ status'[p] = to
    BY <1>8 DEF EndIdle, EndOfTool, FailureOfTool
  <2>2. status[p] = "running" /\ \A x \in Step : x # p => status'[x] = status[x]
    BY <2>1, FinishFacts
  <2>3. UNCHANGED <<ran, dry_run>>
    BY <1>8 DEF EndIdle, EndOfTool, FailureOfTool, setup, progress
  <2> QED
    BY <2>2, <2>3
<1>9. ASSUME NEW p \in Step, Begin(p)
      PROVE  \/ o \in ran /\ ~dry_run /\ status[o] # "succeeded"
             \/ Begin(o) /\ NeedsRebuild(loaded, stat_cache, o)
  <2>1. status[p] = "pending" /\ \A x \in Step : x # p => status'[x] = status[x]
    BY <1>9, StartFacts DEF Begin
  <2> QED
    BY <1>9, <2>1 DEF Begin, CacheAtBegin, setup
<1> QED
  BY <1>2, <1>3, <1>4, <1>5, <1>6, <1>7, <1>8, <1>9, Touched DEF Next, BuildStep, Disturbance

\* .catalyst.bin is written by an invocation that begins, and by cbe -t clean,
\* which removes all outputs.
LEMMA SnapshotStays ==
  ASSUME [Next]_vars, NEW o \in Step, Exists(o)', o \in ran'
  PROVE  bin' = bin
<1>1. CASE UNCHANGED vars \/ Tick \/ Count \/ Return \/ \E f \in File : Edit(f) \/ Delete(f)
  BY <1>1 DEF vars, Tick, Count, Return, Edit, Delete
<1>2. CASE \E p \in Step : Begin(p) \/ EndIdle(p) \/ EndOfTool(p) \/ FailureOfTool(p)
  BY <1>2 DEF Begin, EndIdle, EndOfTool, FailureOfTool
<1>3. ASSUME NEW p \in Step, Crash \/ RemovedWhileAsked(p) PROVE bin' = bin
  BY <1>3, Kills DEF Killed
<1>4. ASSUME Clean \/ \E n, k \in BOOLEAN : StartBuild(n, k) PROVE FALSE
  BY <1>4, Touched DEF Clean, StartBuild, Exists
<1> QED
  BY <1>1, <1>2, <1>3, <1>4, Touched DEF Next, BuildStep, Disturbance

LEMMA RetryKeeps ==
  ASSUME TypeOK, TypeOK', ClockInv, LoadInv, CacheInv, UnfinishedIsRetried, [Next]_vars
  PROVE  UnfinishedIsRetried'
<1> SUFFICES ASSUME NEW o \in ran', ~dry_run', status'[o] # "succeeded"
             PROVE  WillBeRebuilt(o)' \/ o \in unseen'[o]
  BY DEF UnfinishedIsRetried
<1>1. o \in Step
  BY DEF TypeOK
<1>2. WillBeRebuilt(o) \/ o \in unseen[o]
  <2>1. ASSUME Begin(o), NeedsRebuild(loaded, stat_cache, o) PROVE WillBeRebuilt(o)
    <3>1. phase # "idle" /\ status[o] = "pending"
      BY <1>1, <2>1, StartFacts DEF Begin
    <3> QED
      BY <1>1, <2>1, <3>1, DecisionBacked
  <2> QED
    BY <1>1, <2>1, UnsuccessfulBefore DEF UnfinishedIsRetried
<1>3. CASE ~Exists(o)'
  BY <1>1, <1>3, WillNext
<1>4. CASE Exists(o)' /\ LeftAlone(o)
  <2>1. bin' = bin
    BY <1>1, <1>4, SnapshotStays
  <2> QED
    BY <1>1, <1>2, <1>4, <2>1, RebuiltStays DEF LeftAlone
<1>5. CASE unseen'[o] = {o}
  BY <1>5
<1>6. ASSUME EndOfTool(o) PROVE FALSE
  BY <1>6 DEF EndOfTool
<1> QED
  BY <1>1, <1>3, <1>4, <1>5, <1>6, WhatAStepDoes

-----------------------------------------------------------------------------
(* What an undisturbed invocation has achieved. *)

\* What the pre-count leaves out, with a cache that agrees with the disk and a
\* snapshot newer than the manifest, has nothing pending.
LEMMA UncountedIsFresh ==
  ASSUME TypeOK, ClockInv, LoadInv, DiskInv, phase # "idle", NEW o \in Step,
         status[o] = "pending", ~NeedsRebuild(loaded, stat_cache, o),
         \A f \in DOMAIN stat_cache : stat_cache[f] = mtime[f],
         loaded.bin => bin.time > mtime[Manifest]
  PROVE  Pending(o) = {}
<1>1. loaded \in Graph /\ NextLoad \in Graph
  BY LoadFacts DEF TypeOK, Graph
<1>2. \A f : ChangedSince(stat_cache, f, mtime[o]) <=> Newer(f, o)
  BY DEF ChangedSince, CachedTime, Newer
<1>3. Exists(o) /\ \A f \in ToSet(Deps(loaded, o)) : ~Newer(f, o)
  BY <1>2 DEF NeedsRebuild, ToSet
<1>4. NextLoad.deps[o] = loaded.deps[o]
  <2>1. loaded.bin => NextLoad.bin
    BY LoadFacts DEF LoadInv, BinIsCurrent
  <2> QED
    BY <2>1, SameGraph
<1>5. \A f \in Compared(NextLoad.deps[o], o) : ~Newer(f, o)
  BY <1>1, <1>3, <1>4, Shown
<1>6. DepSet(o) \subseteq Compared(NextLoad.deps[o], o) \cup {Bang}
  BY DepSetFacts DEF Compared
<1>7. \A f \in unseen[o] : Newer(f, o) /\ f # Bang
  BY <1>3 DEF DiskInv, DiskOk, ClockInv
<1>8. CASE o \in unseen[o] \/ NextLoad.deps[o] # depfile[o]
  BY <1>5, <1>6, <1>7, <1>8, PendingIs
<1>9. CASE o \notin unseen[o] /\ NextLoad.deps[o] = depfile[o]
  <2>1. unseen[o] = {}
    BY <1>3, <1>5, <1>7, <1>9 DEF DiskInv, DiskOk
  <2> QED
    BY <1>9, <2>1, PendingIs
<1> QED
  BY <1>8, <1>9

\* Nothing else is pending than before, but for what has been written.
LEMMA PendingGrows ==
  ASSUME TypeOK, TypeOK', NEW o \in Step, NEW files,
         bin' = bin, mtime'[Manifest] = mtime[Manifest], depfile'[o] = depfile[o],
         o \in unseen'[o] <=> o \in unseen[o], unseen'[o] \subseteq unseen[o] \cup files
  PROVE  Pending(o)' \subseteq Pending(o) \cup files
<1>1. NextLoad'.deps[o] = NextLoad.deps[o] /\ DepSet(o)' = DepSet(o)
  BY SameDeps
<1>2. Pending(o)' = IF o \in unseen'[o] \/ NextLoad'.deps[o] # depfile'[o]
                      THEN unseen'[o] \cap DepSet(o)' ELSE unseen'[o]
  BY DEF Pending, DepSet
<1> QED
  BY <1>1, <1>2, PendingIs

LEMMA CountKeepsQuiet ==
  ASSUME PInv, TypeOK', ClockInv, LoadInv, DiskInv, QuietInv, Count PROVE QuietInv'
<1>0. TypeOK /\ CountInv
  BY DEF PInv
<1> SUFFICES ASSUME ~disturbed', ~dry_run'
             PROVE  /\ loaded'.bin => bin'.time > mtime'[Manifest]
                    /\ \A f \in DOMAIN stat_cache' : stat_cache'[f] = mtime'[f]
                    /\ \A o \in ran' : status'[o] = "succeeded" => unseen'[o] \subseteq ran'
                    /\ \A o \in Step :
                         IsScanned(o)' /\ o \notin counted' => Pending(o)' \subseteq ran'
  BY DEF QuietInv
<1>1. /\ phase = "counting" /\ scanned \in Nat /\ Len(ScanOrder) \in Nat
      /\ scanned < Len(ScanOrder) /\ \A o \in Step : status[o] = "pending"
  BY <1>0, NumberFacts DEF Count, CountInv
<1>2. PICK st \in Step : st = ScanOrder[scanned + 1]
  BY <1>1, FreshnessAssumption
<1>3. /\ counted' = IF NeedsRebuild(loaded, stat_cache, st) THEN counted \cup {st} ELSE counted
      /\ stat_cache' = CacheAfter(loaded, stat_cache, st)
      /\ scanned' = scanned + 1
      /\ UNCHANGED <<bin, mtime, depfile, unseen, loaded, ran, status, dry_run, disturbed>>
  BY <1>2 DEF Count, disk, setup, history
<1>4. /\ loaded.bin => bin.time > mtime[Manifest]
      /\ \A f \in DOMAIN stat_cache : stat_cache[f] = mtime[f]
      /\ \A o \in ran : status[o] = "succeeded" => unseen[o] \subseteq ran
      /\ \A o \in Step : IsScanned(o) /\ o \notin counted => Pending(o) \subseteq ran
  BY <1>1, <1>3 DEF QuietInv
<1>5. \A f \in DOMAIN stat_cache' : stat_cache'[f] = mtime'[f]
  <2>1. \A f \in DOMAIN stat_cache' : stat_cache'[f] = CachedTime(stat_cache, f)
    BY <1>3 DEF CacheAfter
  <2> QED
    BY <1>3, <1>4, <2>1 DEF CachedTime
<1>6. \A o : IsScanned(o)' <=> IsScanned(o) \/ o = st
  BY <1>1, <1>2, <1>3 DEF IsScanned
<1>7. ASSUME NEW o \in Step PROVE Pending(o)' \subseteq Pending(o) \cup {}
  BY <1>0, <1>3, PendingGrows
<1>8. st \notin counted' => Pending(st) = {}
  BY <1>0, <1>1, <1>3, <1>4, UncountedIsFresh
<1>9. ASSUME NEW o \in Step, IsScanned(o)', o \notin counted' PROVE Pending(o)' \subseteq ran'
  BY <1>3, <1>4, <1>6, <1>7, <1>8, <1>9
<1> QED
  BY <1>3, <1>4, <1>5, <1>9

LEMMA QuietBegins ==
  ASSUME NEW n \in BOOLEAN, NEW k \in BOOLEAN, StartBuild(n, k) PROVE QuietInv'
<1>1. DOMAIN stat_cache' = {} /\ scanned' = 0 /\ ran' = {}
  BY DEF StartBuild, NoCache
<1>2. \A o : ~IsScanned(o)'
  BY <1>1 DEF IsScanned
<1>3. loaded'.bin => bin'.time > mtime'[Manifest]
  BY DEF StartBuild, Parse, NextLoad, BinIsCurrent, disk
<1> QED
  BY <1>1, <1>2, <1>3 DEF QuietInv

LEMMA EndOfToolKeepsQuiet ==
  ASSUME PInv, TypeOK', QuietInv, NEW p \in Step, EndOfTool(p), phase # "idle", ~disturbed
  PROVE  QuietInv'
<1>0. TypeOK /\ CountInv
  BY DEF PInv
<1>1. p \in ran /\ status[p] = "running" /\ phase = "building"
  BY <1>0, ActiveFacts DEF EndOfTool, CountInv, TypeOK
<1>2. /\ UNCHANGED <<bin, loaded, dry_run, disturbed, phase, scanned, counted, ran>>
      /\ unseen'[p] \subseteq {p}
      /\ \A o \in Step : o # p =>
           depfile'[o] = depfile[o] /\ unseen'[o] = unseen[o] \cup ({p} \cap Reads(o))
  <2>1. /\ UNCHANGED <<bin, loaded, dry_run, disturbed, phase, scanned, counted, ran>>
        /\ unseen' = [UnseenAfter({p}) EXCEPT ![p] = overtaken \cap {p}]
    BY DEF EndOfTool, setup, progress
  <2>2. {p} \in SUBSET File
    BY Touched
  <2>3. /\ UnseenAfter({p}) \in [Step -> SUBSET File]
        /\ \A o \in Step : UnseenAfter({p})[o] = unseen[o] \cup ({p} \cap Reads(o))
    BY <1>0, <2>2, UnseenAfterFacts
  <2>4. \A o \in Step : o # p => depfile'[o] = depfile[o]
    BY <1>0 DEF EndOfTool, TypeOK, Depfiles
  <2> QED
    BY <2>1, <2>3, <2>4
<1>3. mtime'[Manifest] = mtime[Manifest]
  BY <1>0, FreshnessAssumption DEF EndOfTool, TypeOK, File
<1>4. \A o \in Step : o # p => status'[o] = status[o]
  <2>1. Order!Finish(p) /\ status'[p] = "succeeded"
    BY DEF EndOfTool
  <2> QED
    BY <1>0, <2>1, FinishFacts
<1>5. \A o : IsScanned(o)' <=> IsScanned(o)
  BY <1>2 DEF IsScanned
<1>6. Pending(p)' \subseteq {p}
  BY <1>2 DEF Pending
<1>7. ASSUME NEW o \in Step, o # p PROVE Pending(o)' \subseteq Pending(o) \cup {p}
  <2>1. /\ depfile'[o] = depfile[o] /\ unseen'[o] \subseteq unseen[o] \cup {p}
        /\ o \in unseen'[o] <=> o \in unseen[o]
    BY <1>2, <1>7
  <2> QED
    BY <1>0, <1>2, <1>3, <2>1, PendingGrows
<1> SUFFICES ASSUME ~dry_run
             PROVE  /\ loaded'.bin => bin'.time > mtime'[Manifest]
                    /\ \A o \in ran' : status'[o] = "succeeded" => unseen'[o] \subseteq ran'
                    /\ \A o \in Step :
                         IsScanned(o)' /\ o \notin counted' => Pending(o)' \subseteq ran'
  BY <1>1, <1>2 DEF QuietInv
<1>8. /\ loaded.bin => bin.time > mtime[Manifest]
      /\ \A o \in ran : status[o] = "succeeded" => unseen[o] \subseteq ran
      /\ \A o \in Step : IsScanned(o) /\ o \notin counted => Pending(o) \subseteq ran
  BY DEF QuietInv
<1>9. ASSUME NEW o \in ran', status'[o] = "succeeded" PROVE unseen'[o] \subseteq ran'
  <2>1. o \in Step /\ o \in ran
    BY <1>0, <1>2, <1>9 DEF TypeOK
  <2>2. CASE o = p
    BY <1>1, <1>2, <2>2
  <2>3. CASE o # p
    BY <1>1, <1>2, <1>4, <1>8, <1>9, <2>1, <2>3
  <2> QED
    BY <2>2, <2>3
<1>10. ASSUME NEW o \in Step, IsScanned(o)', o \notin counted' PROVE Pending(o)' \subseteq ran'
  <2>1. CASE o = p
    BY <1>1, <1>2, <1>6, <2>1
  <2>2. CASE o # p
    BY <1>1, <1>2, <1>5, <1>7, <1>8, <1>10, <2>2
  <2> QED
    BY <2>1, <2>2
<1> QED
  BY <1>2, <1>3, <1>8, <1>9, <1>10

LEMMA QuietKeeps ==
  ASSUME PInv, TypeOK', ClockInv, LoadInv, DiskInv, QuietInv, [Next]_vars PROVE QuietInv'
<1>0. TypeOK /\ CountInv
  BY DEF PInv
<1>1. ASSUME disturbed' \/ phase' = "idle" PROVE QuietInv'
  BY <1>1 DEF QuietInv
<1>2. CASE Count
  BY <1>2, CountKeepsQuiet
<1>3. ASSUME NEW n \in BOOLEAN, NEW k \in BOOLEAN, StartBuild(n, k) PROVE QuietInv'
  BY <1>3, QuietBegins
<1>4. ASSUME UNCHANGED <<bin, mtime, depfile, unseen, loaded, dry_run, disturbed, phase,
                         scanned, counted>>,
             phase = "counting" => UNCHANGED stat_cache, ran \subseteq ran',
             \A o \in ran' : status'[o] = "succeeded" /\ ~dry_run /\ phase # "idle"
                              => o \in ran /\ status[o] = "succeeded"
      PROVE  QuietInv'
  <2>1. ASSUME NEW o \in Step PROVE Pending(o)' \subseteq Pending(o) \cup {}
    BY <1>0, <1>4, PendingGrows
  <2>2. \A o : IsScanned(o)' <=> IsScanned(o)
    BY <1>4 DEF IsScanned
  <2> QED
    BY <1>4, <2>1, <2>2 DEF QuietInv
<1>5. CASE UNCHANGED vars \/ Tick
  BY <1>4, <1>5 DEF vars, disk, setup, progress, history, Tick
<1>6. ASSUME NEW p \in Step, Begin(p) PROVE QuietInv'
  <2>1. /\ ran \subseteq ran' /\ ran' \subseteq ran \cup {p} /\ phase = "building"
        /\ status'[p] = "running" /\ \A x \in Step : x # p => status'[x] = status[x]
    BY <1>0, <1>6, StartFacts DEF Begin
  <2>2. ran \subseteq Step
    BY <1>0 DEF TypeOK
  <2> QED
    BY <1>4, <1>6, <2>1, <2>2 DEF Begin, disk, setup, history
<1>7. ASSUME NEW p \in Step, EndIdle(p) PROVE QuietInv'
  <2>1. /\ status[p] = "running" /\ \A x \in Step : x # p => status'[x] = status[x]
    BY <1>0, <1>7, FinishFacts DEF EndIdle
  <2>2. p \notin Active /\ ran' = ran /\ ran \subseteq Step
    BY <1>0, <1>7 DEF EndIdle, progress, TypeOK
  <2>3. p \notin ran \/ dry_run
    BY <2>1, <2>2 DEF Active
  <2> QED
    BY <1>4, <1>7, <2>1, <2>2, <2>3 DEF EndIdle, disk, setup, progress, history
<1>8. ASSUME NEW p \in Step, EndOfTool(p) PROVE QuietInv'
  <2>1. CASE phase # "idle" /\ ~disturbed
    BY <1>8, <2>1, EndOfToolKeepsQuiet
  <2>2. CASE phase = "idle" \/ disturbed
    BY <1>1, <1>8, <2>2 DEF EndOfTool
  <2> QED
    BY <2>1, <2>2
<1>9. CASE Return
  BY <1>1, <1>9 DEF Return, EndOfProcess
<1>10. CASE Clean \/ \E f \in File : Edit(f) \/ Delete(f)
  BY <1>1, <1>10 DEF Clean, Edit, Delete
<1>11. ASSUME NEW o \in Step, FailureOfTool(o) \/ Crash \/ RemovedWhileAsked(o) PROVE QuietInv'
  BY <1>1, <1>11, Kills DEF FailureOfTool, Killed
<1>12. \E o \in Step : TRUE
  BY FreshnessAssumption
<1> QED
  BY <1>2, <1>3, <1>5, <1>6, <1>7, <1>8, <1>9, <1>10, <1>11, <1>12, Touched
    DEF Next, BuildStep, Disturbance

LEMMA AbsorbedKeeps ==
  ASSUME PInv, TypeOK', LateInv, QuietInv, EditsAbsorbed, [Next]_vars
  PROVE  EditsAbsorbed'
<1>0. TypeOK /\ CountInv
  BY DEF PInv
<1>1. ASSUME disturbed' \/ phase' # "idle" PROVE EditsAbsorbed'
  BY <1>1 DEF EditsAbsorbed, Finished
<1>2. ASSUME UNCHANGED <<bin, mtime, depfile, unseen>>, NEW o \in Step
      PROVE  Pending(o)' \subseteq Pending(o) \cup {}
  BY <1>0, <1>2, PendingGrows
<1>3. CASE UNCHANGED vars \/ Tick
  <2>1. UNCHANGED <<bin, mtime, depfile, unseen, phase, verdict, dry_run, disturbed, ran>>
    BY <1>3 DEF vars, disk, setup, progress, history, Tick
  <2> QED
    BY <1>2, <2>1 DEF EditsAbsorbed, Finished
<1>4. CASE Return
  <2>1. phase = "building" /\ UNCHANGED <<bin, mtime, depfile, unseen, dry_run, ran, disturbed>>
    BY <1>4 DEF Return, EndOfProcess, disk
  <2>2. verdict' = "ok" => \A o \in Step : status[o] = "succeeded"
    BY <1>4 DEF Return, Order!Conclude, Order!VerdictOf
  <2> SUFFICES ASSUME verdict' = "ok", ~dry_run, ~disturbed, NEW o \in Step
               PROVE  Pending(o) \subseteq ran
    BY <1>2, <2>1 DEF EditsAbsorbed, Finished
  <2>3. IsScanned(o) /\ status[o] = "succeeded"
    BY <1>0, <2>1, <2>2, EveryStepScanned
  <2>4. CASE o \in counted
    <3>1. o \in ran
      BY <1>0, <2>1, <2>3, <2>4 DEF CountInv
    <3>2. unseen[o] \subseteq ran
      BY <2>1, <2>3, <3>1 DEF QuietInv
    <3> QED
      BY <3>2, PendingIs
  <2>5. CASE o \notin counted
    BY <2>1, <2>3, <2>5 DEF QuietInv
  <2> QED
    BY <2>4, <2>5
<1>5. ASSUME NEW n \in BOOLEAN, NEW k \in BOOLEAN, StartBuild(n, k) PROVE EditsAbsorbed'
  BY <1>1, <1>5 DEF StartBuild
<1>6. CASE Count
  BY <1>1, <1>6 DEF Count
<1>7. ASSUME NEW o \in Step, Begin(o) \/ EndIdle(o) PROVE EditsAbsorbed'
  BY <1>1, <1>7 DEF Begin, EndIdle
<1>8. ASSUME NEW o \in Step, EndOfTool(o) PROVE EditsAbsorbed'
  <2>1. CASE phase = "idle"
    BY <1>1, <1>8, <2>1 DEF EndOfTool, LateInv
  <2>2. CASE phase # "idle"
    BY <1>1, <1>8, <2>2 DEF EndOfTool
  <2> QED
    BY <2>1, <2>2
<1>9. CASE Clean \/ \E f \in File : Edit(f) \/ Delete(f)
  BY <1>1, <1>9 DEF Clean, Edit, Delete
<1>10. ASSUME NEW o \in Step, FailureOfTool(o) \/ Crash \/ RemovedWhileAsked(o)
       PROVE  EditsAbsorbed'
  BY <1>1, <1>10, Kills DEF FailureOfTool, Killed
<1>11. \E o \in Step : TRUE
  BY FreshnessAssumption
<1> QED
  BY <1>3, <1>4, <1>5, <1>6, <1>7, <1>8, <1>9, <1>10, <1>11, Touched
    DEF Next, BuildStep, Disturbance

-----------------------------------------------------------------------------
(* The theorems about what the next invocation runs. *)

BuildInv ==
  /\ StaleInv /\ OrderInv /\ LateInv /\ LoadInv /\ CacheInv /\ QuietInv
  /\ UnfinishedIsRetried /\ EditsAbsorbed

LEMMA AlwaysBuilding == Spec => []BuildInv
<1>1. Init => BuildInv
  <2> SUFFICES ASSUME Init PROVE BuildInv
    OBVIOUS
  <2>1. StaleInv
    BY InitDisk, InitTypes, InitCounts DEF StaleInv, PInv
  <2>2. phase = "idle" /\ verdict = "none" /\ ran = {} /\ overtaken = {}
    BY DEF Init
  <2>3. Active = {}
    BY <2>2 DEF Active
  <2> QED
    BY <2>1, <2>2, <2>3 DEF BuildInv, OrderInv, LateInv, LoadInv, CacheInv, QuietInv,
                            UnfinishedIsRetried, EditsAbsorbed, Finished
<1>2. BuildInv /\ [Next]_vars => BuildInv'
  <2> SUFFICES ASSUME BuildInv, [Next]_vars PROVE BuildInv'
    OBVIOUS
  <2>1. /\ PInv /\ TypeOK /\ CountInv /\ ClockInv /\ DiskInv /\ OrderInv /\ LateInv
        /\ LoadInv /\ CacheInv /\ QuietInv /\ UnfinishedIsRetried /\ EditsAbsorbed
    BY DEF BuildInv, StaleInv, PInv
  <2>2. TypeOK' /\ CountInv'
    BY <2>1, TypesKeep, CountsKeep
  <2>3. ClockInv' /\ DiskInv' /\ OrderInv' /\ LateInv'
    BY <2>1, <2>2, ClockKeeps, DiskKeeps, OrderKeeps, LateKeeps
  <2>4. LoadInv' /\ CacheInv' /\ QuietInv'
    BY <2>1, <2>2, LoadKeeps, CacheKeeps, QuietKeeps
  <2>5. UnfinishedIsRetried' /\ EditsAbsorbed'
    BY <2>1, <2>2, RetryKeeps, AbsorbedKeeps
  <2> QED
    BY <2>2, <2>3, <2>4, <2>5 DEF BuildInv, StaleInv, PInv
<1> QED
  BY <1>1, <1>2, PTL DEF Spec

\* A step whose tool failed, was killed or is still running is run again by
\* the next invocation, or its tool has left part of a new output.
THEOREM UnfinishedStepsAreRetried == Spec => []UnfinishedIsRetried
<1>1. BuildInv => UnfinishedIsRetried
  BY DEF BuildInv
<1> QED
  BY <1>1, AlwaysBuilding, PTL

\* A successful build that nobody disturbed brings every edit to the direct
\* readers of the file, although it decides on times cached by the pre-count,
\* and on a graph that .catalyst.bin may have kept from an earlier build.
THEOREM EditsReachTheirReaders == Spec => []EditsAbsorbed
<1>1. BuildInv => EditsAbsorbed
  BY DEF BuildInv
<1> QED
  BY <1>1, AlwaysBuilding, PTL

=============================================================================
