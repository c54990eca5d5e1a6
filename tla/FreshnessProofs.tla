-------------------------- MODULE FreshnessProofs ---------------------------
(***************************************************************************)
(* What holds of incremental builds for every graph of steps, every use of *)
(* the clock, every interference, and with the feature binary on or off:   *)
(* the types, the progress counters, and a build that runs every step.     *)
(*                                                                         *)
(* CountInv says that what the cache of the pre-count tells of a step will *)
(* still be told when the step is processed; OrderInv, that what a step    *)
(* has an edge from is made before it; LateInv, whose tools can be         *)
(* overtaken; DoneInv, that nothing is written after the outputs made from *)
(* it.  StalenessProofs is about what the disk tells.                      *)
(***************************************************************************)
EXTENDS Freshness, FiniteSetTheorems, SequenceTheorems, WellFoundedInduction, TLAPS

\* The step has been looked at by the pre-count.
IsScanned(o) == \E i \in 1 .. scanned : ScanOrder[i] = o

\* The pre-count has decided on the step, and its cache holds the reasons.
Settled(o) ==
  /\ o \in counted <=> NeedsRebuild(loaded, stat_cache, o)
  /\ Looked(loaded, stat_cache, o) \subseteq DOMAIN stat_cache

CountInv ==
  /\ phase = "counting" => scanned < Len(ScanOrder) /\ \A o \in Step : status[o] = "pending"
  /\ phase # "idle" =>
       /\ verdict = "none"
       /\ \A o \in counted : IsScanned(o)
       /\ \A o \in Step : IsScanned(o) /\ status[o] = "pending" => Settled(o) \/ ~Exists(o)
       /\ \A o \in Step : status[o] = "pending" => o \notin ran
       /\ \A o \in Step : status[o] # "pending" /\ o \in counted => o \in ran

PInv == TypeOK /\ CountInv

OrderInv ==
  phase # "idle" =>
    /\ out_edges = StepEdges(loaded)
    /\ \A o \in Step : status[o] # "pending" =>
         \A p \in Step : o \in ToSet(out_edges[p]) => status[p] = "succeeded"

LateInv ==
  /\ phase = "idle" => overtaken \subseteq Active /\ (Active # {} => disturbed)
  /\ phase # "idle" /\ ~disturbed => overtaken \subseteq Compile

\* An output of this invocation that waited for what it was made from.
MadeInOrder(o) ==
  Ordered(o) => unseen[o] = {} /\ (o \in Compile => includes[o] = depfile[o])

DoneInv ==
  ~disturbed /\ ~dry_run /\ phase # "idle" =>
    \A o \in ran : status[o] = "succeeded" => Exists(o) /\ MadeInOrder(o)

-----------------------------------------------------------------------------
(* Sequences and numbers. *)

\* Any nonempty set of natural numbers has a least element.
LEMMA LeastElement ==
  ASSUME NEW T, T \subseteq Nat, T # {}
  PROVE  \E x \in T : \A y \in T : x <= y
<1>1. PICK R : /\ IsWellFoundedOn(R, Nat)
               /\ \A x, y \in Nat : x < y => <<x, y>> \in R
  <2>1. IsWellFoundedOn(OpToRel(<, Nat), Nat)
    BY NatLessThanWellFounded
  <2>2. \A x, y \in Nat : x < y => <<x, y>> \in OpToRel(<, Nat)
    BY DEF OpToRel
  <2> QED
    BY <2>1, <2>2, Zenon
<1>2. PICK x \in T : \A y \in T : ~ (<<y, x>> \in R)
  <2>1. T \subseteq Nat /\ T # {} /\ IsWellFoundedOn(R, Nat)
    BY <1>1
  <2> QED
    BY <2>1, WFMin, Zenon
<1>3. \A y \in T : ~ (y < x)
  BY <1>1, <1>2
<1> QED
  BY <1>3

LEMMA SequencesOverMore ==
  ASSUME NEW S, NEW T, S \subseteq T, NEW list \in Seq(S)
  PROVE  list \in Seq(T)
<1>1. Len(list) \in Nat /\ list \in [1 .. Len(list) -> S]
  OBVIOUS
<1>2. list \in [1 .. Len(list) -> T]
  BY <1>1
<1> QED
  BY <1>1, <1>2

LEMMA ConcatElements ==
  ASSUME NEW S, NEW a \in Seq(S), NEW b \in Seq(S)
  PROVE  a \o b \in Seq(S) /\ ToSet(a \o b) = ToSet(a) \cup ToSet(b)
<1>1. a \o b \in Seq(S) /\ Range(a \o b) = Range(a) \cup Range(b)
  BY RangeConcatenation, ConcatProperties
<1> QED
  BY <1>1 DEF Range, ToSet

LEMMA SingleElement ==
  ASSUME NEW S, NEW x \in S PROVE <<x>> \in Seq(S) /\ ToSet(<<x>>) = {x}
BY DEF ToSet

LEMMA ListingFacts ==
  ASSUME NEW S, IsFiniteSet(S)
  PROVE  SetToSeq(S) \in Seq(S) /\ ToSet(SetToSeq(S)) = S
<1> DEFINE n == Cardinality(S)
           list == SetToSeq(S)
<1>1. n \in Nat
  BY FS_CardinalityType
<1>2. IsFiniteSet(1 .. n) /\ Cardinality(1 .. n) = n
  BY <1>1, FS_Interval
<1>3. PICK f : f \in Bijection(1 .. n, S)
  BY <1>2, FS_SameCardinalityBij DEF ExistsBijection
<1>4. f \in [1 .. n -> S] /\ IsInjective(f)
  BY <1>3 DEF Bijection, Injection
<1>5. list \in [1 .. n -> S] /\ IsInjective(list)
  BY <1>4 DEF SetToSeq
<1>6. list \in Surjection(1 .. n, S)
  BY <1>2, <1>5, FS_Injection DEF Injection
<1>7. \A s \in S : \E i \in 1 .. n : list[i] = s
  BY <1>6 DEF Surjection
<1> HIDE DEF list
<1>8. list \in Seq(S)
  BY <1>1, <1>5
<1>9. ToSet(list) = S
  BY <1>5, <1>7 DEF ToSet
<1> QED
  BY <1>8, <1>9 DEF list

LEMMA StepsFinite == IsFiniteSet(Step)
<1> DEFINE at == 1 .. Len(ScanOrder)
<1>1. ScanOrder \in [at -> Step] /\ Len(ScanOrder) \in Nat
  BY FreshnessAssumption
<1>2. \A o \in Step : \E i \in at : ScanOrder[i] = o
  BY FreshnessAssumption DEF ToSet
<1>3. ScanOrder \in Surjection(at, Step)
  BY <1>1, <1>2 DEF Surjection
<1>4. IsFiniteSet(at)
  BY <1>1, FS_Interval
<1> QED
  BY <1>3, <1>4, FS_Surjection

\* There is an edge from each step to the steps that list its output.
LEMMA EdgeFacts ==
  ASSUME NEW g
  PROVE  /\ StepEdges(g) \in [Step -> Seq(Step)]
         /\ \A u, v \in Step :
              u \in ToSet(Inputs[v]) \cup ToSet(g.deps[v]) \cup ToSet(Opaque[v])
                => v \in ToSet(StepEdges(g)[u])
<1> DEFINE readers(u) ==
      {v \in Step : u \in ToSet(Inputs[v]) \cup ToSet(g.deps[v]) \cup ToSet(Opaque[v])}
<1>1. \A u \in Step : IsFiniteSet(readers(u))
  BY StepsFinite, FS_Subset
<1>2. \A u \in Step :
        StepEdges(g)[u] \in Seq(readers(u)) /\ ToSet(StepEdges(g)[u]) = readers(u)
  <2> SUFFICES ASSUME NEW u \in Step
               PROVE  StepEdges(g)[u] \in Seq(readers(u)) /\ ToSet(StepEdges(g)[u]) = readers(u)
    OBVIOUS
  <2>1. StepEdges(g)[u] = SetToSeq(readers(u))
    BY DEF StepEdges
  <2>2. IsFiniteSet(readers(u))
    BY <1>1
  <2> HIDE DEF readers
  <2> QED
    BY <2>1, <2>2, ListingFacts
<1>3. \A u \in Step : StepEdges(g)[u] \in Seq(Step)
  <2> SUFFICES ASSUME NEW u \in Step PROVE StepEdges(g)[u] \in Seq(Step)
    OBVIOUS
  <2>1. readers(u) \subseteq Step /\ StepEdges(g)[u] \in Seq(readers(u))
    BY <1>2
  <2> QED
    BY <2>1, SequencesOverMore
<1>4. DOMAIN StepEdges(g) = Step /\ StepEdges(g) = [u \in Step |-> StepEdges(g)[u]]
  BY DEF StepEdges
<1>5. StepEdges(g) \in [Step -> Seq(Step)]
  BY <1>3, <1>4
<1>6. \A u, v \in Step :
        u \in ToSet(Inputs[v]) \cup ToSet(g.deps[v]) \cup ToSet(Opaque[v]) => v \in readers(u)
  OBVIOUS
<1> QED
  BY <1>2, <1>5, <1>6

-----------------------------------------------------------------------------
(* Graphs and what they compare. *)

Graph == [bin : BOOLEAN, deps : Depfiles]

LEMMA IncludeFacts ==
  \A list \in IncludeLists \cup {<<>>} :
    list \in Seq(File) /\ ToSet(list) \subseteq Source \cup Step
<1>1. IncludeLists \subseteq Seq(Source \cup Step) /\ <<>> \in Seq(Source \cup Step)
  BY FreshnessAssumption
<1>2. Source \cup Step \subseteq File
  BY DEF File
<1> SUFFICES ASSUME NEW list \in IncludeLists \cup {<<>>}
             PROVE  list \in Seq(File) /\ ToSet(list) \subseteq Source \cup Step
  OBVIOUS
<1>3. list \in Seq(Source \cup Step)
  BY <1>1
<1> QED
  BY <1>2, <1>3, SequencesOverMore DEF ToSet

LEMMA InputFacts ==
  ASSUME NEW o \in Step
  PROVE  /\ Inputs[o] \in Seq(File) /\ Opaque[o] \in Seq(File)
         /\ ToSet(Inputs[o]) \subseteq Source \cup Step
         /\ ToSet(Opaque[o]) \subseteq Source \cup Step
<1>1. Inputs[o] \in Seq(Source \cup Step) /\ Opaque[o] \in Seq(Source \cup Step)
  BY FreshnessAssumption
<1>2. Source \cup Step \subseteq File
  BY DEF File
<1>3. Inputs[o] \in Seq(File) /\ Opaque[o] \in Seq(File)
  BY <1>1, <1>2, SequencesOverMore
<1> QED
  BY <1>1, <1>3 DEF ToSet

LEMMA DepsType ==
  ASSUME NEW g \in Graph, NEW o \in Step
  PROVE  Deps(g, o) \in Seq(File)
<1>1. g.deps[o] \in Seq(File)
  BY IncludeFacts DEF Graph, Depfiles
<1>2. Manifest \in File /\ Bang \in File
  BY DEF File
<1>3. <<Manifest>> \in Seq(File) /\ <<Bang>> \in Seq(File) /\ <<>> \in Seq(File)
  BY <1>2
<1>4. OpaqueInputs(g, o) \in Seq(File)
  BY <1>3, InputFacts DEF OpaqueInputs
<1>5. ParsedInputs(g, o) \in Seq(File)
  BY <1>3, InputFacts, ConcatElements DEF ParsedInputs
<1>6. <<Manifest>> \o g.deps[o] \in Seq(File)
  BY <1>1, <1>3, ConcatElements
<1>7. <<Manifest>> \o g.deps[o] \o OpaqueInputs(g, o) \in Seq(File)
  BY <1>4, <1>6, ConcatElements
<1> QED
  BY <1>5, <1>7, ConcatElements DEF Deps

\* What needs_rebuild compares with an output.  From .catalyst.bin it compares
\* no opaque input, but the name of one, which is no file.
LEMMA DepsElements ==
  ASSUME NEW g \in Graph, NEW o \in Step
  PROVE  ToSet(Deps(g, o)) =
           {Manifest} \cup ToSet(g.deps[o]) \cup ToSet(Inputs[o])
             \cup (IF g.bin THEN (IF Opaque[o] = <<>> THEN {} ELSE {Bang})
                   ELSE ToSet(Opaque[o]))
<1>1. g.deps[o] \in Seq(File)
  BY IncludeFacts DEF Graph, Depfiles
<1>2. Manifest \in File /\ Bang \in File /\ <<>> \in Seq(File) /\ ToSet(<<>>) = {}
  BY DEF File, ToSet
<1> DEFINE head == <<Manifest>>
           name == <<Bang>>
           opaque == OpaqueInputs(g, o)
           parsed == ParsedInputs(g, o)
<1>3. head \in Seq(File) /\ ToSet(head) = {Manifest} /\ name \in Seq(File) /\ ToSet(name) = {Bang}
  BY <1>2, SingleElement
<1>4. opaque \in Seq(File) /\ ToSet(opaque) = (IF g.bin THEN {} ELSE ToSet(Opaque[o]))
  BY <1>2, InputFacts DEF OpaqueInputs
<1>5. /\ parsed \in Seq(File)
      /\ ToSet(parsed) = ToSet(Inputs[o]) \cup (IF g.bin /\ Opaque[o] # <<>> THEN {Bang} ELSE {})
  <2> DEFINE tail == IF g.bin /\ Opaque[o] # <<>> THEN name ELSE <<>>
  <2>1. tail \in Seq(File) /\ ToSet(tail) = IF g.bin /\ Opaque[o] # <<>> THEN {Bang} ELSE {}
    BY <1>2, <1>3
  <2>2. parsed = Inputs[o] \o tail /\ Inputs[o] \in Seq(File)
    BY InputFacts DEF ParsedInputs
  <2> HIDE DEF tail, parsed
  <2> QED
    BY <2>1, <2>2, ConcatElements
<1> DEFINE first == head \o g.deps[o]
<1>6. first \in Seq(File) /\ ToSet(first) = {Manifest} \cup ToSet(g.deps[o])
  <2> HIDE DEF head
  <2> QED
    BY <1>1, <1>3, ConcatElements
<1> DEFINE more == first \o opaque
<1>7. more \in Seq(File) /\ ToSet(more) = ToSet(first) \cup ToSet(opaque)
  <2> HIDE DEF first, opaque
  <2> QED
    BY <1>4, <1>6, ConcatElements
<1>8. ToSet(more \o parsed) = ToSet(more) \cup ToSet(parsed)
  <2> HIDE DEF more, parsed
  <2> QED
    BY <1>5, <1>7, ConcatElements
<1>9. Deps(g, o) = more \o parsed
  BY DEF Deps
<1> HIDE DEF more, parsed, first, opaque
<1> QED
  BY <1>4, <1>5, <1>6, <1>7, <1>8, <1>9

\* What needs_rebuild looks at are files.
LEMMA LookedFacts ==
  ASSUME NEW g \in Graph, NEW o \in Step, NEW cache
  PROVE  Looked(g, cache, o) \subseteq ToSet(Deps(g, o)) /\ Looked(g, cache, o) \subseteq File
<1>1. Deps(g, o) \in Seq(File)
  BY DepsType
<1>2. ToSet(Deps(g, o)) \subseteq File
  BY <1>1 DEF ToSet
<1>3. Looked(g, cache, o) \subseteq ToSet(Deps(g, o))
  BY DEF Looked, ToSet
<1> QED
  BY <1>2, <1>3

-----------------------------------------------------------------------------
(* The cache, and what is decided with it. *)

\* Asking needs_rebuild adds times to the cache and changes none.
LEMMA CacheAfterFacts ==
  ASSUME NEW g, NEW cache, NEW o
  PROVE  /\ DOMAIN CacheAfter(g, cache, o) = DOMAIN cache \cup Looked(g, cache, o)
         /\ \A f \in DOMAIN cache : CacheAfter(g, cache, o)[f] = cache[f]
         /\ \A f \in DOMAIN CacheAfter(g, cache, o) :
              CacheAfter(g, cache, o)[f] = CachedTime(cache, f)
BY DEF CacheAfter, CachedTime

\* The first file that needs_rebuild finds changed has been looked at.
LEMMA FirstChanged ==
  ASSUME NEW g \in Graph, NEW o \in Step, NEW cache, Exists(o),
         NEW i \in DOMAIN Deps(g, o), ChangedSince(cache, Deps(g, o)[i], mtime[o])
  PROVE  \E k \in DOMAIN Deps(g, o) :
           /\ k <= i /\ ChangedSince(cache, Deps(g, o)[k], mtime[o])
           /\ Deps(g, o)[k] \in Looked(g, cache, o)
<1> DEFINE list == Deps(g, o)
           changed == {k \in DOMAIN list : ChangedSince(cache, list[k], mtime[o])}
<1>1. list \in Seq(File)
  BY DepsType
<1>2. DOMAIN list = 1 .. Len(list) /\ Len(list) \in Nat
  BY <1>1
<1> HIDE DEF list
<1>3. changed \subseteq Nat /\ i \in changed
  BY <1>2 DEF list
<1>4. PICK k \in changed : \A j \in changed : k <= j
  BY <1>3, LeastElement
<1>5. \A j \in 1 .. k - 1 : ~ChangedSince(cache, list[j], mtime[o])
  BY <1>2, <1>3, <1>4
<1>6. list[k] \in Looked(g, cache, o)
  BY <1>4, <1>5 DEF Looked, list
<1> QED
  BY <1>3, <1>4, <1>6 DEF list

\* While the output and the cached times stay as they are, so does the decision,
\* whatever becomes of other files and whatever is added to the cache.
LEMMA SettledStays ==
  ASSUME NEW o \in Step, loaded \in Graph, Settled(o),
         UNCHANGED loaded, mtime'[o] = mtime[o], o \in counted' <=> o \in counted,
         \A f \in DOMAIN stat_cache : f \in DOMAIN stat_cache' /\ stat_cache'[f] = stat_cache[f]
  PROVE  Settled(o)'
<1> DEFINE list == Deps(loaded, o)
           changed(i) == ChangedSince(stat_cache, list[i], mtime[o])
           changedNow(i) == ChangedSince(stat_cache, list[i], mtime[o])'
<1>1. /\ Deps(loaded, o)' = list /\ Exists(o)' <=> Exists(o)
      /\ list \in Seq(File)
  BY DepsType DEF Deps, ParsedInputs, OpaqueInputs, Exists
<1>2. /\ NeedsRebuild(loaded, stat_cache, o) <=> ~Exists(o) \/ \E i \in DOMAIN list : changed(i)
      /\ NeedsRebuild(loaded, stat_cache, o)' <=>
           ~Exists(o) \/ \E i \in DOMAIN list : changedNow(i)
  BY <1>1 DEF NeedsRebuild
<1>3. \A f \in DOMAIN stat_cache :
        ChangedSince(stat_cache, f, mtime[o])' <=> ChangedSince(stat_cache, f, mtime[o])
  BY DEF ChangedSince, CachedTime
<1>4. ASSUME Exists(o), NEW i \in DOMAIN list, changed(i)
      PROVE  \E k \in DOMAIN list : k <= i /\ changed(k) /\ changedNow(k)
  <2>1. PICK k \in DOMAIN list : k <= i /\ changed(k) /\ list[k] \in Looked(loaded, stat_cache, o)
    BY <1>4, FirstChanged
  <2>2. list[k] \in DOMAIN stat_cache
    BY <2>1 DEF Settled
  <2> QED
    BY <2>1, <2>2, <1>3
<1>5. ASSUME Exists(o), NEW i \in DOMAIN list, \A j \in 1 .. i - 1 : ~changed(j)
      PROVE  list[i] \in DOMAIN stat_cache /\ (changedNow(i) <=> changed(i))
  <2>1. list[i] \in Looked(loaded, stat_cache, o)
    BY <1>5 DEF Looked
  <2>2. list[i] \in DOMAIN stat_cache
    BY <2>1 DEF Settled
  <2> QED
    BY <2>2, <1>3
<1>6. DOMAIN list = 1 .. Len(list) /\ Len(list) \in Nat
  BY <1>1
<1>7. NeedsRebuild(loaded, stat_cache, o)' <=> NeedsRebuild(loaded, stat_cache, o)
  <2> HIDE DEF list, changed, changedNow
  <2>1. ASSUME Exists(o), NEW i \in DOMAIN list, changedNow(i), \A j \in DOMAIN list : ~changed(j)
        PROVE  FALSE
    <3>1. \A j \in 1 .. i - 1 : ~changed(j)
      BY <2>1, <1>6
    <3> QED
      BY <2>1, <3>1, <1>5
  <2> QED
    BY <1>2, <1>4, <2>1
<1>8. Looked(loaded, stat_cache, o)' \subseteq DOMAIN stat_cache
  <2> SUFFICES ASSUME NEW i \in DOMAIN list, Exists(o), \A j \in 1 .. i - 1 : ~changedNow(j)
               PROVE  list[i] \in DOMAIN stat_cache
    BY <1>1 DEF Looked
  <2> HIDE DEF list, changed, changedNow
  <2>1. \A j \in 1 .. i - 1 : ~changed(j)
    <3> SUFFICES ASSUME NEW j \in 1 .. i - 1, changed(j) PROVE FALSE
      OBVIOUS
    <3>1. j \in DOMAIN list
      BY <1>6
    <3>2. PICK k \in DOMAIN list : k <= j /\ changedNow(k)
      BY <3>1, <1>4
    <3>3. k \in 1 .. i - 1
      BY <3>2, <1>6
    <3> QED
      BY <3>2, <3>3
  <2> QED
    BY <2>1, <1>5
<1> QED
  BY <1>7, <1>8 DEF Settled

\* When needs_rebuild has been asked of a step, its cache holds the reasons.
LEMMA AskedIsSettled ==
  ASSUME NEW o \in Step, loaded \in Graph, UNCHANGED <<mtime, loaded>>,
         stat_cache' = CacheAfter(loaded, stat_cache, o),
         o \in counted' <=> NeedsRebuild(loaded, stat_cache, o)
  PROVE  Settled(o)'
<1>0. /\ DOMAIN stat_cache' = DOMAIN stat_cache \cup Looked(loaded, stat_cache, o)
      /\ \A f \in DOMAIN stat_cache : stat_cache'[f] = stat_cache[f]
      /\ \A f \in DOMAIN stat_cache' : stat_cache'[f] = CachedTime(stat_cache, f)
  BY DEF CacheAfter, CachedTime
<1>1. \A f : CachedTime(stat_cache, f)' = CachedTime(stat_cache, f)
  BY <1>0 DEF CachedTime
<1>2. \A f : ChangedSince(stat_cache, f, mtime[o])' <=> ChangedSince(stat_cache, f, mtime[o])
  BY <1>1 DEF ChangedSince
<1>3. Deps(loaded, o)' = Deps(loaded, o) /\ (Exists(o)' <=> Exists(o))
  BY DEF Deps, ParsedInputs, OpaqueInputs, Exists
<1>4. NeedsRebuild(loaded, stat_cache, o)' <=> NeedsRebuild(loaded, stat_cache, o)
  BY <1>2, <1>3 DEF NeedsRebuild
<1>5. Looked(loaded, stat_cache, o)' = Looked(loaded, stat_cache, o)
  BY <1>2, <1>3 DEF Looked
<1> QED
  BY <1>0, <1>4, <1>5 DEF Settled

-----------------------------------------------------------------------------
(* Types. *)

FlagType == {"pending", "running", "succeeded", "failed"}

LEMMA NumberFacts ==
  ASSUME TypeOK
  PROVE  /\ now \in Nat /\ now # Missing /\ now \in Time /\ Missing \in Time
         /\ \A f \in File : mtime[f] \in Nat /\ mtime[f] \in Time
         /\ Len(ScanOrder) \in Nat /\ scanned \in Nat
         /\ \A o \in Step : o \in File /\ o # Manifest /\ o \notin Source
<1>1. Len(ScanOrder) \in Nat /\ MaxTime \in Nat
  BY FreshnessAssumption
<1>2. now \in Time \ {Missing} /\ mtime \in [File -> Time] /\ scanned \in 0 .. Len(ScanOrder)
  BY DEF TypeOK
<1>3. Time \subseteq Nat /\ Missing \in Time
  BY <1>1 DEF Time, Missing
<1>4. \A o \in Step : o \in File /\ o # Manifest /\ o \notin Source
  BY FreshnessAssumption DEF File
<1>5. scanned \in Nat
  BY <1>1, <1>2
<1> QED
  BY <1>1, <1>2, <1>3, <1>4, <1>5

LEMMA ParseFacts ==
  ASSUME TypeOK, Parse
  PROVE  /\ loaded' = NextLoad /\ loaded' \in [bin : BOOLEAN, deps : Depfiles]
         /\ loaded' \in Graph
         /\ out_edges' = StepEdges(loaded') /\ out_edges' \in [Step -> Seq(Step)]
         /\ bin' \in [time : Time, deps : Depfiles]
<1>1. NextLoad \in [bin : BOOLEAN, deps : Depfiles]
  BY DEF TypeOK, NextLoad
<1>2. bin' \in [time : Time, deps : Depfiles]
  BY NumberFacts DEF TypeOK, Parse
<1>3. loaded' = NextLoad /\ out_edges' = StepEdges(NextLoad)
  BY DEF Parse
<1>4. StepEdges(NextLoad) \in [Step -> Seq(Step)]
  BY EdgeFacts
<1> QED
  BY <1>1, <1>2, <1>3, <1>4 DEF Graph

\* What changes of files do to what is read and to who is overtaken.
LEMMA ChangedTypes ==
  ASSUME TypeOK, NEW files, NEW ended, Changed(files, ended)
  PROVE  includes' \in [Compile -> IncludeLists] /\ overtaken' \in SUBSET Step
<1>1. Active \subseteq Step /\ Bound \subseteq Step /\ overtaken \subseteq Step
  BY DEF Active, Bound, TypeOK
<1>2. includes' \in [Compile -> IncludeLists]
  BY DEF Changed
<1>3. PICK late \in SUBSET {o \in Active : files \cap Reads(o) # {}} :
        overtaken' = (overtaken \cup late
                        \cup (IF Manifest \in files THEN Bound ELSE {})) \ ended
  BY DEF Changed
<1> QED
  BY <1>1, <1>2, <1>3

\* What reads none of the files includes what it did.
LEMMA ChangedKeeps ==
  ASSUME NEW files, NEW ended, Changed(files, ended), NEW o \in Compile,
         (files \ {o}) \cap Reads(o) = {}
  PROVE  includes'[o] = includes[o]
BY DEF Changed

\* Files are written: who has not seen it.
LEMMA UnseenAfterFacts ==
  ASSUME TypeOK, NEW files \in SUBSET File
  PROVE  /\ UnseenAfter(files) \in [Step -> SUBSET File]
         /\ \A o \in Step : UnseenAfter(files)[o] = unseen[o] \cup (files \cap Reads(o))
BY DEF UnseenAfter, TypeOK

\* What tools that do not come to their end do to the disk.
LEMMA UnfinishedFacts ==
  ASSUME NEW tools, NEW lost, NEW ended, Unfinished(tools, lost, ended)
  PROVE  \E gone \in SUBSET tools, partial \in SUBSET tools :
           /\ mtime' = [f \in File |-> IF f \in gone \cup lost THEN Missing
                                       ELSE IF f \in partial THEN now ELSE mtime[f]]
           /\ unseen' = [o \in Step |->
                           IF o \in partial THEN {o}
                           ELSE UnseenAfter(gone \cup lost \cup partial)[o]]
           /\ Changed(gone \cup lost \cup partial, ended)
BY DEF Unfinished

LEMMA UnfinishedTypes ==
  ASSUME TypeOK, NEW tools \in SUBSET Step, NEW lost \in SUBSET Step, NEW ended,
         Unfinished(tools, lost, ended)
  PROVE  /\ mtime' \in [File -> Time] /\ unseen' \in [Step -> SUBSET File]
         /\ includes' \in [Compile -> IncludeLists] /\ overtaken' \in SUBSET Step
<1>1. PICK gone \in SUBSET tools, partial \in SUBSET tools :
        /\ mtime' = [f \in File |-> IF f \in gone \cup lost THEN Missing
                                    ELSE IF f \in partial THEN now ELSE mtime[f]]
        /\ unseen' = [o \in Step |->
                        IF o \in partial THEN {o}
                        ELSE UnseenAfter(gone \cup lost \cup partial)[o]]
        /\ Changed(gone \cup lost \cup partial, ended)
  BY UnfinishedFacts
<1>2. mtime' \in [File -> Time]
  BY <1>1, NumberFacts DEF TypeOK
<1>3. gone \cup lost \cup partial \in SUBSET File /\ \A o \in Step : o \in File
  BY NumberFacts
<1>4. UnseenAfter(gone \cup lost \cup partial) \in [Step -> SUBSET File]
  BY <1>3, UnseenAfterFacts
<1>5. unseen' \in [Step -> SUBSET File]
  BY <1>1, <1>3, <1>4
<1> QED
  BY <1>1, <1>2, <1>5, ChangedTypes

LEMMA UnfinishedElsewhere ==
  ASSUME NEW tools, NEW lost, NEW ended, Unfinished(tools, lost, ended)
  PROVE  \A f \in File : f \notin tools /\ f \notin lost => mtime'[f] = mtime[f]
BY DEF Unfinished

LEMMA ActiveFacts == /\ Active \subseteq ran
                     /\ \A o \in Active : status[o] = "running" /\ ~dry_run
BY DEF Active

\* needs_rebuild leaves times of files in the cache.
LEMMA CacheType ==
  ASSUME TypeOK, NEW o \in Step, stat_cache' = CacheAfter(loaded, stat_cache, o)
  PROVE  DOMAIN stat_cache' \subseteq File /\ \A f \in DOMAIN stat_cache' : stat_cache'[f] \in Time
<1>1. loaded \in Graph
  BY DEF TypeOK, Graph
<1>2. Looked(loaded, stat_cache, o) \subseteq File
  BY <1>1, LookedFacts
<1>3. DOMAIN stat_cache' = DOMAIN stat_cache \cup Looked(loaded, stat_cache, o)
      /\ \A f \in DOMAIN stat_cache' : stat_cache'[f] = CachedTime(stat_cache, f)
  BY DEF CacheAfter
<1>4. DOMAIN stat_cache \subseteq File /\ \A f \in DOMAIN stat_cache : stat_cache[f] \in Time
  BY DEF TypeOK
<1>5. \A f \in File : CachedTime(stat_cache, f) \in Time
  BY <1>4, NumberFacts DEF CachedTime
<1> QED
  BY <1>2, <1>3, <1>4, <1>5

\* Start and end of a step change its status only.
LEMMA StatusType ==
  ASSUME TypeOK, NEW o \in Step, NEW to \in FlagType, status' = [status EXCEPT ![o] = to]
  PROVE  status' \in [Step -> FlagType]
BY DEF TypeOK, FlagType

LEMMA StartFacts ==
  ASSUME TypeOK, NEW o \in Step, Order!Start(o)
  PROVE  /\ status' = [status EXCEPT ![o] = "running"] /\ status' \in [Step -> FlagType]
         /\ status[o] = "pending" /\ status'[o] = "running"
         /\ \A p \in Step : p # o => status'[p] = status[p]
         /\ \A u \in Step : o \in ToSet(out_edges[u]) => status[u] = "succeeded"
         /\ UNCHANGED <<out_edges, keep_going, verdict>>
<1>1. status' = [status EXCEPT ![o] = "running"] /\ status[o] = "pending"
      /\ UNCHANGED <<out_edges, keep_going, verdict>>
  BY DEF Order!Start, Order!Ready
<1>2. \A u \in Step : o \in ToSet(out_edges[u]) => status[u] = "succeeded"
  BY DEF Order!Start, Order!Ready, Order!DependsOn, ToSet
<1> QED
  BY <1>1, <1>2 DEF TypeOK, FlagType

LEMMA FinishFacts ==
  ASSUME TypeOK, NEW o \in Step, NEW to \in {"succeeded", "failed"},
         Order!Finish(o), status'[o] = to
  PROVE  /\ status' = [status EXCEPT ![o] = to] /\ status' \in [Step -> FlagType]
         /\ status[o] = "running"
         /\ \A p \in Step : p # o => status'[p] = status[p]
         /\ UNCHANGED <<out_edges, keep_going, verdict>>
<1>1. status[o] = "running" /\ UNCHANGED <<out_edges, keep_going, verdict>>
  BY DEF Order!Finish
<1>2. PICK s \in {"succeeded", "failed"} : status' = [status EXCEPT ![o] = s]
  BY DEF Order!Finish
<1>3. s = to
  BY <1>2 DEF TypeOK
<1> QED
  BY <1>1, <1>2, <1>3 DEF TypeOK, FlagType

LEMMA EndOfProcessFacts ==
  ASSUME TypeOK, NEW orphans, EndOfProcess(orphans)
  PROVE  /\ phase' = "idle" /\ scanned' \in 0 .. Len(ScanOrder)
         /\ loaded' \in [bin : BOOLEAN, deps : Depfiles]
         /\ DOMAIN stat_cache' \subseteq File
         /\ \A f \in DOMAIN stat_cache' : stat_cache'[f] \in Time
         /\ UNCHANGED <<out_edges, dry_run, keep_going, ran>>
<1>1. DOMAIN stat_cache' = {}
  BY DEF EndOfProcess, NoCache
<1>2. NoGraph \in [bin : BOOLEAN, deps : Depfiles]
  BY DEF NoGraph, Depfiles
<1>3. loaded' \in [bin : BOOLEAN, deps : Depfiles]
  BY <1>2 DEF EndOfProcess, TypeOK
<1> QED
  BY <1>1, <1>3, NumberFacts DEF EndOfProcess

LEMMA InitTypes == Init => TypeOK
<1> SUFFICES ASSUME Init PROVE TypeOK
  OBVIOUS
<1> USE FreshnessAssumption
<1>1. /\ now \in Time \ {Missing} /\ mtime \in [File -> Time]
      /\ includes \in [Compile -> IncludeLists] /\ unseen \in [Step -> SUBSET File]
  <2>1. 0 \in Time /\ 1 \in Time \ {Missing}
    BY DEF Time, Missing
  <2>2. mtime \in [File -> Time]
    BY <2>1 DEF Init, Missing
  <2>3. unseen \in [Step -> SUBSET File]
    BY DEF Init
  <2> QED
    BY <2>1, <2>2, <2>3 DEF Init
<1>2. depfile \in Depfiles /\ bin \in [time : Time, deps : Depfiles]
      /\ loaded \in [bin : BOOLEAN, deps : Depfiles]
  BY DEF Init, Depfiles, NoGraph, Time, Missing
<1>3. out_edges \in [Step -> Seq(Step)] /\ dry_run \in BOOLEAN /\ keep_going \in BOOLEAN
      /\ scanned \in 0 .. Len(ScanOrder) /\ phase = "idle"
  <2> HIDE FreshnessAssumption
  <2>1. <<>> \in Seq(Step)
    OBVIOUS
  <2>0. Len(ScanOrder) \in Nat
    BY FreshnessAssumption
  <2>2. out_edges \in [Step -> Seq(Step)]
    BY <2>1 DEF Init
  <2>3. 0 \in 0 .. Len(ScanOrder)
    BY <2>0
  <2> QED
    BY <2>2, <2>3 DEF Init
<1>4. DOMAIN stat_cache = {}
  BY DEF Init, NoCache
<1>5. /\ counted \in SUBSET Step /\ ran \in SUBSET Step
      /\ overtaken \in SUBSET Step /\ disturbed \in BOOLEAN
      /\ status \in [Step -> {"pending", "running", "succeeded", "failed"}]
      /\ verdict \in {"none", "ok", "build_failed", "cycle"}
  BY DEF Init
<1> QED
  BY <1>1, <1>2, <1>3, <1>4, <1>5 DEF TypeOK

LEMMA TickTypes == ASSUME TypeOK, Tick PROVE TypeOK'
<1>1. now' \in Time \ {Missing}
  BY FreshnessAssumption DEF TypeOK, Tick, Time, Missing
<1> QED
  BY <1>1 DEF TypeOK, Tick, setup, progress, history

LEMMA EditTypes ==
  ASSUME TypeOK, NEW f \in File, Edit(f) \/ Delete(f) PROVE TypeOK'
<1>1. {f} \in SUBSET File /\ unseen' = UnseenAfter({f}) /\ Changed({f}, {})
  BY DEF Edit, Delete
<1>2. unseen' \in [Step -> SUBSET File]
  BY <1>1, UnseenAfterFacts
<1>3. mtime' \in [File -> Time]
  BY NumberFacts DEF Edit, Delete, TypeOK
<1>4. includes' \in [Compile -> IncludeLists] /\ overtaken' \in SUBSET Step
  BY <1>1, ChangedTypes
<1>5. /\ disturbed' = TRUE
      /\ UNCHANGED <<now, depfile, bin, phase, setup, progress, status, verdict>>
  BY DEF Edit, Delete
<1> QED
  BY <1>2, <1>3, <1>4, <1>5 DEF TypeOK, setup, progress

LEMMA CleanTypes == ASSUME TypeOK, Clean PROVE TypeOK'
<1>1. Parse
  BY DEF Clean
<1>2. mtime' \in [File -> Time]
  BY NumberFacts DEF Clean, TypeOK
<1>3. depfile' \in Depfiles
  BY DEF Clean, Depfiles
<1> QED
  BY <1>1, <1>2, <1>3, ParseFacts DEF TypeOK, Clean, progress

LEMMA StartBuildTypes ==
  ASSUME TypeOK, NEW n \in BOOLEAN, NEW k \in BOOLEAN, StartBuild(n, k) PROVE TypeOK'
<1>1. Parse
  BY DEF StartBuild
<1>2. DOMAIN stat_cache' = {} /\ scanned' \in 0 .. Len(ScanOrder)
  BY NumberFacts DEF StartBuild, NoCache
<1>3. status' \in [Step -> {"pending", "running", "succeeded", "failed"}]
  BY DEF StartBuild
<1> QED
  BY <1>1, <1>2, <1>3, ParseFacts DEF TypeOK, StartBuild, disk

LEMMA CountTypes ==
  ASSUME TypeOK, scanned < Len(ScanOrder), Count PROVE TypeOK'
<1>1. ScanOrder[scanned + 1] \in Step
  BY NumberFacts, FreshnessAssumption
<1>2. DOMAIN stat_cache' \subseteq File /\ \A f \in DOMAIN stat_cache' : stat_cache'[f] \in Time
  BY <1>1, CacheType DEF Count
<1>3. counted' \in SUBSET Step
  BY <1>1 DEF Count, TypeOK
<1>4. scanned' \in 0 .. Len(ScanOrder) /\ phase' \in {"counting", "building"}
      /\ (phase' = "building" => scanned' = Len(ScanOrder))
  BY NumberFacts DEF Count, LastScanned
<1> QED
  BY <1>2, <1>3, <1>4 DEF TypeOK, Count, disk, setup, history

LEMMA BeginTypes == ASSUME TypeOK, NEW o \in Step, Begin(o) PROVE TypeOK'
<1>1. DOMAIN stat_cache' \subseteq File /\ \A f \in DOMAIN stat_cache' : stat_cache'[f] \in Time
  BY CacheType DEF Begin, CacheAtBegin
<1>2. status' \in [Step -> {"pending", "running", "succeeded", "failed"}]
  BY StartFacts DEF Begin, FlagType
<1>3. UNCHANGED <<out_edges, keep_going, verdict>>
  BY StartFacts DEF Begin
<1> QED
  BY <1>1, <1>2, <1>3 DEF TypeOK, Begin, disk, setup, history

LEMMA EndIdleTypes == ASSUME TypeOK, NEW o \in Step, EndIdle(o) PROVE TypeOK'
<1>1. /\ status' \in [Step -> {"pending", "running", "succeeded", "failed"}]
      /\ UNCHANGED <<out_edges, keep_going, verdict>>
  BY FinishFacts DEF EndIdle, FlagType
<1> QED
  BY <1>1 DEF TypeOK, EndIdle, disk, setup, progress, history

LEMMA EndOfToolTypes == ASSUME TypeOK, NEW o \in Step, EndOfTool(o) PROVE TypeOK'
<1>1. /\ status' \in [Step -> {"pending", "running", "succeeded", "failed"}]
      /\ UNCHANGED <<out_edges, keep_going, verdict>>
  BY FinishFacts DEF EndOfTool, FlagType
<1>2. mtime' \in [File -> Time]
  BY NumberFacts DEF EndOfTool, TypeOK
<1>3. depfile' \in Depfiles
  BY DEF EndOfTool, TypeOK, Depfiles
<1>4. unseen' \in [Step -> SUBSET File]
  <2>1. {o} \in SUBSET File /\ overtaken \cap {o} \in SUBSET File
    BY NumberFacts
  <2>2. UnseenAfter({o}) \in [Step -> SUBSET File]
    BY <2>1, UnseenAfterFacts
  <2> QED
    BY <2>1, <2>2 DEF EndOfTool
<1>5. includes' \in [Compile -> IncludeLists] /\ overtaken' \in SUBSET Step
  BY ChangedTypes DEF EndOfTool
<1>6. UNCHANGED <<now, bin, phase, setup, progress, disturbed>>
  BY DEF EndOfTool
<1> QED
  BY <1>1, <1>2, <1>3, <1>4, <1>5, <1>6 DEF TypeOK, setup, progress

LEMMA FailureOfToolTypes == ASSUME TypeOK, NEW o \in Step, FailureOfTool(o) PROVE TypeOK'
<1>1. /\ status' \in [Step -> {"pending", "running", "succeeded", "failed"}]
      /\ UNCHANGED <<out_edges, keep_going, verdict>>
  BY FinishFacts DEF FailureOfTool, FlagType
<1>2. {o} \in SUBSET Step /\ {} \in SUBSET Step /\ Unfinished({o}, {}, {o})
  BY DEF FailureOfTool
<1>3. /\ mtime' \in [File -> Time] /\ unseen' \in [Step -> SUBSET File]
      /\ includes' \in [Compile -> IncludeLists] /\ overtaken' \in SUBSET Step
  BY <1>2, UnfinishedTypes
<1>4. disturbed' = TRUE /\ UNCHANGED <<now, depfile, bin, phase, setup, progress>>
  BY DEF FailureOfTool
<1> QED
  BY <1>1, <1>3, <1>4 DEF TypeOK, setup, progress

LEMMA ReturnTypes == ASSUME TypeOK, Return PROVE TypeOK'
<1>1. verdict' \in {"none", "ok", "build_failed", "cycle"} /\ status' = status
  BY DEF Return, Order!Conclude, Order!VerdictOf
<1>2. EndOfProcess({}) /\ overtaken' = {} /\ UNCHANGED <<disk, bin, counted, disturbed>>
  BY DEF Return
<1> QED
  BY <1>1, <1>2, EndOfProcessFacts DEF TypeOK, disk

LEMMA ActiveSteps == ASSUME TypeOK PROVE Active \in SUBSET Step
BY DEF Active, TypeOK

\* What the end of a process leaves behind.
LEMMA KilledFacts ==
  ASSUME NEW lost, Killed(lost)
  PROVE  \E orphans \in SUBSET Active :
           /\ EndOfProcess(orphans) /\ counted' = ran
           /\ status' = [o \in Step |-> IF o \in Active \ orphans THEN "failed" ELSE status[o]]
           /\ Unfinished(Active \ orphans, lost, Step \ orphans)
           /\ disturbed' = TRUE
           /\ UNCHANGED <<now, depfile, bin, verdict>>
BY DEF Killed

LEMMA KilledTypes ==
  ASSUME TypeOK, NEW lost \in SUBSET Step, Killed(lost) PROVE TypeOK'
<1>1. PICK orphans \in SUBSET Active :
        /\ EndOfProcess(orphans) /\ counted' = ran
        /\ status' = [o \in Step |-> IF o \in Active \ orphans THEN "failed" ELSE status[o]]
        /\ Unfinished(Active \ orphans, lost, Step \ orphans)
        /\ disturbed' = TRUE
        /\ UNCHANGED <<now, depfile, bin, verdict>>
  BY KilledFacts
<1>2. Active \ orphans \in SUBSET Step
  BY ActiveSteps
<1>3. /\ mtime' \in [File -> Time] /\ unseen' \in [Step -> SUBSET File]
      /\ includes' \in [Compile -> IncludeLists] /\ overtaken' \in SUBSET Step
  BY <1>1, <1>2, UnfinishedTypes
<1>4. status' \in [Step -> {"pending", "running", "succeeded", "failed"}]
  BY <1>1 DEF TypeOK
<1>5. /\ phase' = "idle" /\ scanned' \in 0 .. Len(ScanOrder)
      /\ loaded' \in [bin : BOOLEAN, deps : Depfiles]
      /\ DOMAIN stat_cache' \subseteq File
      /\ \A f \in DOMAIN stat_cache' : stat_cache'[f] \in Time
      /\ UNCHANGED <<out_edges, dry_run, keep_going, ran>>
  BY <1>1, EndOfProcessFacts
<1> QED
  BY <1>1, <1>3, <1>4, <1>5 DEF TypeOK

\* The steps of Crash and RemovedWhileAsked are kills.
LEMMA Kills ==
  ASSUME NEW o \in Step, Crash \/ RemovedWhileAsked(o)
  PROVE  phase # "idle" /\ \E lost \in SUBSET Step : Killed(lost)
BY DEF Crash, RemovedWhileAsked, Asked

\* The files that users write or remove.
LEMMA Touched ==
  /\ Source \cup {Manifest} \subseteq File /\ Deletable \subseteq Source \cup Step
  /\ Source \cup Step \subseteq File
BY FreshnessAssumption DEF File

LEMMA TypesKeep == ASSUME TypeOK, CountInv, [Next]_vars PROVE TypeOK'
<1>1. CASE UNCHANGED vars
  BY <1>1 DEF TypeOK, vars, disk, setup, progress, history
<1>2. CASE Tick
  BY <1>2, TickTypes
<1>3. ASSUME NEW n \in BOOLEAN, NEW k \in BOOLEAN, StartBuild(n, k) PROVE TypeOK'
  BY <1>3, StartBuildTypes
<1>4. CASE Count
  <2>1. scanned < Len(ScanOrder)
    BY <1>4 DEF Count, CountInv
  <2> QED
    BY <1>4, <2>1, CountTypes
<1>5. ASSUME NEW o \in Step, Begin(o) \/ EndIdle(o) \/ EndOfTool(o) \/ FailureOfTool(o)
      PROVE  TypeOK'
  BY <1>5, BeginTypes, EndIdleTypes, EndOfToolTypes, FailureOfToolTypes
<1>6. CASE Return
  BY <1>6, ReturnTypes
<1>7. ASSUME NEW f \in File, Edit(f) \/ Delete(f) PROVE TypeOK'
  BY <1>7, EditTypes
<1>8. ASSUME NEW o \in Step, Crash \/ RemovedWhileAsked(o) PROVE TypeOK'
  BY <1>8, Kills, KilledTypes
<1>9. CASE Clean
  BY <1>9, CleanTypes
<1>10. \E o \in Step : TRUE
  BY FreshnessAssumption
<1> QED
  BY <1>1, <1>2, <1>3, <1>4, <1>5, <1>6, <1>7, <1>8, <1>9, <1>10, Touched
    DEF Next, BuildStep, Disturbance

-----------------------------------------------------------------------------
(* The progress counters. *)

LEMMA EveryStepScanned ==
  ASSUME TypeOK, phase = "building", NEW o \in Step PROVE IsScanned(o)
<1>1. scanned = Len(ScanOrder)
  BY DEF TypeOK
<1>2. PICK i \in DOMAIN ScanOrder : ScanOrder[i] = o
  BY FreshnessAssumption DEF ToSet
<1>3. DOMAIN ScanOrder = 1 .. Len(ScanOrder)
  BY FreshnessAssumption
<1> QED
  BY <1>1, <1>2, <1>3 DEF IsScanned

\* An output that is gone stays away while its step is pending.
LEMMA SettledOrGone ==
  ASSUME NEW o \in Step, loaded \in Graph, Settled(o) \/ ~Exists(o), UNCHANGED loaded,
         mtime'[o] = mtime[o] \/ ~Exists(o)', o \in counted' <=> o \in counted,
         \A f \in DOMAIN stat_cache : f \in DOMAIN stat_cache' /\ stat_cache'[f] = stat_cache[f]
  PROVE  Settled(o)' \/ ~Exists(o)'
<1>1. CASE mtime'[o] = mtime[o] /\ Settled(o)
  BY <1>1, SettledStays
<1>2. CASE mtime'[o] = mtime[o] /\ ~Exists(o)
  BY <1>2 DEF Exists
<1> QED
  BY <1>1, <1>2

\* A step of somebody else, which at most removes outputs while an invocation
\* runs.
LEMMA OthersKeepCounts ==
  ASSUME TypeOK, CountInv, UNCHANGED <<phase, loaded, progress, status, verdict>>,
         phase # "idle" => \A o \in Step : mtime'[o] = mtime[o] \/ ~Exists(o)'
  PROVE  CountInv'
<1>1. CASE phase = "idle"
  BY <1>1 DEF CountInv
<1>2. CASE phase # "idle"
  <2>1. UNCHANGED <<phase, loaded, scanned, stat_cache, counted, ran, status, verdict>>
    BY <1>2 DEF progress
  <2>2. ASSUME NEW o \in Step, IsScanned(o), status[o] = "pending"
        PROVE  Settled(o)' \/ ~Exists(o)'
    <3>1. (Settled(o) \/ ~Exists(o)) /\ loaded \in Graph
      BY <1>2, <2>2 DEF CountInv, TypeOK, Graph
    <3> QED
      BY <1>2, <2>1, <3>1, SettledOrGone
  <2>3. \A o : IsScanned(o)' <=> IsScanned(o)
    BY <2>1 DEF IsScanned
  <2> QED
    BY <1>2, <2>1, <2>2, <2>3 DEF CountInv
<1> QED
  BY <1>1, <1>2

\* A step of the build is on its way or has come to its end.
LEMMA BuildingKeepsCounts ==
  ASSUME TypeOK, CountInv, phase = "building", NEW o \in Step, NEW to \in FlagType,
         to # "pending", status' = [status EXCEPT ![o] = to],
         UNCHANGED <<phase, loaded, scanned, counted, verdict>>,
         \A p \in Step : p # o => mtime'[p] = mtime[p],
         \A f \in DOMAIN stat_cache : f \in DOMAIN stat_cache' /\ stat_cache'[f] = stat_cache[f],
         \A p \in Step : p # o => (p \in ran' <=> p \in ran),
         o \in counted => o \in ran'
  PROVE  CountInv'
<1>1. status'[o] = to /\ \A p \in Step : p # o => status'[p] = status[p]
  BY DEF TypeOK
<1>2. \A p : IsScanned(p)' <=> IsScanned(p)
  BY DEF IsScanned
<1>3. ASSUME NEW p \in Step, IsScanned(p), status'[p] = "pending"
      PROVE  Settled(p)' \/ ~Exists(p)'
  <2>1. p # o /\ status[p] = "pending"
    BY <1>1, <1>3
  <2>2. (Settled(p) \/ ~Exists(p)) /\ loaded \in Graph
    BY <1>3, <2>1 DEF CountInv, TypeOK, Graph
  <2> QED
    BY <2>1, <2>2, SettledOrGone
<1>4. ASSUME NEW p \in Step, status'[p] = "pending" PROVE p \notin ran'
  BY <1>1, <1>4 DEF CountInv
<1>5. ASSUME NEW p \in Step, status'[p] # "pending", p \in counted PROVE p \in ran'
  BY <1>1, <1>5 DEF CountInv
<1> QED
  BY <1>2, <1>3, <1>4, <1>5 DEF CountInv

LEMMA CountKeepsCounts == ASSUME TypeOK, CountInv, Count PROVE CountInv'
<1>1. /\ phase = "counting" /\ scanned \in Nat /\ Len(ScanOrder) \in Nat
      /\ scanned < Len(ScanOrder) /\ \A o \in Step : status[o] = "pending"
  BY NumberFacts DEF Count, CountInv
<1>2. PICK st \in Step : st = ScanOrder[scanned + 1]
  BY <1>1, FreshnessAssumption
<1>3. /\ counted' = IF NeedsRebuild(loaded, stat_cache, st) THEN counted \cup {st} ELSE counted
      /\ stat_cache' = CacheAfter(loaded, stat_cache, st)
      /\ scanned' = scanned + 1
      /\ UNCHANGED <<mtime, loaded, ran, status, verdict>>
      /\ phase' = IF scanned + 1 = Len(ScanOrder) THEN "building" ELSE "counting"
  BY <1>2 DEF Count, disk, setup, LastScanned
<1>4. \A o : IsScanned(o)' <=> IsScanned(o) \/ o = st
  BY <1>1, <1>2, <1>3 DEF IsScanned
<1>5. \A f \in DOMAIN stat_cache : f \in DOMAIN stat_cache' /\ stat_cache'[f] = stat_cache[f]
  BY <1>3 DEF CacheAfter, CachedTime
<1>6. loaded \in Graph
  BY DEF TypeOK, Graph
<1>7. IsScanned(st) => Settled(st) \/ ~Exists(st)
  BY <1>1, <1>2 DEF CountInv
<1>8. st \in counted => IsScanned(st)
  BY <1>1 DEF CountInv
<1>9. Settled(st)'
  <2>1. st \in counted' <=> NeedsRebuild(loaded, stat_cache, st)
    BY <1>3, <1>7, <1>8 DEF Settled, NeedsRebuild
  <2> QED
    BY <1>2, <1>3, <1>6, <2>1, AskedIsSettled
<1>10. ASSUME NEW o \in Step, IsScanned(o), o # st PROVE Settled(o)' \/ ~Exists(o)'
  <2>1. Settled(o) \/ ~Exists(o)
    BY <1>1, <1>10 DEF CountInv
  <2>2. o \in counted' <=> o \in counted
    BY <1>3, <1>10
  <2> QED
    BY <1>3, <1>5, <1>6, <2>1, <2>2, SettledOrGone
<1>11. \A o \in counted' : IsScanned(o)'
  BY <1>1, <1>3, <1>4 DEF CountInv
<1>12. \A o \in Step : o \notin ran
  BY <1>1 DEF CountInv
<1>13. verdict = "none"
  BY <1>1 DEF CountInv
<1>14. phase' = "counting" => scanned' < Len(ScanOrder)
  BY <1>1, <1>3
<1>15. \A o \in Step : IsScanned(o)' => Settled(o)' \/ ~Exists(o)'
  BY <1>4, <1>9, <1>10
<1> QED
  BY <1>1, <1>3, <1>15, <1>11, <1>12, <1>13, <1>14 DEF CountInv

\* process_step announces a step that was counted, or whose output has gone.
LEMMA BeginAnnounces ==
  ASSUME TypeOK, CountInv, NEW o \in Step, Begin(o)
  PROVE  /\ o \in counted => o \in ran'
         /\ o \in ran' \ ran => o \in counted \/ ~Exists(o)
         /\ \A p \in Step : p # o => (p \in ran' <=> p \in ran)
<1>1. status[o] = "pending" /\ phase = "building"
  BY StartFacts DEF Begin
<1>2. Settled(o) \/ ~Exists(o)
  BY <1>1, EveryStepScanned DEF CountInv
<1>3. ran' = IF NeedsRebuild(loaded, stat_cache, o) THEN ran \cup {o} ELSE ran
  BY DEF Begin, CacheAtBegin
<1>4. ~Exists(o) => NeedsRebuild(loaded, stat_cache, o)
  BY DEF NeedsRebuild
<1> QED
  BY <1>2, <1>3, <1>4 DEF Settled

LEMMA BeginKeepsCounts == ASSUME TypeOK, CountInv, NEW o \in Step, Begin(o) PROVE CountInv'
<1>1. status' = [status EXCEPT ![o] = "running"] /\ status[o] = "pending" /\ verdict' = verdict
  BY StartFacts DEF Begin
<1>2. phase = "building" /\ UNCHANGED <<mtime, phase, loaded, scanned, counted>>
  BY DEF Begin, disk, setup
<1>3. /\ o \in counted => o \in ran'
      /\ \A p \in Step : p # o => (p \in ran' <=> p \in ran)
  BY BeginAnnounces
<1>5. \A f \in DOMAIN stat_cache : f \in DOMAIN stat_cache' /\ stat_cache'[f] = stat_cache[f]
  BY DEF Begin, CacheAtBegin, CacheAfter, CachedTime
<1>6. "running" \in FlagType /\ "running" # "pending"
  BY DEF FlagType
<1> QED
  BY <1>1, <1>2, <1>3, <1>5, <1>6, BuildingKeepsCounts

\* The three ends of a step.
LEMMA EndKeepsCounts ==
  ASSUME TypeOK, CountInv, NEW o \in Step, NEW to \in {"succeeded", "failed"},
         Order!Finish(o), status'[o] = to,
         UNCHANGED <<phase, loaded, progress>>, \A p \in Step : p # o => mtime'[p] = mtime[p]
  PROVE  CountInv'
<1>1. status' = [status EXCEPT ![o] = to] /\ status[o] = "running" /\ verdict' = verdict
  BY FinishFacts
<1>2. UNCHANGED <<scanned, stat_cache, counted, ran>>
  BY DEF progress
<1>3. to \in FlagType /\ to # "pending"
  BY DEF FlagType
<1>4. CASE phase = "building"
  <2>1. o \in counted => o \in ran'
    BY <1>1, <1>2, <1>4 DEF CountInv
  <2> QED
    BY <1>1, <1>2, <1>3, <1>4, <2>1, BuildingKeepsCounts
<1>5. CASE phase = "idle"
  BY <1>5 DEF CountInv
<1>6. phase # "counting"
  BY <1>1 DEF CountInv
<1> QED
  BY <1>4, <1>5, <1>6 DEF TypeOK

\* What the end of a tool does to the other outputs.
LEMMA EndsElsewhere ==
  ASSUME TypeOK, NEW o \in Step, EndOfTool(o) \/ FailureOfTool(o)
  PROVE  \A p \in Step : p # o => mtime'[p] = mtime[p]
<1>1. CASE EndOfTool(o)
  BY <1>1, NumberFacts DEF EndOfTool, TypeOK
<1>2. CASE FailureOfTool(o)
  <2>1. Unfinished({o}, {}, {o})
    BY <1>2 DEF FailureOfTool
  <2> QED
    BY <2>1, UnfinishedElsewhere, NumberFacts
<1> QED
  BY <1>1, <1>2

LEMMA EndsKeepCounts ==
  ASSUME TypeOK, CountInv, NEW o \in Step, EndIdle(o) \/ EndOfTool(o) \/ FailureOfTool(o)
  PROVE  CountInv'
<1>1. CASE EndIdle(o)
  BY <1>1, EndKeepsCounts DEF EndIdle, disk, setup
<1>2. CASE EndOfTool(o)
  BY <1>2, EndsElsewhere, EndKeepsCounts DEF EndOfTool, setup
<1>3. CASE FailureOfTool(o)
  BY <1>3, EndsElsewhere, EndKeepsCounts DEF FailureOfTool, setup
<1> QED
  BY <1>1, <1>2, <1>3

LEMMA EndedKeepsCounts == ASSUME phase' = "idle" PROVE CountInv'
BY DEF CountInv

LEMMA StartKeepsCounts ==
  ASSUME TypeOK, NEW n \in BOOLEAN, NEW k \in BOOLEAN, StartBuild(n, k) PROVE CountInv'
<1>1. /\ phase' = "counting" /\ scanned' = 0 /\ counted' = {} /\ ran' = {}
      /\ status' = [o \in Step |-> "pending"] /\ verdict' = "none"
  BY DEF StartBuild
<1>2. 0 < Len(ScanOrder)
  <2>1. PICK o \in Step : TRUE
    BY FreshnessAssumption
  <2>2. PICK i \in DOMAIN ScanOrder : ScanOrder[i] = o
    BY FreshnessAssumption DEF ToSet
  <2>3. DOMAIN ScanOrder = 1 .. Len(ScanOrder) /\ Len(ScanOrder) \in Nat
    BY FreshnessAssumption
  <2> QED
    BY <2>2, <2>3
<1>3. \A o : ~ IsScanned(o)'
  BY <1>1 DEF IsScanned
<1> QED
  BY <1>1, <1>2, <1>3 DEF CountInv

LEMMA CountsKeep == ASSUME TypeOK, CountInv, [Next]_vars PROVE CountInv'
<1>1. CASE UNCHANGED vars \/ Tick
  BY <1>1, OthersKeepCounts DEF vars, disk, setup, progress, Tick
<1>3. ASSUME NEW n \in BOOLEAN, NEW k \in BOOLEAN, StartBuild(n, k) PROVE CountInv'
  BY <1>3, StartKeepsCounts
<1>4. CASE Count
  BY <1>4, CountKeepsCounts
<1>5. ASSUME NEW o \in Step, Begin(o) \/ EndIdle(o) \/ EndOfTool(o) \/ FailureOfTool(o)
      PROVE  CountInv'
  BY <1>5, BeginKeepsCounts, EndsKeepCounts
<1>6. CASE Return \/ Clean
  BY <1>6, EndedKeepsCounts DEF Return, EndOfProcess, Clean
<1>7. ASSUME NEW f \in Source \cup {Manifest}, Edit(f) PROVE CountInv'
  <2>1. \A o \in Step : mtime'[o] = mtime[o]
    BY <1>7, NumberFacts DEF Edit, TypeOK
  <2> QED
    BY <1>7, <2>1, OthersKeepCounts DEF Edit, setup
<1>8. ASSUME NEW f \in File, Delete(f) PROVE CountInv'
  <2>1. \A o \in Step : mtime'[o] = mtime[o] \/ ~Exists(o)'
    BY <1>8, NumberFacts DEF Delete, TypeOK, Exists
  <2> QED
    BY <1>8, <2>1, OthersKeepCounts DEF Delete, setup
<1>9. ASSUME NEW o \in Step, Crash \/ RemovedWhileAsked(o) PROVE CountInv'
  <2>1. PICK lost \in SUBSET Step : Killed(lost)
    BY <1>9, Kills
  <2> QED
    BY <2>1, KilledFacts, EndedKeepsCounts DEF EndOfProcess
<1>10. \E o \in Step : TRUE
  BY FreshnessAssumption
<1> QED
  BY <1>1, <1>3, <1>4, <1>5, <1>6, <1>7, <1>8, <1>9, <1>10, Touched
    DEF Next, BuildStep, Disturbance

LEMMA InitCounts == Init => CountInv
BY DEF Init, CountInv

LEMMA AlwaysCounted == Spec => []PInv
<1>1. Init => PInv
  BY InitTypes, InitCounts DEF PInv
<1>2. PInv /\ [Next]_vars => PInv'
  BY TypesKeep, CountsKeep DEF PInv
<1> QED
  BY <1>1, <1>2, PTL DEF Spec

\* The types hold for every graph, manifest and clock; in particular the
\* pre-count never runs over the end of its list.
THEOREM BuildTypesCorrect == Spec => []TypeOK
<1>1. PInv => TypeOK
  BY DEF PInv
<1> QED
  BY <1>1, AlwaysCounted, PTL

\* Steps are announced by process_step only.
LEMMA OnlyBeginAnnounces ==
  ASSUME TypeOK, [Next]_vars
  PROVE  ran' \subseteq ran \/ \E o \in Step : Begin(o)
<1>1. CASE UNCHANGED vars \/ Tick \/ \E f \in File : Edit(f) \/ Delete(f)
  BY <1>1 DEF vars, Tick, Edit, Delete, progress
<1>2. CASE Count \/ Return \/ Clean \/ \E n, k \in BOOLEAN : StartBuild(n, k)
  BY <1>2 DEF Count, Return, EndOfProcess, Clean, StartBuild, progress
<1>3. CASE \E o \in Step : EndIdle(o) \/ EndOfTool(o) \/ FailureOfTool(o)
  BY <1>3 DEF EndIdle, EndOfTool, FailureOfTool, progress
<1>4. CASE Crash \/ \E o \in Step : RemovedWhileAsked(o)
  <2>1. PICK lost \in SUBSET Step : Killed(lost)
    BY <1>4, Kills, FreshnessAssumption
  <2> QED
    BY <2>1, KilledFacts DEF EndOfProcess
<1> QED
  BY <1>1, <1>2, <1>3, <1>4, Touched DEF Next, BuildStep, Disturbance

\* A build succeeds when it returns.
LEMMA OnlyReturnSucceeds ==
  ASSUME TypeOK, [Next]_vars, verdict # "ok", verdict' = "ok" PROVE Return
<1>1. ASSUME verdict' = verdict PROVE FALSE
  BY <1>1
<1>2. CASE UNCHANGED vars \/ Tick \/ \E f \in File : Edit(f) \/ Delete(f)
  BY <1>1, <1>2 DEF vars, Tick, Edit, Delete
<1>3. CASE Count \/ Clean \/ \E n, k \in BOOLEAN : StartBuild(n, k)
  BY <1>1, <1>3 DEF Count, Clean, StartBuild
<1>4. CASE \E o \in Step : Begin(o) \/ EndIdle(o) \/ EndOfTool(o) \/ FailureOfTool(o)
  BY <1>1, <1>4 DEF Begin, EndIdle, EndOfTool, FailureOfTool, Order!Start, Order!Finish
<1>5. CASE Crash \/ \E o \in Step : RemovedWhileAsked(o)
  <2>1. PICK lost \in SUBSET Step : Killed(lost)
    BY <1>5, Kills, FreshnessAssumption
  <2> QED
    BY <1>1, <2>1, KilledFacts
<1> QED
  BY <1>2, <1>3, <1>4, <1>5, Touched DEF Next, BuildStep, Disturbance

\* The counters of "[current/total]" are exact for every graph, with the
\* feature binary on or off, whoever edits files meanwhile: what the pre-count
\* decided on the times in its cache is what process_step decides, except that
\* it also runs a step whose output has been removed since.
THEOREM CountersAreExact == Spec => ProgressExact
<1>1. ASSUME PInv, [Next]_vars
      PROVE  /\ \A o \in ran' \ ran : o \in counted \/ ~Exists(o)
             /\ verdict # "ok" /\ verdict' = "ok" => counted \subseteq ran
  <2>0. TypeOK /\ CountInv
    BY <1>1 DEF PInv
  <2>1. ASSUME NEW o \in ran' \ ran PROVE o \in counted \/ ~Exists(o)
    <3>1. PICK p \in Step : Begin(p)
      BY <1>1, <2>0, <2>1, OnlyBeginAnnounces
    <3>2. ran' \subseteq ran \cup {p}
      BY <3>1 DEF Begin
    <3> QED
      BY <2>0, <2>1, <3>1, <3>2, BeginAnnounces
  <2>2. ASSUME verdict # "ok", verdict' = "ok" PROVE counted \subseteq ran
    <3>1. Return
      BY <1>1, <2>0, <2>2, OnlyReturnSucceeds
    <3>2. phase = "building" /\ \A o \in Step : status[o] = "succeeded"
      BY <2>2, <3>1 DEF Return, Order!Conclude, Order!VerdictOf
    <3>3. counted \subseteq Step
      BY <2>0 DEF TypeOK
    <3> QED
      BY <2>0, <3>2, <3>3 DEF CountInv
  <2> QED
    BY <2>1, <2>2
<1> QED
  BY <1>1, AlwaysCounted, PTL DEF ProgressExact, Spec

-----------------------------------------------------------------------------
(* Builds that run every step. *)

\* A step that begins or ends leaves the order right: what it waits for was there.
LEMMA MovesKeepOrder ==
  ASSUME TypeOK, OrderInv, phase # "idle", UNCHANGED <<out_edges, loaded>>,
         NEW o \in Step, NEW to \in FlagType, status' = [status EXCEPT ![o] = to],
         status[o] # "succeeded",
         \A u \in Step : o \in ToSet(out_edges[u]) => status[u] = "succeeded"
  PROVE  OrderInv'
<1>1. status'[o] = to /\ \A x \in Step : x # o => status'[x] = status[x]
  BY DEF TypeOK
<1>2. ASSUME NEW x \in Step, status'[x] # "pending",
             NEW u \in Step, x \in ToSet(out_edges[u])
      PROVE  status'[u] = "succeeded"
  <2>1. status[u] = "succeeded"
    BY <1>1, <1>2 DEF OrderInv
  <2> QED
    BY <1>1, <2>1
<1>3. out_edges' = StepEdges(loaded')
  BY DEF OrderInv
<1> QED
  BY <1>2, <1>3 DEF OrderInv

LEMMA OrderKeeps == ASSUME TypeOK, OrderInv, [Next]_vars PROVE OrderInv'
<1>1. ASSUME UNCHANGED <<phase, out_edges, loaded, status>> PROVE OrderInv'
  BY <1>1 DEF OrderInv
<1>2. ASSUME phase' = "idle" PROVE OrderInv'
  BY <1>2 DEF OrderInv
<1>3. CASE Count
  <2>1. phase # "idle" /\ UNCHANGED <<out_edges, loaded, status>>
    BY <1>3 DEF Count, setup
  <2> QED
    BY <2>1 DEF OrderInv
<1>4. ASSUME NEW n \in BOOLEAN, NEW k \in BOOLEAN, StartBuild(n, k) PROVE OrderInv'
  <2>1. out_edges' = StepEdges(loaded') /\ status' = [o \in Step |-> "pending"]
    BY <1>4, ParseFacts DEF StartBuild
  <2> QED
    BY <2>1 DEF OrderInv
<1>6. ASSUME NEW o \in Step, Begin(o) PROVE OrderInv'
  <2>1. /\ Order!Start(o) /\ phase # "idle" /\ "running" \in FlagType /\ loaded' = loaded
    BY <1>6 DEF Begin, FlagType, setup
  <2>2. /\ status' = [status EXCEPT ![o] = "running"] /\ status[o] = "pending"
        /\ UNCHANGED out_edges
        /\ \A u \in Step : o \in ToSet(out_edges[u]) => status[u] = "succeeded"
    BY <2>1, StartFacts
  <2> QED
    BY <2>1, <2>2, MovesKeepOrder
<1>7. ASSUME NEW o \in Step, NEW to \in {"succeeded", "failed"}, phase # "idle",
             Order!Finish(o), status'[o] = to, loaded' = loaded
      PROVE  OrderInv'
  <2>1. /\ status' = [status EXCEPT ![o] = to] /\ status[o] = "running"
        /\ UNCHANGED out_edges /\ to \in FlagType
    BY <1>7, FinishFacts DEF FlagType
  <2>2. \A u \in Step : o \in ToSet(out_edges[u]) => status[u] = "succeeded"
    BY <1>7, <2>1 DEF OrderInv
  <2> QED
    BY <1>7, <2>1, <2>2, MovesKeepOrder
<1>8. ASSUME NEW o \in Step, EndIdle(o) \/ EndOfTool(o) \/ FailureOfTool(o) PROVE OrderInv'
  <2>1. PICK to \in {"succeeded", "failed"} : Order!Finish(o) /\ status'[o] = to
    BY <1>8 DEF EndIdle, EndOfTool, FailureOfTool
  <2>2. UNCHANGED <<loaded, phase>>
    BY <1>8 DEF EndIdle, EndOfTool, FailureOfTool, setup
  <2> QED
    BY <1>2, <1>7, <2>1, <2>2
<1>9. CASE UNCHANGED vars \/ Tick \/ \E f \in File : Edit(f) \/ Delete(f)
  BY <1>1, <1>9 DEF vars, setup, Tick, Edit, Delete
<1>10. CASE Clean \/ Return
  BY <1>2, <1>10 DEF Clean, Return, EndOfProcess
<1>11. CASE Crash \/ \E o \in Step : RemovedWhileAsked(o)
  <2>1. PICK lost \in SUBSET Step : Killed(lost)
    BY <1>11, Kills, FreshnessAssumption
  <2> QED
    BY <1>2, <2>1, KilledFacts DEF EndOfProcess
<1> QED
  BY <1>3, <1>4, <1>6, <1>8, <1>9, <1>10, <1>11, Touched DEF Next, BuildStep, Disturbance

\* A running step does not read, but by its includes, what another step still
\* has to write.
LEMMA RunningReads ==
  ASSUME TypeOK, OrderInv, phase # "idle", NEW o \in Step, status[o] # "pending",
         NEW p \in Step, status[p] # "succeeded"
  PROVE  p \notin ToSet(Inputs[o]) /\ p \notin ToSet(Opaque[o]) /\ p # Manifest
<1>1. o \notin ToSet(out_edges[p]) /\ out_edges = StepEdges(loaded)
  BY DEF OrderInv
<1>2. p # Manifest
  BY NumberFacts
<1> QED
  BY <1>1, <1>2, EdgeFacts

LEMMA LateKeeps ==
  ASSUME TypeOK, CountInv, OrderInv, LateInv, [Next]_vars PROVE LateInv'
<1>1. ASSUME UNCHANGED <<phase, ran, dry_run, status, overtaken, disturbed>> PROVE LateInv'
  BY <1>1 DEF LateInv, Active
<1>2. CASE UNCHANGED vars \/ Tick
  BY <1>1, <1>2 DEF vars, setup, progress, history, Tick
<1>3. CASE Count
  BY <1>3 DEF Count, LateInv, history
<1>4. ASSUME NEW n \in BOOLEAN, NEW k \in BOOLEAN, StartBuild(n, k) PROVE LateInv'
  BY <1>4 DEF StartBuild, LateInv
<1>5. ASSUME NEW o \in Step, Begin(o) PROVE LateInv'
  BY <1>5 DEF Begin, LateInv, history
<1>6. ASSUME NEW o \in Step, EndIdle(o) PROVE LateInv'
  BY <1>6 DEF EndIdle, LateInv, history
<1>7. CASE Return
  <2>1. phase' = "idle" /\ overtaken' = {} /\ UNCHANGED <<ran, dry_run, status>>
        /\ \A o \in Step : status[o] # "running"
    BY <1>7 DEF Return, EndOfProcess, Order!Conclude, Order!MayStop
  <2>2. ran \subseteq Step
    BY DEF TypeOK
  <2> QED
    BY <2>1, <2>2 DEF LateInv, Active
<1>8. CASE Clean
  BY <1>8 DEF Clean, LateInv, Active, progress
<1>9. ASSUME NEW f \in File, Edit(f) \/ Delete(f) PROVE LateInv'
  <2>1. disturbed' /\ UNCHANGED <<phase, ran, dry_run, status>> /\ Changed({f}, {})
    BY <1>9 DEF Edit, Delete, setup, progress
  <2>2. PICK late \in SUBSET {o \in Active : {f} \cap Reads(o) # {}} :
          overtaken' = (overtaken \cup late \cup (IF Manifest \in {f} THEN Bound ELSE {})) \ {}
    BY <2>1 DEF Changed
  <2>3. phase = "idle" => Bound = Active
    BY DEF Bound
  <2>4. Active' = Active
    BY <2>1 DEF Active
  <2> QED
    BY <2>1, <2>2, <2>3, <2>4 DEF LateInv
<1>10. ASSUME NEW o \in Step, EndOfTool(o) \/ FailureOfTool(o) PROVE LateInv'
  <2>1. PICK files : Changed(files, {o}) /\ Manifest \notin files /\ files \subseteq {o}
    <3>1. CASE EndOfTool(o)
      BY <3>1, NumberFacts DEF EndOfTool
    <3>2. CASE FailureOfTool(o)
      <4>1. Unfinished({o}, {}, {o})
        BY <3>2 DEF FailureOfTool
      <4>2. PICK gone \in SUBSET {o}, partial \in SUBSET {o} : Changed(gone \cup {} \cup partial, {o})
        BY <4>1, UnfinishedFacts
      <4> QED
        BY <4>2, NumberFacts
    <3> QED
      BY <1>10, <3>1, <3>2
  <2>2. PICK late \in SUBSET {x \in Active : files \cap Reads(x) # {}} :
          overtaken' = (overtaken \cup late) \ {o}
    BY <2>1 DEF Changed
  <2>3. PICK to \in {"succeeded", "failed"} : Order!Finish(o) /\ status'[o] = to
    BY <1>10 DEF EndOfTool, FailureOfTool
  <2>4. status[o] = "running" /\ \A x \in Step : x # o => status'[x] = status[x]
    BY <2>3, FinishFacts
  <2>5. UNCHANGED <<phase, ran, dry_run>> /\ (disturbed' = disturbed \/ disturbed')
    BY <1>10 DEF EndOfTool, FailureOfTool, setup, progress
  <2>6. Active' = Active \ {o}
    <3>1. ran \subseteq Step /\ status'[o] # "running"
      BY <2>3 DEF TypeOK
    <3> QED
      BY <2>4, <2>5, <3>1 DEF Active
  <2>7. ASSUME phase # "idle" PROVE late \subseteq Compile
    <3> SUFFICES ASSUME NEW x \in late, x \notin Compile PROVE FALSE
      OBVIOUS
    <3>1. x \in Step /\ status[x] = "running" /\ o \in Reads(x)
      BY <2>1, <2>2, ActiveSteps, ActiveFacts
    <3>2. o \notin ToSet(Inputs[x]) /\ o \notin ToSet(Opaque[x]) /\ o # Manifest
      BY <2>4, <2>7, <3>1, RunningReads
    <3> QED
      BY <3>1, <3>2 DEF Reads
  <2> QED
    BY <2>2, <2>5, <2>6, <2>7 DEF LateInv
<1>11. CASE Crash \/ \E o \in Step : RemovedWhileAsked(o)
  <2>1. PICK lost \in SUBSET Step : Killed(lost)
    BY <1>11, Kills, FreshnessAssumption
  <2>2. phase # "idle"
    BY <1>11, Kills, FreshnessAssumption
  <2>3. PICK orphans \in SUBSET Active :
          /\ EndOfProcess(orphans)
          /\ status' = [o \in Step |-> IF o \in Active \ orphans THEN "failed" ELSE status[o]]
          /\ Unfinished(Active \ orphans, lost, Step \ orphans)
          /\ disturbed' = TRUE
    BY <2>1, KilledFacts
  <2>4. phase' = "idle" /\ UNCHANGED <<dry_run, ran>>
    BY <2>3 DEF EndOfProcess
  <2>5. PICK files : Changed(files, Step \ orphans)
    BY <2>3, UnfinishedFacts
  <2>6. overtaken' \cap (Step \ orphans) = {} /\ overtaken' \subseteq Step
    BY <2>5, ChangedTypes DEF Changed
  <2>7. Active' = orphans
    <3>1. \A o \in Step : status'[o] = "running" <=> status[o] = "running" /\ (o \in Active => o \in orphans)
      BY <2>3
    <3>2. ran \subseteq Step /\ orphans \subseteq Active
      BY DEF TypeOK
    <3> QED
      BY <2>4, <3>1, <3>2 DEF Active
  <2> QED
    BY <2>3, <2>4, <2>6, <2>7 DEF LateInv
<1> QED
  BY <1>2, <1>3, <1>4, <1>5, <1>6, <1>7, <1>8, <1>9, <1>10, <1>11, Touched
    DEF Next, BuildStep, Disturbance

\* No tool writes what a finished step of this invocation has read, if that
\* step waited for it.
LEMMA DoneAtEndOfTool ==
  ASSUME TypeOK, TypeOK', OrderInv, LateInv, DoneInv, NEW o \in Step, EndOfTool(o)
  PROVE  DoneInv'
<1> SUFFICES ASSUME ~disturbed', ~dry_run', phase' # "idle",
                    NEW x \in ran', status'[x] = "succeeded"
             PROVE  Exists(x)' /\ MadeInOrder(x)'
  BY DEF DoneInv
<1>1. status[o] = "running" /\ \A y \in Step : y # o => status'[y] = status[y]
  BY FinishFacts DEF EndOfTool
<1>2. UNCHANGED <<phase, dry_run, ran, out_edges, disturbed>> /\ phase # "idle" /\ x \in Step
  BY DEF EndOfTool, setup, progress, TypeOK
<1>3. /\ mtime'[o] = now /\ \A y \in Step : y # o => mtime'[y] = mtime[y]
      /\ now # Missing /\ o \in File
  BY NumberFacts DEF EndOfTool, TypeOK
<1>4. /\ unseen'[o] = overtaken \cap {o}
      /\ x # o => unseen'[x] = unseen[x] \cup ({o} \cap Reads(x))
  <2>1. {o} \in SUBSET File
    BY <1>3
  <2> QED
    BY <1>2, <2>1, UnseenAfterFacts DEF EndOfTool
<1>5. Changed({o}, {o})
  BY DEF EndOfTool
<1>6. CASE x = o
  <2>1. Exists(x)'
    BY <1>3, <1>6 DEF Exists
  <2> SUFFICES ASSUME Ordered(o)' PROVE unseen'[o] = {} /\ (o \in Compile => includes'[o] = depfile'[o])
    BY <1>6, <2>1 DEF MadeInOrder
  <2>2. o \notin overtaken
    <3>1. o \in overtaken => o \in Compile
      BY <1>2 DEF LateInv
    <3>2. o \in overtaken => o \in unseen'[o]
      BY <1>4
    <3> QED
      BY <3>1, <3>2 DEF Ordered
  <2>3. o \in Compile => includes'[o] = includes[o] /\ depfile'[o] = includes[o]
    <3> SUFFICES ASSUME o \in Compile
                 PROVE  includes'[o] = includes[o] /\ depfile'[o] = includes[o]
      OBVIOUS
    <3>1. includes'[o] = includes[o]
      BY <1>5, ChangedKeeps
    <3>2. depfile' = [depfile EXCEPT ![o] = includes[o]]
      BY <2>2 DEF EndOfTool
    <3> QED
      BY <3>1, <3>2 DEF TypeOK, Depfiles
  <2> QED
    BY <1>4, <2>2, <2>3
<1>7. CASE x # o
  <2>1. status[x] = "succeeded" /\ x \in ran
    BY <1>1, <1>2, <1>7
  <2>2. Exists(x) /\ MadeInOrder(x)
    BY <1>2, <2>1 DEF DoneInv
  <2>3. depfile'[x] = depfile[x]
    BY <1>2, <1>7 DEF EndOfTool, TypeOK, Depfiles
  <2>4. Exists(x)'
    BY <1>2, <1>3, <1>7, <2>2 DEF Exists
  <2>6. ASSUME Ordered(x)'
        PROVE  unseen'[x] = {} /\ (x \in Compile => includes'[x] = depfile'[x])
    <3>1. Ordered(x)
      BY <1>2, <1>4, <1>7, <2>3, <2>6 DEF Ordered
    <3>2. unseen[x] = {} /\ (x \in Compile => includes[x] = depfile[x])
      BY <2>2, <3>1 DEF MadeInOrder
    <3>3. o \notin ToSet(Inputs[x]) /\ o \notin ToSet(Opaque[x]) /\ o # Manifest
      BY <1>1, <1>2, <2>1, RunningReads
    <3>4. ASSUME x \in Compile, o \in ToSet(includes[x]) PROVE FALSE
      <4>1. o \in ToSet(depfile[x]) \cap Step
        BY <3>2, <3>4
      <4>2. x \in ToSet(out_edges[o])
        BY <3>1, <3>4, <4>1 DEF Ordered
      <4> QED
        BY <1>1, <1>2, <2>1, <4>2 DEF OrderInv
    <3>5. o \notin Reads(x)
      BY <3>3, <3>4 DEF Reads
    <3>6. x \in Compile => includes'[x] = includes[x]
      BY <1>5, <3>5, ChangedKeeps
    <3> QED
      BY <1>4, <1>7, <2>3, <3>2, <3>5, <3>6
  <2> QED
    BY <2>4, <2>6 DEF MadeInOrder
<1> QED
  BY <1>6, <1>7

LEMMA DoneKeeps ==
  ASSUME TypeOK, TypeOK', OrderInv, LateInv, DoneInv, [Next]_vars PROVE DoneInv'
<1>0. ran' \subseteq Step
  BY DEF TypeOK
<1>1. ASSUME UNCHANGED <<mtime, unseen, includes, depfile, out_edges, phase, dry_run, disturbed>>,
             \A o \in Step : o \in ran' /\ status'[o] = "succeeded" /\ ~dry_run /\ phase # "idle"
                              => o \in ran /\ status[o] = "succeeded"
      PROVE  DoneInv'
  <2>1. \A o : (Exists(o)' <=> Exists(o)) /\ (MadeInOrder(o)' <=> MadeInOrder(o))
    BY <1>1 DEF Exists, MadeInOrder, Ordered
  <2> QED
    BY <1>0, <1>1, <2>1 DEF DoneInv
<1>2. ASSUME disturbed' \/ phase' = "idle" PROVE DoneInv'
  BY <1>2 DEF DoneInv
<1>3. ASSUME NEW n \in BOOLEAN, NEW k \in BOOLEAN, StartBuild(n, k) PROVE DoneInv'
  BY <1>3 DEF StartBuild, DoneInv
<1>4. CASE Count
  <2>1. phase # "idle" /\ phase' # "idle"
    BY <1>4 DEF Count
  <2>2. UNCHANGED <<mtime, unseen, includes, depfile, out_edges, dry_run, ran, status, disturbed>>
    BY <1>4 DEF Count, disk, setup, history
  <2>3. \A o : (Exists(o)' <=> Exists(o)) /\ (MadeInOrder(o)' <=> MadeInOrder(o))
    BY <2>2 DEF Exists, MadeInOrder, Ordered
  <2> QED
    BY <2>1, <2>2, <2>3 DEF DoneInv
<1>5. ASSUME NEW o \in Step, Begin(o) PROVE DoneInv'
  <2>1. status'[o] = "running" /\ \A x \in Step : x # o => status'[x] = status[x]
    BY <1>5, StartFacts DEF Begin
  <2>2. /\ UNCHANGED <<mtime, unseen, includes, depfile, phase, dry_run, disturbed, out_edges>>
        /\ \A x \in Step : x # o => (x \in ran' <=> x \in ran)
    BY <1>5 DEF Begin, disk, setup, history
  <2> QED
    BY <1>1, <2>1, <2>2
<1>6. ASSUME NEW o \in Step, EndIdle(o) PROVE DoneInv'
  <2>1. status[o] = "running" /\ \A x \in Step : x # o => status'[x] = status[x]
    BY <1>6, FinishFacts DEF EndIdle
  <2>2. /\ UNCHANGED <<mtime, unseen, includes, depfile, phase, dry_run, ran, disturbed, out_edges>>
        /\ phase = "building"
    BY <1>6 DEF EndIdle, disk, setup, progress, history
  <2>3. o \notin ran \/ dry_run
    BY <1>6, <2>1, <2>2 DEF EndIdle, Active
  <2> QED
    BY <1>1, <2>1, <2>2, <2>3
<1>7. CASE UNCHANGED vars \/ Tick
  BY <1>1, <1>7 DEF vars, disk, setup, progress, history, Tick
<1>8. CASE Return \/ Clean \/ \E f \in File : Edit(f) \/ Delete(f)
  BY <1>2, <1>8 DEF Return, EndOfProcess, Clean, Edit, Delete
<1>9. CASE \E o \in Step : FailureOfTool(o)
  BY <1>2, <1>9 DEF FailureOfTool
<1>10. CASE Crash \/ \E o \in Step : RemovedWhileAsked(o)
  <2>1. PICK lost \in SUBSET Step : Killed(lost)
    BY <1>10, Kills, FreshnessAssumption
  <2> QED
    BY <1>2, <2>1, KilledFacts
<1> QED
  BY <1>3, <1>4, <1>5, <1>6, <1>7, <1>8, <1>9, <1>10, DoneAtEndOfTool, Touched
    DEF Next, BuildStep, Disturbance

LEMMA CleanBuildKeeps ==
  ASSUME PInv, LateInv, DoneInv, CleanBuildIsFresh, [Next]_vars PROVE CleanBuildIsFresh'
<1>1. ASSUME UNCHANGED <<mtime, unseen, depfile, out_edges, phase, dry_run, counted, verdict,
                         disturbed>>
      PROVE  CleanBuildIsFresh'
  BY <1>1 DEF CleanBuildIsFresh, Finished, Exists, Ordered
<1>2. ASSUME disturbed' \/ phase' # "idle" PROVE CleanBuildIsFresh'
  BY <1>2 DEF CleanBuildIsFresh, Finished
<1>3. CASE Return
  <2>1. /\ phase = "building"
        /\ UNCHANGED <<mtime, unseen, depfile, out_edges, dry_run, counted, disturbed>>
    BY <1>3 DEF Return, EndOfProcess, disk
  <2>2. verdict' = "ok" => \A o \in Step : status[o] = "succeeded"
    BY <1>3 DEF Return, Order!Conclude, Order!VerdictOf
  <2> SUFFICES ASSUME verdict' = "ok", ~dry_run, ~disturbed, counted = Step, NEW o \in Step
               PROVE  Exists(o)' /\ (Ordered(o)' => unseen'[o] = {})
    BY <2>1 DEF CleanBuildIsFresh, Finished
  <2>3. status[o] = "succeeded" /\ o \in ran
    BY <2>1, <2>2 DEF PInv, CountInv
  <2>4. (Exists(o)' <=> Exists(o)) /\ (Ordered(o)' <=> Ordered(o))
    BY <2>1 DEF Exists, Ordered
  <2> QED
    BY <2>1, <2>3, <2>4 DEF DoneInv, MadeInOrder
<1>4. ASSUME NEW n \in BOOLEAN, NEW k \in BOOLEAN, StartBuild(n, k) PROVE CleanBuildIsFresh'
  BY <1>2, <1>4 DEF StartBuild
<1>5. CASE Count
  BY <1>2, <1>5 DEF Count
<1>6. ASSUME NEW o \in Step, Begin(o) \/ EndIdle(o) PROVE CleanBuildIsFresh'
  BY <1>2, <1>6 DEF Begin, EndIdle
<1>7. ASSUME NEW o \in Step, EndOfTool(o) PROVE CleanBuildIsFresh'
  <2>1. UNCHANGED <<phase, disturbed>> /\ o \in Active
    BY <1>7 DEF EndOfTool
  <2>2. phase = "idle" => disturbed
    BY <2>1 DEF LateInv
  <2> QED
    BY <1>2, <2>1, <2>2
<1>8. CASE UNCHANGED vars \/ Tick
  BY <1>1, <1>8 DEF vars, disk, setup, progress, history, Tick
<1>9. CASE Clean \/ (\E f \in File : Edit(f) \/ Delete(f)) \/ \E o \in Step : FailureOfTool(o)
  BY <1>2, <1>9 DEF Clean, Edit, Delete, FailureOfTool
<1>10. CASE Crash \/ \E o \in Step : RemovedWhileAsked(o)
  <2>1. PICK lost \in SUBSET Step : Killed(lost)
    BY <1>10, Kills, FreshnessAssumption
  <2> QED
    BY <1>2, <2>1, KilledFacts
<1> QED
  BY <1>3, <1>4, <1>5, <1>6, <1>7, <1>8, <1>9, <1>10, Touched DEF Next, BuildStep, Disturbance

FullInv == PInv /\ OrderInv /\ LateInv /\ DoneInv /\ CleanBuildIsFresh

LEMMA InitFull == Init => FullInv
<1> SUFFICES ASSUME Init PROVE FullInv
  OBVIOUS
<1>1. PInv
  BY InitTypes, InitCounts DEF PInv
<1>2. LateInv
  BY DEF Init, LateInv, Active
<1> QED
  BY <1>1, <1>2 DEF Init, FullInv, OrderInv, DoneInv, CleanBuildIsFresh, Finished

LEMMA AlwaysFull == Spec => []FullInv
<1>1. Init => FullInv
  BY InitFull
<1>2. FullInv /\ [Next]_vars => FullInv'
  <2> SUFFICES ASSUME FullInv, [Next]_vars PROVE FullInv'
    OBVIOUS
  <2>1. PInv /\ TypeOK /\ CountInv /\ OrderInv /\ LateInv /\ DoneInv /\ CleanBuildIsFresh
    BY DEF FullInv, PInv
  <2>2. TypeOK' /\ CountInv'
    BY <2>1, TypesKeep, CountsKeep
  <2>3. OrderInv' /\ LateInv' /\ DoneInv' /\ CleanBuildIsFresh'
    BY <2>1, <2>2, OrderKeeps, LateKeeps, DoneKeeps, CleanBuildKeeps
  <2> QED
    BY <2>2, <2>3 DEF FullInv, PInv
<1> QED
  BY <1>1, <1>2, PTL DEF Spec

\* A build that had to run every step, which nobody disturbed and which
\* succeeds, leaves every output made from the last contents of what it waited
\* for, also with a graph from .catalyst.bin: the schedule follows the edges.
THEOREM CleanBuildsAreFresh == Spec => []CleanBuildIsFresh
<1>1. FullInv => CleanBuildIsFresh
  BY DEF FullInv
<1> QED
  BY <1>1, AlwaysFull, PTL

=============================================================================
