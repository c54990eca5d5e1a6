-------------------------- MODULE StatCacheProofs --------------------------
(***************************************************************************)
(* Any number of threads may race inside get_or_update on any number of    *)
(* paths: the vector stays sorted, which is what makes lower_bound right,  *)
(* the answers for a path never go back, and a path is stated at most once *)
(* per thread.                                                             *)
(***************************************************************************)
EXTENDS StatCache, FiniteSetTheorems, WellFoundedInduction, TLAPS

Time == Error .. MaxTime

Entry == [path : Path, time : Time]

Types ==
  /\ disk \in [Path -> Time]
  /\ cache \in Seq(Entry)
  /\ pc \in [Thread -> {"idle", "missed", "lookup"}]
  /\ arg \in [Thread -> Path]
  /\ reply \in [Thread -> Time]
  /\ answered \in [Path -> Time]
  /\ floor \in [Thread -> Time]
  /\ stats \in [Path -> Nat]

\* No entry and no answer is later than the file, and an answer that was given
\* is still in the vector, or a later one is.
TimesInv ==
  /\ \A i \in DOMAIN cache : cache[i].time <= disk[cache[i].path]
  /\ \A p \in Path : answered[p] <= disk[p]
  /\ \A p \in Path : answered[p] # Error =>
       \E i \in DOMAIN cache : cache[i].path = p /\ cache[i].time >= answered[p]
  /\ \A t \in Thread : floor[t] <= answered[arg[t]]

EntriesOf(p) == {i \in DOMAIN cache : cache[i].path = p}

\* The threads about to stat p.
Missing(p) == {t \in Thread : pc[t] = "missed" /\ arg[t] = p}

StatsInv ==
  \A p \in Path :
    /\ stats[p] = Cardinality(EntriesOf(p))
    /\ stats[p] + Cardinality(Missing(p)) <= Cardinality(Thread)

SInv == Types /\ CacheSorted /\ TimesInv /\ StatsInv

-----------------------------------------------------------------------------
(* The sorted vector. *)

\* Any nonempty set of natural numbers has a least element.
LEMMA LeastNumber ==
  ASSUME NEW T, T \subseteq Nat, T # {}
  PROVE  \E x \in T : \A y \in T : x <= y
<1>1. PICK R : /\ IsWellFoundedOn(R, Nat)
               /\ \A x, y \in Nat : x < y => <<x, y>> \in R
  <2>1. IsWellFoundedOn(OpToRel(<, Nat), Nat)
    BY NatLessThanWellFounded, Zenon
  <2>2. \A x, y \in Nat : x < y => <<x, y>> \in OpToRel(<, Nat)
    BY DEF OpToRel
  <2> QED
    BY <2>1, <2>2, Zenon
<1>2. PICK x \in T : \A y \in T : ~ (<<y, x>> \in R)
  <2>1. T \subseteq Nat /\ T # {} /\ IsWellFoundedOn(R, Nat)
    BY <1>1
  <2> QED
    BY <2>1, WFMin, Zenon
<1>3. \A y \in T : ~ (y < x)
  BY <1>1, <1>2
<1> QED
  BY <1>3

\* A set of positions that holds every position below its own is a prefix.
LEMMA PrefixByCardinality ==
  ASSUME NEW n \in Nat, NEW S \in SUBSET (1 .. n),
         \A i \in S : \A j \in 1 .. n : j < i => j \in S
  PROVE  Cardinality(S) \in 0 .. n /\ S = 1 .. Cardinality(S)
<1> DEFINE c == Cardinality(S)
<1>1. IsFiniteSet(1 .. n) /\ Cardinality(1 .. n) = n
  BY FS_Interval
<1>2. IsFiniteSet(S) /\ c \in Nat /\ c <= n
  BY <1>1, FS_Subset, FS_CardinalityType
<1>3. S \subseteq 1 .. c
  <2> SUFFICES ASSUME NEW i \in S PROVE i <= c
    BY <1>2
  <2>1. 1 .. i \subseteq S
    OBVIOUS
  <2>2. i \in Nat
    OBVIOUS
  <2>3. Cardinality(1 .. i) = i
    BY <2>2, FS_Interval
  <2>4. Cardinality(1 .. i) <= c
    BY <2>1, <1>2, FS_Subset
  <2> QED
    BY <2>3, <2>4
<1>4. IsFiniteSet(1 .. c) /\ Cardinality(1 .. c) = c
  BY <1>2, FS_Interval
<1>5. 1 .. c = S
  BY <1>3, <1>4, FS_Subset
<1> QED
  BY <1>1, <1>2, <1>5

\* The types of an entry.
LEMMA EntryFacts ==
  ASSUME Types
  PROVE  /\ Len(cache) \in Nat /\ DOMAIN cache = 1 .. Len(cache)
         /\ \A i \in 1 .. Len(cache) :
              /\ cache[i].path \in Path /\ cache[i].path \in Nat
              /\ cache[i].time \in Time /\ cache[i].time \in Nat
<1>1. \A i \in 1 .. Len(cache) : cache[i] \in Entry
  BY DEF Types
<1>2. \A x \in Entry : x.path \in Path /\ x.time \in Time
  BY DEF Entry
<1>3. Path \subseteq Nat /\ Time \subseteq Nat
  BY StatCacheAssumption DEF Path, Time, Error
<1>4. Len(cache) \in Nat /\ DOMAIN cache = 1 .. Len(cache)
  BY DEF Types
<1> QED
  BY <1>1, <1>2, <1>3, <1>4

\* lower_bound: the positions before it hold the lesser paths.
LEMMA LowerBoundFacts ==
  ASSUME Types, CacheSorted, NEW p \in Path
  PROVE  /\ Len(cache) \in Nat /\ DOMAIN cache = 1 .. Len(cache)
         /\ LowerBound(p) \in 1 .. Len(cache) + 1
         /\ \A i \in 1 .. Len(cache) :
              /\ cache[i].path \in Nat /\ cache[i].time \in Time
              /\ cache[i].path < p <=> i < LowerBound(p)
<1> DEFINE n == Len(cache)
           S == {i \in DOMAIN cache : cache[i].path < p}
<1>1. n \in Nat /\ DOMAIN cache = 1 .. n
  BY DEF Types
<1>2. \A i \in 1 .. n : cache[i].path \in Nat /\ cache[i].time \in Time
  BY EntryFacts
<1>3. p \in Nat
  BY DEF Path
<1>4. S \in SUBSET (1 .. n)
  BY <1>1
<1>5. \A i \in S : \A j \in 1 .. n : j < i => j \in S
  BY <1>1, <1>2, <1>3 DEF CacheSorted
<1> HIDE DEF S, n
<1>6. Cardinality(S) \in 0 .. n /\ S = 1 .. Cardinality(S)
  BY <1>1, <1>4, <1>5, PrefixByCardinality
<1>7. LowerBound(p) = Cardinality(S) + 1
  BY DEF LowerBound, S
<1>8. \A i \in 1 .. n : cache[i].path < p <=> i \in S
  BY <1>1 DEF S
<1> QED
  BY <1>1, <1>2, <1>6, <1>7, <1>8 DEF n

\* The vector with an entry put in at position k.
LEMMA InsertFacts ==
  ASSUME cache \in Seq(Entry), NEW k \in 1 .. Len(cache) + 1, NEW e \in Entry
  PROVE  /\ InsertAt(k, e) \in Seq(Entry)
         /\ Len(InsertAt(k, e)) = Len(cache) + 1
         /\ InsertAt(k, e)[k] = e
         /\ \A i \in 1 .. Len(cache) + 1 :
              /\ i < k => InsertAt(k, e)[i] = cache[i]
              /\ i > k => InsertAt(k, e)[i] = cache[i - 1]
<1> DEFINE n == Len(cache)
           a == SubSeq(cache, 1, k - 1)
           b == SubSeq(cache, k, n)
<1>1. n \in Nat
  OBVIOUS
<1>2. /\ a \in Seq(Entry) /\ Len(a) = k - 1
      /\ \A i \in 1 .. k - 1 : a[i] = cache[i]
  BY <1>1
<1>3. /\ b \in Seq(Entry) /\ Len(b) = n + 1 - k
      /\ \A i \in 1 .. n + 1 - k : b[i] = cache[k + i - 1]
  BY <1>1
<1> HIDE DEF a, b
<1> DEFINE d == a \o <<e>>
<1>4. /\ d \in Seq(Entry) /\ Len(d) = k /\ d[k] = e
      /\ \A i \in 1 .. k - 1 : d[i] = cache[i]
  BY <1>2
<1> HIDE DEF d
<1>5. InsertAt(k, e) = d \o b
  BY <1>2, <1>3 DEF InsertAt, a, b, d
<1>6. d \o b \in Seq(Entry) /\ Len(d \o b) = n + 1
  BY <1>1, <1>3, <1>4
<1>7. \A i \in 1 .. n + 1 :
        (d \o b)[i] = IF i <= k THEN d[i] ELSE b[i - k]
  BY <1>1, <1>3, <1>4
<1>8. \A i \in 1 .. n + 1 : i > k =>
        /\ i - k \in 1 .. n + 1 - k
        /\ k + (i - k) - 1 = i - 1
  BY <1>1
<1> HIDE DEF n
<1>9. \A i \in 1 .. n + 1 : i < k => InsertAt(k, e)[i] = cache[i]
  BY <1>1, <1>4, <1>5, <1>7
<1>10. \A i \in 1 .. n + 1 : i > k => InsertAt(k, e)[i] = cache[i - 1]
  <2> SUFFICES ASSUME NEW i \in 1 .. n + 1, i > k
               PROVE  InsertAt(k, e)[i] = cache[i - 1]
    OBVIOUS
  <2>0. ~(i <= k)
    BY <1>1
  <2>1. InsertAt(k, e)[i] = b[i - k]
    BY <2>0, <1>5, <1>7
  <2>2. b[i - k] = cache[k + (i - k) - 1]
    BY <1>3, <1>8
  <2> QED
    BY <2>1, <2>2, <1>8
<1>11. InsertAt(k, e)[k] = e
  BY <1>1, <1>4, <1>5, <1>7
<1> QED
  BY <1>5, <1>6, <1>9, <1>10, <1>11 DEF n

\* lower_bound finds a path that is there, and its latest stat.
LEMMA FirstEntry ==
  ASSUME Types, CacheSorted, NEW i \in DOMAIN cache
  PROVE  LET p == cache[i].path IN
         Found(p) /\ cache[LowerBound(p)].time >= cache[i].time
<1> DEFINE p == cache[i].path
           k == LowerBound(p)
<1>1. /\ Len(cache) \in Nat /\ DOMAIN cache = 1 .. Len(cache)
      /\ p \in Path /\ p \in Nat
  BY EntryFacts
<1>2. /\ k \in 1 .. Len(cache) + 1
      /\ \A j \in 1 .. Len(cache) : cache[j].path < p <=> j < k
  BY <1>1, LowerBoundFacts
<1>3. k <= i
  BY <1>1, <1>2
<1>4. k \in 1 .. Len(cache)
  BY <1>1, <1>2, <1>3
<1>5. /\ cache[k].path \in Nat /\ ~(cache[k].path < p)
      /\ cache[k].time \in Nat
  BY <1>2, <1>4, EntryFacts
<1>6. CASE k = i
  BY <1>1, <1>4, <1>5, <1>6 DEF Found
<1>7. CASE k < i
  <2>1. cache[k].path = p /\ cache[k].time >= cache[i].time
    BY <1>1, <1>4, <1>5, <1>7 DEF CacheSorted
  <2> QED
    BY <2>1, <1>4 DEF Found
<1> QED
  BY <1>1, <1>2, <1>3, <1>6, <1>7

-----------------------------------------------------------------------------
(* Steps. *)

\* A set of threads is finite.
LEMMA MissingFacts ==
  ASSUME NEW p
  PROVE  /\ IsFiniteSet(Missing(p)) /\ Cardinality(Missing(p)) \in Nat
         /\ Cardinality(Missing(p)) <= Cardinality(Thread)
         /\ Cardinality(Thread) \in Nat
  BY StatCacheAssumption, FS_Subset, FS_CardinalityType DEF Missing

LEMMA Initially == Init => SInv
<1> SUFFICES ASSUME Init PROVE SInv
  OBVIOUS
<1>1. Types
  <2>1. Error \in Time
    BY StatCacheAssumption DEF Time, Error
  <2>2. arg \in [Thread -> Path]
    BY StatCacheAssumption DEF Init, Path
  <2> QED
    BY <2>1, <2>2 DEF Init, Types, Time
<1>2. cache = <<>> /\ DOMAIN cache = {}
  BY DEF Init
<1>3. CacheSorted
  BY <1>2 DEF CacheSorted
<1>4. TimesInv
  <2>1. \A p \in Path : disk[p] \in Nat
    BY <1>1 DEF Types, Time, Error
  <2> QED
    BY <1>1, <1>2, <2>1 DEF Init, TimesInv, Types, Error
<1>5. StatsInv
  <2> SUFFICES ASSUME NEW p \in Path
               PROVE  /\ stats[p] = Cardinality(EntriesOf(p))
                      /\ stats[p] + Cardinality(Missing(p))
                           <= Cardinality(Thread)
    BY DEF StatsInv
  <2>1. EntriesOf(p) = {} /\ stats[p] = 0
    BY <1>2 DEF EntriesOf, Init
  <2> QED
    BY <2>1, FS_EmptySet, MissingFacts
<1> QED
  BY <1>1, <1>3, <1>4, <1>5 DEF SInv

LEMMA WriteKeeps == ASSUME SInv, NEW p \in Path, Write(p) PROVE SInv'
<1> USE DEF SInv
<1>1. PICK m \in (disk[p] + 1) .. MaxTime : disk' = [disk EXCEPT ![p] = m]
  BY DEF Write
<1>2. UNCHANGED <<cache, pc, arg, reply, answered, floor, stats>>
  BY DEF Write
<1>3. \A q \in Path : disk[q] \in Time /\ disk[q] \in Nat /\ answered[q] \in Nat
  BY DEF Types, Time, Error
<1>4. m \in Time /\ m \in Nat /\ m > disk[p]
  BY <1>1, <1>3, StatCacheAssumption DEF Time, Error
<1>5. Types'
  BY <1>1, <1>2, <1>4 DEF Types
<1>6. \A q \in Path : disk'[q] \in Nat /\ disk'[q] >= disk[q]
  BY <1>1, <1>3, <1>4 DEF Types
<1>7. TimesInv'
  <2>1. \A i \in DOMAIN cache : cache[i].time <= disk'[cache[i].path]
    BY <1>3, <1>6, EntryFacts DEF TimesInv
  <2>2. \A q \in Path : answered[q] <= disk'[q]
    BY <1>3, <1>6 DEF TimesInv
  <2> QED
    BY <1>2, <2>1, <2>2 DEF TimesInv
<1>8. CacheSorted' /\ StatsInv'
  BY <1>2 DEF CacheSorted, StatsInv, EntriesOf, Missing
<1> QED
  BY <1>5, <1>7, <1>8

LEMMA CallKeeps ==
  ASSUME SInv, NEW t \in Thread, NEW p \in Path, Call(t, p) PROVE SInv'
<1> USE DEF SInv
<1>1. /\ pc[t] = "idle" /\ pc' = [pc EXCEPT ![t] = "lookup"]
      /\ arg' = [arg EXCEPT ![t] = p]
      /\ floor' = [floor EXCEPT ![t] = answered[p]]
      /\ UNCHANGED <<disk, cache, reply, answered, stats>>
  BY DEF Call
<1>2. Types'
  BY <1>1 DEF Types
<1>3. TimesInv'
  <2>1. \A u \in Thread : floor'[u] <= answered[arg'[u]]
    <3> TAKE u \in Thread
    <3>1. CASE u = t
      <4>1. answered[p] \in Nat /\ floor'[u] = answered[p] /\ arg'[u] = p
        BY <1>1, <3>1 DEF Types, Time, Error
      <4> QED
        BY <4>1
    <3>2. CASE u # t
      BY <1>1, <3>2 DEF Types, TimesInv
    <3> QED
      BY <3>1, <3>2
  <2> QED
    BY <1>1, <2>1 DEF TimesInv
<1>4. \A q \in Path : Missing(q)' = Missing(q)
  BY <1>1 DEF Missing, Types
<1>5. CacheSorted' /\ StatsInv'
  BY <1>1, <1>4 DEF CacheSorted, StatsInv, EntriesOf
<1> QED
  BY <1>2, <1>3, <1>5

\* What a call that returns m leaves behind.
LEMMA AnswerFacts ==
  ASSUME Types, NEW t \in Thread, NEW m \in Time, Answer(t, m)
  PROVE  /\ pc' \in [Thread -> {"idle", "missed", "lookup"}]
         /\ reply' \in [Thread -> Time] /\ reply'[t] = m
         /\ answered' \in [Path -> Time]
         /\ \A q \in Path : answered'[q] = answered[q] \/ answered'[q] = m
         /\ \A q \in Path : q # arg[t] => answered'[q] = answered[q]
         /\ \A q \in Path : answered'[q] >= answered[q]
         /\ \A u \in Thread : pc'[u] = IF u = t THEN "idle" ELSE pc[u]
<1>1. \A q \in Path : answered[q] \in Nat
  BY DEF Types, Time, Error
<1>2. m \in Nat
  BY DEF Time, Error
<1>3. answered' =
        [answered EXCEPT ![arg[t]] = IF m > @ THEN m ELSE @]
  BY DEF Answer
<1>4. arg[t] \in Path
  BY DEF Types
<1>5. \A q \in Path :
        answered'[q] = IF q = arg[t] /\ m > answered[q] THEN m ELSE answered[q]
  BY <1>3, <1>4 DEF Types
<1>6. answered' \in [Path -> Time]
  BY <1>3, <1>4 DEF Types
<1>7. \A q \in Path : answered'[q] >= answered[q]
  BY <1>1, <1>2, <1>5
<1> QED
  BY <1>5, <1>6, <1>7 DEF Answer, Types

\* The answer of a hit is the latest time stated for the path.
LEMMA HitFacts ==
  ASSUME SInv, NEW p \in Path, Found(p)
  PROVE  LET k == LowerBound(p) IN
         /\ k \in DOMAIN cache /\ cache[k].path = p
         /\ cache[k].time \in Time
         /\ cache[k].time >= answered[p]
<1> DEFINE k == LowerBound(p)
<1>1. k \in 1 .. Len(cache) + 1 /\ DOMAIN cache = 1 .. Len(cache)
      /\ Len(cache) \in Nat
  BY LowerBoundFacts DEF SInv
<1>2. k \in DOMAIN cache /\ cache[k].path = p
  BY <1>1 DEF Found
<1> HIDE DEF k
<1>3. cache[k].time \in Time /\ cache[k].time \in Nat
  BY <1>1, <1>2, EntryFacts DEF SInv
<1>4. cache[k].time >= answered[p]
  <2>1. CASE answered[p] = Error
    BY <2>1, <1>3 DEF Error
  <2>2. CASE answered[p] # Error
    <3>1. PICK i \in DOMAIN cache :
            cache[i].path = p /\ cache[i].time >= answered[p]
      BY <2>2 DEF SInv, TimesInv
    <3>2. cache[k].time >= cache[i].time
      BY <3>1, FirstEntry DEF SInv, k
    <3>3. cache[i].time \in Nat /\ answered[p] \in Nat
      BY <1>1, EntryFacts DEF SInv, Types, Time, Error
    <3> QED
      BY <3>1, <3>2, <3>3, <1>3
  <2> QED
    BY <2>1, <2>2
<1> QED
  BY <1>2, <1>3, <1>4 DEF k

LEMMA HitKeeps == ASSUME SInv, NEW t \in Thread, Hit(t) PROVE SInv'
<1> USE DEF SInv
<1> DEFINE p == arg[t]
           k == LowerBound(p)
           m == cache[k].time
<1>1. /\ pc[t] = "lookup" /\ Found(p) /\ Answer(t, m)
      /\ UNCHANGED <<disk, cache, arg, floor, stats>>
  BY DEF Hit
<1>2. p \in Path
  BY DEF Types
<1>3. /\ k \in DOMAIN cache /\ cache[k].path = p
      /\ m \in Time /\ m >= answered[p]
  BY <1>1, <1>2, HitFacts
<1> HIDE DEF k, m
<1>4. /\ pc' \in [Thread -> {"idle", "missed", "lookup"}]
      /\ reply' \in [Thread -> Time] /\ reply'[t] = m
      /\ answered' \in [Path -> Time]
      /\ \A q \in Path : answered'[q] = answered[q] \/ answered'[q] = m
      /\ \A q \in Path : q # arg[t] => answered'[q] = answered[q]
      /\ \A q \in Path : answered'[q] >= answered[q]
      /\ \A u \in Thread : pc'[u] = IF u = t THEN "idle" ELSE pc[u]
  BY <1>1, <1>3, AnswerFacts
<1>5. Types'
  BY <1>1, <1>4 DEF Types
<1>6. TimesInv'
  <2>1. m = cache[k].time /\ m \in Nat /\ m <= disk[p]
    BY <1>3 DEF TimesInv, m, Time, Error
  <2>2. \A q \in Path : answered'[q] <= disk[q]
    BY <1>4, <2>1 DEF TimesInv
  <2>3. \A q \in Path : answered'[q] # Error =>
          \E i \in DOMAIN cache :
            cache[i].path = q /\ cache[i].time >= answered'[q]
    <3> SUFFICES ASSUME NEW q \in Path, answered'[q] # Error
                 PROVE  \E i \in DOMAIN cache :
                          cache[i].path = q /\ cache[i].time >= answered'[q]
      OBVIOUS
    <3>1. CASE answered'[q] = answered[q]
      BY <3>1 DEF TimesInv
    <3>2. CASE answered'[q] # answered[q]
      <4>1. q = p /\ answered'[q] = m
        BY <3>2, <1>4
      <4> QED
        BY <4>1, <2>1, <1>3
    <3> QED
      BY <3>1, <3>2
  <2>4. \A u \in Thread : floor[u] <= answered'[arg[u]]
    <3> TAKE u \in Thread
    <3>1. /\ floor[u] \in Nat /\ arg[u] \in Path
          /\ answered[arg[u]] \in Nat /\ answered'[arg[u]] \in Nat
      BY <1>4 DEF Types, Time, Error
    <3>2. floor[u] <= answered[arg[u]]
      BY DEF TimesInv
    <3> QED
      BY <3>1, <3>2, <1>4
  <2> QED
    BY <1>1, <2>2, <2>3, <2>4 DEF TimesInv
<1>7. \A q \in Path : Missing(q)' = Missing(q)
  BY <1>1, <1>4 DEF Missing
<1>8. CacheSorted' /\ StatsInv'
  BY <1>1, <1>7 DEF CacheSorted, StatsInv, EntriesOf
<1> QED
  BY <1>5, <1>6, <1>8

LEMMA MissKeeps == ASSUME SInv, NEW t \in Thread, Miss(t) PROVE SInv'
<1> USE DEF SInv
<1> DEFINE p == arg[t]
<1>1. /\ pc[t] = "lookup" /\ ~Found(p)
      /\ pc' = [pc EXCEPT ![t] = "missed"]
      /\ UNCHANGED <<disk, cache, arg, reply, answered, floor, stats>>
  BY DEF Miss
<1>2. Types' /\ TimesInv' /\ CacheSorted'
  BY <1>1 DEF Types, TimesInv, CacheSorted
<1>3. EntriesOf(p) = {}
  BY <1>1, FirstEntry DEF EntriesOf
<1>4. p \in Path /\ stats[p] = 0
  BY <1>3, FS_EmptySet DEF StatsInv, Types
<1>5. \A q \in Path : q # p => Missing(q)' = Missing(q)
  BY <1>1 DEF Missing, Types
<1>6. \A q \in Path : /\ Cardinality(Missing(q)') <= Cardinality(Thread)
                      /\ Cardinality(Missing(q)') \in Nat
                      /\ Cardinality(Thread) \in Nat
  BY StatCacheAssumption, FS_Subset, FS_CardinalityType DEF Missing
<1>7. StatsInv'
  <2> SUFFICES ASSUME NEW q \in Path
               PROVE  /\ stats[q] = Cardinality(EntriesOf(q))
                      /\ stats[q] + Cardinality(Missing(q)')
                           <= Cardinality(Thread)
    BY <1>1 DEF StatsInv, EntriesOf
  <2>1. CASE q = p
    BY <2>1, <1>4, <1>6 DEF StatsInv
  <2>2. CASE q # p
    BY <2>2, <1>5 DEF StatsInv
  <2> QED
    BY <2>1, <2>2
<1> QED
  BY <1>2, <1>7

\* cache' is cache, of length n, with an entry put in at position k.
InsertedAt(n, k) ==
  /\ DOMAIN cache = 1 .. n /\ DOMAIN cache' = 1 .. n + 1
  /\ \A i \in 1 .. n + 1 :
       /\ i < k => cache'[i] = cache[i]
       /\ i > k => cache'[i] = cache[i - 1]

\* One more entry of p, and no other.
LEMMA InsertedEntries ==
  ASSUME NEW n \in Nat, NEW k \in 1 .. n + 1, InsertedAt(n, k), NEW q
  PROVE  Cardinality(EntriesOf(q)') =
           Cardinality(EntriesOf(q)) + (IF q = cache'[k].path THEN 1 ELSE 0)
<1> DEFINE p == cache'[k].path
           S == EntriesOf(q)
           T == EntriesOf(q)'
           f == [i \in S |-> IF i < k THEN i ELSE i + 1]
<1>0. /\ n \in Nat /\ k \in 1 .. n + 1
      /\ DOMAIN cache = 1 .. n /\ DOMAIN cache' = 1 .. n + 1
      /\ \A i \in 1 .. n + 1 : /\ i < k => cache'[i] = cache[i]
                               /\ i > k => cache'[i] = cache[i - 1]
  BY DEF InsertedAt
<1>1. S = {i \in 1 .. n : cache[i].path = q}
  BY <1>0 DEF EntriesOf
<1>2. T = {i \in 1 .. n + 1 : cache'[i].path = q}
  BY <1>0 DEF EntriesOf
<1>3. IsFiniteSet(1 .. n) /\ IsFiniteSet(1 .. n + 1)
  BY <1>0, FS_Interval
<1>4. /\ IsFiniteSet(S) /\ IsFiniteSet(T)
      /\ Cardinality(S) \in Nat /\ Cardinality(T) \in Nat
  BY <1>1, <1>2, <1>3, FS_Subset, FS_CardinalityType
<1> HIDE DEF S, T, p
<1>5. \A i \in S : i \in 1 .. n /\ f[i] \in T \ {k}
  <2> TAKE i \in S
  <2>1. i \in 1 .. n /\ cache[i].path = q
    BY <1>1
  <2>2. CASE i < k
    <3>1. i \in 1 .. n + 1 /\ i # k
      BY <2>1, <2>2, <1>0
    <3>2. i \in T
      BY <2>1, <2>2, <3>1, <1>0, <1>2
    <3> QED
      BY <2>1, <2>2, <3>1, <3>2
  <2>3. CASE ~(i < k)
    <3>1. i + 1 \in 1 .. n + 1 /\ i + 1 > k /\ i + 1 # k /\ (i + 1) - 1 = i
      BY <2>1, <2>3, <1>0
    <3>2. cache'[i + 1] = cache[i]
      BY <3>1, <1>0
    <3>3. i + 1 \in T
      BY <2>1, <3>1, <3>2, <1>2
    <3> QED
      BY <2>1, <2>3, <3>1, <3>3
  <2> QED
    BY <2>2, <2>3
<1>6. f \in [S -> T \ {k}]
  BY <1>5
<1>7. \A i, j \in S : f[i] = f[j] => i = j
  <2> SUFFICES ASSUME NEW i \in S, NEW j \in S, f[i] = f[j]
               PROVE  i = j
    OBVIOUS
  <2>1. i \in Int /\ j \in Int /\ k \in Int
    BY <1>0, <1>5
  <2> QED
    BY <2>1
<1>8. \A j \in T \ {k} : \E i \in S : f[i] = j
  <2> TAKE j \in T \ {k}
  <2>1. j \in 1 .. n + 1 /\ cache'[j].path = q /\ j # k
    BY <1>2
  <2>2. CASE j < k
    <3>1. j \in 1 .. n /\ cache'[j] = cache[j]
      BY <2>1, <2>2, <1>0
    <3>2. j \in S
      BY <2>1, <3>1, <1>1
    <3> QED
      BY <3>2, <2>2
  <2>3. CASE j > k
    <3>1. /\ j - 1 \in 1 .. n /\ ~(j - 1 < k) /\ (j - 1) + 1 = j
          /\ cache'[j] = cache[j - 1]
      BY <2>1, <2>3, <1>0
    <3>2. j - 1 \in S
      BY <2>1, <3>1, <1>1
    <3> QED
      BY <3>1, <3>2
  <2> QED
    BY <2>1, <2>2, <2>3, <1>0
<1> HIDE DEF f
<1>9. ExistsBijection(S, T \ {k})
  BY <1>6, <1>7, <1>8
     DEF ExistsBijection, Bijection, Injection, IsInjective, Surjection
<1>10. Cardinality(T \ {k}) = Cardinality(S)
  BY <1>4, <1>9, FS_Bijection
<1>11. Cardinality(T \ {k}) =
         IF k \in T THEN Cardinality(T) - 1 ELSE Cardinality(T)
  BY <1>4, FS_RemoveElement
<1>12. k \in T <=> q = p
  BY <1>0, <1>2 DEF p
<1>13. Cardinality(T) = Cardinality(S) + (IF q = p THEN 1 ELSE 0)
  BY <1>4, <1>10, <1>11, <1>12
<1> QED
  BY <1>13 DEF S, T, p

LEMMA UpdateKeeps == ASSUME SInv, NEW t \in Thread, Update(t) PROVE SInv'
<1> USE DEF SInv
<1> DEFINE p == arg[t]
           d == disk[p]
           e == [path |-> p, time |-> d]
           k == LowerBound(p)
           n == Len(cache)
<1>1. /\ pc[t] = "missed" /\ cache' = InsertAt(k, e)
      /\ stats' = [stats EXCEPT ![p] = @ + 1]
      /\ Answer(t, d)
      /\ UNCHANGED <<disk, arg, floor>>
  BY DEF Update, Insertion
<1>2. /\ p \in Path /\ p \in Nat /\ d \in Time /\ d \in Nat
      /\ e \in Entry /\ e.path = p /\ e.time = d
  BY DEF Types, Entry, Time, Error, Path
<1>3. /\ n \in Nat /\ DOMAIN cache = 1 .. n
      /\ k \in 1 .. n + 1
      /\ \A i \in 1 .. n : cache[i].path < p <=> i < k
  BY <1>2, LowerBoundFacts
<1>4. \A i \in 1 .. n : /\ cache[i].path \in Path /\ cache[i].path \in Nat
                        /\ cache[i].time \in Nat
                        /\ cache[i].time <= disk[cache[i].path]
  BY <1>3, EntryFacts DEF TimesInv
<1>5. /\ cache' \in Seq(Entry) /\ DOMAIN cache' = 1 .. n + 1
      /\ cache'[k] = e
      /\ \A i \in 1 .. n + 1 : /\ i < k => cache'[i] = cache[i]
                               /\ i > k => cache'[i] = cache[i - 1]
  <2>1. cache \in Seq(Entry)
    BY DEF Types
  <2>2. /\ InsertAt(k, e) \in Seq(Entry)
        /\ Len(InsertAt(k, e)) = n + 1
        /\ InsertAt(k, e)[k] = e
        /\ \A i \in 1 .. n + 1 :
             /\ i < k => InsertAt(k, e)[i] = cache[i]
             /\ i > k => InsertAt(k, e)[i] = cache[i - 1]
    BY <2>1, <1>2, <1>3, InsertFacts
  <2> HIDE DEF k, e, n
  <2> QED
    BY <2>2, <1>1
<1> HIDE DEF k, n, e
<1>6. /\ pc' \in [Thread -> {"idle", "missed", "lookup"}]
      /\ reply' \in [Thread -> Time] /\ reply'[t] = d
      /\ answered' \in [Path -> Time]
      /\ \A q \in Path : answered'[q] = answered[q] \/ answered'[q] = d
      /\ \A q \in Path : q # arg[t] => answered'[q] = answered[q]
      /\ \A q \in Path : answered'[q] >= answered[q]
      /\ \A u \in Thread : pc'[u] = IF u = t THEN "idle" ELSE pc[u]
  BY <1>1, <1>2, AnswerFacts
<1>7. Types'
  <2>1. stats' \in [Path -> Nat]
    BY <1>1, <1>2 DEF Types
  <2> QED
    BY <1>1, <1>5, <1>6, <2>1 DEF Types
<1>8. \A i \in 1 .. n + 1 :
        \/ i < k /\ i \in 1 .. n /\ cache'[i] = cache[i]
        \/ i = k
        \/ i > k /\ i - 1 \in 1 .. n /\ cache'[i] = cache[i - 1]
  BY <1>3, <1>5
<1>9. CacheSorted'
  <2> SUFFICES ASSUME NEW i \in 1 .. n + 1, NEW j \in 1 .. n + 1, i < j
               PROVE  \/ cache'[i].path < cache'[j].path
                      \/ /\ cache'[i].path = cache'[j].path
                         /\ cache'[i].time >= cache'[j].time
    BY <1>5 DEF CacheSorted
  <2> \A a, b \in 1 .. n : a < b =>
        \/ cache[a].path < cache[b].path
        \/ cache[a].path = cache[b].path /\ cache[a].time >= cache[b].time
    BY <1>3 DEF CacheSorted
  <2>1. CASE j < k
    BY <2>1, <1>3, <1>8
  <2>2. CASE i < k /\ j = k
    <3>1. i \in 1 .. n /\ cache'[i] = cache[i] /\ cache[i].path < p
      BY <2>2, <1>3, <1>8
    <3> QED
      BY <2>2, <3>1, <1>2, <1>5
  <2>3. CASE i < k /\ j > k
    <3>1. /\ i \in 1 .. n /\ cache'[i] = cache[i]
          /\ j - 1 \in 1 .. n /\ cache'[j] = cache[j - 1]
          /\ i < j - 1
      BY <2>3, <1>3, <1>8
    <3> QED
      BY <3>1
  <2>4. CASE i = k
    <3>1. /\ j - 1 \in 1 .. n /\ cache'[j] = cache[j - 1]
          /\ ~(j - 1 < k)
      BY <2>4, <1>3, <1>8
    <3>2. ~(cache[j - 1].path < p)
      BY <3>1, <1>3
    <3>3. cache[j - 1].path = p => cache[j - 1].time <= d
      BY <3>1, <1>4
    <3> QED
      BY <2>4, <3>1, <3>2, <3>3, <1>2, <1>4, <1>5
  <2>5. CASE i > k
    <3>1. /\ i - 1 \in 1 .. n /\ cache'[i] = cache[i - 1]
          /\ j - 1 \in 1 .. n /\ cache'[j] = cache[j - 1]
          /\ i - 1 < j - 1
      BY <2>5, <1>3, <1>8
    <3> QED
      BY <3>1
  <2> QED
    BY <2>1, <2>2, <2>3, <2>4, <2>5, <1>3
<1>10. TimesInv'
  <2>1. \A i \in 1 .. n + 1 : cache'[i].time <= disk[cache'[i].path]
    <3> TAKE i \in 1 .. n + 1
    <3>1. CASE i = k
      BY <3>1, <1>2, <1>5
    <3>2. CASE i # k
      BY <3>2, <1>4, <1>8
    <3> QED
      BY <3>1, <3>2
  <2>2. \A q \in Path : answered'[q] <= disk[q]
    <3> TAKE q \in Path
    <3>1. CASE answered'[q] = answered[q]
      BY <3>1 DEF TimesInv
    <3>2. CASE answered'[q] # answered[q]
      <4>1. q = p /\ answered'[q] = d
        BY <3>2, <1>6
      <4> QED
        BY <4>1, <1>2
    <3> QED
      BY <3>1, <3>2
  <2>3. \A q \in Path : answered'[q] # Error =>
          \E i \in 1 .. n + 1 :
            cache'[i].path = q /\ cache'[i].time >= answered'[q]
    <3> SUFFICES ASSUME NEW q \in Path, answered'[q] # Error
                 PROVE  \E i \in 1 .. n + 1 :
                          cache'[i].path = q /\ cache'[i].time >= answered'[q]
      OBVIOUS
    <3>1. CASE answered'[q] = answered[q]
      <4>1. PICK i \in 1 .. n :
              cache[i].path = q /\ cache[i].time >= answered[q]
        BY <3>1, <1>3 DEF TimesInv
      <4>2. CASE i < k
        <5>1. i \in 1 .. n + 1 /\ cache'[i] = cache[i]
          BY <4>2, <1>3, <1>5
        <5> QED
          BY <3>1, <4>1, <5>1
      <4>3. CASE i >= k
        <5>1. /\ i + 1 \in 1 .. n + 1 /\ i + 1 > k /\ (i + 1) - 1 = i
          BY <4>3, <1>3
        <5>2. cache'[i + 1] = cache[i]
          BY <5>1, <1>5
        <5> QED
          BY <3>1, <4>1, <5>1, <5>2
      <4> QED
        BY <4>2, <4>3, <1>3
    <3>2. CASE answered'[q] # answered[q]
      <4>1. q = p /\ answered'[q] = d
        BY <3>2, <1>6
      <4> QED
        BY <4>1, <1>2, <1>3, <1>5
    <3> QED
      BY <3>1, <3>2
  <2>4. \A u \in Thread : floor[u] <= answered'[arg[u]]
    <3> TAKE u \in Thread
    <3>1. /\ floor[u] \in Nat /\ arg[u] \in Path
          /\ answered[arg[u]] \in Nat /\ answered'[arg[u]] \in Nat
      BY <1>6 DEF Types, Time, Error
    <3>2. floor[u] <= answered[arg[u]]
      BY DEF TimesInv
    <3> QED
      BY <3>1, <3>2, <1>6
  <2> QED
    BY <1>1, <1>5, <2>1, <2>2, <2>3, <2>4 DEF TimesInv
<1>11. StatsInv'
  <2> SUFFICES ASSUME NEW q \in Path
               PROVE  /\ stats'[q] = Cardinality(EntriesOf(q)')
                      /\ stats'[q] + Cardinality(Missing(q)')
                           <= Cardinality(Thread)
    BY DEF StatsInv
  <2>1. Cardinality(EntriesOf(q)') =
          Cardinality(EntriesOf(q)) + (IF q = p THEN 1 ELSE 0)
    <3>1. cache'[k].path = p
      BY <1>2, <1>5
    <3>2. InsertedAt(n, k)
      BY <1>3, <1>5 DEF InsertedAt
    <3>3. Cardinality(EntriesOf(q)') =
            Cardinality(EntriesOf(q)) + (IF q = cache'[k].path THEN 1 ELSE 0)
      BY <3>2, <1>3, InsertedEntries
    <3> QED
      BY <3>1, <3>3
  <2>2. /\ stats[q] \in Nat /\ stats[q] = Cardinality(EntriesOf(q))
        /\ stats[q] + Cardinality(Missing(q)) <= Cardinality(Thread)
    BY DEF Types, StatsInv
  <2>3. stats'[q] = stats[q] + (IF q = p THEN 1 ELSE 0)
    BY <1>1, <1>2 DEF Types
  <2>4. /\ IsFiniteSet(Missing(q)) /\ Cardinality(Missing(q)) \in Nat
        /\ Cardinality(Thread) \in Nat
    BY MissingFacts
  <2>5. CASE q = p
    <3>1. Missing(q)' = Missing(q) \ {t} /\ t \in Missing(q)
      BY <2>5, <1>1, <1>6 DEF Missing
    <3>2. Cardinality(Missing(q)') = Cardinality(Missing(q)) - 1
      BY <3>1, <2>4, FS_RemoveElement
    <3> QED
      BY <2>1, <2>2, <2>3, <2>4, <2>5, <3>2
  <2>6. CASE q # p
    <3>1. Missing(q)' = Missing(q)
      BY <2>6, <1>1, <1>6 DEF Missing
    <3> QED
      BY <2>1, <2>2, <2>3, <2>4, <2>6, <3>1
  <2> QED
    BY <2>5, <2>6
<1> QED
  BY <1>7, <1>9, <1>10, <1>11

LEMMA StepKeeps == ASSUME SInv, [Next]_vars PROVE SInv'
<1>1. CASE UNCHANGED vars
  <2>1. UNCHANGED <<disk, cache, pc, arg, reply, answered, floor, stats>>
    BY <1>1 DEF vars
  <2>2. Types' /\ CacheSorted' /\ TimesInv'
    BY <2>1 DEF SInv, Types, CacheSorted, TimesInv
  <2>3. StatsInv'
    BY <2>1 DEF SInv, StatsInv, EntriesOf, Missing
  <2> QED
    BY <2>2, <2>3 DEF SInv
<1>2. ASSUME NEW p \in Path, Write(p) PROVE SInv'
  BY <1>2, WriteKeeps
<1>3. ASSUME NEW p \in Path, NEW t \in Thread, Call(t, p) PROVE SInv'
  BY <1>3, CallKeeps
<1>4. ASSUME NEW t \in Thread, Hit(t) PROVE SInv'
  BY <1>4, HitKeeps
<1>5. ASSUME NEW t \in Thread, Miss(t) PROVE SInv'
  BY <1>5, MissKeeps
<1>6. ASSUME NEW t \in Thread, Update(t) PROVE SInv'
  BY <1>6, UpdateKeeps
<1> QED
  BY <1>1, <1>2, <1>3, <1>4, <1>5, <1>6 DEF Next

LEMMA Always == Spec => []SInv
  BY Initially, StepKeeps, PTL DEF Spec

-----------------------------------------------------------------------------
(* The length of the vector. *)

\* How many entries are of the first q paths.
UpTo(q) == {i \in DOMAIN cache : cache[i].path <= q}

LEMMA UpToGrows ==
  ASSUME Types, NEW q \in Path
  PROVE  /\ IsFiniteSet(UpTo(q)) /\ IsFiniteSet(UpTo(q - 1)) /\ IsFiniteSet(EntriesOf(q))
         /\ Cardinality(UpTo(q)) = Cardinality(UpTo(q - 1)) + Cardinality(EntriesOf(q))
<1>1. /\ DOMAIN cache = 1 .. Len(cache) /\ Len(cache) \in Nat
      /\ \A i \in DOMAIN cache : cache[i].path \in Path
  BY EntryFacts
<1>2. q \in Nat /\ \A p \in Path : p \in Nat
  BY DEF Path
<1>3. IsFiniteSet(DOMAIN cache)
  BY <1>1, FS_Interval
<1>4. \A S \in SUBSET DOMAIN cache : IsFiniteSet(S)
  BY <1>3, FS_Subset
<1>5. UpTo(q) = UpTo(q - 1) \cup EntriesOf(q) /\ UpTo(q - 1) \cap EntriesOf(q) = {}
  <2>1. ASSUME NEW i \in DOMAIN cache
        PROVE  /\ cache[i].path <= q <=> cache[i].path <= q - 1 \/ cache[i].path = q
               /\ ~(cache[i].path <= q - 1 /\ cache[i].path = q)
    <3>1. cache[i].path \in Nat
      BY <1>1, <1>2
    <3> QED
      BY <1>2, <3>1
  <2> QED
    BY <2>1 DEF UpTo, EntriesOf
<1>6. IsFiniteSet(UpTo(q)) /\ IsFiniteSet(UpTo(q - 1)) /\ IsFiniteSet(EntriesOf(q))
  BY <1>4 DEF UpTo, EntriesOf
<1>7. /\ Cardinality(UpTo(q - 1)) \in Nat /\ Cardinality(EntriesOf(q)) \in Nat
      /\ Cardinality({}) = 0
  BY <1>6, FS_CardinalityType, FS_EmptySet
<1>8. Cardinality(UpTo(q - 1) \cup EntriesOf(q)) =
        Cardinality(UpTo(q - 1)) + Cardinality(EntriesOf(q))
          - Cardinality(UpTo(q - 1) \cap EntriesOf(q))
  BY <1>6, FS_Union
<1> QED
  BY <1>5, <1>6, <1>7, <1>8

LEMMA LengthBounded ==
  ASSUME Types, StatsBounded
  PROVE  Len(cache) <= Cardinality(Thread) * Paths
<1> DEFINE c == Cardinality(Thread)
           Off == {q \in 0 .. Paths : ~(Cardinality(UpTo(q)) <= c * q)}
<1>1. c \in Nat /\ Paths \in Nat
  BY StatCacheAssumption, FS_CardinalityType
<1>2. Off = {}
  <2> SUFFICES ASSUME Off # {} PROVE FALSE
    OBVIOUS
  <2>1. PICK q \in Off : \A r \in Off : q <= r
    <3>1. Off \subseteq Nat
      OBVIOUS
    <3> QED
      BY <3>1, LeastNumber
  <2>2. CASE q = 0
    <3>1. UpTo(0) = {}
      <4>1. \A i \in DOMAIN cache : ~(cache[i].path <= 0)
        BY EntryFacts DEF Path
      <4> QED
        BY <4>1 DEF UpTo
    <3>2. Cardinality(UpTo(0)) = 0
      BY <3>1, FS_EmptySet
    <3>3. c * 0 = 0
      BY <1>1
    <3> QED
      BY <2>1, <2>2, <3>2, <3>3
  <2>3. CASE q # 0
    <3>1. q \in Path /\ q \in Nat /\ q - 1 \in 0 .. Paths /\ q - 1 \notin Off
      BY <1>1, <2>1, <2>3 DEF Path
    <3>2. Cardinality(UpTo(q - 1)) <= c * (q - 1)
      BY <3>1
    <3>3. /\ Cardinality(UpTo(q)) = Cardinality(UpTo(q - 1)) + Cardinality(EntriesOf(q))
          /\ Cardinality(UpTo(q - 1)) \in Nat /\ Cardinality(EntriesOf(q)) \in Nat
      BY <3>1, UpToGrows, FS_CardinalityType
    <3>4. Cardinality(EntriesOf(q)) <= c
      BY <3>1 DEF StatsBounded, EntriesOf
    <3> HIDE DEF c
    <3>5. c * q = c * (q - 1) + c /\ c * (q - 1) \in Nat
      BY <1>1, <3>1
    <3>6. Cardinality(UpTo(q)) <= c * q
      BY <1>1, <3>2, <3>3, <3>4, <3>5
    <3> QED
      BY <2>1, <3>6
  <2> QED
    BY <2>2, <2>3
<1>3. Cardinality(UpTo(Paths)) <= c * Paths
  BY <1>1, <1>2
<1>4. UpTo(Paths) = 1 .. Len(cache)
  <2>1. \A i \in DOMAIN cache : cache[i].path <= Paths
    BY EntryFacts DEF Path
  <2>2. DOMAIN cache = 1 .. Len(cache)
    BY DEF Types
  <2> QED
    BY <2>1, <2>2 DEF UpTo
<1>5. Len(cache) \in Nat
  BY DEF Types
<1>6. Cardinality(1 .. Len(cache)) = Len(cache)
  BY <1>5, FS_Interval
<1> QED
  BY <1>3, <1>4, <1>6

-----------------------------------------------------------------------------
(* Theorems. *)

\* The vector of StatCache is always sorted by path, and of several entries of
\* a path, inserted by racing threads, the latest stat comes first.
THEOREM CacheStaysSorted == Spec => []CacheSorted
<1>1. SInv => CacheSorted
  BY DEF SInv
<1> QED
  BY <1>1, Always, PTL

\* A call of get_or_update returns no earlier time than one that had returned
\* for the same path before it began.
THEOREM NoReplyGoesBack == Spec => RepliesGoForward
<1> DEFINE A == \A t \in Thread : pc[t] # "idle" /\ pc'[t] = "idle" =>
                  reply'[t] >= floor[t]
<1>1. ASSUME SInv, [Next]_vars PROVE [A]_vars
  <2> USE DEF SInv
  <2> SUFFICES ASSUME Next, NEW t \in Thread,
                      pc[t] # "idle", pc'[t] = "idle"
               PROVE  reply'[t] >= floor[t]
    BY <1>1
  <2>1. /\ arg[t] \in Path /\ floor[t] \in Nat
        /\ answered[arg[t]] \in Nat /\ disk[arg[t]] \in Nat
        /\ floor[t] <= answered[arg[t]]
        /\ answered[arg[t]] <= disk[arg[t]]
    BY <1>1 DEF Types, TimesInv, Time, Error
  <2>2. ASSUME NEW p \in Path, Write(p) PROVE FALSE
    BY <2>2 DEF Write
  <2>3. ASSUME NEW p \in Path, NEW u \in Thread, Call(u, p) PROVE FALSE
    BY <1>1, <2>3 DEF Call, Types
  <2>4. ASSUME NEW u \in Thread, Miss(u) PROVE FALSE
    BY <1>1, <2>4 DEF Miss, Types
  <2>5. ASSUME NEW u \in Thread, Hit(u) PROVE reply'[t] >= floor[t]
    <3>1. Answer(u, cache[LowerBound(arg[u])].time) /\ Found(arg[u])
      BY <2>5 DEF Hit
    <3>2. u = t
      BY <1>1, <3>1 DEF Answer, Types
    <3>3. /\ cache[LowerBound(arg[t])].time \in Time
          /\ cache[LowerBound(arg[t])].time >= answered[arg[t]]
      BY <1>1, <2>1, <3>1, <3>2, HitFacts
    <3>4. reply'[t] = cache[LowerBound(arg[t])].time
      BY <1>1, <3>1, <3>2 DEF Answer, Types
    <3>5. cache[LowerBound(arg[t])].time \in Nat
      BY <3>3 DEF Time, Error
    <3> QED
      BY <2>1, <3>3, <3>4, <3>5
  <2>6. ASSUME NEW u \in Thread, Update(u) PROVE reply'[t] >= floor[t]
    <3>1. Answer(u, disk[arg[u]])
      BY <2>6 DEF Update
    <3>2. u = t
      BY <1>1, <3>1 DEF Answer, Types
    <3>3. reply'[t] = disk[arg[t]]
      BY <1>1, <3>1, <3>2 DEF Answer, Types
    <3> QED
      BY <2>1, <3>3
  <2> QED
    BY <2>2, <2>3, <2>4, <2>5, <2>6 DEF Next
<1> QED
  BY <1>1, Always, PTL DEF Spec, RepliesGoForward

\* Racing threads stat a path at most once each, and every stat is an entry.
THEOREM StatsAreBounded == Spec => []StatsBounded
<1>1. ASSUME SInv PROVE StatsBounded
  <2> SUFFICES ASSUME NEW p \in Path
               PROVE  /\ stats[p] <= Cardinality(Thread)
                      /\ stats[p] = Cardinality(EntriesOf(p))
    BY DEF StatsBounded, EntriesOf
  <2>1. /\ stats[p] \in Nat /\ stats[p] = Cardinality(EntriesOf(p))
        /\ stats[p] + Cardinality(Missing(p)) <= Cardinality(Thread)
    BY <1>1 DEF SInv, Types, StatsInv
  <2> QED
    BY <2>1, MissingFacts
<1> QED
  BY <1>1, Always, PTL

\* The vector holds well formed entries, at most one for each thread and path:
\* that is how far racing insertions can make it grow.
THEOREM CacheTypeCorrect == Spec => []TypeOK
<1>1. ASSUME SInv, StatsBounded PROVE TypeOK
  <2>1. Types
    BY <1>1 DEF SInv
  <2>2. Len(cache) <= Cardinality(Thread) * Paths
    BY <1>1, <2>1, LengthBounded
  <2> QED
    BY <2>1, <2>2 DEF TypeOK, Types, Time, Entry
<1> QED
  BY <1>1, Always, StatsAreBounded, PTL

=============================================================================
