----------------------------- MODULE StatCache ------------------------------
(***************************************************************************)
(* StatCache::get_or_update (src/src/executor_stat_cache.cpp) called by    *)
(* several workers at once: a lookup under a shared lock, and after a miss *)
(* a stat and an insertion under the exclusive lock.  Each locked region   *)
(* is one step; between the two the entry may have been inserted and the   *)
(* file may have changed.                                                  *)
(***************************************************************************)
EXTENDS Integers, Sequences, FiniteSets

CONSTANTS
  Thread,
  Paths,     \* the paths are 1 .. Paths, in their order
  MaxTime    \* bound of the times on disk

ASSUME StatCacheAssumption ==
  /\ IsFiniteSet(Thread)
  /\ Paths \in Nat \ {0} /\ MaxTime \in Nat

Path == 1 .. Paths

\* The time of a file that cannot be stated; the others are later.
Error == 0

VARIABLES
  disk,      \* the last write time of each file
  cache,     \* the vector of entries, meant to be sorted by path
  pc,        \* where each thread is in get_or_update
  arg,       \* the path it asks for
  reply,     \* the time it returned
  answered,  \* history: the latest time returned for each path
  floor,     \* history: answered[arg] when the call began
  stats      \* history: how often each path was stated

vars == <<disk, cache, pc, arg, reply, answered, floor, stats>>

TypeOK ==
  /\ disk \in [Path -> Error .. MaxTime]
  /\ cache \in Seq([path : Path, time : Error .. MaxTime])
  /\ pc \in [Thread -> {"idle", "missed", "lookup"}]
  /\ arg \in [Thread -> Path]
  /\ reply \in [Thread -> Error .. MaxTime]
  /\ answered \in [Path -> Error .. MaxTime]
  /\ floor \in [Thread -> Error .. MaxTime]
  /\ stats \in [Path -> Nat]
  /\ Len(cache) <= Cardinality(Thread) * Paths

-----------------------------------------------------------------------------

\* The position after the entries of p, for a mutated form of Insertion.
UpperBound(p) == Cardinality({i \in DOMAIN cache : cache[i].path <= p}) + 1

\* std::ranges::lower_bound on a sorted vector: how many entries come before
\* those of p, plus one.
LowerBound(p) == Cardinality({i \in DOMAIN cache : cache[i].path < p}) + 1

\* Mutated form of Found: the entry next to the position is looked at.
FoundNext(p) ==
  LET i == LowerBound(p) + 1 IN i <= Len(cache) /\ cache[i].path = p

Found(p) ==
  LET i == LowerBound(p) IN i <= Len(cache) /\ cache[i].path = p

InsertAt(i, e) ==
  SubSeq(cache, 1, i - 1) \o <<e>> \o SubSeq(cache, i, Len(cache))

Init ==
  /\ disk \in [Path -> Error .. MaxTime]
  /\ cache = <<>>
  /\ pc = [t \in Thread |-> "idle"]
  /\ arg = [t \in Thread |-> 1]
  /\ reply = [t \in Thread |-> Error]
  /\ answered = [p \in Path |-> Error]
  /\ floor = [t \in Thread |-> Error]
  /\ stats = [p \in Path |-> 0]

\* Somebody writes the file; time only goes forward.
Write(p) ==
  /\ \E m \in (disk[p] + 1) .. MaxTime : disk' = [disk EXCEPT ![p] = m]
  /\ UNCHANGED <<cache, pc, arg, reply, answered, floor, stats>>

\* The call returns the time m.
Answer(t, m) ==
  /\ pc' = [pc EXCEPT ![t] = "idle"]
  /\ reply' = [reply EXCEPT ![t] = m]
  /\ answered' = [answered EXCEPT ![arg[t]] = IF m > @ THEN m ELSE @]

\* A worker asks for the time of p.
Call(t, p) ==
  /\ pc[t] = "idle"
  /\ pc' = [pc EXCEPT ![t] = "lookup"]
  /\ arg' = [arg EXCEPT ![t] = p]
  /\ floor' = [floor EXCEPT ![t] = answered[p]]
  /\ UNCHANGED <<disk, cache, reply, answered, stats>>

\* Under the shared lock the entry is there.
Hit(t) ==
  /\ pc[t] = "lookup" /\ Found(arg[t])
  /\ Answer(t, cache[LowerBound(arg[t])].time)
  /\ UNCHANGED <<disk, cache, arg, floor, stats>>

\* Under the shared lock it is not; the lock is released.
Miss(t) ==
  /\ pc[t] = "lookup" /\ ~Found(arg[t])
  /\ pc' = [pc EXCEPT ![t] = "missed"]
  /\ UNCHANGED <<disk, cache, arg, reply, answered, floor, stats>>

\* Mutated form of Insertion: the position is kept from the end of the vector
\* instead of being looked up under the exclusive lock.
InsertionAtEnd(e) == Append(cache, e)

\* Mutated form of Insertion: upper_bound instead of lower_bound.
InsertionAfter(e) == InsertAt(UpperBound(e.path), e)

\* The position is looked up again, and the entry goes before those of p.
Insertion(e) == InsertAt(LowerBound(e.path), e)

\* Under the exclusive lock: stat and insert, without looking for the entry.
Update(t) ==
  /\ pc[t] = "missed"
  /\ LET p == arg[t] IN
       /\ cache' = Insertion([path |-> p, time |-> disk[p]])
       /\ stats' = [stats EXCEPT ![p] = @ + 1]
       /\ Answer(t, disk[p])
  /\ UNCHANGED <<disk, arg, floor>>

Next ==
  \/ \E p \in Path : Write(p) \/ \E t \in Thread : Call(t, p)
  \/ \E t \in Thread : Hit(t) \/ Miss(t) \/ Update(t)

Spec == Init /\ [][Next]_vars

-----------------------------------------------------------------------------
(* Properties *)

\* The vector stays sorted although the position found under the shared lock
\* may be out of date, and among the entries of one path, which two threads
\* that miss together both insert, the latest stat comes first.
CacheSorted ==
  \A i, j \in DOMAIN cache : i < j =>
    \/ cache[i].path < cache[j].path
    \/ cache[i].path = cache[j].path /\ cache[i].time >= cache[j].time

\* The times the callers see never go back: a call that begins after another
\* one returned a time for the same path returns no earlier one.
RepliesGoForward ==
  [][\A t \in Thread : pc[t] # "idle" /\ pc'[t] = "idle" =>
       reply'[t] >= floor[t]]_vars

\* Every thread stats a path at most once: no call misses after one of its
\* own has returned, and racing calls cost one stat each.
StatsBounded ==
  /\ \A p \in Path : stats[p] <= Cardinality(Thread)
  /\ \A p \in Path : stats[p] = Cardinality({i \in DOMAIN cache : cache[i].path = p})

=============================================================================
