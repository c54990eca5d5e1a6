-------------------------- MODULE WorkerPoolProofs --------------------------
(***************************************************************************)
(* Proofs about WorkerPool for every finite graph, every number of workers *)
(* and every notification threshold.                                       *)
(***************************************************************************)
EXTENDS WorkerPool, FiniteSetTheorems, TLAPS

\* A running worker holds a node.
RunningHoldsNode == \A w \in At("running") : node_idx[w] \in Node

\* error_occurred remembers whether some process_step has failed.
ErrorExact == error_occurred <=> \E n \in Node : outcome[n] = "failed"

\* execute() has returned only after every worker left, and with the verdict
\* the counters give.
ReturnExact == result # "none" => At("exited") = Worker /\ result = Verdict

\* The inductive invariant.
IInv ==
  /\ TypeOK
  /\ RunningHoldsNode
  /\ CountersExact
  /\ PushedOnce
  /\ ErrorExact
  /\ NoIdleWorkerWhileWork
  /\ SleepersAreRescued
  /\ ExitOnlyWhenDone
  /\ ReturnExact

-----------------------------------------------------------------------------
(* Facts about finite sets that the counters rest on. *)

\* A finite set has a natural number of elements, none only if it is empty.
LEMMA CardinalityFacts ==
  ASSUME NEW S, IsFiniteSet(S)
  PROVE  /\ Cardinality(S) \in Nat
         /\ Cardinality(S) = 0 <=> S = {}
BY FS_CardinalityType, FS_EmptySet

\* The walk over one node's out edges meets another node finitely often.
LEMMA EdgesFinite ==
  ASSUME out_edges \in [Node -> Seq(Step)], NEW u \in Node, NEW v \in Node
  PROVE  /\ IsFiniteSet(EdgesTo(u, v))
         /\ Hits(u, v) \in Nat
         /\ Hits(u, v) = 0 <=> EdgesTo(u, v) = {}
<1>1. /\ Len(out_edges[u]) \in Nat
      /\ DOMAIN out_edges[u] = 1 .. Len(out_edges[u])
  OBVIOUS
<1>2. IsFiniteSet(1 .. Len(out_edges[u]))
  BY <1>1, FS_Interval
<1>3. EdgesTo(u, v) \subseteq 1 .. Len(out_edges[u])
  BY <1>1 DEF EdgesTo
<1>4. IsFiniteSet(EdgesTo(u, v))
  BY <1>2, <1>3, FS_Subset
<1>. QED
  BY <1>4, CardinalityFacts DEF Hits

\* The edges from u to v, as pairs, are as many as the walk meets.
LEMMA EdgePairs ==
  ASSUME out_edges \in [Node -> Seq(Step)], NEW u \in Node, NEW v \in Node
  PROVE  /\ IsFiniteSet({u} \X EdgesTo(u, v))
         /\ Cardinality({u} \X EdgesTo(u, v)) = Hits(u, v)
<1>1. IsFiniteSet(EdgesTo(u, v)) /\ Hits(u, v) \in Nat
  BY EdgesFinite
<1>2. IsFiniteSet({u}) /\ Cardinality({u}) = 1
  BY FS_Singleton
<1>3. /\ IsFiniteSet({u} \X EdgesTo(u, v))
      /\ Cardinality({u} \X EdgesTo(u, v)) = Cardinality({u}) * Cardinality(EdgesTo(u, v))
  BY <1>1, <1>2, FS_Product
<1>. QED
  BY <1>1, <1>2, <1>3 DEF Hits

\* The edges into a node are finitely many, and so are the pending ones.
LEMMA PendingFinite ==
  ASSUME out_edges \in [Node -> Seq(Step)], NEW v \in Node
  PROVE  /\ IsFiniteSet(EdgesInto(v))
         /\ IsFiniteSet(PendingEdges(v))
<1>. DEFINE f == [u \in Node |-> {u} \X EdgesTo(u, v)]
            S == {{u} \X EdgesTo(u, v) : u \in Node}
<1>1. f \in Surjection(Node, S)
  BY DEF Surjection
<1>2. IsFiniteSet(S)
  BY <1>1, FS_Surjection, PoolAssumption
<1>3. \A T \in S : IsFiniteSet(T)
  BY EdgePairs
<1>4. IsFiniteSet(UNION S)
  BY <1>2, <1>3, FS_UNION
<1>5. IsFiniteSet(EdgesInto(v))
  BY <1>4 DEF EdgesInto
<1>6. PendingEdges(v) \subseteq EdgesInto(v)
  BY DEF PendingEdges
<1>. QED
  BY <1>5, <1>6, FS_Subset

\* When u, not yet processed, succeeds, the edges the walk meets are exactly
\* those that stop being pending.
LEMMA PendingAfterSuccess ==
  ASSUME TypeOK, NEW u \in Node, outcome[u] = "none", NEW v \in Node,
         UNCHANGED out_edges,
         outcome' = [outcome EXCEPT ![u] = "succeeded"]
  PROVE  /\ Hits(u, v) <= Cardinality(PendingEdges(v))
         /\ Cardinality(PendingEdges(v))'
              = Cardinality(PendingEdges(v)) - Hits(u, v)
<1>. DEFINE E == {u} \X EdgesTo(u, v)
<1>1. out_edges \in [Node -> Seq(Step)] /\ outcome \in [Node -> Outcome]
  BY DEF TypeOK
<1>2. IsFiniteSet(PendingEdges(v)) /\ IsFiniteSet(E) /\ Cardinality(E) = Hits(u, v)
  BY <1>1, PendingFinite, EdgePairs
<1>3. EdgesInto(v)' = EdgesInto(v)
  BY DEF EdgesInto, EdgesTo
<1>4. E \subseteq EdgesInto(v) /\ \A e \in EdgesInto(v) : e[1] \in Node /\ (e[1] = u <=> e \in E)
  BY DEF EdgesInto
<1>5. E \subseteq PendingEdges(v)
  BY <1>4 DEF PendingEdges
<1>6. PendingEdges(v)' = PendingEdges(v) \ E
  BY <1>1, <1>3, <1>4 DEF PendingEdges
<1>7. PendingEdges(v) \cap E = E
  BY <1>5
<1>. HIDE DEF E
<1>8. Cardinality(PendingEdges(v) \ E)
         = Cardinality(PendingEdges(v)) - Cardinality(PendingEdges(v) \cap E)
  BY <1>2, FS_Difference
<1>9. Hits(u, v) <= Cardinality(PendingEdges(v))
  BY <1>2, <1>5, FS_Subset
<1>. QED
  BY <1>2, <1>6, <1>7, <1>8, <1>9

\* A change of outcomes that makes no node succeed leaves the pending edges.
LEMMA PendingUnchanged ==
  ASSUME NEW v \in Node, UNCHANGED out_edges,
         \A u \in Node : outcome[u]' = "succeeded" <=> outcome[u] = "succeeded"
  PROVE  PendingEdges(v)' = PendingEdges(v)
<1>1. EdgesInto(v)' = EdgesInto(v)
  BY DEF EdgesInto, EdgesTo
<1>2. \A e \in EdgesInto(v) : e[1] \in Node
  BY DEF EdgesInto
<1>. QED
  BY <1>1, <1>2 DEF PendingEdges

\* A node whose counter is 0 has seen all its dependencies succeed.
LEMMA ZeroMeansSatisfied ==
  ASSUME TypeOK, CountersExact, NEW n \in Node, in_degrees[n] = 0,
         NEW u \in Node, DependsOn(n, u)
  PROVE  outcome[u] = "succeeded"
<1>1. IsFiniteSet(PendingEdges(n)) /\ Cardinality(PendingEdges(n)) = 0
  BY PendingFinite DEF TypeOK, CountersExact
<1>2. PendingEdges(n) = {}
  BY <1>1, CardinalityFacts
<1>3. PICK i \in EdgesTo(u, n) : TRUE
  BY DEF DependsOn
<1>4. <<u, i>> \in EdgesInto(n)
  BY <1>3 DEF EdgesInto
<1>. QED
  BY <1>2, <1>4 DEF PendingEdges

\* A node whose counter is not 0 still waits for a dependency.
LEMMA NonzeroMeansWaiting ==
  ASSUME TypeOK, CountersExact, NEW n \in Node, in_degrees[n] # 0
  PROVE  \E u \in Node : DependsOn(n, u) /\ outcome[u] # "succeeded"
<1>1. IsFiniteSet(PendingEdges(n)) /\ Cardinality(PendingEdges(n)) # 0
  BY PendingFinite DEF TypeOK, CountersExact
<1>2. PICK e \in PendingEdges(n) : TRUE
  BY <1>1, CardinalityFacts
<1>3. PICK u \in Node : e \in {u} \X EdgesTo(u, n)
  BY <1>2 DEF PendingEdges, EdgesInto
<1>. QED
  BY <1>2, <1>3 DEF PendingEdges, DependsOn

\* The workers of a set of workers are finitely many.
LEMMA WorkersFinite ==
  ASSUME NEW S \in SUBSET Worker
  PROVE  /\ IsFiniteSet(S)
         /\ Cardinality(S) \in Nat
         /\ Cardinality(S) = 0 <=> S = {}
<1>1. IsFiniteSet(S)
  BY FS_Subset, PoolAssumption
<1>. QED
  BY <1>1, CardinalityFacts

\* The workers at a place are finitely many.
LEMMA AtFinite ==
  ASSUME NEW label
  PROVE  /\ IsFiniteSet(At(label))
         /\ Cardinality(At(label)) \in Nat
         /\ Cardinality(At(label)) = 0 <=> At(label) = {}
<1>1. At(label) \in SUBSET Worker
  BY DEF At
<1>. QED
  BY <1>1, WorkersFinite

\* The nodes of a set of nodes are finitely many.
LEMMA NodesFinite ==
  ASSUME NEW S \in SUBSET Node
  PROVE  /\ IsFiniteSet(S)
         /\ Cardinality(S) \in Nat
         /\ Cardinality(S) <= total_nodes
         /\ Cardinality(S) = 0 <=> S = {}
         /\ Cardinality(S) = total_nodes <=> S = Node
         /\ total_nodes \in Nat
<1>1. IsFiniteSet(S)
  BY FS_Subset, PoolAssumption
<1>2. Cardinality(S) <= total_nodes /\ (Cardinality(S) = total_nodes <=> S = Node)
  BY FS_Subset, PoolAssumption DEF total_nodes
<1>. QED
  BY <1>1, <1>2, CardinalityFacts, PoolAssumption DEF total_nodes

-----------------------------------------------------------------------------
(* How the workers' places change. *)

\* One worker that moves changes the sets of the places it leaves and enters.
LEMMA MoveWorker ==
  ASSUME TypeOK, NEW w \in Worker, NEW from \in PC, NEW to \in PC \ {from},
         pc[w] = from,
         pc' = [pc EXCEPT ![w] = to]
  PROVE  /\ pc' \in [Worker -> PC]
         /\ At(to)' = At(to) \cup {w}
         /\ Cardinality(At(to))' = Cardinality(At(to)) + 1
         /\ At(from)' = At(from) \ {w}
         /\ Cardinality(At(from))' = Cardinality(At(from)) - 1
<1>1. pc \in [Worker -> PC]
  BY DEF TypeOK
<1>2. At(to)' = At(to) \cup {w} /\ w \notin At(to)
  BY <1>1 DEF At
<1>3. At(from)' = At(from) \ {w} /\ w \in At(from)
  BY <1>1 DEF At
<1>4. IsFiniteSet(At(to)) /\ IsFiniteSet(At(from))
  BY AtFinite
<1>5. Cardinality(At(to) \cup {w}) = Cardinality(At(to)) + 1
  BY <1>2, <1>4, FS_AddElement
<1>6. Cardinality(At(from) \ {w}) = Cardinality(At(from)) - 1
  BY <1>3, <1>4, FS_RemoveElement
<1>. QED
  BY <1>1, <1>2, <1>3, <1>5, <1>6

\* The notifications of a worker that pushed k tasks: it becomes runnable and
\* wakes either every sleeper or k of them.
LEMMA NotifyMoves ==
  ASSUME TypeOK, NEW w \in Worker, pc[w] = "running", NEW k \in Nat,
         Notify(w, k)
  PROVE  /\ pc' \in [Worker -> PC]
         /\ At("running")' = At("running") \ {w}
         /\ At("exited")' = At("exited")
         /\ NotifyEveryone(k) => At("waiting")' = {}
         /\ At("waiting")' # {} =>
              /\ At("waiting") # {}
              /\ Cardinality(At("runnable"))'
                   = Cardinality(At("runnable")) + k + 1
<1>. DEFINE waiting == At("waiting")
            everyone == NotifyEveryone(k) \/ Cardinality(waiting) <= NotifyCount(k)
<1>1. PICK woken \in SUBSET waiting :
        /\ IF everyone THEN woken = waiting ELSE Cardinality(woken) = k
        /\ pc' = [v \in Worker |->
                    IF v \in woken \cup {w} THEN "runnable" ELSE pc[v]]
  BY DEF Notify, NotifyCount
<1>2. pc \in [Worker -> PC]
  BY DEF TypeOK
<1>3. pc' \in [Worker -> PC]
  BY <1>1, <1>2 DEF PC
<1>4. /\ At("running")' = At("running") \ {w}
      /\ At("exited")' = At("exited")
      /\ At("waiting")' = waiting \ woken
      /\ At("runnable")' = At("runnable") \cup (woken \cup {w})
      /\ At("runnable") \cap (woken \cup {w}) = {}
      /\ w \notin woken
  BY <1>1, <1>2 DEF At
<1>5. everyone => At("waiting")' = {}
  BY <1>1, <1>4
<1>6. ASSUME ~everyone
      PROVE  Cardinality(At("runnable"))' = Cardinality(At("runnable")) + k + 1
  <2>1. IsFiniteSet(woken) /\ Cardinality(woken) = k
    BY <1>1, <1>6, AtFinite, FS_Subset
  <2>2. IsFiniteSet(woken \cup {w}) /\ Cardinality(woken \cup {w}) = k + 1
    BY <1>4, <2>1, FS_AddElement
  <2>3. IsFiniteSet(At("runnable")) /\ Cardinality(At("runnable")) \in Nat
    BY AtFinite
  <2>4. Cardinality(At("runnable") \cup (woken \cup {w}))
          = Cardinality(At("runnable")) + Cardinality(woken \cup {w})
              - Cardinality(At("runnable") \cap (woken \cup {w}))
    BY <2>2, <2>3, FS_Union
  <2>5. Cardinality(At("runnable") \cap (woken \cup {w})) = 0
    BY <1>4, FS_EmptySet
  <2>6. Cardinality(At("runnable"))' = Cardinality(At("runnable") \cup (woken \cup {w}))
    BY <1>4
  <2>. HIDE DEF waiting, everyone
  <2>. QED
    BY <2>2, <2>3, <2>4, <2>5, <2>6
<1>. QED
  BY <1>3, <1>4, <1>5, <1>6

\* A worker that has not left keeps execute() from returning.
LEMMA NotReturned ==
  ASSUME ReturnExact, NEW w \in Worker, pc[w] # "exited"
  PROVE  result = "none"
BY DEF ReturnExact, At

\* What a running worker's place says of its node.
LEMMA RunningNode ==
  ASSUME IInv, NEW w \in Worker, pc[w] = "running"
  PROVE  /\ node_idx[w] \in Node
         /\ w \in RunningOn(node_idx[w])
         /\ outcome[node_idx[w]] = "none"
         /\ in_degrees[node_idx[w]] = 0
         /\ active_workers # 0
<1>1. w \in At("running")
  BY DEF At
<1>2. node_idx[w] \in Node /\ w \in RunningOn(node_idx[w])
  BY <1>1 DEF IInv, RunningHoldsNode, RunningOn
<1>3. ~Processed(node_idx[w]) /\ in_degrees[node_idx[w]] = 0
  BY <1>2 DEF IInv, PushedOnce
<1>4. active_workers # 0
  BY <1>1, AtFinite DEF IInv, CountersExact
<1>. QED
  BY <1>2, <1>3, <1>4 DEF Processed

\* A step that leaves the running workers and the shared state alone leaves
\* what the counters and the queue say.
LEMMA OnlyPlaces ==
  ASSUME IInv, UNCHANGED <<config, shared, node_idx, outcome, result>>,
         pc' \in [Worker -> PC], At("running")' = At("running")
  PROVE  /\ TypeOK' /\ RunningHoldsNode' /\ CountersExact' /\ PushedOnce'
         /\ ErrorExact'
<1>. USE DEF IInv, config, shared
<1>1. TypeOK'
  BY DEF TypeOK
<1>2. RunningHoldsNode'
  BY DEF RunningHoldsNode
<1>3. CountersExact'
  <2>1. \A v \in Node : PendingEdges(v)' = PendingEdges(v)
    BY PendingUnchanged
  <2>. QED
    BY <2>1 DEF CountersExact, Processed
<1>4. PushedOnce'
  BY DEF PushedOnce, RunningOn, Processed
<1>5. ErrorExact'
  BY DEF ErrorExact
<1>. QED
  BY <1>1, <1>2, <1>3, <1>4, <1>5

-----------------------------------------------------------------------------
(* The inductive invariant: it holds initially, and every action keeps it. *)

LEMMA InitInvariant ==
  ASSUME Init
  PROVE  IInv
<1>. USE DEF Init
<1>1. out_edges \in [Node -> Seq(Step)]
  BY PoolAssumption
<1>2. \A v \in Node : IsFiniteSet(EdgesInto(v)) /\ PendingEdges(v) = EdgesInto(v)
  <2>1. \A v \in Node : \A e \in EdgesInto(v) : e[1] \in Node
    BY DEF EdgesInto
  <2>. QED
    BY <1>1, <2>1, PendingFinite DEF PendingEdges
<1>3. \A label : label # "absent" => At(label) = {}
  BY DEF At
<1>4. TypeOK
  <2>1. \A v \in Node : Cardinality(EdgesInto(v)) \in Int
    BY <1>2, CardinalityFacts
  <2>2. in_degrees \in [Node -> Int]
    BY <2>1
  <2>. QED
    BY <1>1, <2>2 DEF TypeOK, Outcome, PC
<1>5. RunningHoldsNode
  BY <1>3 DEF RunningHoldsNode
<1>6. CountersExact
  BY <1>2, <1>3, FS_EmptySet DEF CountersExact, Processed
<1>7. PushedOnce
  BY <1>3 DEF PushedOnce, RunningOn, Processed
<1>8. ErrorExact
  BY DEF ErrorExact
<1>9. NoIdleWorkerWhileWork /\ SleepersAreRescued /\ ExitOnlyWhenDone /\ ReturnExact
  BY <1>3 DEF NoIdleWorkerWhileWork, SleepersAreRescued, ExitOnlyWhenDone,
              ReturnExact
<1>. QED
  BY <1>4, <1>5, <1>6, <1>7, <1>8, <1>9 DEF IInv

\* The steps that only move a worker: creation, sleep, waking, leaving.
LEMMA MovesKeepInvariant ==
  ASSUME IInv, NEW w \in Worker,
         Spawn(w) \/ Sleep(w) \/ SpuriousWake(w) \/ Exit(w)
  PROVE  IInv'
<1>1. /\ TypeOK /\ ReturnExact /\ CountersExact /\ PushedOnce /\ RunningHoldsNode
      /\ NoIdleWorkerWhileWork /\ SleepersAreRescued /\ ExitOnlyWhenDone
  BY DEF IInv
<1>2. /\ UNCHANGED <<config, shared, node_idx, outcome, result>>
      /\ pc[w] # "exited" /\ pc[w] # "running"
  BY DEF Spawn, Sleep, SpuriousWake, Exit
<1>3. /\ pc' \in [Worker -> PC]
      /\ At("running")' = At("running")
  BY <1>1 DEF Spawn, Sleep, SpuriousWake, Exit, TypeOK, PC, At
<1>4. TypeOK' /\ RunningHoldsNode' /\ CountersExact' /\ PushedOnce' /\ ErrorExact'
  BY <1>2, <1>3, OnlyPlaces
<1>5. ReturnExact'
  BY <1>1, <1>2, NotReturned DEF ReturnExact
<1>6. /\ UNCHANGED <<ready_queue, completed_count, error_occurred, keep_going,
                     active_workers, total_nodes>>
      /\ Cardinality(ready_queue) \in Nat
      /\ ready_queue = {} => Cardinality(ready_queue) = 0
  BY <1>1, <1>2, NodesFinite DEF TypeOK, shared, config, total_nodes
<1>7. CASE Spawn(w) \/ SpuriousWake(w)
  <2>1. /\ At("waiting")' \subseteq At("waiting")
        /\ At("exited")' = At("exited")
    BY <1>1, <1>7 DEF Spawn, SpuriousWake, At, TypeOK
  <2>2. Cardinality(At("runnable"))' = Cardinality(At("runnable")) + 1
    BY <1>1, <1>7, MoveWorker DEF Spawn, SpuriousWake, PC
  <2>3. NoIdleWorkerWhileWork'
    BY <1>1, <1>6, <2>1, <2>2, AtFinite DEF NoIdleWorkerWhileWork
  <2>4. SleepersAreRescued' /\ ExitOnlyWhenDone'
    BY <1>1, <1>3, <1>6, <2>1 DEF SleepersAreRescued, ExitOnlyWhenDone
  <2>. QED
    BY <1>4, <1>5, <2>3, <2>4 DEF IInv
<1>8. CASE Sleep(w)
  <2>1. ready_queue = {} /\ completed_count # total_nodes /\ active_workers # 0
    BY <1>8 DEF Sleep, WaitPredicate
  <2>2. NoIdleWorkerWhileWork'
    <3>1. At("runnable")' \in SUBSET Worker
      BY DEF At
    <3>2. Cardinality(At("runnable")') \in Nat
      BY <3>1, WorkersFinite
    <3>. QED
      BY <1>6, <2>1, <3>2 DEF NoIdleWorkerWhileWork
  <2>3. SleepersAreRescued'
    BY <1>1, <1>6, <2>1 DEF SleepersAreRescued, TypeOK
  <2>4. At("exited")' = At("exited")
    BY <1>1, <1>8 DEF Sleep, At, TypeOK
  <2>5. ExitOnlyWhenDone'
    BY <1>1, <1>3, <1>6, <2>4 DEF ExitOnlyWhenDone
  <2>. QED
    BY <1>4, <1>5, <2>2, <2>3, <2>5 DEF IInv
<1>9. CASE Exit(w)
  <2>1. WaitPredicate /\ ready_queue = {}
    BY <1>9 DEF Exit
  <2>2. At("waiting")' = At("waiting")
    BY <1>1, <1>9 DEF Exit, At, TypeOK
  <2>3. NoIdleWorkerWhileWork'
    <3>1. At("runnable")' \in SUBSET Worker
      BY DEF At
    <3>2. Cardinality(At("runnable")') \in Nat
      BY <3>1, WorkersFinite
    <3>. QED
      BY <1>6, <2>1, <3>2 DEF NoIdleWorkerWhileWork
  <2>4. SleepersAreRescued'
    BY <1>1, <1>6, <2>2 DEF SleepersAreRescued
  <2>5. ExitOnlyWhenDone'
    <3>1. SUFFICES ASSUME keep_going \/ ~error_occurred
                   PROVE  At("running") = {}
      BY <1>3, <1>6, <2>1 DEF ExitOnlyWhenDone
    <3>2. CASE completed_count = total_nodes
      <4>1. {n \in Node : Processed(n)} = Node
        BY <1>1, <3>1, <3>2, NodesFinite DEF CountersExact
      <4>2. \A v \in At("running") : node_idx[v] \in Node /\ v \in RunningOn(node_idx[v])
        BY <1>1 DEF RunningHoldsNode, RunningOn
      <4>. QED
        BY <1>1, <4>1, <4>2 DEF PushedOnce
    <3>3. CASE active_workers = 0
      BY <1>1, <3>3, AtFinite DEF CountersExact
    <3>. QED
      BY <2>1, <3>2, <3>3 DEF WaitPredicate
  <2>. QED
    BY <1>4, <1>5, <2>3, <2>4, <2>5 DEF IInv
<1>. QED
  BY <1>7, <1>8, <1>9

\* A worker pops a task.
LEMMA TakeKeepsInvariant ==
  ASSUME IInv, NEW w \in Worker, Take(w)
  PROVE  IInv'
<1>1. /\ TypeOK /\ ReturnExact /\ CountersExact /\ PushedOnce /\ RunningHoldsNode
      /\ ErrorExact /\ NoIdleWorkerWhileWork /\ SleepersAreRescued /\ ExitOnlyWhenDone
  BY DEF IInv
<1>2. PICK n \in ready_queue :
        /\ ready_queue' = ready_queue \ {n}
        /\ node_idx' = [node_idx EXCEPT ![w] = n]
  BY DEF Take, TopTasks
<1>3. /\ active_workers' = active_workers + 1
      /\ pc[w] = "runnable"
      /\ pc' = [pc EXCEPT ![w] = "running"]
      /\ UNCHANGED <<out_edges, keep_going, in_degrees, completed_count,
                     error_occurred, outcome, result, total_nodes>>
  BY DEF Take, BeginWork, config, total_nodes
<1>4. n \in Node /\ n \in ready_queue
  BY <1>1, <1>2 DEF TypeOK
<1>5. /\ At("running")' = At("running") \cup {w} /\ w \notin At("running")
      /\ At("waiting")' = At("waiting")
      /\ At("exited")' = At("exited")
  BY <1>1, <1>3 DEF At, TypeOK
<1>6. /\ Cardinality(At("running"))' = Cardinality(At("running")) + 1
      /\ Cardinality(At("runnable"))' = Cardinality(At("runnable")) - 1
  BY <1>1, <1>3, MoveWorker DEF PC
<1>7. node_idx'[w] = n /\ \A v \in Worker : v # w => node_idx'[v] = node_idx[v]
  BY <1>1, <1>2 DEF TypeOK
<1>8. \A m \in Node : RunningOn(m)' =
        IF m = n THEN RunningOn(m) \cup {w} ELSE RunningOn(m)
  BY <1>5, <1>7 DEF RunningOn, At
<1>9. \A m \in Node : Processed(m)' = Processed(m)
  BY <1>3 DEF Processed
<1>10. TypeOK'
  <2>1. pc' \in [Worker -> PC]
    BY <1>1, <1>3 DEF TypeOK, PC
  <2>2. node_idx' \in [Worker -> Node \cup {NoNode}]
    BY <1>1, <1>2, <1>4 DEF TypeOK
  <2>. QED
    BY <1>1, <1>2, <1>3, <2>1, <2>2 DEF TypeOK
<1>11. RunningHoldsNode'
  BY <1>1, <1>4, <1>5, <1>7 DEF RunningHoldsNode, At
<1>12. CountersExact'
  <2>1. \A v \in Node : PendingEdges(v)' = PendingEdges(v)
    BY <1>3, PendingUnchanged
  <2>. QED
    BY <1>1, <1>3, <1>6, <2>1 DEF CountersExact, Processed
<1>13. PushedOnce'
  <2>1. RunningOn(n) = {} /\ ~Processed(n) /\ in_degrees[n] = 0
    BY <1>1, <1>4 DEF PushedOnce
  <2>2. \A v \in At("running") : node_idx[v] # n
    BY <2>1 DEF RunningOn
  <2>3. \A m \in Node : in_degrees'[m] = 0 <=>
          m \in ready_queue' \/ RunningOn(m)' # {} \/ Processed(m)'
    BY <1>1, <1>2, <1>3, <1>8, <1>9, <2>1 DEF PushedOnce
  <2>4. \A m \in ready_queue' : RunningOn(m)' = {} /\ ~Processed(m)'
    BY <1>1, <1>2, <1>8, <1>9 DEF PushedOnce, TypeOK
  <2>5. \A m \in Node : Processed(m)' => RunningOn(m)' = {}
    BY <1>1, <1>8, <1>9, <2>1 DEF PushedOnce
  <2>6. \A u, v \in At("running")' : node_idx'[u] = node_idx'[v] => u = v
    BY <1>1, <1>5, <1>7, <2>2 DEF PushedOnce, At
  <2>. QED
    BY <2>3, <2>4, <2>5, <2>6 DEF PushedOnce
<1>14. ErrorExact'
  BY <1>1, <1>3 DEF ErrorExact
<1>15. NoIdleWorkerWhileWork'
  <2>1. IsFiniteSet(ready_queue) /\ Cardinality(ready_queue) \in Nat
    BY <1>1, NodesFinite DEF TypeOK
  <2>2. Cardinality(ready_queue') = Cardinality(ready_queue) - 1
    BY <1>2, <1>4, <2>1, FS_RemoveElement
  <2>. QED
    BY <1>1, <1>5, <1>6, <2>1, <2>2, AtFinite DEF NoIdleWorkerWhileWork
<1>16. SleepersAreRescued'
  BY <1>1, <1>3, <1>5 DEF SleepersAreRescued, TypeOK
<1>17. ExitOnlyWhenDone'
  BY <1>1, <1>3, <1>4, <1>5 DEF ExitOnlyWhenDone
<1>18. ReturnExact'
  BY <1>1, <1>3, NotReturned DEF ReturnExact
<1>. QED
  BY <1>10, <1>11, <1>12, <1>13, <1>14, <1>15, <1>16, <1>17, <1>18 DEF IInv

\* What a step that ends a task does to the places and the histories, whether
\* the task succeeded or failed and however many nodes it released.
LEMMA EndOfTask ==
  ASSUME IInv, NEW w \in Worker, pc[w] = "running", NEW k \in Nat,
         NEW o \in {"succeeded", "failed"},
         Notify(w, k), EndWork, UNCHANGED config,
         node_idx' = [node_idx EXCEPT ![w] = NoNode],
         outcome' = [outcome EXCEPT ![node_idx[w]] = o]
  PROVE  /\ RunningHoldsNode'
         /\ active_workers' \in Nat
         /\ active_workers' = Cardinality(At("running")')
         /\ node_idx' \in [Worker -> Node \cup {NoNode}]
         /\ outcome' \in [Node -> Outcome]
         /\ {n \in Node : Processed(n)'}
              = {n \in Node : Processed(n)} \cup {node_idx[w]}
         /\ Cardinality({n \in Node : Processed(n)'})
              = Cardinality({n \in Node : Processed(n)}) + 1
         /\ \A n \in Node : RunningOn(n)' =
              IF n = node_idx[w] THEN {} ELSE RunningOn(n)
         /\ \A u, v \in At("running")' : node_idx'[u] = node_idx'[v] => u = v
<1>. DEFINE n0 == node_idx[w]
            done == {n \in Node : Processed(n)}
<1>1. TypeOK /\ RunningHoldsNode /\ CountersExact /\ PushedOnce
  BY DEF IInv
<1>2. /\ n0 \in Node /\ w \in RunningOn(n0) /\ outcome[n0] = "none"
      /\ active_workers # 0
  BY RunningNode
<1>3. At("running")' = At("running") \ {w} /\ w \in At("running")
  BY <1>1, NotifyMoves DEF At
<1>4. \A v \in Worker : v # w => node_idx'[v] = node_idx[v]
  BY <1>1 DEF TypeOK
<1>5. RunningHoldsNode'
  BY <1>1, <1>3, <1>4 DEF RunningHoldsNode, At
<1>6. active_workers' \in Nat
  BY <1>1, <1>2 DEF EndWork, TypeOK
<1>7. active_workers' = Cardinality(At("running")')
  <2>1. Cardinality(At("running") \ {w}) = Cardinality(At("running")) - 1
    BY <1>3, AtFinite, FS_RemoveElement
  <2>. QED
    BY <1>1, <1>3, <2>1 DEF EndWork, CountersExact
<1>8. node_idx' \in [Worker -> Node \cup {NoNode}] /\ outcome' \in [Node -> Outcome]
  BY <1>1 DEF TypeOK, Outcome
<1>9. {n \in Node : Processed(n)'} = done \cup {n0}
  BY <1>1, <1>2 DEF Processed, TypeOK
<1>10. Cardinality(done \cup {n0}) = Cardinality(done) + 1
  <2>1. n0 \notin done
    BY <1>2 DEF Processed
  <2>2. IsFiniteSet(done)
    BY NodesFinite
  <2>. HIDE DEF done, n0
  <2>. QED
    BY <2>1, <2>2, FS_AddElement
<1>11. \A v \in At("running") : node_idx[v] = n0 => v = w
  BY <1>1, <1>3 DEF PushedOnce
<1>12. \A n \in Node : RunningOn(n)' = IF n = n0 THEN {} ELSE RunningOn(n)
  BY <1>3, <1>4, <1>11 DEF RunningOn, At
<1>13. \A u, v \in At("running")' : node_idx'[u] = node_idx'[v] => u = v
  BY <1>1, <1>3, <1>4 DEF PushedOnce, At
<1>. QED
  BY <1>5, <1>6, <1>7, <1>8, <1>9, <1>10, <1>12, <1>13

\* A task succeeds: its neighbours' counters go down and those that reach 0
\* are pushed.
LEMMA SucceedKeepsInvariant ==
  ASSUME IInv, NEW w \in Worker, Succeed(w)
  PROVE  IInv'
<1>. DEFINE u == node_idx[w]
            k == Cardinality(Released(u))
<1>1. /\ TypeOK /\ ReturnExact /\ CountersExact /\ PushedOnce /\ RunningHoldsNode
      /\ ErrorExact /\ NoIdleWorkerWhileWork /\ SleepersAreRescued /\ ExitOnlyWhenDone
  BY DEF IInv
<1>2. /\ pc[w] = "running"
      /\ in_degrees' = [v \in Node |-> in_degrees[v] - Hits(u, v)]
      /\ ready_queue' = ready_queue \cup Released(u)
      /\ outcome' = [outcome EXCEPT ![u] = "succeeded"]
      /\ completed_count' = completed_count + 1
      /\ node_idx' = [node_idx EXCEPT ![w] = NoNode]
      /\ EndWork /\ Notify(w, k)
      /\ UNCHANGED <<out_edges, keep_going, config, error_occurred, result, total_nodes>>
  BY DEF Succeed, config, total_nodes
<1>3. /\ u \in Node /\ w \in RunningOn(u) /\ outcome[u] = "none"
      /\ in_degrees[u] = 0
  BY <1>2, RunningNode
<1>4. Released(u) \in SUBSET Node /\ IsFiniteSet(Released(u)) /\ k \in Nat
  BY NodesFinite DEF Released
<1>5. \A v \in Node : /\ in_degrees[v] \in Int /\ Hits(u, v) \in Nat
                      /\ Hits(u, v) <= in_degrees[v]
                      /\ Cardinality(PendingEdges(v)') = in_degrees[v] - Hits(u, v)
  BY <1>1, <1>2, <1>3, EdgesFinite, PendingAfterSuccess DEF CountersExact, TypeOK
<1>6. \A v \in Node : in_degrees'[v] = 0 <=> in_degrees[v] = 0 \/ v \in Released(u)
  BY <1>2, <1>5 DEF Released
<1>7. \A v \in Released(u) : /\ in_degrees[v] # 0 /\ v # u
                             /\ v \notin ready_queue /\ RunningOn(v) = {}
                             /\ ~Processed(v)
  BY <1>1, <1>3, <1>4 DEF Released, PushedOnce
<1>8. /\ RunningHoldsNode'
      /\ active_workers' \in Nat
      /\ active_workers' = Cardinality(At("running")')
      /\ node_idx' \in [Worker -> Node \cup {NoNode}]
      /\ outcome' \in [Node -> Outcome]
      /\ {n \in Node : Processed(n)'} = {n \in Node : Processed(n)} \cup {u}
      /\ Cardinality({n \in Node : Processed(n)'})
           = Cardinality({n \in Node : Processed(n)}) + 1
      /\ \A n \in Node : RunningOn(n)' = IF n = u THEN {} ELSE RunningOn(n)
      /\ \A x, y \in At("running")' : node_idx'[x] = node_idx'[y] => x = y
  BY <1>2, <1>4, EndOfTask
<1>9. \A n \in Node : Processed(n)' <=> Processed(n) \/ n = u
  BY <1>8
<1>. HIDE DEF u, k
<1>10. /\ pc' \in [Worker -> PC]
       /\ At("running")' = At("running") \ {w} /\ w \in At("running")
       /\ At("exited")' = At("exited")
       /\ NotifyEveryone(k) => At("waiting")' = {}
       /\ At("waiting")' # {} =>
            /\ At("waiting") # {}
            /\ Cardinality(At("runnable"))' = Cardinality(At("runnable")) + k + 1
  BY <1>1, <1>2, <1>4, NotifyMoves DEF At
<1>11. TypeOK'
  <2>1. in_degrees' \in [Node -> Int]
    BY <1>2, <1>5
  <2>2. ready_queue' \in SUBSET Node
    BY <1>1, <1>2, <1>4 DEF TypeOK
  <2>. QED
    BY <1>1, <1>2, <1>8, <1>10, <2>1, <2>2 DEF TypeOK
<1>12. CountersExact'
  BY <1>1, <1>2, <1>5, <1>8 DEF CountersExact
<1>13. PushedOnce'
  <2>1. \A n \in Node : in_degrees'[n] = 0 <=>
          n \in ready_queue' \/ RunningOn(n)' # {} \/ Processed(n)'
    BY <1>1, <1>2, <1>3, <1>6, <1>8, <1>9 DEF PushedOnce
  <2>2. \A n \in ready_queue' : RunningOn(n)' = {} /\ ~Processed(n)'
    <3>1. u \notin ready_queue
      BY <1>1, <1>3 DEF PushedOnce
    <3>. QED
      BY <1>1, <1>2, <1>4, <1>7, <1>8, <1>9, <3>1 DEF PushedOnce, TypeOK
  <2>3. \A n \in Node : Processed(n)' => RunningOn(n)' = {}
    BY <1>1, <1>8, <1>9 DEF PushedOnce
  <2>. QED
    BY <1>8, <2>1, <2>2, <2>3 DEF PushedOnce
<1>14. ErrorExact'
  BY <1>1, <1>2, <1>3 DEF ErrorExact, TypeOK
<1>15. NoIdleWorkerWhileWork'
  <2>1. IsFiniteSet(ready_queue) /\ Cardinality(ready_queue) \in Nat
    BY <1>1, NodesFinite DEF TypeOK
  <2>2. ready_queue \cap Released(u) = {}
    BY <1>7
  <2>3. Cardinality(ready_queue \cup Released(u))
          = Cardinality(ready_queue) + Cardinality(Released(u))
              - Cardinality(ready_queue \cap Released(u))
    BY <1>4, <2>1, FS_Union
  <2>4. Cardinality(ready_queue') = Cardinality(ready_queue) + k
    <3>1. Cardinality(ready_queue \cap Released(u)) = 0
      BY <2>2, FS_EmptySet
    <3>2. Cardinality(Released(u)) = k /\ k \in Nat
      BY <1>4 DEF k
    <3>. QED
      BY <1>2, <2>1, <2>3, <3>1, <3>2
  <2>. QED
    BY <1>1, <1>4, <1>10, <2>1, <2>4, AtFinite DEF NoIdleWorkerWhileWork
<1>16. SleepersAreRescued'
  BY <1>2, <1>8, <1>10 DEF SleepersAreRescued, NotifyEveryone
<1>17. ExitOnlyWhenDone'
  BY <1>1, <1>2, <1>10 DEF ExitOnlyWhenDone
<1>18. ReturnExact'
  BY <1>1, <1>2, NotReturned DEF ReturnExact
<1>. QED
  BY <1>8, <1>11, <1>12, <1>13, <1>14, <1>15, <1>16, <1>17, <1>18 DEF IInv

\* A task fails: nothing is released, everyone is woken.
LEMMA FailKeepsInvariant ==
  ASSUME IInv, NEW w \in Worker, Fail(w)
  PROVE  IInv'
<1>. DEFINE u == node_idx[w]
<1>1. /\ TypeOK /\ ReturnExact /\ CountersExact /\ PushedOnce /\ RunningHoldsNode
      /\ ErrorExact /\ ExitOnlyWhenDone
  BY DEF IInv
<1>2. /\ pc[w] = "running"
      /\ error_occurred' = TRUE
      /\ completed_count' = CompletedAfterFailure
      /\ outcome' = [outcome EXCEPT ![u] = "failed"]
      /\ node_idx' = [node_idx EXCEPT ![w] = NoNode]
      /\ EndWork /\ Notify(w, 0)
      /\ UNCHANGED <<out_edges, keep_going, config, in_degrees, ready_queue,
                     result, total_nodes>>
  BY DEF Fail, config, total_nodes
<1>3. /\ u \in Node /\ w \in RunningOn(u) /\ outcome[u] = "none"
      /\ in_degrees[u] = 0
  BY <1>2, RunningNode
<1>4. /\ RunningHoldsNode'
      /\ active_workers' \in Nat
      /\ active_workers' = Cardinality(At("running")')
      /\ node_idx' \in [Worker -> Node \cup {NoNode}]
      /\ outcome' \in [Node -> Outcome]
      /\ {n \in Node : Processed(n)'} = {n \in Node : Processed(n)} \cup {u}
      /\ Cardinality({n \in Node : Processed(n)'})
           = Cardinality({n \in Node : Processed(n)}) + 1
      /\ \A n \in Node : RunningOn(n)' = IF n = u THEN {} ELSE RunningOn(n)
      /\ \A x, y \in At("running")' : node_idx'[x] = node_idx'[y] => x = y
  BY <1>2, EndOfTask
<1>5. \A n \in Node : Processed(n)' <=> Processed(n) \/ n = u
  BY <1>4
<1>. HIDE DEF u
<1>6. /\ pc' \in [Worker -> PC]
      /\ At("running")' = At("running") \ {w} /\ w \in At("running")
      /\ At("exited")' = At("exited")
      /\ NotifyEveryone(0) => At("waiting")' = {}
  BY <1>1, <1>2, NotifyMoves DEF At
<1>7. At("waiting")' = {}
  BY <1>2, <1>6 DEF NotifyEveryone
<1>8. TypeOK'
  <2>1. total_nodes \in Nat
    BY NodesFinite
  <2>2. completed_count' \in Nat
    BY <1>1, <1>2, <2>1 DEF CompletedAfterFailure, TypeOK
  <2>. QED
    BY <1>1, <1>2, <1>4, <1>6, <2>2 DEF TypeOK
<1>9. CountersExact'
  <2>1. \A v \in Node : PendingEdges(v)' = PendingEdges(v)
    BY <1>1, <1>2, <1>3, PendingUnchanged DEF TypeOK
  <2>. QED
    BY <1>1, <1>2, <1>4, <2>1 DEF CountersExact, CompletedAfterFailure
<1>10. PushedOnce'
  <2>1. u \notin ready_queue
    BY <1>1, <1>3 DEF PushedOnce
  <2>2. \A n \in Node : in_degrees'[n] = 0 <=>
          n \in ready_queue' \/ RunningOn(n)' # {} \/ Processed(n)'
    BY <1>1, <1>2, <1>3, <1>4, <1>5 DEF PushedOnce
  <2>3. \A n \in ready_queue' : RunningOn(n)' = {} /\ ~Processed(n)'
    BY <1>1, <1>2, <1>4, <1>5, <2>1 DEF PushedOnce, TypeOK
  <2>4. \A n \in Node : Processed(n)' => RunningOn(n)' = {}
    BY <1>1, <1>4, <1>5 DEF PushedOnce
  <2>. QED
    BY <1>4, <2>2, <2>3, <2>4 DEF PushedOnce
<1>11. ErrorExact'
  BY <1>1, <1>2, <1>3 DEF ErrorExact, TypeOK
<1>12. NoIdleWorkerWhileWork' /\ SleepersAreRescued'
  BY <1>7 DEF NoIdleWorkerWhileWork, SleepersAreRescued
<1>13. ExitOnlyWhenDone'
  BY <1>1, <1>2, <1>6 DEF ExitOnlyWhenDone
<1>14. ReturnExact'
  BY <1>1, <1>2, NotReturned DEF ReturnExact
<1>. QED
  BY <1>4, <1>8, <1>9, <1>10, <1>11, <1>12, <1>13, <1>14 DEF IInv

\* execute() returns, or nothing happens at all.
LEMMA ReturnKeepsInvariant ==
  ASSUME IInv, Return \/ UNCHANGED vars
  PROVE  IInv'
<1>1. /\ TypeOK /\ ReturnExact /\ CountersExact /\ PushedOnce /\ RunningHoldsNode
      /\ ErrorExact /\ NoIdleWorkerWhileWork /\ SleepersAreRescued /\ ExitOnlyWhenDone
  BY DEF IInv
<1>2. /\ UNCHANGED <<config, shared, pc, node_idx, outcome>>
      /\ UNCHANGED <<total_nodes, Verdict>>
      /\ \A label : At(label)' = At(label)
  BY DEF Return, vars, config, shared, total_nodes, Verdict, At
<1>3. \A v \in Node : PendingEdges(v)' = PendingEdges(v)
  BY <1>2, PendingUnchanged DEF config
<1>4. TypeOK'
  BY <1>1, <1>2 DEF TypeOK, Return, Verdict, vars, config, shared
<1>5. RunningHoldsNode' /\ ErrorExact' /\ PushedOnce'
  BY <1>1, <1>2 DEF RunningHoldsNode, ErrorExact, PushedOnce, RunningOn, Processed,
                    At, shared
<1>6. CountersExact'
  BY <1>1, <1>2, <1>3 DEF CountersExact, Processed, At, shared, config
<1>7. NoIdleWorkerWhileWork' /\ SleepersAreRescued' /\ ExitOnlyWhenDone'
  BY <1>1, <1>2 DEF NoIdleWorkerWhileWork, SleepersAreRescued, ExitOnlyWhenDone,
                    At, shared, config
<1>8. ReturnExact'
  BY <1>1, <1>2 DEF ReturnExact, Return, vars, At
<1>. QED
  BY <1>1, <1>4, <1>5, <1>6, <1>7, <1>8 DEF IInv

\* IInv is inductive: no step of any thread breaks it.
THEOREM Invariance == Spec => []IInv
<1>1. Init => IInv
  BY InitInvariant
<1>2. IInv /\ [Next]_vars => IInv'
  <2>. SUFFICES ASSUME IInv, [Next]_vars
                PROVE  IInv'
    OBVIOUS
  <2>1. ASSUME NEW w \in Worker, WorkerStep(w) \/ SpuriousWake(w)
        PROVE  IInv'
    <3>1. CASE Spawn(w) \/ Sleep(w) \/ SpuriousWake(w) \/ Exit(w)
      BY <3>1, MovesKeepInvariant
    <3>2. CASE Take(w)
      BY <3>2, TakeKeepsInvariant
    <3>3. CASE Succeed(w)
      BY <3>3, SucceedKeepsInvariant
    <3>4. CASE Fail(w)
      BY <3>4, FailKeepsInvariant
    <3>. QED
      BY <2>1, <3>1, <3>2, <3>3, <3>4 DEF WorkerStep
  <2>2. CASE Return \/ UNCHANGED vars
    BY <2>2, ReturnKeepsInvariant
  <2>. QED
    BY <2>1, <2>2 DEF Next
<1>. QED
  BY <1>1, <1>2, PTL DEF Spec

-----------------------------------------------------------------------------
(* What follows from the inductive invariant. *)

\* When the queue is empty and nobody runs, every node that is left waits for
\* one that is left too or has failed.
LEMMA LeftNodesWait ==
  ASSUME IInv, ready_queue = {}, At("running") = {},
         NEW n \in Node, ~Processed(n)
  PROVE  \E u \in Node : /\ DependsOn(n, u)
                         /\ ~Processed(u) \/ outcome[u] = "failed"
<1>1. TypeOK /\ CountersExact /\ PushedOnce
  BY DEF IInv
<1>2. RunningOn(n) = {}
  BY DEF RunningOn
<1>3. in_degrees[n] # 0
  BY <1>1, <1>2 DEF PushedOnce
<1>4. PICK u \in Node : DependsOn(n, u) /\ outcome[u] # "succeeded"
  BY <1>1, <1>3, NonzeroMeansWaiting
<1>5. outcome[u] \in Outcome
  BY <1>1 DEF TypeOK
<1>. QED
  BY <1>4, <1>5 DEF Processed, Outcome

\* Once every worker has left, a keep-going or undisturbed build has neither
\* queued nor running tasks.
LEMMA AllLeft ==
  ASSUME IInv, At("exited") = Worker
  PROVE  /\ At("running") = {}
         /\ keep_going \/ ~error_occurred => ready_queue = {}
<1>1. At("exited") # {}
  BY PoolAssumption
<1>2. At("running") = {}
  BY DEF At
<1>. QED
  BY <1>1, <1>2 DEF IInv, ExitOnlyWhenDone

\* completed_count reaches total_nodes in an undisturbed build exactly when
\* every node has succeeded.
LEMMA CompleteMeansSucceeded ==
  ASSUME IInv, ~error_occurred
  PROVE  completed_count = total_nodes <=> \A n \in Node : outcome[n] = "succeeded"
<1>1. TypeOK /\ CountersExact /\ ErrorExact
  BY DEF IInv
<1>2. completed_count = total_nodes <=> {n \in Node : Processed(n)} = Node
  BY <1>1, NodesFinite DEF CountersExact
<1>3. \A n \in Node : outcome[n] \in {"none", "succeeded"}
  BY <1>1 DEF TypeOK, ErrorExact, Outcome
<1>. QED
  BY <1>2, <1>3 DEF Processed

\* The variables keep their types: the counters never go negative and the
\* queue holds nodes only.
THEOREM TypeCorrect == Spec => []TypeOK
<1>1. IInv => TypeOK
  BY DEF IInv
<1>. QED
  BY <1>1, Invariance, PTL

\* The three counters, in_degrees and the history agree under every
\* interleaving.
THEOREM CountersCorrect == Spec => []CountersExact
<1>1. IInv => CountersExact
  BY DEF IInv
<1>. QED
  BY <1>1, Invariance, PTL

\* Every node is pushed exactly once, and is in one place.
THEOREM NodesPushedOnce == Spec => []PushedOnce
<1>1. IInv => PushedOnce
  BY DEF IInv
<1>. QED
  BY <1>1, Invariance, PTL

\* The notifications of lines 617-630 lose no wake-up: no worker sleeps beside
\* a task nobody is about to take.
THEOREM NoLostWakeup == Spec => []NoIdleWorkerWhileWork
<1>1. IInv => NoIdleWorkerWhileWork
  BY DEF IInv
<1>. QED
  BY <1>1, Invariance, PTL

\* No worker sleeps with nobody left to wake it.
THEOREM NobodySleepsAlone == Spec => []SleepersAreRescued
<1>1. IInv => SleepersAreRescued
  BY DEF IInv
<1>. QED
  BY <1>1, Invariance, PTL

\* The first worker to leave leaves nothing behind.
THEOREM NothingLeftBehind == Spec => []ExitOnlyWhenDone
<1>1. IInv => ExitOnlyWhenDone
  BY DEF IInv
<1>. QED
  BY <1>1, Invariance, PTL

\* No task is queued, run or counted before all it depends on has succeeded.
THEOREM TasksInDependencyOrder == Spec => []DependencyOrder
<1>1. IInv => DependencyOrder
  <2>1. SUFFICES ASSUME IInv, NEW n \in Node, in_degrees[n] = 0,
                        NEW u \in Node, DependsOn(n, u)
                 PROVE  outcome[u] = "succeeded"
    BY DEF DependencyOrder, IInv, PushedOnce
  <2>. QED
    BY <2>1, ZeroMeansSatisfied DEF IInv
<1>. QED
  BY <1>1, Invariance, PTL

\* What execute() returns is what happened to the nodes.
THEOREM VerdictCorrect == Spec => []VerdictJustified
<1>1. IInv => VerdictJustified
  <2>. SUFFICES ASSUME IInv, result # "none"
                PROVE  VerdictJustified
    BY DEF VerdictJustified
  <2>1. At("exited") = Worker /\ result = Verdict
    BY DEF IInv, ReturnExact
  <2>2. error_occurred <=> \E n \in Node : outcome[n] = "failed"
    BY DEF IInv, ErrorExact
  <2>3. result = "ok" => \A n \in Node : outcome[n] = "succeeded"
    BY <2>1, CompleteMeansSucceeded DEF Verdict
  <2>4. result = "build_failed" <=> \E n \in Node : outcome[n] = "failed"
    BY <2>1, <2>2 DEF Verdict
  <2>5. result = "cycle" => Unreached # {}
    <3>1. SUFFICES ASSUME ~error_occurred, completed_count # total_nodes
                   PROVE  Unreached # {}
      BY <2>1 DEF Verdict
    <3>2. PICK n \in Node : outcome[n] # "succeeded"
      BY <3>1, CompleteMeansSucceeded
    <3>. QED
      BY <2>2, <3>1, <3>2 DEF Unreached, Processed, IInv, TypeOK, Outcome
  <2>6. ASSUME result = "cycle" \/ (result = "build_failed" /\ keep_going),
               NEW n \in Unreached
        PROVE  \E u \in Node : DependsOn(n, u)
                 /\ (u \in Unreached \/ outcome[u] = "failed")
    <3>1. ready_queue = {} /\ At("running") = {}
      BY <2>1, <2>6, AllLeft DEF Verdict
    <3>. QED
      BY <2>6, <3>1, LeftNodesWait DEF Unreached
  <2>. QED
    BY <2>3, <2>4, <2>5, <2>6 DEF VerdictJustified
<1>. QED
  BY <1>1, Invariance, PTL

-----------------------------------------------------------------------------
(* The pool implements BuildOrder. *)

\* The status of the nodes that BuildOrder sees, the substitution of Order.
statusBar == [n \in Node |-> IF Processed(n) THEN outcome[n]
                             ELSE IF RunningOn(n) # {} THEN "running"
                             ELSE "pending"]

LEMMA InitRefines ==
  ASSUME Init
  PROVE  Order!Init
<1>1. \A n \in Node : ~Processed(n) /\ RunningOn(n) = {}
  BY DEF Init, Processed, RunningOn, At
<1>. QED
  BY <1>1 DEF Init, Order!Init

\* Taking a task starts its node.
LEMMA TakeRefines ==
  ASSUME IInv, NEW w \in Worker, Take(w)
  PROVE  \E n \in Node : Order!Start(n)
<1>1. TypeOK /\ PushedOnce /\ CountersExact /\ ReturnExact
  BY DEF IInv
<1>2. PICK n \in ready_queue : node_idx' = [node_idx EXCEPT ![w] = n]
  BY DEF Take, TopTasks
<1>3. /\ pc[w] = "runnable"
      /\ pc' = [pc EXCEPT ![w] = "running"]
      /\ UNCHANGED <<out_edges, keep_going, outcome, result>>
  BY DEF Take, config
<1>4. n \in Node /\ RunningOn(n) = {} /\ ~Processed(n) /\ in_degrees[n] = 0
  BY <1>1 DEF PushedOnce, TypeOK
<1>5. \A u \in Node : Order!DependsOn(n, u) => statusBar[u] = "succeeded"
  <2>1. ASSUME NEW u \in Node, Order!DependsOn(n, u)
        PROVE  outcome[u] = "succeeded"
    <3>1. DependsOn(n, u)
      BY <2>1 DEF DependsOn, EdgesTo, Order!DependsOn
    <3>. QED
      BY <1>1, <1>4, <3>1, ZeroMeansSatisfied
  <2>. QED
    BY <2>1 DEF statusBar, Processed
<1>6. \A m \in Node : RunningOn(m)' =
        IF m = n THEN RunningOn(m) \cup {w} ELSE RunningOn(m)
  BY <1>1, <1>2, <1>3 DEF RunningOn, At, TypeOK
<1>7. \A m \in Node : Processed(m)' = Processed(m) /\ outcome'[m] = outcome[m]
  BY <1>3 DEF Processed
<1>8. statusBar' = [statusBar EXCEPT ![n] = "running"]
  BY <1>4, <1>6, <1>7 DEF statusBar
<1>9. statusBar[n] = "pending"
  BY <1>4 DEF statusBar
<1>10. result = "none"
  BY <1>1, <1>3, NotReturned
<1>. QED
  BY <1>3, <1>4, <1>5, <1>8, <1>9, <1>10 DEF Order!Start, Order!Ready, statusBar

\* Ending a task finishes its node.
LEMMA EndRefines ==
  ASSUME IInv, NEW w \in Worker, Succeed(w) \/ Fail(w)
  PROVE  \E n \in Node : Order!Finish(n)
<1>. DEFINE u == node_idx[w]
<1>1. TypeOK
  BY DEF IInv
<1>2. PICK o \in {"succeeded", "failed"} :
        /\ outcome' = [outcome EXCEPT ![u] = o]
        /\ o = "failed" => u \in Step
  BY DEF Succeed, Fail
<1>3. PICK k \in Nat : Notify(w, k)
  <2>1. Cardinality(Released(u)) \in Nat
    BY NodesFinite DEF Released
  <2>. QED
    BY <2>1 DEF Succeed, Fail
<1>4. /\ pc[w] = "running" /\ EndWork /\ UNCHANGED config
      /\ node_idx' = [node_idx EXCEPT ![w] = NoNode]
      /\ UNCHANGED <<out_edges, keep_going, result>>
  BY DEF Succeed, Fail, config
<1>5. u \in Node /\ w \in RunningOn(u) /\ outcome[u] = "none"
  BY <1>4, RunningNode
<1>6. \A n \in Node : RunningOn(n)' = IF n = u THEN {} ELSE RunningOn(n)
  BY <1>2, <1>3, <1>4, EndOfTask
<1>. HIDE DEF u
<1>7. \A n \in Node : outcome'[n] = IF n = u THEN o ELSE outcome[n]
  BY <1>1, <1>2 DEF TypeOK
<1>8. statusBar' = [statusBar EXCEPT ![u] = o]
  BY <1>5, <1>6, <1>7 DEF statusBar, Processed
<1>9. statusBar[u] = "running"
  BY <1>5 DEF statusBar, Processed
<1>. QED
  BY <1>2, <1>4, <1>5, <1>8, <1>9 DEF Order!Finish, statusBar

\* Returning concludes the build with the verdict of the outcomes.
LEMMA ReturnRefines ==
  ASSUME IInv, Return
  PROVE  Order!Conclude
<1>1. /\ result = "none" /\ At("exited") = Worker /\ result' = Verdict
      /\ UNCHANGED <<config, pc, node_idx, outcome>>
  BY DEF Return
<1>2. TypeOK /\ ErrorExact
  BY DEF IInv
<1>3. At("running") = {} /\ (keep_going \/ ~error_occurred => ready_queue = {})
  BY <1>1, AllLeft
<1>4. \A n \in Node : RunningOn(n) = {} /\ outcome[n] \in Outcome
  BY <1>2, <1>3 DEF RunningOn, TypeOK
<1>5. \A n \in Node : /\ statusBar[n] # "running"
                      /\ \A o \in {"failed", "succeeded"} :
                           statusBar[n] = o <=> outcome[n] = o
                      /\ statusBar[n] = "pending" <=> ~Processed(n)
  BY <1>4 DEF statusBar, Processed, Outcome
<1>6. error_occurred <=> \E n \in Node : statusBar[n] = "failed"
  BY <1>2, <1>5 DEF ErrorExact
<1>7. \A n \in Node : keep_going \/ ~error_occurred => ~Order!Ready(n)
  <2>1. SUFFICES ASSUME NEW n \in Node, keep_going \/ ~error_occurred,
                        statusBar[n] = "pending"
                 PROVE  \E u \in Node : Order!DependsOn(n, u) /\ statusBar[u] # "succeeded"
    BY DEF Order!Ready, statusBar
  <2>2. PICK u \in Node : DependsOn(n, u) /\ (~Processed(u) \/ outcome[u] = "failed")
    BY <1>3, <1>5, <2>1, LeftNodesWait
  <2>. QED
    BY <1>5, <2>2 DEF DependsOn, EdgesTo, Order!DependsOn, Processed
<1>8. Order!MayStop
  BY <1>5, <1>6, <1>7 DEF Order!MayStop, Order!SomeFailed, statusBar
<1>9. Verdict = Order!VerdictOf(statusBar)
  <2>1. CASE error_occurred
    BY <1>6, <2>1 DEF Verdict, Order!VerdictOf
  <2>2. CASE ~error_occurred
    BY <1>5, <1>6, <2>2, CompleteMeansSucceeded DEF Verdict, Order!VerdictOf
  <2>. QED
    BY <2>1, <2>2
<1>10. statusBar' = statusBar
  BY <1>1 DEF statusBar, Processed, RunningOn, At
<1>. QED
  BY <1>1, <1>8, <1>9, <1>10 DEF Order!Conclude, statusBar, config

\* Steps that only move a worker, and steps of nothing, are invisible.
LEMMA StutterRefines ==
  ASSUME IInv, NEW w \in Worker,
         Spawn(w) \/ Sleep(w) \/ SpuriousWake(w) \/ Exit(w) \/ UNCHANGED vars
  PROVE  UNCHANGED Order!orderVars
<1>1. UNCHANGED <<out_edges, keep_going, node_idx, outcome, result>>
  BY DEF Spawn, Sleep, SpuriousWake, Exit, vars, config
<1>2. At("running")' = At("running")
  BY DEF Spawn, Sleep, SpuriousWake, Exit, vars, At, IInv, TypeOK
<1>3. statusBar' = statusBar
  BY <1>1, <1>2 DEF statusBar, Processed, RunningOn
<1>. QED
  BY <1>1, <1>3 DEF Order!orderVars, statusBar

\* Every execution of the pool is, seen through the outcomes of the nodes, a
\* dependency-ordered execution with the right verdict.
THEOREM PoolImplementsOrder == Spec => Order!Spec
<1>1. Init => Order!Init
  BY InitRefines
<1>2. IInv /\ [Next]_vars => [Order!Next]_(Order!orderVars)
  <2>. SUFFICES ASSUME IInv, [Next]_vars
                PROVE  [Order!Next]_(Order!orderVars)
    OBVIOUS
  <2>1. ASSUME NEW w \in Worker, WorkerStep(w) \/ SpuriousWake(w)
        PROVE  [Order!Next]_(Order!orderVars)
    <3>1. CASE Take(w)
      BY <3>1, TakeRefines DEF Order!Next
    <3>2. CASE Succeed(w) \/ Fail(w)
      BY <3>2, EndRefines DEF Order!Next
    <3>3. CASE Spawn(w) \/ Sleep(w) \/ SpuriousWake(w) \/ Exit(w)
      BY <3>3, StutterRefines
    <3>. QED
      BY <2>1, <3>1, <3>2, <3>3 DEF WorkerStep
  <2>2. CASE Return
    BY <2>2, ReturnRefines DEF Order!Next
  <2>3. CASE UNCHANGED vars
    <3>1. PICK w \in Worker : TRUE
      BY PoolAssumption
    <3>. QED
      BY <2>3, <3>1, StutterRefines
  <2>. QED
    BY <2>1, <2>2, <2>3 DEF Next
<1>. QED
  BY <1>1, <1>2, Invariance, PTL DEF Spec, Order!Spec

=============================================================================
