----------------------------- MODULE WorkerPool -----------------------------
(***************************************************************************)
(* The thread pool of Executor::execute (src/src/executor.cpp): a ready    *)
(* queue ordered by work estimate, in-degree counters, a mutex, a condition *)
(* variable and three counters shared by all workers.                      *)
(*                                                                         *)
(* Every access of the shared variables is inside a critical section of    *)
(* mtx, so one critical section is one step.  Waiting on cv_ready releases *)
(* the mutex and puts the worker in the wait set in the same step.  What   *)
(* process_step does with its node is left to Freshness: here it ends with *)
(* a zero or a nonzero result.                                             *)
(***************************************************************************)
EXTENDS Integers, Sequences, FiniteSets

CONSTANTS
  Node, Step, Graphs,  \* as in BuildOrder
  Worker,              \* the threads; their number is jobs, after defaults
  Estimate,            \* WorkEstimate of each node's output, 0 if unknown
  NotifyAllCriteria,   \* TUNABLE__notify_all_criteria, 10 in the code
  NoNode               \* node_idx of a worker that holds no task

ASSUME PoolAssumption ==
  /\ IsFiniteSet(Node) /\ Node # {}   \* execute() returns early if empty
  /\ Step \subseteq Node
  /\ Graphs \subseteq [Node -> Seq(Step)]
  /\ IsFiniteSet(Worker) /\ Worker # {}
  /\ Estimate \in [Node -> Nat]
  /\ NotifyAllCriteria \in Nat \ {0, 1}
  /\ NoNode \notin Node

VARIABLES
  out_edges,        \* BuildGraph::Node::out_edges, fixed during the build
  keep_going,       \* ExecutorConfig::keep_going, fixed
  in_degrees,       \* how many edges into a node are still unsatisfied
  ready_queue,      \* the nodes of the Tasks in the priority queue
  completed_count,
  error_occurred,
  active_workers,
  pc,               \* where each worker is
  node_idx,         \* the task each worker holds
  outcome,          \* history: how process_step ended for each node
  result            \* what execute() returned

config == <<out_edges, keep_going>>
shared == <<in_degrees, ready_queue, completed_count, error_occurred,
            active_workers>>
vars == <<config, shared, pc, node_idx, outcome, result>>

PC == {"absent",     \* jthread not yet created
       "runnable",   \* about to lock mtx and evaluate the wait predicate
       "waiting",    \* blocked in cv_ready.wait
       "running",    \* inside process_step
       "exited"}
Outcome == {"none", "succeeded", "failed"}

TypeOK ==
  /\ out_edges \in [Node -> Seq(Step)]
  /\ keep_going \in BOOLEAN
  /\ in_degrees \in [Node -> Int]
  /\ ready_queue \in SUBSET Node
  /\ completed_count \in Nat
  /\ error_occurred \in BOOLEAN
  /\ active_workers \in Nat
  /\ pc \in [Worker -> PC]
  /\ node_idx \in [Worker -> Node \cup {NoNode}]
  /\ outcome \in [Node -> Outcome]
  /\ result \in {"none", "ok", "build_failed", "cycle"}

-----------------------------------------------------------------------------

total_nodes == Cardinality(Node)

At(label) == {w \in Worker : pc[w] = label}

\* The out edges of u that lead to v: a manifest input that also appears in
\* the depfile gives two.
EdgesTo(u, v) == {i \in DOMAIN out_edges[u] : out_edges[u][i] = v}

EdgesInto(v) == UNION {{u} \X EdgesTo(u, v) : u \in Node}

\* Mutated form of Hits: a repeated edge is followed once.
HitsOnce(u, v) == IF EdgesTo(u, v) = {} THEN 0 ELSE 1

\* How often the walk over u's out edges decrements the counter of v.
Hits(u, v) == Cardinality(EdgesTo(u, v))

\* Mutated forms of Released: the counter is not compared with 0; or every
\* node whose counter is 0 is pushed, not only the one just decremented.
ReleasedEarly(u) == {v \in Node : Hits(u, v) > 0}
ReleasedAgain(u) == {v \in Node : in_degrees[v] <= Hits(u, v)}

\* The neighbours whose counter reaches 0 while u's out edges are walked.
Released(u) == {v \in Node : in_degrees[v] \in 1 .. Hits(u, v)}

TopTasks == {n \in ready_queue :
               \A m \in ready_queue : Estimate[m] <= Estimate[n]}

\* The predicate of cv_ready.wait.
WaitPredicate ==
  \/ ready_queue # {}
  \/ completed_count = total_nodes
  \/ active_workers = 0

-----------------------------------------------------------------------------

Init ==
  /\ out_edges \in Graphs
  /\ keep_going \in BOOLEAN
  /\ in_degrees = [v \in Node |-> Cardinality(EdgesInto(v))]
  /\ ready_queue = {v \in Node : in_degrees[v] = 0}
  /\ completed_count = 0
  /\ error_occurred = FALSE
  /\ active_workers = 0
  /\ pc = [w \in Worker |-> "absent"]
  /\ node_idx = [w \in Worker |-> NoNode]
  /\ outcome = [n \in Node |-> "none"]
  /\ result = "none"

\* pool.emplace_back(worker): the new thread runs while others are created.
Spawn(w) ==
  /\ pc[w] = "absent"
  /\ pc' = [pc EXCEPT ![w] = "runnable"]
  /\ UNCHANGED <<config, shared, node_idx, outcome, result>>

\* The wait predicate is false: release mtx and sleep.
Sleep(w) ==
  /\ pc[w] = "runnable"
  /\ ~WaitPredicate
  /\ pc' = [pc EXCEPT ![w] = "waiting"]
  /\ UNCHANGED <<config, shared, node_idx, outcome, result>>

\* A condition variable may wake a thread that nobody notified.
SpuriousWake(w) ==
  /\ pc[w] = "waiting"
  /\ pc' = [pc EXCEPT ![w] = "runnable"]
  /\ UNCHANGED <<config, shared, node_idx, outcome, result>>

\* The predicate holds and the queue is empty: the thread function returns.
Exit(w) ==
  /\ pc[w] = "runnable"
  /\ WaitPredicate /\ ready_queue = {}
  /\ pc' = [pc EXCEPT ![w] = "exited"]
  /\ UNCHANGED <<config, shared, node_idx, outcome, result>>

\* Mutated form of BeginWork: the worker does not count itself.
BeginWorkUncounted == UNCHANGED active_workers

BeginWork == active_workers' = active_workers + 1

EndWork == active_workers' = active_workers - 1

\* Pop a task of the highest estimate and leave the critical section.
Take(w) ==
  /\ pc[w] = "runnable"
  /\ \E n \in TopTasks :
       /\ ready_queue' = ready_queue \ {n}
       /\ node_idx' = [node_idx EXCEPT ![w] = n]
  /\ BeginWork
  /\ pc' = [pc EXCEPT ![w] = "running"]
  /\ UNCHANGED <<config, in_degrees, completed_count, error_occurred, outcome,
                 result>>

\* Mutated form of NotifyEveryone: the stall is not announced.
NotifyEveryoneUnlessStalled(k) ==
  \/ completed_count' = total_nodes
  \/ error_occurred'
  \/ k >= NotifyAllCriteria

\* Whether notify_all is called after k tasks were pushed: the build is
\* finished, an error has occurred, the pool has stalled, or k is large.
NotifyEveryone(k) ==
  \/ completed_count' = total_nodes
  \/ error_occurred'
  \/ active_workers' = 0
  \/ k >= NotifyAllCriteria

\* Mutated form of NotifyCount: only a single task is announced.
NotifySingle(k) == IF k = 1 THEN 1 ELSE 0

\* How often notify_one is called otherwise.
NotifyCount(k) == k

\* The notifications at the end of the second critical section, after the
\* counters are updated and k tasks were pushed; w goes back to the loop.
Notify(w, k) ==
  LET waiting == At("waiting")
      everyone == NotifyEveryone(k) \/ Cardinality(waiting) <= NotifyCount(k)
  IN \E woken \in SUBSET waiting :
       /\ IF everyone THEN woken = waiting
                      ELSE Cardinality(woken) = NotifyCount(k)
       /\ pc' = [v \in Worker |->
                   IF v \in woken \cup {w} THEN "runnable" ELSE pc[v]]

\* process_step returned 0: count the node and release its neighbours.
Succeed(w) ==
  /\ pc[w] = "running"
  /\ LET u == node_idx[w] IN
       /\ in_degrees' = [v \in Node |->
                           in_degrees[v] - Hits(u, v)]
       /\ ready_queue' = ready_queue \cup Released(u)
       /\ outcome' = [outcome EXCEPT ![u] = "succeeded"]
       /\ completed_count' = completed_count + 1
       /\ EndWork
       /\ node_idx' = [node_idx EXCEPT ![w] = NoNode]
       /\ UNCHANGED error_occurred
       /\ Notify(w, Cardinality(Released(u)))
  /\ UNCHANGED <<config, result>>

\* Mutated form of CompletedAfterFailure: keep_going is not consulted.
CompletedAfterAnyFailure == total_nodes

CompletedAfterFailure ==
  IF keep_going THEN completed_count + 1 ELSE total_nodes

\* process_step returned nonzero, which takes a build step.
Fail(w) ==
  /\ pc[w] = "running"
  /\ node_idx[w] \in Step
  /\ error_occurred' = TRUE
  /\ completed_count' = CompletedAfterFailure
  /\ EndWork
  /\ outcome' = [outcome EXCEPT ![node_idx[w]] = "failed"]
  /\ node_idx' = [node_idx EXCEPT ![w] = NoNode]
  /\ Notify(w, 0)
  /\ UNCHANGED <<config, in_degrees, ready_queue, result>>

\* Mutated form of Verdict: the stall is tested before the error.
VerdictStallFirst ==
  IF completed_count # total_nodes THEN "cycle"
  ELSE IF error_occurred THEN "build_failed" ELSE "ok"

Verdict ==
  IF error_occurred THEN "build_failed"
  ELSE IF completed_count # total_nodes THEN "cycle" ELSE "ok"

\* pool.clear() has joined every thread: execute() decides what to return.
Return ==
  /\ result = "none"
  /\ At("exited") = Worker
  /\ result' = Verdict
  /\ UNCHANGED <<config, shared, pc, node_idx, outcome>>

WorkerStep(w) ==
  Spawn(w) \/ Sleep(w) \/ Exit(w) \/ Take(w) \/ Succeed(w) \/ Fail(w)

Next ==
  \/ \E w \in Worker : WorkerStep(w) \/ SpuriousWake(w)
  \/ Return

Spec == Init /\ [][Next]_vars

\* The scheduler runs every thread that can run, a tool ends, and the main
\* thread joins; nobody owes a spurious wake-up.
FairSpec ==
  /\ Spec
  /\ \A w \in Worker : WF_vars(WorkerStep(w))
  /\ WF_vars(Return)

-----------------------------------------------------------------------------
(* Properties *)

Processed(n) == outcome[n] # "none"

RunningOn(n) == {w \in At("running") : node_idx[w] = n}

DependsOn(v, u) == EdgesTo(u, v) # {}

\* The edges into v whose source has not succeeded yet.
PendingEdges(v) == {e \in EdgesInto(v) : outcome[e[1]] # "succeeded"}

\* The counters maintained by decrementing agree with the graph and with the
\* history of outcomes, whatever the interleaving (lines 587, 594-617).
CountersExact ==
  /\ active_workers = Cardinality(At("running"))
  /\ \A v \in Node : in_degrees[v] = Cardinality(PendingEdges(v))
  /\ keep_going \/ ~error_occurred =>
       completed_count = Cardinality({n \in Node : Processed(n)})

\* A node is queued, running or processed exactly when its counter is 0, and
\* in one of these three ways only: no push is lost and none is repeated.
PushedOnce ==
  /\ \A n \in Node : in_degrees[n] = 0 <=>
       n \in ready_queue \/ RunningOn(n) # {} \/ Processed(n)
  /\ \A n \in ready_queue : RunningOn(n) = {} /\ ~Processed(n)
  /\ \A n \in Node : Processed(n) => RunningOn(n) = {}
  /\ \A v, w \in At("running") : node_idx[v] = node_idx[w] => v = w

\* No task is handed out, let alone processed, before every node it depends
\* on has succeeded.
DependencyOrder ==
  \A n \in Node : n \in ready_queue \/ RunningOn(n) # {} \/ Processed(n) =>
    \A u \in Node : DependsOn(n, u) => outcome[u] = "succeeded"

\* While some worker sleeps un-notified there are at least as many awake
\* workers, about to look at the queue, as there are queued tasks: counting
\* the notifications by new_work_count (lines 617-630) never leaves a task
\* and a thread that could run it waiting for each other.
NoIdleWorkerWhileWork ==
  At("waiting") # {} => Cardinality(ready_queue) <= Cardinality(At("runnable"))

\* A worker sleeps only while another one is running and the build is not
\* over, so somebody is left to notify it.
SleepersAreRescued ==
  At("waiting") # {} => active_workers > 0 /\ completed_count # total_nodes

\* When the first worker leaves an undisturbed or a keep-going build, there
\* is no work left and none can appear (lines 578-583).
ExitOnlyWhenDone ==
  At("exited") # {} /\ (keep_going \/ ~error_occurred) =>
    ready_queue = {} /\ At("running") = {}

\* The nodes no worker has finished with.
Unreached == {n \in Node : ~Processed(n)}

\* What execute() returns is what happened.  "ok": every node succeeded.
\* "cycle": nothing failed, and the nodes left all wait for one another.
\* In a keep-going build every node left waits for a failed or a left node.
VerdictJustified ==
  /\ result = "ok" => \A n \in Node : outcome[n] = "succeeded"
  /\ result = "build_failed" <=>
       result # "none" /\ \E n \in Node : outcome[n] = "failed"
  /\ result = "cycle" => Unreached # {}
  /\ result = "cycle" \/ (result = "build_failed" /\ keep_going) =>
       \A n \in Unreached : \E u \in Node :
         DependsOn(n, u) /\ (u \in Unreached \/ outcome[u] = "failed")

\* Every build returns: no interleaving of waits and notifications leaves the
\* pool asleep, with or without failures and cycles.
Termination == <>(result # "none")

\* The pool implements BuildOrder: its threads, counters and notifications
\* only ever produce a dependency-ordered execution with the right verdict.
Order == INSTANCE BuildOrder WITH
  status <- [n \in Node |-> IF Processed(n) THEN outcome[n]
                            ELSE IF RunningOn(n) # {} THEN "running"
                            ELSE "pending"],
  verdict <- result

ImplementsBuildOrder == Order!FairSpec

\* What "-k, --keep-going  Continue the build after error (default: false)"
\* (src/src/cli_args.cpp:107) and the comment "Force exit" on line 601 of
\* executor.cpp say of a build without -k: after a failure no new task starts.
NoStartAfterError ==
  [][error_occurred /\ ~keep_going =>
       \A n \in Node : RunningOn(n) = {} => RunningOn(n)' = {}]_vars

=============================================================================
