----------------------------- MODULE BuildOrder -----------------------------
(***************************************************************************)
(* What one call of Executor::execute promises, without threads: every     *)
(* node of the build graph is processed at most once, after all the nodes  *)
(* it depends on have succeeded, and the call returns a verdict that       *)
(* follows from the outcomes of the nodes alone.  WorkerPool implements    *)
(* this specification; Freshness uses it as its scheduler.                 *)
(***************************************************************************)
EXTENDS Naturals, Sequences

CONSTANTS
  Node,      \* the nodes of the build graph (files)
  Step,      \* the nodes that a build step produces; the others are sources
  Graphs     \* the graphs considered: out_edges of every node, with repeats

VARIABLES
  out_edges,   \* the graph of this run, never changed
  keep_going,  \* ExecutorConfig::keep_going, never changed
  status,      \* how far each node is
  verdict      \* what execute() returned, "none" before it does

orderVars == <<out_edges, keep_going, status, verdict>>

Status == {"pending", "running", "succeeded", "failed"}
Verdict == {"none", "ok", "build_failed", "cycle"}

TypeOK ==
  /\ out_edges \in [Node -> Seq(Step)]
  /\ keep_going \in BOOLEAN
  /\ status \in [Node -> Status]
  /\ verdict \in Verdict

-----------------------------------------------------------------------------

\* v depends on u: one of u's out edges leads to v.
DependsOn(v, u) == \E i \in DOMAIN out_edges[u] : out_edges[u][i] = v

Ready(n) ==
  /\ status[n] = "pending"
  /\ \A u \in Node : DependsOn(n, u) => status[u] = "succeeded"

SomeFailed == \E n \in Node : status[n] = "failed"

\* Nothing is left to do, or a build that does not keep going has failed.
MayStop ==
  /\ \A n \in Node : status[n] # "running"
  /\ (\A n \in Node : ~Ready(n)) \/ (SomeFailed /\ ~keep_going)

VerdictOf(st) ==
  IF \E n \in Node : st[n] = "failed" THEN "build_failed"
  ELSE IF \E n \in Node : st[n] # "succeeded" THEN "cycle" ELSE "ok"

-----------------------------------------------------------------------------

Init ==
  /\ out_edges \in Graphs
  /\ keep_going \in BOOLEAN
  /\ status = [n \in Node |-> "pending"]
  /\ verdict = "none"

Start(n) ==
  /\ verdict = "none"
  /\ Ready(n)
  /\ status' = [status EXCEPT ![n] = "running"]
  /\ UNCHANGED <<out_edges, keep_going, verdict>>

\* Only a node with a build step can fail.
Finish(n) ==
  /\ status[n] = "running"
  /\ \E s \in {"succeeded", "failed"} :
       /\ s = "failed" => n \in Step
       /\ status' = [status EXCEPT ![n] = s]
  /\ UNCHANGED <<out_edges, keep_going, verdict>>

Conclude ==
  /\ verdict = "none"
  /\ MayStop
  /\ verdict' = VerdictOf(status)
  /\ UNCHANGED <<out_edges, keep_going, status>>

Next ==
  \/ \E n \in Node : Start(n) \/ Finish(n)
  \/ Conclude

Spec == Init /\ [][Next]_orderVars

FairSpec == Spec /\ WF_orderVars(Next)

=============================================================================
