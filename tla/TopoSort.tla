------------------------------ MODULE TopoSort ------------------------------
(***************************************************************************)
(* BuildGraph::topo_sort (src/src/graph.cpp): the depth-first sort behind  *)
(* cbe -t compdb and cbe -t commands.  The recursion of dfs is a stack of  *)
(* frames; each step of the loop over the out edges is a step.             *)
(***************************************************************************)
EXTENDS Integers, Sequences

CONSTANTS
  N,       \* the nodes are 1 .. N
  Graphs   \* the graphs considered: out_edges of every node

Node == 1 .. N

ASSUME TopoSortAssumption ==
  /\ N \in Nat
  /\ Graphs \subseteq [Node -> Seq(Node)]

VARIABLES
  out_edges,  \* the graph, fixed
  status,     \* UNSTARTED, WORKING or FINISHED
  order,      \* the nodes in the order they were finished
  stack,      \* the calls of dfs: the node, and the next out edge to look at
  root,       \* the loop variable of the outer loop
  result      \* "running", then "sorted" or "cycle"

vars == <<out_edges, status, order, stack, root, result>>

TypeOK ==
  /\ out_edges \in [Node -> Seq(Node)]
  /\ status \in [Node -> {"unstarted", "working", "finished"}]
  /\ order \in Seq(Node) /\ Len(order) <= N
  /\ stack \in Seq([node : Node, next : Nat \ {0}])
  /\ root \in 1 .. N + 1
  /\ result \in {"running", "sorted", "cycle"}

-----------------------------------------------------------------------------

Top == stack[Len(stack)]

\* The stack when the top call has gone on to its next edge.
Advanced == [stack EXCEPT ![Len(stack)].next = @ + 1]

Init ==
  /\ out_edges \in Graphs
  /\ status = [n \in Node |-> "unstarted"]
  /\ order = <<>>
  /\ stack = <<>>
  /\ root = 1
  /\ result = "running"

\* Mutated form of Call: the node is not marked.
CallUnmarked(calls, v) ==
  /\ UNCHANGED status
  /\ stack' = Append(calls, [node |-> v, next |-> 1])

\* dfs(v) is called: its node is marked before its edges are looked at.
Call(calls, v) ==
  /\ status' = [status EXCEPT ![v] = "working"]
  /\ stack' = Append(calls, [node |-> v, next |-> 1])

\* Mutated form of Unreached: dfs is called on every node.
EveryNode(n) == TRUE

Unreached(n) == status[n] = "unstarted"

\* The outer loop: dfs is called on a node it has not reached yet.
Root ==
  /\ result = "running" /\ stack = <<>> /\ root <= N
  /\ IF Unreached(root) THEN Call(stack, root)
                        ELSE UNCHANGED <<status, stack>>
  /\ root' = root + 1
  /\ UNCHANGED <<out_edges, order, result>>

\* Mutated form of OnStack: any node met before is taken for a cycle.
SeenBefore(v) == status[v] # "unstarted"

\* Mutated form of OnStack: only an edge of a node to itself is one.
SelfLoop(v) == v = Top.node

\* The edge leads back to a call that has not returned.
OnStack(v) == status[v] = "working"

\* The inner loop of the top call looks at its next out edge.
Visit ==
  /\ result = "running" /\ stack # <<>>
  /\ Top.next <= Len(out_edges[Top.node])
  /\ LET v == out_edges[Top.node][Top.next] IN
       \/ /\ status[v] = "unstarted"
          /\ Call(Advanced, v)
          /\ UNCHANGED result
       \/ /\ OnStack(v)
          /\ result' = "cycle"
          /\ UNCHANGED <<status, stack>>
       \/ /\ status[v] # "unstarted" /\ ~OnStack(v)
          /\ stack' = Advanced
          /\ UNCHANGED <<status, result>>
  /\ UNCHANGED <<out_edges, order, root>>

\* Mutated form of Finished: a node is put in front, and the whole reversed.
FinishedFirst(u) == <<u>> \o order

Finished(u) == Append(order, u)

\* The top call has looked at all its edges and returns.
Finish ==
  /\ result = "running" /\ stack # <<>>
  /\ Top.next > Len(out_edges[Top.node])
  /\ status' = [status EXCEPT ![Top.node] = "finished"]
  /\ order' = Finished(Top.node)
  /\ stack' = SubSeq(stack, 1, Len(stack) - 1)
  /\ UNCHANGED <<out_edges, root, result>>

Reversed(s) == [i \in DOMAIN s |-> s[Len(s) + 1 - i]]

\* The outer loop is over: the order is reversed and returned.
Return ==
  /\ result = "running" /\ stack = <<>> /\ root > N
  /\ result' = "sorted"
  /\ order' = Reversed(order)
  /\ UNCHANGED <<out_edges, status, stack, root>>

Next == Root \/ Visit \/ Finish \/ Return

Spec == Init /\ [][Next]_vars

-----------------------------------------------------------------------------
(* Properties *)

Edge(u, v) == \E i \in DOMAIN out_edges[u] : out_edges[u][i] = v

\* A closed walk along out edges.
IsCycle(walk) ==
  /\ walk # <<>>
  /\ \A i \in 1 .. Len(walk) - 1 : Edge(walk[i], walk[i + 1])
  /\ Edge(walk[Len(walk)], walk[1])

\* The calls of dfs that have not returned stand on distinct nodes, the ones
\* marked WORKING, and each was called along an edge from the one below it:
\* the recursion is never deeper than the number of nodes.
StackIsPath ==
  /\ \A n \in Node : status[n] = "working" <=>
       \E i \in DOMAIN stack : stack[i].node = n
  /\ \A i, j \in DOMAIN stack : stack[i].node = stack[j].node => i = j
  /\ \A i \in 1 .. Len(stack) - 1 : Edge(stack[i].node, stack[i + 1].node)

\* The order returned is a topological sort of the whole graph: every node
\* stands in it once, and before all the nodes that depend on it, so a command
\* listed by -t commands never precedes one that makes its inputs.
OrderIsTopological ==
  result = "sorted" =>
    /\ \A n \in Node : \E i \in DOMAIN order : order[i] = n
    /\ \A i, j \in DOMAIN order : order[i] = order[j] => i = j
    /\ \A i, j \in DOMAIN order : Edge(order[i], order[j]) => i < j

\* The error names a real cycle: it goes through the nodes of the stack above
\* the one the edge leads back to.  A node met twice on different paths, or
\* by a repeated edge, is no cycle.
ErrorIsACycle ==
  result = "cycle" =>
    \E i \in DOMAIN stack : IsCycle([k \in 1 .. Len(stack) + 1 - i |->
                                       stack[i + k - 1].node])

\* Every cycle is found: in a graph that is sorted no edge leads on for ever,
\* so every set of nodes has one without an edge to any of them.
CyclesAreFound ==
  result = "sorted" =>
    \A S \in (SUBSET Node) \ {{}} : \E n \in S : \A v \in S : ~Edge(n, v)

=============================================================================
