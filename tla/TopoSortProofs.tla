--------------------------- MODULE TopoSortProofs ---------------------------
(***************************************************************************)
(* The depth-first sort is correct for every graph.  The inductive         *)
(* invariant TInv says that the calls on the stack stand on a simple path, *)
(* that every edge a call has looked at leads to a finished node or to the *)
(* call above it, and that the order holds the finished nodes, each after  *)
(* all those it has an edge to.                                            *)
(***************************************************************************)
EXTENDS TopoSort, FiniteSets, FiniteSetTheorems, WellFoundedInduction, TLAPS

Frame == [node : Node, next : Nat \ {0}]

Types ==
  /\ out_edges \in [Node -> Seq(Node)]
  /\ status \in [Node -> {"unstarted", "working", "finished"}]
  /\ order \in Seq(Node)
  /\ stack \in Seq(Frame)
  /\ root \in 1 .. N + 1
  /\ result \in {"running", "sorted", "cycle"}

\* The calls stand on distinct nodes, the WORKING ones, each called along the
\* edge that the call below it has just passed.
StackInv ==
  /\ \A i \in DOMAIN stack : status[stack[i].node] = "working"
  /\ \A n \in Node : status[n] = "working" =>
       \E i \in DOMAIN stack : stack[i].node = n
  /\ \A i, j \in DOMAIN stack : stack[i].node = stack[j].node => i = j
  /\ \A i \in DOMAIN stack :
       stack[i].next <= Len(out_edges[stack[i].node]) + 1
  /\ \A i \in 1 .. Len(stack) - 1 :
       /\ stack[i].next > 1
       /\ out_edges[stack[i].node][stack[i].next - 1] = stack[i + 1].node

\* The edges passed lead to finished nodes, the last one perhaps to the call
\* above.
PassedInv ==
  \A i \in DOMAIN stack : \A k \in 1 .. stack[i].next - 1 :
    \/ status[out_edges[stack[i].node][k]] = "finished"
    \/ i < Len(stack) /\ k = stack[i].next - 1

\* Until it is reversed, the order holds the finished nodes once each, and
\* what a node has an edge to before it.
OrderInv ==
  result # "sorted" =>
    /\ \A n \in Node : status[n] = "finished" <=>
         \E i \in DOMAIN order : order[i] = n
    /\ \A i, j \in DOMAIN order : order[i] = order[j] => i = j
    /\ \A i \in DOMAIN order : \A v \in Node :
         Edge(order[i], v) => \E j \in 1 .. i - 1 : order[j] = v

RootInv == \A n \in 1 .. root - 1 : status[n] # "unstarted"

CycleInv ==
  result = "cycle" =>
    /\ stack # <<>>
    /\ Top.next <= Len(out_edges[Top.node])
    /\ status[out_edges[Top.node][Top.next]] = "working"

TInv ==
  /\ Types /\ StackInv /\ PassedInv /\ OrderInv /\ RootInv /\ CycleInv
  /\ OrderIsTopological

-----------------------------------------------------------------------------
(* The stack. *)

\* The last position, or one before it.
LEMMA LastOrBefore ==
  ASSUME NEW n \in Nat, NEW i \in 1 .. n
  PROVE  i = n \/ i \in 1 .. n - 1
  OBVIOUS

\* Going on to the next edge changes only the top frame's counter.
LEMMA AdvancedFacts ==
  ASSUME stack \in Seq(Frame), stack # <<>>
  PROVE  /\ Advanced \in Seq(Frame)
         /\ Len(Advanced) = Len(stack)
         /\ \A i \in 1 .. Len(stack) : Advanced[i].node = stack[i].node
         /\ \A i \in 1 .. Len(stack) - 1 : Advanced[i].next = stack[i].next
         /\ Advanced[Len(stack)].next = stack[Len(stack)].next + 1
<1>1. Len(stack) \in 1 .. Len(stack)
  OBVIOUS
<1>2. stack[Len(stack)] \in Frame
  BY <1>1
<1>3. [stack[Len(stack)] EXCEPT !.next = @ + 1] \in Frame
  BY <1>2 DEF Frame
<1> QED
  BY <1>1, <1>2, <1>3 DEF Advanced, Frame

\* The frame of a call to v, above the frames of s.
LEMMA PushedFacts ==
  ASSUME NEW s \in Seq(Frame), NEW v \in Node
  PROVE  LET t == Append(s, [node |-> v, next |-> 1]) IN
         /\ t \in Seq(Frame)
         /\ Len(t) = Len(s) + 1
         /\ \A i \in 1 .. Len(s) : t[i] = s[i]
         /\ t[Len(s) + 1].node = v /\ t[Len(s) + 1].next = 1
<1>1. [node |-> v, next |-> 1] \in Frame
  BY DEF Frame
<1> QED
  BY <1>1

\* The stack below the top.
LEMMA PoppedFacts ==
  ASSUME stack \in Seq(Frame), stack # <<>>
  PROVE  LET t == SubSeq(stack, 1, Len(stack) - 1) IN
         /\ t \in Seq(Frame)
         /\ Len(t) = Len(stack) - 1
         /\ \A i \in 1 .. Len(stack) - 1 : t[i] = stack[i]
  OBVIOUS

\* The top frame and its node.
LEMMA TopFacts ==
  ASSUME Types, stack # <<>>
  PROVE  /\ Len(stack) \in DOMAIN stack
         /\ Top.node \in Node /\ Top.next \in Nat \ {0}
         /\ out_edges[Top.node] \in Seq(Node)
<1>1. Len(stack) \in DOMAIN stack
  BY DEF Types
<1>2. stack[Len(stack)] \in Frame
  BY <1>1 DEF Types
<1> QED
  BY <1>1, <1>2 DEF Types, Frame, Top

\* Every frame has the types of a frame.
LEMMA FrameFacts ==
  ASSUME Types, NEW i \in DOMAIN stack
  PROVE  /\ stack[i].node \in Node /\ stack[i].next \in Nat \ {0}
         /\ out_edges[stack[i].node] \in Seq(Node)
<1>1. stack[i] \in Frame
  BY DEF Types
<1> QED
  BY <1>1 DEF Types, Frame

-----------------------------------------------------------------------------
(* Steps. *)

LEMMA Initially == Init => TInv
<1> SUFFICES ASSUME Init PROVE TInv
  OBVIOUS
<1>1. Types
  BY TopoSortAssumption DEF Init, Types, Node
<1>2. StackInv /\ PassedInv /\ OrderInv /\ RootInv /\ CycleInv
  BY <1>1 DEF Init, StackInv, PassedInv, OrderInv, RootInv, CycleInv, Types
<1>3. OrderIsTopological
  BY DEF Init, OrderIsTopological
<1> QED
  BY <1>1, <1>2, <1>3 DEF TInv

\* A call of dfs on a node v not reached before, from the top call if there is
\* one, along its next edge; base is the stack below the new frame.
LEMMA CallKeepsTypes ==
  ASSUME Types, NEW base \in Seq(Frame), NEW v \in Node, Call(base, v)
  PROVE  /\ stack' \in Seq(Frame)
         /\ status' \in [Node -> {"unstarted", "working", "finished"}]
         /\ status'[v] = "working"
         /\ \A n \in Node : n # v => status'[n] = status[n]
         /\ Len(stack') = Len(base) + 1
         /\ \A i \in 1 .. Len(base) : stack'[i] = base[i]
         /\ stack'[Len(base) + 1].node = v /\ stack'[Len(base) + 1].next = 1
<1>1. stack' = Append(base, [node |-> v, next |-> 1])
  BY DEF Call
<1>2. status' = [status EXCEPT ![v] = "working"]
  BY DEF Call
<1>3. /\ status' \in [Node -> {"unstarted", "working", "finished"}]
      /\ status'[v] = "working"
      /\ \A n \in Node : n # v => status'[n] = status[n]
  BY <1>2 DEF Types
<1> QED
  BY <1>1, <1>3, PushedFacts

LEMMA CallKeepsStack ==
  ASSUME Types, StackInv, PassedInv, OrderInv, result = "running",
         NEW v \in Node, status[v] = "unstarted",
         NEW base \in Seq(Frame),
         Len(base) = Len(stack),
         \A i \in 1 .. Len(stack) : base[i].node = stack[i].node,
         \A i \in 1 .. Len(stack) - 1 : base[i].next = stack[i].next,
         stack # <<>> =>
           /\ base[Len(stack)].next = stack[Len(stack)].next + 1
           /\ stack[Len(stack)].next <= Len(out_edges[stack[Len(stack)].node])
           /\ out_edges[stack[Len(stack)].node][stack[Len(stack)].next] = v,
         Call(base, v),
         UNCHANGED <<out_edges, order, result>>
  PROVE  StackInv' /\ PassedInv' /\ OrderInv'
<1> DEFINE L == Len(stack)
<1>1. /\ stack' \in Seq(Frame)
      /\ status' \in [Node -> {"unstarted", "working", "finished"}]
      /\ status'[v] = "working"
      /\ \A n \in Node : n # v => status'[n] = status[n]
      /\ Len(stack') = L + 1
      /\ \A i \in 1 .. L : stack'[i] = base[i]
      /\ stack'[L + 1].node = v /\ stack'[L + 1].next = 1
  BY CallKeepsTypes
<1>2. L \in Nat /\ DOMAIN stack = 1 .. L /\ DOMAIN stack' = 1 .. L + 1
  BY <1>1 DEF Types
<1>3. \A i \in 1 .. L : /\ stack'[i].node = stack[i].node
                        /\ stack[i].node \in Node
                        /\ stack[i].next \in Nat \ {0}
                        /\ stack[i].node # v
  <2>1. \A i \in 1 .. L : stack'[i].node = stack[i].node
    BY <1>1
  <2>2. \A i \in 1 .. L : stack[i].node \in Node /\ stack[i].next \in Nat \ {0}
    BY <1>2, FrameFacts
  <2>3. \A i \in 1 .. L : status[stack[i].node] = "working"
    BY <1>2 DEF StackInv
  <2> QED
    BY <2>1, <2>2, <2>3
<1>4. \A i \in 1 .. L - 1 : stack'[i].next = stack[i].next
  BY <1>1, <1>2
<1>5. L # 0 => /\ stack'[L].next = stack[L].next + 1
               /\ stack[L].next <= Len(out_edges[stack[L].node])
               /\ out_edges[stack[L].node][stack[L].next] = v
  BY <1>1, <1>2 DEF Types
<1> HIDE DEF L
<1>6. \A n \in Node : status[n] = "finished" <=> status'[n] = "finished"
  BY <1>1
<1>7. \A i \in 1 .. L : out_edges[stack[i].node] \in Seq(Node)
  BY <1>3 DEF Types
<1>8. StackInv'
  <2> \A i \in 1 .. L + 1 : i \in 1 .. L \/ i = L + 1
    BY <1>2
  <2> /\ \A i \in 1 .. L : status[stack[i].node] = "working"
      /\ \A n \in Node : status[n] = "working" =>
           \E i \in 1 .. L : stack[i].node = n
      /\ \A i, j \in 1 .. L : stack[i].node = stack[j].node => i = j
      /\ \A i \in 1 .. L :
           stack[i].next <= Len(out_edges[stack[i].node]) + 1
    BY <1>2 DEF StackInv
  <2> \A i \in 1 .. L - 1 :
        /\ stack[i].next > 1
        /\ out_edges[stack[i].node][stack[i].next - 1] = stack[i + 1].node
    BY DEF StackInv, L
  <2>1. \A i \in 1 .. L + 1 : status'[stack'[i].node] = "working"
    BY <1>1, <1>3
  <2>2. \A n \in Node : status'[n] = "working" =>
          \E i \in 1 .. L + 1 : stack'[i].node = n
    <3> SUFFICES ASSUME NEW n \in Node, status'[n] = "working"
                 PROVE  \E i \in 1 .. L + 1 : stack'[i].node = n
      OBVIOUS
    <3>1. CASE n = v
      BY <3>1, <1>1, <1>2
    <3>2. CASE n # v
      <4>1. PICK i \in 1 .. L : stack[i].node = n
        BY <3>2, <1>1
      <4>2. i \in 1 .. L + 1 /\ stack'[i].node = n
        BY <4>1, <1>2, <1>3
      <4> QED
        BY <4>2
    <3> QED
      BY <3>1, <3>2
  <2>3. \A i, j \in 1 .. L + 1 : stack'[i].node = stack'[j].node => i = j
    <3> TAKE i, j \in 1 .. L + 1
    <3>1. CASE i \in 1 .. L /\ j \in 1 .. L
      BY <3>1, <1>3
    <3>2. CASE i = L + 1 \/ j = L + 1
      BY <3>2, <1>1, <1>3
    <3> QED
      BY <3>1, <3>2
  <2>4. \A i \in 1 .. L + 1 :
          stack'[i].next <= Len(out_edges[stack'[i].node]) + 1
    <3> TAKE i \in 1 .. L + 1
    <3>1. CASE i = L + 1
      <4>1. out_edges[v] \in Seq(Node)
        BY DEF Types
      <4> QED
        BY <3>1, <1>1, <4>1
    <3>2. CASE i = L /\ L # 0
      <4>1. /\ stack'[L].next = stack[L].next + 1
            /\ stack[L].next <= Len(out_edges[stack[L].node])
            /\ stack'[L].node = stack[L].node
            /\ Len(out_edges[stack[L].node]) \in Nat
            /\ stack[L].next \in Nat
        BY <3>2, <1>3, <1>5, <1>7
      <4> QED
        BY <3>2, <4>1
    <3>3. CASE i \in 1 .. L - 1
      <4>1. i \in 1 .. L
        BY <3>3, <1>2
      <4> QED
        BY <3>3, <4>1, <1>3, <1>4
    <3> QED
      BY <3>1, <3>2, <3>3, <1>2
  <2>5. \A i \in 1 .. L :
          /\ stack'[i].next > 1
          /\ out_edges[stack'[i].node][stack'[i].next - 1] = stack'[i + 1].node
    <3> TAKE i \in 1 .. L
    <3>1. CASE i = L
      <4>1. L # 0 /\ stack'[L].node = stack[L].node /\ stack'[L + 1].node = v
        BY <3>1, <1>1, <1>2, <1>3
      <4>2. /\ stack'[L].next = stack[L].next + 1 /\ stack[L].next \in Nat \ {0}
            /\ out_edges[stack[L].node][stack[L].next] = v
        BY <3>1, <4>1, <1>1, <1>2, <1>3, <1>5
      <4>3. stack'[L].next - 1 = stack[L].next /\ stack'[L].next > 1
        BY <4>2
      <4> QED
        BY <3>1, <4>1, <4>2, <4>3
    <3>2. CASE i \in 1 .. L - 1
      <4>1. i \in 1 .. L /\ i + 1 \in 1 .. L
        BY <3>2, <1>2
      <4> QED
        BY <3>2, <4>1, <1>3, <1>4
    <3> QED
      BY <3>1, <3>2, <1>2
  <2>6. Len(stack') - 1 = L
    BY <1>1, <1>2
  <2> QED
    <3>1. DOMAIN stack' = 1 .. L + 1
      BY <1>2
    <3>2. \A i \in 1 .. Len(stack') - 1 :
            /\ stack'[i].next > 1
            /\ out_edges'[stack'[i].node][stack'[i].next - 1]
                 = stack'[i + 1].node
      BY <2>5, <2>6
    <3>3. \A i \in DOMAIN stack' :
            /\ status'[stack'[i].node] = "working"
            /\ stack'[i].next <= Len(out_edges'[stack'[i].node]) + 1
      BY <2>1, <2>4, <3>1
    <3>4. /\ \A n \in Node : status'[n] = "working" =>
               \E i \in DOMAIN stack' : stack'[i].node = n
          /\ \A i, j \in DOMAIN stack' :
               stack'[i].node = stack'[j].node => i = j
      BY <2>2, <2>3, <3>1
    <3> QED
      BY <3>2, <3>3, <3>4 DEF StackInv
<1>9. PassedInv'
  <2> SUFFICES ASSUME NEW i \in 1 .. L + 1, NEW k \in 1 .. stack'[i].next - 1
               PROVE  \/ status'[out_edges[stack'[i].node][k]] = "finished"
                      \/ i < L + 1 /\ k = stack'[i].next - 1
    BY <1>1, <1>2 DEF PassedInv
  <2>1. CASE i = L + 1
    BY <2>1, <1>1
  <2>2. CASE i \in 1 .. L
    <3>1. L = Len(stack)
      BY DEF L
    <3>2. CASE k \in 1 .. stack[i].next - 1
      <4>1. \/ status[out_edges[stack[i].node][k]] = "finished"
            \/ i < L /\ k = stack[i].next - 1
        BY <2>2, <3>1, <3>2, <1>2 DEF PassedInv
      <4>2. out_edges[stack[i].node][k] \in Node
        <5>1. stack[i].next <= Len(out_edges[stack[i].node]) + 1
          BY <2>2, <1>2 DEF StackInv
        <5>2. /\ out_edges[stack[i].node] \in Seq(Node)
              /\ stack[i].next \in Nat
          BY <2>2, <1>3, <1>7
        <5> QED
          BY <3>2, <5>1, <5>2
      <4>3. CASE status[out_edges[stack[i].node][k]] = "finished"
        BY <2>2, <4>2, <4>3, <1>3, <1>6
      <4>4. CASE i < L /\ k = stack[i].next - 1
        <5>1. i \in 1 .. L - 1
          BY <2>2, <4>4, <1>2
        <5>2. stack'[i].next = stack[i].next
          BY <5>1, <1>4
        <5> QED
          BY <2>2, <4>4, <5>2, <1>2
      <4> QED
        BY <4>1, <4>3, <4>4
    <3>3. CASE k \notin 1 .. stack[i].next - 1
      <4>1. stack[i].next \in Nat \ {0}
        BY <2>2, <1>3
      <4>2. CASE i \in 1 .. L - 1
        BY <3>3, <4>2, <1>4
      <4>3. CASE i = L
        <5>1. stack'[i].next = stack[i].next + 1
          BY <2>2, <4>3, <1>2, <1>5
        <5> QED
          BY <3>3, <4>1, <4>3, <5>1, <1>2
      <4> QED
        BY <2>2, <4>2, <4>3, <1>2
    <3> QED
      BY <3>2, <3>3
  <2> QED
    BY <2>1, <2>2, <1>2
<1>10. OrderInv'
  <2>1. \A n \in Node : status'[n] = "finished" <=>
          \E i \in DOMAIN order : order[i] = n
    BY <1>6 DEF OrderInv
  <2> QED
    BY <2>1 DEF OrderInv, Edge
<1> QED
  BY <1>8, <1>9, <1>10

LEMMA RootKeeps == ASSUME TInv, Root PROVE TInv'
<1> USE DEF TInv
<1>1. CASE Unreached(root)
  <2>1. /\ result = "running" /\ stack = <<>> /\ root <= N
        /\ Call(stack, root) /\ root' = root + 1
        /\ UNCHANGED <<out_edges, order, result>>
    BY <1>1 DEF Root
  <2>2. root \in Node /\ stack \in Seq(Frame) /\ N \in Nat
    BY <2>1, TopoSortAssumption DEF Types, Node
  <2>3. StackInv' /\ PassedInv' /\ OrderInv'
    BY <1>1, <2>1, <2>2, CallKeepsStack DEF Unreached
  <2>4. /\ stack' \in Seq(Frame)
        /\ status' \in [Node -> {"unstarted", "working", "finished"}]
        /\ status'[root] = "working"
        /\ \A n \in Node : n # root => status'[n] = status[n]
    BY <2>1, <2>2, CallKeepsTypes
  <2>5. Types'
    BY <2>1, <2>2, <2>4 DEF Types, Node
  <2>6. RootInv'
    <3> SUFFICES ASSUME NEW n \in 1 .. root' - 1
                 PROVE  status'[n] # "unstarted"
      BY DEF RootInv
    <3>1. root \in Nat /\ root' - 1 = root /\ n \in Nat /\ n <= root /\ n >= 1
      BY <2>1, <2>2 DEF Node
    <3>2. CASE n = root
      BY <3>2, <2>4
    <3>3. CASE n # root
      <4>1. n \in 1 .. root - 1 /\ n \in Node
        BY <3>1, <3>3, <2>2 DEF Node
      <4>2. status[n] # "unstarted"
        BY <4>1 DEF RootInv
      <4> QED
        BY <3>3, <4>1, <4>2, <2>4
    <3> QED
      BY <3>2, <3>3
  <2> QED
    BY <2>1, <2>3, <2>5, <2>6 DEF CycleInv, OrderIsTopological
<1>2. CASE ~Unreached(root)
  <2>1. /\ result = "running" /\ stack = <<>> /\ root <= N
        /\ root' = root + 1
        /\ UNCHANGED <<out_edges, order, result, status, stack>>
    BY <1>2 DEF Root
  <2>2. N \in Nat /\ root \in 1 .. N + 1
    BY TopoSortAssumption DEF Types
  <2>4. Types'
    BY <2>1, <2>2 DEF Types
  <2>5. RootInv'
    <3> SUFFICES ASSUME NEW n \in 1 .. root PROVE status[n] # "unstarted"
      BY <2>1, <2>2 DEF RootInv
    <3>1. n \in 1 .. root - 1 \/ n = root
      BY <2>2
    <3> QED
      BY <3>1, <1>2 DEF RootInv, Unreached
  <2>3. StackInv' /\ PassedInv' /\ OrderInv'
    BY <2>1 DEF StackInv, PassedInv, OrderInv, Edge
  <2> QED
    BY <2>1, <2>3, <2>4, <2>5 DEF CycleInv, OrderIsTopological
<1> QED
  BY <1>1, <1>2

LEMMA VisitKeeps == ASSUME TInv, Visit PROVE TInv'
<1> USE DEF TInv
<1> DEFINE v == out_edges[Top.node][Top.next]
<1>1. /\ result = "running" /\ stack # <<>>
      /\ Top.next <= Len(out_edges[Top.node])
      /\ UNCHANGED <<out_edges, order, root>>
  BY DEF Visit
<1>2. /\ Len(stack) \in DOMAIN stack /\ stack \in Seq(Frame)
      /\ Top.node \in Node /\ Top.next \in Nat \ {0}
      /\ out_edges[Top.node] \in Seq(Node)
      /\ Top = stack[Len(stack)]
  BY <1>1, TopFacts DEF Types, Top
<1>3. v \in Node
  BY <1>1, <1>2
<1>4. /\ Advanced \in Seq(Frame)
      /\ Len(Advanced) = Len(stack)
      /\ \A i \in 1 .. Len(stack) : Advanced[i].node = stack[i].node
      /\ \A i \in 1 .. Len(stack) - 1 : Advanced[i].next = stack[i].next
      /\ Advanced[Len(stack)].next = stack[Len(stack)].next + 1
  BY <1>1, <1>2, AdvancedFacts
<1>5. CASE status[v] = "unstarted" /\ Call(Advanced, v) /\ UNCHANGED result
  <2>1. StackInv' /\ PassedInv' /\ OrderInv'
    BY <1>1, <1>2, <1>3, <1>4, <1>5, CallKeepsStack
  <2>2. /\ stack' \in Seq(Frame)
        /\ status' \in [Node -> {"unstarted", "working", "finished"}]
        /\ status'[v] = "working"
        /\ \A n \in Node : n # v => status'[n] = status[n]
    BY <1>3, <1>4, <1>5, CallKeepsTypes
  <2>3. Types'
    BY <1>1, <1>5, <2>2 DEF Types
  <2>4. RootInv'
    <3> SUFFICES ASSUME NEW n \in 1 .. root - 1
                 PROVE  status'[n] # "unstarted"
      BY <1>1 DEF RootInv
    <3>1. n \in Node /\ status[n] # "unstarted"
      BY TopoSortAssumption DEF RootInv, Types, Node
    <3> QED
      BY <3>1, <1>5, <2>2
  <2> QED
    BY <1>1, <1>5, <2>1, <2>3, <2>4 DEF CycleInv, OrderIsTopological
<1>6. CASE OnStack(v) /\ result' = "cycle" /\ UNCHANGED <<status, stack>>
  <2>1. Types' /\ RootInv'
    BY <1>1, <1>6 DEF Types, RootInv
  <2>2. StackInv' /\ PassedInv' /\ OrderInv'
    BY <1>1, <1>6 DEF StackInv, PassedInv, OrderInv, Edge
  <2>3. CycleInv'
    BY <1>1, <1>6 DEF CycleInv, OnStack, Top
  <2> QED
    BY <1>6, <2>1, <2>2, <2>3 DEF OrderIsTopological
<1>7. CASE /\ status[v] # "unstarted" /\ ~OnStack(v)
           /\ stack' = Advanced /\ UNCHANGED <<status, result>>
  <2>1. status[v] = "finished"
    BY <1>3, <1>7 DEF Types, OnStack
  <2>2. Types' /\ RootInv'
    BY <1>1, <1>4, <1>7 DEF Types, RootInv
  <2>3. DOMAIN stack = 1 .. Len(stack) /\ DOMAIN stack' = 1 .. Len(stack)
        /\ Len(stack) \in Nat /\ Len(stack') = Len(stack)
    BY <1>2, <1>4, <1>7
  <2>4. \A i \in 1 .. Len(stack) :
          /\ stack[i].node \in Node /\ stack[i].next \in Nat \ {0}
          /\ out_edges[stack[i].node] \in Seq(Node)
          /\ stack'[i].node = stack[i].node
    BY <1>4, <1>7, <2>3, FrameFacts
  <2>5. \A i \in 1 .. Len(stack) - 1 : stack'[i].next = stack[i].next
    BY <1>4, <1>7
  <2>6. stack'[Len(stack)].next = Top.next + 1
    BY <1>2, <1>4, <1>7
  <2>7. Len(stack) > 0
    BY <1>2, <2>3
  <2>8. StackInv'
    <3>1. \A i \in 1 .. Len(stack) : status[stack'[i].node] = "working"
      BY <2>3, <2>4 DEF StackInv
    <3>2. \A n \in Node : status[n] = "working" =>
            \E i \in 1 .. Len(stack) : stack'[i].node = n
      BY <2>3, <2>4 DEF StackInv
    <3>3. \A i, j \in 1 .. Len(stack) :
            stack'[i].node = stack'[j].node => i = j
      BY <2>3, <2>4 DEF StackInv
    <3>4. \A i \in 1 .. Len(stack) :
            stack'[i].next <= Len(out_edges[stack'[i].node]) + 1
      <4> TAKE i \in 1 .. Len(stack)
      <4>1. CASE i = Len(stack)
        BY <4>1, <1>1, <1>2, <2>4, <2>6, <2>7
      <4>2. CASE i \in 1 .. Len(stack) - 1
        BY <4>2, <2>3, <2>4, <2>5 DEF StackInv
      <4> QED
        BY <4>1, <4>2, <2>3
    <3>5. \A i \in 1 .. Len(stack) - 1 :
            /\ stack'[i].next > 1
            /\ out_edges[stack'[i].node][stack'[i].next - 1]
                 = stack'[i + 1].node
      <4> TAKE i \in 1 .. Len(stack) - 1
      <4>1. i \in 1 .. Len(stack) /\ i + 1 \in 1 .. Len(stack)
        BY <2>3
      <4> QED
        BY <4>1, <2>4, <2>5 DEF StackInv
    <3>6. out_edges' = out_edges /\ status' = status
      BY <1>1, <1>7
    <3>7. \A i \in DOMAIN stack' :
            /\ status'[stack'[i].node] = "working"
            /\ stack'[i].next <= Len(out_edges'[stack'[i].node]) + 1
      BY <2>3, <3>1, <3>4, <3>6
    <3>8. /\ \A n \in Node : status'[n] = "working" =>
               \E i \in DOMAIN stack' : stack'[i].node = n
          /\ \A i, j \in DOMAIN stack' :
               stack'[i].node = stack'[j].node => i = j
      BY <2>3, <3>2, <3>3, <3>6
    <3>9. \A i \in 1 .. Len(stack') - 1 :
            /\ stack'[i].next > 1
            /\ out_edges'[stack'[i].node][stack'[i].next - 1]
                 = stack'[i + 1].node
      BY <2>3, <3>5, <3>6
    <3> QED
      BY <3>7, <3>8, <3>9 DEF StackInv
  <2>9. PassedInv'
    <3> SUFFICES ASSUME NEW i \in 1 .. Len(stack),
                        NEW k \in 1 .. stack'[i].next - 1
                 PROVE  \/ status[out_edges[stack'[i].node][k]] = "finished"
                        \/ i < Len(stack) /\ k = stack'[i].next - 1
      BY <1>1, <1>7, <2>3 DEF PassedInv
    <3>1. CASE i \in 1 .. Len(stack) - 1
      BY <3>1, <2>3, <2>4, <2>5 DEF PassedInv
    <3>2. CASE i = Len(stack)
      <4>1. CASE k = Top.next
        BY <3>2, <4>1, <1>2, <2>1, <2>4
      <4>2. CASE k # Top.next
        <5>1. k \in 1 .. stack[i].next - 1
          BY <3>2, <4>2, <1>2, <2>6
        <5>2. ~ (i < Len(stack))
          BY <3>2, <2>3
        <5>3. status[out_edges[stack[i].node][k]] = "finished"
          BY <5>1, <5>2, <2>3 DEF PassedInv
        <5> QED
          BY <5>3, <2>4
      <4> QED
        BY <4>1, <4>2
    <3>3. i \in 1 .. Len(stack) - 1 \/ i = Len(stack)
      BY <2>3, LastOrBefore
    <3> QED
      BY <3>1, <3>2, <3>3
  <2> QED
    BY <1>1, <1>7, <2>2, <2>8, <2>9
       DEF OrderInv, Edge, CycleInv, OrderIsTopological
<1> QED
  BY <1>5, <1>6, <1>7 DEF Visit

LEMMA FinishKeeps == ASSUME TInv, Finish PROVE TInv'
<1> USE DEF TInv
<1> DEFINE L == Len(stack)
           M == Len(order)
           u == Top.node
<1>1. /\ result = "running" /\ stack # <<>>
      /\ Top.next > Len(out_edges[u])
      /\ status' = [status EXCEPT ![u] = "finished"]
      /\ order' = Append(order, u)
      /\ stack' = SubSeq(stack, 1, L - 1)
      /\ UNCHANGED <<out_edges, root, result>>
  BY DEF Finish, Finished
<1>2. /\ L \in Nat \ {0} /\ DOMAIN stack = 1 .. L
      /\ u \in Node /\ Top.next \in Nat
      /\ out_edges[u] \in Seq(Node)
      /\ Top = stack[L] /\ u = stack[L].node
  BY <1>1, TopFacts DEF Types, Top
<1>3. /\ stack' \in Seq(Frame) /\ Len(stack') = L - 1
      /\ DOMAIN stack' = 1 .. L - 1
      /\ \A i \in 1 .. L - 1 : stack'[i] = stack[i]
  BY <1>1, <1>2, PoppedFacts DEF Types
<1>4. /\ status' \in [Node -> {"unstarted", "working", "finished"}]
      /\ status'[u] = "finished"
      /\ \A n \in Node : n # u => status'[n] = status[n]
  BY <1>1, <1>2 DEF Types
<1>5. /\ order' \in Seq(Node) /\ M \in Nat /\ DOMAIN order = 1 .. M
      /\ DOMAIN order' = 1 .. M + 1 /\ order'[M + 1] = u
      /\ \A i \in 1 .. M : order'[i] = order[i]
  BY <1>1, <1>2 DEF Types
<1>6. /\ \A i \in 1 .. L : status[stack[i].node] = "working"
      /\ \A n \in Node : status[n] = "working" =>
           \E i \in 1 .. L : stack[i].node = n
      /\ \A i, j \in 1 .. L : stack[i].node = stack[j].node => i = j
      /\ \A i \in 1 .. L :
           stack[i].next <= Len(out_edges[stack[i].node]) + 1
      /\ \A i \in 1 .. L - 1 :
           /\ stack[i].next > 1
           /\ out_edges[stack[i].node][stack[i].next - 1]
                = stack[i + 1].node
  BY <1>2 DEF StackInv
<1>7. \A i \in 1 .. L : /\ stack[i].node \in Node
                        /\ stack[i].next \in Nat \ {0}
                        /\ out_edges[stack[i].node] \in Seq(Node)
  BY <1>2, FrameFacts
<1>8. \A i \in 1 .. L : \A k \in 1 .. stack[i].next - 1 :
        \/ status[out_edges[stack[i].node][k]] = "finished"
        \/ i < L /\ k = stack[i].next - 1
  BY <1>2 DEF PassedInv
<1>9. /\ \A n \in Node : status[n] = "finished" <=>
           \E i \in 1 .. M : order[i] = n
      /\ \A i, j \in 1 .. M : order[i] = order[j] => i = j
      /\ \A i \in 1 .. M : \A v \in Node :
           Edge(order[i], v) => \E j \in 1 .. i - 1 : order[j] = v
  BY <1>1, <1>5 DEF OrderInv
<1>10. status[u] = "working"
  BY <1>2, <1>6
<1>11. Types'
  BY <1>1, <1>3, <1>4, <1>5 DEF Types
<1> HIDE DEF L, M, u
<1>12. StackInv'
  <2>1. \A i \in 1 .. L - 1 : i \in 1 .. L /\ stack[i].node # u
    BY <1>2, <1>6
  <2>2. \A i \in 1 .. L - 1 : status'[stack'[i].node] = "working"
    <3> TAKE i \in 1 .. L - 1
    <3>1. /\ stack'[i] = stack[i] /\ stack[i].node # u
          /\ stack[i].node \in Node /\ status[stack[i].node] = "working"
      BY <2>1, <1>3, <1>6, <1>7
    <3> QED
      BY <3>1, <1>4
  <2>3. \A n \in Node : status'[n] = "working" =>
          \E i \in 1 .. L - 1 : stack'[i].node = n
    <3> SUFFICES ASSUME NEW n \in Node, status'[n] = "working"
                 PROVE  \E i \in 1 .. L - 1 : stack'[i].node = n
      OBVIOUS
    <3>1. n # u /\ status[n] = "working"
      BY <1>4
    <3>2. PICK i \in 1 .. L : stack[i].node = n
      BY <3>1, <1>6
    <3>3. i \in 1 .. L - 1
      BY <3>1, <3>2, <1>2, LastOrBefore
    <3> QED
      BY <3>2, <3>3, <1>3
  <2>4. \A i, j \in 1 .. L - 1 : stack'[i].node = stack'[j].node => i = j
    BY <2>1, <1>3, <1>6
  <2>5. \A i \in 1 .. L - 1 :
          stack'[i].next <= Len(out_edges[stack'[i].node]) + 1
    BY <2>1, <1>3, <1>6
  <2>6. \A i \in 1 .. (L - 1) - 1 :
          /\ stack'[i].next > 1
          /\ out_edges[stack'[i].node][stack'[i].next - 1]
               = stack'[i + 1].node
    <3> TAKE i \in 1 .. (L - 1) - 1
    <3>1. i \in 1 .. L - 1 /\ i + 1 \in 1 .. L - 1
      BY <1>2
    <3>2. stack'[i] = stack[i] /\ stack'[i + 1] = stack[i + 1]
      BY <3>1, <1>3
    <3>3. /\ stack[i].next > 1
          /\ out_edges[stack[i].node][stack[i].next - 1] = stack[i + 1].node
      BY <3>1, <1>6
    <3> QED
      BY <3>2, <3>3
  <2>7. Len(stack') = L - 1 /\ DOMAIN stack' = 1 .. L - 1 /\ out_edges' = out_edges
    BY <1>1, <1>3
  <2> QED
    BY <2>2, <2>3, <2>4, <2>5, <2>6, <2>7 DEF StackInv
<1>13. PassedInv'
  <2> SUFFICES ASSUME NEW i \in 1 .. L - 1, NEW k \in 1 .. stack[i].next - 1
               PROVE  \/ status'[out_edges[stack[i].node][k]] = "finished"
                      \/ i < L - 1 /\ k = stack[i].next - 1
    BY <1>1, <1>3 DEF PassedInv
  <2>1. i \in 1 .. L
    BY <1>2
  <2>2. out_edges[stack[i].node][k] \in Node
    <3>1. /\ stack[i].next <= Len(out_edges[stack[i].node]) + 1
          /\ out_edges[stack[i].node] \in Seq(Node)
          /\ stack[i].next \in Nat
      BY <2>1, <1>6, <1>7
    <3> QED
      BY <3>1
  <2>3. CASE status[out_edges[stack[i].node][k]] = "finished"
    BY <2>2, <2>3, <1>4
  <2>4. CASE k = stack[i].next - 1 /\ i < L - 1
    BY <2>4
  <2>5. CASE k = stack[i].next - 1 /\ i = L - 1
    <3>1. out_edges[stack[i].node][k] = stack[i + 1].node
      BY <2>5, <1>6
    <3>2. i + 1 = L
      BY <2>5, <1>2
    <3> QED
      BY <3>1, <3>2, <1>2, <1>4
  <2> QED
    BY <2>1, <2>3, <2>4, <2>5, <1>2, <1>8
<1>14. OrderInv'
  <2>1. \A n \in Node : status'[n] = "finished" <=>
          \E i \in 1 .. M + 1 : order'[i] = n
    <3> TAKE n \in Node
    <3>1. CASE n = u
      BY <3>1, <1>4, <1>5
    <3>2. CASE n # u
      <4>1. status'[n] = "finished" <=> \E i \in 1 .. M : order[i] = n
        BY <3>2, <1>4, <1>9
      <4>2. (\E i \in 1 .. M : order[i] = n) <=>
              \E i \in 1 .. M + 1 : order'[i] = n
        <5>1. \A i \in 1 .. M + 1 : i = M + 1 \/ i \in 1 .. M
          BY <1>5
        <5>2. \A i \in 1 .. M : i \in 1 .. M + 1
          BY <1>5
        <5> QED
          BY <3>2, <5>1, <5>2, <1>5
      <4> QED
        BY <4>1, <4>2
    <3> QED
      BY <3>1, <3>2
  <2>2. \A i \in 1 .. M : order'[i] # u
    BY <1>2, <1>5, <1>9, <1>10
  <2>3. \A i, j \in 1 .. M + 1 : order'[i] = order'[j] => i = j
    <3> TAKE i, j \in 1 .. M + 1
    <3>1. (i \in 1 .. M \/ i = M + 1) /\ (j \in 1 .. M \/ j = M + 1)
      BY <1>5
    <3> QED
      BY <3>1, <2>2, <1>5, <1>9
  <2>4. ASSUME NEW i \in 1 .. M + 1, NEW v \in Node, Edge(order'[i], v)
        PROVE  \E j \in 1 .. i - 1 : order'[j] = v
    <3>1. CASE i \in 1 .. M
      <4>1. PICK j \in 1 .. i - 1 : order[j] = v
        BY <2>4, <3>1, <1>5, <1>9
      <4>2. j \in 1 .. M
        BY <3>1, <1>5
      <4> QED
        BY <4>1, <4>2, <1>5
    <3>2. CASE i = M + 1
      <4>1. PICK k \in DOMAIN out_edges[u] : out_edges[u][k] = v
        BY <2>4, <3>2, <1>5 DEF Edge
      <4>2. k \in 1 .. stack[L].next - 1 /\ L \in 1 .. L
        BY <1>1, <1>2
      <4>3. status[v] = "finished"
        BY <4>1, <4>2, <1>2, <1>8
      <4>4. PICK j \in 1 .. M : order[j] = v
        BY <4>3, <1>9
      <4> QED
        BY <3>2, <4>4, <1>5
    <3> QED
      BY <3>1, <3>2, <1>5
  <2>5. \A i \in 1 .. M + 1 : \A v \in Node :
          Edge(order[i], v)' => \E j \in 1 .. i - 1 : order'[j] = v
    BY <2>4, <1>1 DEF Edge
  <2> QED
    BY <2>1, <2>3, <2>5, <1>5 DEF OrderInv
<1>15. RootInv'
  <2> SUFFICES ASSUME NEW n \in 1 .. root - 1 PROVE status'[n] # "unstarted"
    BY <1>1 DEF RootInv
  <2>1. n \in Node /\ status[n] # "unstarted"
    BY TopoSortAssumption DEF RootInv, Types, Node
  <2> QED
    BY <2>1, <1>4
<1> QED
  BY <1>1, <1>11, <1>12, <1>13, <1>14, <1>15 DEF CycleInv, OrderIsTopological

LEMMA ReturnKeeps == ASSUME TInv, Return PROVE TInv'
<1> USE DEF TInv
<1> DEFINE M == Len(order)
<1>1. /\ result = "running" /\ stack = <<>> /\ root > N
      /\ result' = "sorted" /\ order' = Reversed(order)
      /\ UNCHANGED <<out_edges, status, stack, root>>
  BY DEF Return
<1>2. N \in Nat /\ root = N + 1
  BY <1>1, TopoSortAssumption DEF Types
<1>3. /\ order \in Seq(Node) /\ M \in Nat /\ DOMAIN order = 1 .. M
      /\ order' = [i \in 1 .. M |-> order[M + 1 - i]]
  BY <1>1 DEF Types, Reversed
<1>4. \A i \in 1 .. M : M + 1 - i \in 1 .. M /\ M + 1 - (M + 1 - i) = i
  BY <1>3
<1>5. order' \in Seq(Node) /\ DOMAIN order' = 1 .. M
  BY <1>3, <1>4
<1>6. /\ \A n \in Node : status[n] = "finished" <=>
           \E i \in 1 .. M : order[i] = n
      /\ \A i, j \in 1 .. M : order[i] = order[j] => i = j
      /\ \A i \in 1 .. M : \A v \in Node :
           Edge(order[i], v) => \E j \in 1 .. i - 1 : order[j] = v
  BY <1>1, <1>3 DEF OrderInv
<1> HIDE DEF M
<1>7. \A n \in Node : status[n] = "finished"
  <2> TAKE n \in Node
  <2>1. status[n] # "unstarted"
    BY <1>2 DEF RootInv, Node
  <2>2. status[n] # "working"
    <3>1. DOMAIN stack = {}
      BY <1>1
    <3> QED
      BY <3>1 DEF StackInv
  <2> QED
    BY <2>1, <2>2 DEF Types
<1>8. \A n \in Node : \E i \in 1 .. M : order'[i] = n
  <2> TAKE n \in Node
  <2>1. PICK i \in 1 .. M : order[i] = n
    BY <1>6, <1>7
  <2>2. M + 1 - i \in 1 .. M /\ order'[M + 1 - i] = order[i]
    BY <1>3, <1>4
  <2> QED
    BY <2>1, <2>2
<1>9. \A i, j \in 1 .. M : order'[i] = order'[j] => i = j
  <2> SUFFICES ASSUME NEW i \in 1 .. M, NEW j \in 1 .. M,
                      order'[i] = order'[j]
               PROVE  i = j
    OBVIOUS
  <2> DEFINE a == M + 1 - i
             b == M + 1 - j
  <2>1. a \in 1 .. M /\ order'[i] = order[a]
    BY <1>3, <1>4
  <2>2. b \in 1 .. M /\ order'[j] = order[b]
    BY <1>3, <1>4
  <2>3. a = b => i = j
    <3>1. M \in Int /\ i \in Int /\ j \in Int
      BY <1>3
    <3> QED
      BY <3>1
  <2> HIDE DEF a, b
  <2>4. \A x, y \in 1 .. M : order[x] = order[y] => x = y
    BY <1>6
  <2>5. order[a] = order[b]
    BY <2>1, <2>2
  <2>6. a = b
    BY <2>1, <2>2, <2>4, <2>5
  <2> QED
    BY <2>3, <2>6
<1>10. \A i, j \in 1 .. M : Edge(order'[i], order'[j]) => i < j
  <2> SUFFICES ASSUME NEW i \in 1 .. M, NEW j \in 1 .. M,
                      Edge(order'[i], order'[j])
               PROVE  i < j
    OBVIOUS
  <2>1. /\ M + 1 - i \in 1 .. M /\ M + 1 - j \in 1 .. M
        /\ order'[i] = order[M + 1 - i] /\ order'[j] = order[M + 1 - j]
        /\ order[M + 1 - j] \in Node
    BY <1>3, <1>4
  <2>2. PICK k \in 1 .. (M + 1 - i) - 1 : order[k] = order[M + 1 - j]
    BY <2>1, <1>6
  <2>3. k \in 1 .. M
    BY <2>1, <1>3
  <2>4. k = M + 1 - j
    BY <2>1, <2>2, <2>3, <1>6
  <2> QED
    BY <2>4, <1>3
<1>11. Types' /\ RootInv'
  BY <1>1, <1>5 DEF Types, RootInv
<1>12. StackInv' /\ PassedInv'
  BY <1>1 DEF StackInv, PassedInv
<1>13. OrderInv' /\ CycleInv'
  BY <1>1 DEF OrderInv, CycleInv
<1>14. OrderIsTopological'
  BY <1>1, <1>5, <1>8, <1>9, <1>10 DEF OrderIsTopological, Edge
<1> QED
  BY <1>11, <1>12, <1>13, <1>14

LEMMA StepKeeps == ASSUME TInv, [Next]_vars PROVE TInv'
<1>1. CASE Root
  BY <1>1, RootKeeps
<1>2. CASE Visit
  BY <1>2, VisitKeeps
<1>3. CASE Finish
  BY <1>3, FinishKeeps
<1>4. CASE Return
  BY <1>4, ReturnKeeps
<1>5. CASE UNCHANGED vars
  <2>1. /\ out_edges' = out_edges /\ status' = status /\ order' = order
        /\ stack' = stack /\ root' = root /\ result' = result
    BY <1>5 DEF vars
  <2>2. Types' /\ StackInv' /\ PassedInv' /\ RootInv'
    BY <2>1 DEF TInv, Types, StackInv, PassedInv, RootInv
  <2>3. OrderInv' /\ CycleInv' /\ OrderIsTopological'
    BY <2>1 DEF TInv, OrderInv, CycleInv, OrderIsTopological, Top, Edge
  <2> QED
    BY <2>2, <2>3 DEF TInv
<1> QED
  BY <1>1, <1>2, <1>3, <1>4, <1>5 DEF Next

LEMMA Always == Spec => []TInv
  BY Initially, StepKeeps, PTL DEF Spec

-----------------------------------------------------------------------------
(* Theorems. *)

\* The sort is type correct, and its order never grows longer than the number
\* of nodes: no node is finished twice (the push_back of dfs).
THEOREM SortTypeCorrect == Spec => []TypeOK
<1>1. ASSUME TInv PROVE TypeOK
  <2>1. Types
    BY <1>1 DEF TInv
  <2>2. \A i, j \in DOMAIN order : order[i] = order[j] => i = j
    BY <1>1 DEF TInv, OrderInv, OrderIsTopological
  <2>3. /\ order \in [1 .. Len(order) -> Node]
        /\ Len(order) \in Nat /\ DOMAIN order = 1 .. Len(order)
    BY <2>1 DEF Types
  <2>4. order \in Injection(1 .. Len(order), Node)
    BY <2>2, <2>3 DEF Injection, IsInjective
  <2>5. /\ IsFiniteSet(Node) /\ Cardinality(Node) = N
        /\ Cardinality(1 .. Len(order)) = Len(order)
    <3>1. /\ IsFiniteSet(1 .. N)
          /\ Cardinality(1 .. N) = IF 1 > N THEN 0 ELSE N - 1 + 1
      BY TopoSortAssumption, FS_Interval
    <3>2. Cardinality(1 .. Len(order))
            = IF 1 > Len(order) THEN 0 ELSE Len(order) - 1 + 1
      BY <2>3, FS_Interval
    <3> QED
      BY <3>1, <3>2, <2>3, TopoSortAssumption DEF Node
  <2>6. Len(order) <= N
    BY <2>4, <2>5, FS_Injection
  <2> QED
    BY <2>1, <2>6 DEF Types, TypeOK, Frame
<1> QED
  BY <1>1, Always, PTL

\* The calls of dfs that have not returned stand on a simple path of the
\* graph, whose nodes are the ones marked WORKING: the recursion of
\* topo_sort is never deeper than the number of nodes.
THEOREM RecursionIsPath == Spec => []StackIsPath
<1>1. ASSUME TInv PROVE StackIsPath
  <2>1. DOMAIN stack = 1 .. Len(stack) /\ Len(stack) \in Nat
    BY <1>1 DEF TInv, Types
  <2>2. \A i \in 1 .. Len(stack) - 1 : Edge(stack[i].node, stack[i + 1].node)
    <3> TAKE i \in 1 .. Len(stack) - 1
    <3>1. i \in DOMAIN stack
      BY <2>1
    <3>2. /\ stack[i].next \in Nat
          /\ out_edges[stack[i].node] \in Seq(Node)
      BY <1>1, <3>1, FrameFacts DEF TInv
    <3>3. /\ stack[i].next > 1
          /\ stack[i].next <= Len(out_edges[stack[i].node]) + 1
          /\ out_edges[stack[i].node][stack[i].next - 1] = stack[i + 1].node
      BY <1>1, <3>1 DEF TInv, StackInv
    <3>4. stack[i].next - 1 \in DOMAIN out_edges[stack[i].node]
      BY <3>2, <3>3
    <3> QED
      BY <3>3, <3>4 DEF Edge
  <2> QED
    BY <1>1, <2>2 DEF TInv, StackInv, StackIsPath
<1> QED
  BY <1>1, Always, PTL

\* The order that topo_sort returns holds every node once, and no node before
\* one it must come after.
THEOREM SortCorrect == Spec => []OrderIsTopological
<1>1. ASSUME TInv PROVE OrderIsTopological
  BY <1>1 DEF TInv
<1> QED
  BY <1>1, Always, PTL

\* When topo_sort reports a cycle there is one: the calls on the stack from
\* the node the last edge leads back to.
THEOREM CycleIsReal == Spec => []ErrorIsACycle
<1>1. ASSUME TInv, StackIsPath PROVE ErrorIsACycle
  <2> SUFFICES ASSUME result = "cycle"
               PROVE  \E i \in DOMAIN stack :
                        IsCycle([k \in 1 .. Len(stack) + 1 - i |->
                                   stack[i + k - 1].node])
    BY DEF ErrorIsACycle
  <2> DEFINE v == out_edges[Top.node][Top.next]
             L == Len(stack)
  <2>1. Types /\ StackInv /\ CycleInv
    BY <1>1 DEF TInv
  <2>2. /\ stack # <<>> /\ Top.next <= Len(out_edges[Top.node])
        /\ status[v] = "working"
    BY <2>1 DEF CycleInv
  <2>3. /\ L \in Nat \ {0} /\ DOMAIN stack = 1 .. L
        /\ Top.next \in Nat \ {0} /\ out_edges[Top.node] \in Seq(Node)
        /\ Top = stack[L]
    BY <2>1, <2>2, TopFacts DEF Types, Top
  <2>4. Top.next \in DOMAIN out_edges[Top.node] /\ v \in Node
    BY <2>2, <2>3
  <2>5. PICK i \in 1 .. L : stack[i].node = v
    BY <2>1, <2>2, <2>3, <2>4 DEF StackInv
  <2> DEFINE walk == [k \in 1 .. L + 1 - i |-> stack[i + k - 1].node]
             W == L + 1 - i
  <2>6. Edge(stack[L].node, v)
    BY <2>3, <2>4 DEF Edge
  <2>7. \A k \in 1 .. L - 1 : Edge(stack[k].node, stack[k + 1].node)
    BY <1>1 DEF StackIsPath
  <2>8. \A k \in 1 .. L : stack[k].node \in Node
    BY <2>1, <2>3, FrameFacts
  <2>9. W \in Nat \ {0}
    BY <2>3
  <2> HIDE DEF L, v
  <2>10. \A k \in 1 .. W : i + k - 1 \in 1 .. L
    BY <2>3
  <2>11. walk \in Seq(Node) /\ Len(walk) = W
    BY <2>8, <2>9, <2>10
  <2>12. walk # <<>>
    BY <2>9, <2>11
  <2>13. \A k \in 1 .. W - 1 : Edge(walk[k], walk[k + 1])
    <3> TAKE k \in 1 .. W - 1
    <3>1. /\ k \in 1 .. W /\ k + 1 \in 1 .. W
          /\ i + k - 1 \in 1 .. L - 1
          /\ i + (k + 1) - 1 = (i + k - 1) + 1
      BY <2>3, <2>9
    <3>2. walk[k] = stack[i + k - 1].node
          /\ walk[k + 1] = stack[(i + k - 1) + 1].node
      BY <3>1
    <3> QED
      BY <3>1, <3>2, <2>7
  <2>14. Edge(walk[W], walk[1])
    <3>1. 1 \in 1 .. W /\ W \in 1 .. W /\ i + W - 1 = L /\ i + 1 - 1 = i
      BY <2>3, <2>9
    <3>2. walk[W] = stack[L].node /\ walk[1] = v
      BY <3>1, <2>5
    <3> QED
      BY <3>2, <2>6
  <2> HIDE DEF walk, W
  <2>15. IsCycle(walk)
    BY <2>11, <2>12, <2>13, <2>14 DEF IsCycle
  <2> QED
    BY <2>3, <2>5, <2>15 DEF walk, L
<1> QED
  BY <1>1, Always, RecursionIsPath, PTL

\* A set of natural numbers that is not empty has a least element.
LEMMA LeastElement ==
  ASSUME NEW T, T \subseteq Nat, T # {}
  PROVE  \E x \in T : \A y \in T : x <= y
<1>1. PICK R : /\ IsWellFoundedOn(R, Nat)
               /\ \A x, y \in Nat : x < y => <<x, y>> \in R
  <2>1. IsWellFoundedOn(OpToRel(<, Nat), Nat)
    BY NatLessThanWellFounded
  <2>2. \A x, y \in Nat : x < y => <<x, y>> \in OpToRel(<, Nat)
    BY DEF OpToRel
  <2> QED
    BY <2>1, <2>2, Zenon
<1>2. PICK x \in T : \A y \in T : ~ (<<y, x>> \in R)
  <2>1. T \subseteq Nat /\ T # {} /\ IsWellFoundedOn(R, Nat)
    BY <1>1
  <2> QED
    BY <2>1, WFMin, Zenon
<1>3. \A y \in T : ~ (y < x)
  BY <1>1, <1>2
<1> QED
  BY <1>3

\* A graph that is sorted has no cycle: of any of its nodes the one that comes
\* last in the order has no edge to the others.
THEOREM NoCycleIsSorted == Spec => []CyclesAreFound
<1>1. ASSUME TInv PROVE CyclesAreFound
  <2> SUFFICES ASSUME result = "sorted", NEW S \in (SUBSET Node) \ {{}}
               PROVE  \E n \in S : \A v \in S : ~Edge(n, v)
    BY DEF CyclesAreFound
  <2> DEFINE at == {i \in DOMAIN order : order[i] \in S}
             fromEnd == {Len(order) - i : i \in at}
  <2>1. /\ order \in Seq(Node)
        /\ \A n \in Node : \E i \in DOMAIN order : order[i] = n
        /\ \A i, j \in DOMAIN order : Edge(order[i], order[j]) => i < j
    BY <1>1 DEF TInv, Types, OrderIsTopological
  <2>2. /\ Len(order) \in Nat
        /\ at \subseteq 1 .. Len(order)
        /\ at # {}
    BY <2>1
  <2>3. fromEnd \subseteq Nat /\ fromEnd # {}
    BY <2>2
  <2>4. PICK x \in fromEnd : \A y \in fromEnd : x <= y
    BY <2>3, LeastElement
  <2>5. PICK i \in at : x = Len(order) - i
    BY <2>4
  <2>6. \A j \in at : j <= i
    <3> SUFFICES ASSUME NEW j \in at PROVE j <= i
      OBVIOUS
    <3>1. Len(order) - i <= Len(order) - j
      BY <2>4, <2>5
    <3> QED
      BY <2>2, <3>1
  <2>7. ASSUME NEW v \in S, Edge(order[i], v) PROVE FALSE
    <3>1. PICK j \in DOMAIN order : order[j] = v
      BY <2>1, <2>7
    <3>2. j \in at /\ i < j
      BY <2>1, <2>7, <3>1
    <3> QED
      BY <2>2, <2>6, <3>2
  <2> QED
    BY <2>7
<1> QED
  BY <1>1, Always, PTL

=============================================================================
