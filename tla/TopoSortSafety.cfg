\* All graphs of four nodes, and small ones with repeated edges.
CONSTANTS
  N = 4
  Graphs <- MCGraphs
SPECIFICATION Spec
INVARIANTS
  TypeOK
  StackIsPath
  OrderIsTopological
  ErrorIsACycle
  CyclesAreFound
\* topo_sort returns.
CHECK_DEADLOCK FALSE
