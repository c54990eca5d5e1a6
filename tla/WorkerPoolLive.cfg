\* Fan-out, fan-in and a cycle over five nodes, three workers, fair threads.
CONSTANTS
  s = s
  a = a
  b = b
  c = c
  d = d
  Node <- WideNodes
  Step <- WideSteps
  Graphs <- WideGraphs
  Estimate <- WideEstimate
  Worker = {w1, w2, w3}
  NotifyAllCriteria = 3
  NoNode = NoNode
SPECIFICATION FairSpec
PROPERTIES
  Termination
  ImplementsBuildOrder
\* The process ends after Return.
CHECK_DEADLOCK FALSE
