\* A failure without -k and the steps that are still ready.
CONSTANTS
  s = s
  a = a
  b = b
  c = c
  d = d
  Node <- WideNodes
  Step <- WideSteps
  Graphs <- WideGraphs
  Estimate <- WideEstimate
  Worker = {w1, w2, w3}
  NotifyAllCriteria = 3
  NoNode = NoNode
SPECIFICATION Spec
PROPERTIES
  NoStartAfterError
CHECK_DEADLOCK FALSE
