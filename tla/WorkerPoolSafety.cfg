\* Every graph of one source and three steps, three interchangeable workers.
CONSTANTS
  s = s
  a = a
  b = b
  c = c
  d = d
  Node <- SmallNodes
  Step <- SmallSteps
  Graphs <- SmallGraphs
  Estimate <- SmallEstimate
  Worker = {w1, w2, w3}
  NotifyAllCriteria = 4
  NoNode = NoNode
SPECIFICATION Spec
SYMMETRY WorkerSymmetry
INVARIANTS
  TypeOK
  CountersExact
  PushedOnce
  DependencyOrder
  NoIdleWorkerWhileWork
  SleepersAreRescued
  ExitOnlyWhenDone
  VerdictJustified
\* The process ends after Return.
CHECK_DEADLOCK FALSE
