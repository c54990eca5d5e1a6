\* The chain with the feature binary on: headers found after the first parse.
CONSTANTS
  s = s  h = h  o = o  p = p
  Manifest = Manifest
  Bang = Bang
  Source <- ChainSource
  Step <- ChainStep
  ScanOrder <- ChainOrder
  Compile <- ChainCompile
  Inputs <- ChainInputs
  Opaque <- ChainOpaque
  IncludeLists <- ChainIncludes
  Binary = TRUE
  Deletable = {}
  Options <- BuildOptions
  MaxTime = 3
SPECIFICATION Spec
INVARIANTS
  NewerHeadersReexecuted
