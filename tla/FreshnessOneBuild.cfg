\* The chain, one build after an edit; the feature binary is off.
CONSTANTS
  s = s  h = h  o = o  p = p
  Manifest = Manifest
  Bang = Bang
  Source <- ChainSource
  Step <- ChainStep
  ScanOrder <- ChainOrder
  Compile <- ChainCompile
  Inputs <- ChainInputs
  Opaque <- ChainOpaque
  IncludeLists <- ChainIncludes
  Binary = FALSE
  Deletable = {}
  Options <- BuildOptions
  MaxTime = 3
SPECIFICATION Spec
INVARIANTS
  NewerInputsReexecuted
