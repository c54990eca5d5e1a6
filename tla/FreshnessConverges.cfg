\* The chain under fair scheduling; the feature binary is off, the object may be
\* removed, and there are no dry runs, which leave the disk as it is.
CONSTANTS
  s = s  h = h  o = o  p = p
  Manifest = Manifest
  Bang = Bang
  Source <- ChainSource
  Step <- ChainStep
  ScanOrder <- ChainOrder
  Compile <- ChainCompile
  Inputs <- ChainInputs
  Opaque <- ChainOpaque
  IncludeLists <- ChainIncludes
  Binary = FALSE
  Deletable <- AnObject
  Options <- NoDryRuns
  MaxTime = 2
SPECIFICATION FairSpec
PROPERTIES
  Converges
