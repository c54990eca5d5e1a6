\* Opaque inputs and .d files that name outputs, everything removable, builds
\* and dry runs; the feature binary is on.
CONSTANTS
  s = s  h = h  o = o  p = p
  Manifest = Manifest
  Bang = Bang
  Source <- RoundSource
  Step <- ChainStep
  ScanOrder <- RoundOrder
  Compile <- ChainCompile
  Inputs <- RoundInputs
  Opaque <- RoundOpaque
  IncludeLists <- RoundIncludes
  Binary = TRUE
  Deletable <- Everything
  Options <- BuildOptions
  MaxTime = 2
SPECIFICATION Spec
INVARIANTS
  TypeOK
  NoSilentStaleness
  UnfinishedIsRetried
  EditsAbsorbed
  CleanBuildIsFresh
PROPERTIES
  ProgressExact
