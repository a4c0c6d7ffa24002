SPECIFICATION FairSpec
CONSTANTS
  Isas <- MCIsas
  Archs <- MCArchs
  Branch <- MCBranch
  Prefixes = {"SD", "PKG"}
  ScalarUnit = "scalar"
  CpuUnit = "cpu_features"
  EngineUnit = "simd_dispatch"
INVARIANTS
  LinksWhatConfigSays
  CompleteOrFailed
  EngineKnowsTheKernels
PROPERTIES
  OnlySuccessWritesMakevars
  RunsEnd
