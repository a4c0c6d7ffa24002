SPECIFICATION CallSpec
CONSTANTS
  Kernels <- MCKernelSet
  ZeroStep <- MCZeroStep
  MulStep <- MCMulStep
  LengthsA <- MCLengthsA
  LengthsB <- MCLengthsB
  Counters <- MCCounters
  Step <- MCStep
  Skips <- MCSkips
  Inputs <- MCInputs
INVARIANTS
  InBounds
  SumsLikeScalar
  CountInBounds
  CountsEveryByte
PROPERTIES
  KernelReturns
CHECK_DEADLOCK FALSE
