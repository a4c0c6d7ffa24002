SPECIFICATION WellWiredSpec
CONSTANTS
  N = 3
  NumOps = 2
  NumSigs = 2
  UintMax = 99
  OpSig <- MCOpSig
  Priority <- MCPriority
  Tables <- MCPartialTables
INVARIANT
  PlainNameMeansAll
