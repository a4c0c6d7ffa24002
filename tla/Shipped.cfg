SPECIFICATION ShippedSpec
CONSTANTS
  N = 7
  NumOps = 2
  NumSigs = 2
  UintMax = 99
  OpSig <- MCOpSig
  Priority <- MCPriority
  Tables <- MCTables
INVARIANTS
  AutoOnShippedCatalog
  OnlySseCannotConvolve
  SummaryTellsTheRoute
PROPERTIES
  ContractHolds
