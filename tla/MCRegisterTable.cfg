SPECIFICATION Spec
CONSTANTS
  N = 3
  NumOps = 2
  NumSigs = 2
  UintMax = 99
  MaxRows = 3
  OpSig <- MCOpSig
  Priority <- MCPriority
  Tables <- MCTables
INVARIANTS
  AllOrNothing
  InstallsTheTable
