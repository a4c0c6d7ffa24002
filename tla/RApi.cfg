SPECIFICATION RSpec
CONSTANTS
  N = 2
  NumOps = 2
  NumSigs = 2
  UintMax = 99
  OpSig <- MCOpSig
  Priority <- MCPriority
  Tables <- MCTables
  XLenMax = 2
INVARIANTS
  NeverAborts
  LoadedForGood
  InfoAgrees
  OutputFits
