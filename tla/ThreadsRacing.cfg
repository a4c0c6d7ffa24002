SPECIFICATION Spec
CONSTANTS
  N = 3
  NumOps = 2
  NumSigs = 2
  UintMax = 99
  OpSig <- MCOpSig
  Priority <- MCPriority
  Tables <- MCTables
  Available <- MCAvailable
  Threads = {t1, t2}
  Selectors = {t1}
  Serialised = FALSE
  Ready = FALSE
  Fields = {"invoke", "signature"}
INVARIANTS
  FrameHolds
ACTION_CONSTRAINT MCProgramOrder
