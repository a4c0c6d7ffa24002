SPECIFICATION FairSpec
CONSTANTS
  N = 3
  NumOps = 2
  NumSigs = 2
  UintMax = 99
  OpSig <- MCOpSig
  Priority <- MCTie
  Tables <- MCAnyTables
INVARIANTS
  TypeOK
  SlotsSound
  KernelTakesTheFrame
  ExplicitIsPure
  MatrixAgrees
  AvailabilityAnswer
  AutoIsBest
PROPERTIES
  OnlySetBackendReroutes
  CallsEnd
