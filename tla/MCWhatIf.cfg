SPECIFICATION Spec
CONSTANTS
  WindowLen = 2
  PageLen = 2
  KeepClosed = 2
  StartTime = 2
  Horizon = 6
  MaxFails = 0
  Sims = {"strong", "spot"}
  ReversalOnly = FALSE
  Price = {10, 20}
  MinEntry = 2
  MaxEntry = 20
  MinLeft = 1
  MaxLeft = 1
  SampleAt = 1
  Stake = 12
  LoopMax = 1
  LastWin = 4
  MaxFaults = 1
INVARIANTS TypeOK JudgedAfterItsWindow NetsAddUp RecountedOnlyOverrun
PROPERTIES ImplementsPaperLedger
CHECK_DEADLOCK FALSE
