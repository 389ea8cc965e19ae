SPECIFICATION FairSpec
CONSTANTS
  WindowLen = 3
  PageLen = 2
  KeepClosed = 2
  StartTime = 3
  Horizon = 9
  MaxFails = 1
  Strategies = {"dip", "obi"}
  CheapPrice = {20}
  MinEntry = 10
  DipMax = 30
  ValueMax = 50
  RevWin = 2
  PasTail = 1
  LockAt = 2
  Stake = 12
  LoopMax = 1
  LastBet = 6
  Failures <- MCFailures
CHECK_DEADLOCK FALSE
INVARIANTS TypeOK BetsAccounted SettledByItsWindow EntriesOncePerWindow AccountAddsUp RowsInOrder
PROPERTIES ImplementsPaperLedger BetsSettle
