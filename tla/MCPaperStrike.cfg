SPECIFICATION Spec
CONSTANTS
  WindowLen = 3
  PageLen = 2
  KeepClosed = 1
  StartTime = 3
  Horizon = 8
  MaxFails = 1
  Strategies = {"dip"}
  CheapPrice = {20, 40}
  MinEntry = 10
  DipMax = 30
  ValueMax = 90
  RevWin = 2
  PasTail = 1
  LockAt = 2
  Stake = 12
  LoopMax = 1
  LastBet = 6
  Failures <- MCStrikeFailures
CHECK_DEADLOCK FALSE
INVARIANTS StrikeOfItsWindow
