SPECIFICATION MCSpec
CONSTANTS
  Proc = {1, 2}
  Sources = {"entries", "signals"}
  Modes = {"LIVE", "DRY_RUN"}
  Switches = {TRUE, FALSE}
  Window = {3, 6}
  WindowLen = 3
  MaxLeft = 1
  MinLeft = 1
  Stale = 1
  GasMax = 1
  SubmitMax = 1
  BatchSize = 2
  BatchMax = 4
  Lag = 1
  LockTail = 6
  MinTTL = 1
  StartTime = 4
  LastEmit = 6
  Horizon = 11
  MaxEntries = 2
  MaxLosses = 1
  MaxFaults = 1
  Settings <- MCSettings
INVARIANTS TypeOK OneOrderPerWindow LockOutlivesMarket NotEarly TokenOfItsWindow NoSilentOrder
PROPERTIES ImplementsLedger HandlerReturns
CHECK_DEADLOCK FALSE
