SPECIFICATION Spec
CONSTANTS
  Proc = {p1}
  Sources = {"entries", "signals"}
  Modes = {"LIVE"}
  Switches = {TRUE, FALSE}
  Window = {3, 6}
  WindowLen = 3
  MaxLeft = 2
  MinLeft = 1
  Stale = 1
  GasMax = 1
  SubmitMax = 1
  BatchSize = 2
  BatchMax = 4
  Lag = 0
  LockTail = 5
  MinTTL = 1
  StartTime = 6
  LastEmit = 7
  Horizon = 12
  MaxEntries = 2
  MaxLosses = 0
  MaxFaults = 0
CHECK_DEADLOCK FALSE
INVARIANTS RejectedNotPosted
