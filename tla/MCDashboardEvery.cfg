SPECIFICATION Spec
CONSTANTS
  Operator = {o1}
  MaxSock = 3
  Count = 2
  Keep = 5
  HistMax = 1
  Settings <- MCSettings
INVARIANT EveryRecordBroadcast
CHECK_DEADLOCK FALSE
