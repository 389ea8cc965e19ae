SPECIFICATION FairSpec
CONSTANTS
  Operator = {o1, o2}
  MaxSock = 3
  Count = 2
  Keep = 1
  HistMax = 1
  Settings <- MCSettings
INVARIANTS TypeOK SwitchAgrees HubDelivers HistoryJoinsLive
PROPERTY PumpCatchesUp
CHECK_DEADLOCK FALSE
