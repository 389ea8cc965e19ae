SPECIFICATION Spec
CONSTANTS
  WindowLen = 4
  Buckets = {1, 2}
  LastSec = 3
  VolMin = 2
  Lookback = 1
  Dwell = 1
  Limit = 25
  Readings <- MCReadings
  Lag = 0
  StartTime = 5
  Horizon = 12
  MaxTicks = 5
  FullUntil = 8
  FewReadings <- MCFew
  FewTicks = 2
INVARIANTS TypeOK AsRecorded NestedBuckets CountsAddUp
CHECK_DEADLOCK FALSE
