SPECIFICATION FairSpec
CONSTANTS
  Adapters = {"delta", "full", "pooled"}
  Price = {1, 2, 3}
  MaxSize = 1
  Top = 1
  Bands = {0, 1}
  FirstBook <- MCFirstBook
  MaxVersions = 3
  MaxLevels = 2
  MaxOther = 1
  MaxDrops = 1
  MaxFails = 1
INVARIANTS TypeOK ShownIsPast BookIsPast RecordSane
PROPERTY Converges
CHECK_DEADLOCK FALSE
