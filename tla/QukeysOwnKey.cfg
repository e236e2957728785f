\* Two qukeys and a letter, rolled over quickly; the queue of the code.
SPECIFICATION Spec
CONSTANTS
  KeyCount = 3
  Qukey <- HomeRow
  SpaceCadet <- None
  Modifier <- None
  Capacity = 8
  Holds <- LongOnly
  MinHold = 1
  MinPrior = 4
  Thresholds <- Default
  Lags <- OneTick
INVARIANTS OwnKey
