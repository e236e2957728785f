\* Two qukeys, a letter and a SpaceCadet key; the queue runs full.
SPECIFICATION Spec
CONSTANTS
  KeyCount = 4
  Qukey <- HomeRow
  SpaceCadet <- Fourth
  Modifier <- None
  Capacity = 4
  Holds <- ShortLong
  MinHold = 1
  MinPrior = 1
  Thresholds <- Percents
  Lags <- Ticks
INVARIANTS QueueBounds Replay ReportWhole Prompt
