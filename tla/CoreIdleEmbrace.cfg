\* Both cores write flash, and nothing else happens.
SPECIFICATION FairSpec
CONSTANTS
    FlashCores <- MCBoth
    ApiCores <- MCNone
    InsideCores <- MCNone
    IsrCores <- MCNone
    MaskCores <- MCNone
    MaxRestarts = 0
    MaxInterrupts = 0
INVARIANTS NoEmbrace
CHECK_DEADLOCK FALSE
