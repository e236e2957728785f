\* Both cores do everything: one restart of core 1, one interrupt that uses the
\* peripheral.  Deadlock is not checked: two flash writers do block each other.
SPECIFICATION FairSpec
CONSTANTS
    FlashCores <- MCBoth
    ApiCores <- MCBoth
    InsideCores <- MCBoth
    IsrCores <- MCBoth
    MaskCores <- MCOne
    MaxRestarts = 1
    MaxInterrupts = 1
INVARIANTS TypeOK Exclusive FlashAlone OneRequest MaskRestored PeripheralExclusive
PROPERTIES StaysParked Acknowledged Resumed
CHECK_DEADLOCK FALSE
