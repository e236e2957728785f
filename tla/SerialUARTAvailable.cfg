\* One core reads and asks for available() after setFIFOSize(2), which makes the
\* size of the ring 3, no power of two.
SPECIFICATION Spec
CONSTANTS
    Calls <- MCAvailable
    Sizes <- MCTwo
    PollingModes <- MCInterrupts
    DefaultSize = 32
    HwDepth = 1
    MaxBytes = 4
    MaxCalls <- MCMoreCalls
PROPERTY AvailableCounts
CHECK_DEADLOCK FALSE
