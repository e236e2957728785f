\* Core 0 configures and reads, in its thread and in an interrupt handler; core 1
\* reads, writes and asks for overflows.  Deadlock is not checked: the bounds on
\* bytes and calls end every behaviour.
SPECIFICATION FairSpec
CONSTANTS
    Calls <- MCCalls
    Sizes <- MCTwo
    PollingModes <- MCBoolean
    DefaultSize = 2
    HwDepth = 1
    MaxBytes = 2
    MaxCalls <- MCMaxCalls
INVARIANTS TypeOK RingAlive OneDrainer WritesWhole StaysEnabled NoneForgotten
PROPERTIES Delivers CallsReturn
CHECK_DEADLOCK FALSE
