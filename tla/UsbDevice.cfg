\* Writes longer than the FIFO.  A report that hangs in TinyUSB's mutex
\* stops core 0, and then core 1 where it waits for the stack.
SPECIFICATION Spec
CONSTANTS
  Uses <- Every
  Length = 3
  FifoSize = 2
  Packet = 2
  Second = 0
INVARIANTS OneInStack Whole
PROPERTIES GivenBack
CHECK_DEADLOCK FALSE
