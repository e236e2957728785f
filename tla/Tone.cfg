\* Two pins, three callers, two machines: a tone and a leak, or two tones.
SPECIFICATION Spec
CONSTANTS
  Pin <- Pins
  Caller <- Callers
  Address <- Addresses
  Alarm <- Alarms
  Machines = 2
INVARIANTS ToneAlive
PROPERTIES Ends
