CONSTANTS
  MaxSample = 1
  MaxClock = 2
  MaxFaults = 0
  MaxEvent = 1
  Faults <- OnlyStop
  NoFile = NoFile
SPECIFICATION SpecFlusher
INVARIANT OutagesShipped
CHECK_DEADLOCK FALSE
