CONSTANTS
  MaxSample = 2
  MaxClock = 2
  MaxFaults = 1
  MaxEvent = 0
  Faults <- OnlyDb
  NoFile = NoFile
SPECIFICATION SpecFlusher
INVARIANT RollupsQueue
CHECK_DEADLOCK FALSE
