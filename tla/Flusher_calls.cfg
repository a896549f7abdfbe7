CONSTANTS
  MaxSample = 2
  MaxClock = 2
  MaxFaults = 2
  MaxEvent = 2
  Faults <- Calls
  NoFile = NoFile
SPECIFICATION SpecFlusher
INVARIANT OutagesInOrder
INVARIANT ReadyDecodes
INVARIANT TriggerShips
CHECK_DEADLOCK FALSE
