CONSTANTS
  MaxSample = 3
  MaxClock = 3
  MaxFaults = 2
  Faults <- AllFaults
  NoFile = NoFile
SPECIFICATION Spec
INVARIANT TypeOK
INVARIANT FilesStay
INVARIANT NoStrandedFile
INVARIANT NamesDistinct
CHECK_DEADLOCK FALSE
