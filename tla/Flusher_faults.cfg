CONSTANTS
  MaxSample = 2
  MaxClock = 3
  MaxFaults = 2
  MaxEvent = 0
  Faults <- Outage
  NoFile = NoFile
SPECIFICATION FairSpec
INVARIANT TypeFlusher
INVARIANT CopiesBounded
INVARIANT RollupOnce
PROPERTY AtLeastOnce
PROPERTY EventuallyShipped
CHECK_DEADLOCK FALSE
