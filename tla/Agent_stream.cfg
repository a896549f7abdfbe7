CONSTANTS
  ip1 = ip1
  host1 = host1
  Target = {ip1, host1}
  Host = {host1}
  Gateway = {}
  Results <- Replies
  MinStreak = 2
  Interval = 2
  MaxTime = 4
  Capacity = 1
  Stopping = TRUE
  Unset = Unset
  NoEvent = NoEvent
SPECIFICATION SpecAgent
INVARIANT TypeOK
INVARIANT TicksInOrder
INVARIANT NothingSkipped
INVARIANT TargetsInOrder
INVARIANT EventsBacked
INVARIANT FailuresReported
INVARIANT ShutdownIsMild
CHECK_DEADLOCK FALSE
