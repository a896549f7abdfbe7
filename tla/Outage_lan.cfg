CONSTANTS
  gw = gw
  ip1 = ip1
  host1 = host1
  Target = {gw, ip1, host1}
  Host = {host1}
  Gateway = {gw}
  MinStreak = 1
  Lengths <- Whole
  MaxTick = 2
  NoEvent = NoEvent
SPECIFICATION Spec
INVARIANT FullOutageSeen
CHECK_DEADLOCK FALSE
