CONSTANTS
  gw = gw
  ip1 = ip1
  host1 = host1
  Target = {gw, ip1, host1}
  Host = {host1}
  Gateway = {gw}
  MinStreak = 2
  Lengths <- Mixed
  MaxTick = 3
  NoEvent = NoEvent
SPECIFICATION Spec
INVARIANT TypeOK
INVARIANT EventsAreRuns
INVARIANT EventsDisjoint
INVARIANT VerdictsSound
PROPERTY EventsGrow
CHECK_DEADLOCK FALSE
