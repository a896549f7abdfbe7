CONSTANTS
  ip1 = ip1
  ip2 = ip2
  host1 = host1
  Unspecified = Unspecified
  Address = {ip1, ip2, host1, Unspecified}
  Ip = {ip1, ip2, Unspecified}
  Missing = Missing
  AutoDetect = AutoDetect
  Configs <- Files
  PageConfigs <- Simple
  RouteTables <- Tables
  MaxKills = 1
  Source = {1, 2}
  t1 = t1
  t2 = t2
  Target = {t1, t2}
  Rows <- SomeRows
  LossBands <- Percent
  P95Bands <- Millis
  P99Bands <- Millis
  MediumDays = 1
  HighDays = 2
  MediumSamples = 2
  HighSamples = 3
  NoRow = NoRow
  MaxClock = 2
  MaxWrites = 2
  Widths <- Lengths
  Short = {"evening_peak"}
  Day = 2
  Peak = 1
  PeakLength = 1
SPECIFICATION Spec
INVARIANT NoDoubleProbe
INVARIANT GatewayWatched
INVARIANT ChartFitsFigures
INVARIANT PagesAgree
INVARIANT PanicsOnlyWhenForced
PROPERTY EventuallyRunning
CHECK_DEADLOCK FALSE
