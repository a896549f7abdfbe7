CONSTANTS
  Source = {"a", "b"}
  t1 = t1
  t2 = t2
  Target = {t1, t2}
  Bucket = {1, 2}
  Rows <- SomeRows
  Durations = {30, 400}
  LossBands <- Percent
  P95Bands <- Millis
  P99Bands <- Millis
  MediumDays = 1
  HighDays = 2
  MediumSamples = 2
  HighSamples = 3
  MaxRows = 4
  MaxOutages <- Counts
  NoRow = NoRow
  Tie = "tie"
SPECIFICATION Spec
INVARIANT DeadNeverWins
CHECK_DEADLOCK FALSE
