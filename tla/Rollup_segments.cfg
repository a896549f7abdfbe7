CONSTANTS
  Window = 2
  MaxTime = 4
  Late = 1
  MaxSample = 4
  Scale = 1200
  Latency <- Latencies
  Crashing = TRUE
  Lost = 0
SPECIFICATION Spec
INVARIANT TypeOK
INVARIANT SegmentsAddUp
INVARIANT QuantilesOrdered
INVARIANT RowsMatchQuery
CHECK_DEADLOCK FALSE
