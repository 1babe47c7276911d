\* A conversation's turns, one at a time or overlapping, beside the adapter's calls.
SPECIFICATION Spec
CONSTANTS
  s1 = s1
  s2 = s2
  Streams <- TwoStreams
  Adapted <- OneStream
  Seeded = TRUE
  Overlap <- Either
  MaxTurns = 2
  MaxLines = 2
CHECK_DEADLOCK FALSE
INVARIANTS
  TypeOK
  HistoryIsTurns
  StreamsAreRight
  GenerateIsFaithful
PROPERTIES
  AccumulatesTurns
  StreamsEnd
