SPECIFICATION Spec
CONSTANTS
  Samples = 2
  Length = 3
  Size = 2
  Warmup = 1
  Cooldown = 1
  Rate = 2
  Word = 16
  MaxNow = 5
  MaxSid = 5
INVARIANTS TypeOK RingInOrder EchoIsFound ReportIsComplete
PROPERTIES SamplesAreRoundTrips
CHECK_DEADLOCK FALSE
