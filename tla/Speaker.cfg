SPECIFICATION FairSpec
CONSTANTS
  Capacity = 2
  Latency = 6
  Block = 2
  TickPeriod = 2
  Early = 0
  MaxLag = 1
  MaxDelay = 2
  MaxChanges = 4
INVARIANTS
  SampleHearsItsTime
PROPERTIES
  HeardInOrder
  LossOnlyInBursts
  LastChangeHeard
