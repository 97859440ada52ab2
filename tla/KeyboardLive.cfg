SPECIFICATION FairSpec
CONSTANTS
  KeyCapacity = 2
  ScanCapacity = 4
  Batch = 2
  MaxKeys = 4
  MaxReads = 4
  Services = {"end"}
PROPERTIES
  KeysImplementStream
  ScansAreServed
