SPECIFICATION Spec
CONSTANTS
  KeyCapacity = 2
  ScanCapacity = 4
  Batch = 2
  MaxKeys = 3
  MaxReads = 2
  Services = {"wait", "cli", "sti_isr", "end"}
INVARIANTS
  ReadReturnsKey
