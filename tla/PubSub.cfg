SPECIFICATION FairSpec
CONSTANTS
  Keys = {"a", "b"}
  Length = 2
  Skipped <- OneSkipped
  BufferRows = 2
  Pool = "pool"
  Nobody = "nobody"
  MaxFaults = 2
INVARIANTS TypeOK AckedIsDurable OnlySkippedLeak
PROPERTY EventuallyAcked
