SPECIFICATION FairSpec
CONSTANTS
  Parts = {"p1", "p2"}
  Topics = {"topic1", "topic2"}
  Tables = {"users", "orders"}
  Pool = Pool
  Nobody = Nobody
  TopicOf <- TwoTopicOf
  PartNum <- TwoPartNum
  Log <- TwoLog
  Mode = "history"
  IdempotentKey = FALSE
  BufferRows = 1
  MaxCrashes = 1
INVARIANTS
  CommittedIsDurable
  NothingDropped
PROPERTY
  EventuallyCommitted
