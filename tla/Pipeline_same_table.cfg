SPECIFICATION FairSpec
CONSTANTS
  Parts = {"p1", "p2"}
  Topics = {"topic1", "topic2"}
  Tables = {"users"}
  Pool = Pool
  Nobody = Nobody
  TopicOf <- TwoTopicOf
  PartNum <- TwoPartNum
  Log <- SameTableLog
  Mode = "replication"
  IdempotentKey = FALSE
  BufferRows = 1
  MaxCrashes = 0
PROPERTY
  EventuallyCommitted
