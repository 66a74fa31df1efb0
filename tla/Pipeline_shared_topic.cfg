SPECIFICATION Spec
CONSTANTS
  Parts = {"p1"}
  Topics = {"topic1"}
  Tables = {"users", "orders"}
  Pool = Pool
  Nobody = Nobody
  TopicOf <- SharedTopicOf
  PartNum <- SharedPartNum
  Log <- SharedLog
  Mode = "replication"
  IdempotentKey = FALSE
  BufferRows = 1
  MaxCrashes = 1
INVARIANT
  CommittedIsDurable
