SPECIFICATION RebalanceSpec
CONSTANTS
  Parts = {"p1", "p2"}
  Topics = {"topic1"}
  Tables = {"users"}
  Pool = Pool
  Nobody = Nobody
  TopicOf <- MCTopicOf
  PartNum <- MCPartNum
  Log <- UpdateLog
  Mode = "replication"
  IdempotentKey = TRUE
  BufferRows = 1
  MaxCrashes = 1
  MaxRebalances = 1
INVARIANT
  CommittedIsDurable
  NothingDropped
