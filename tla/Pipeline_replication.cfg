SPECIFICATION Spec
CONSTANTS
  Parts = {"p1", "p2"}
  Topics = {"topic1"}
  Tables = {"users"}
  Pool = Pool
  Nobody = Nobody
  TopicOf <- OneTopicOf
  PartNum <- OnePartNum
  Log <- OneLog
  Mode = "replication"
  IdempotentKey = FALSE
  BufferRows = 1
  MaxCrashes = 1
INVARIANTS
  TypeOK
  CommittedIsDurable
  NothingDropped
PROPERTIES
  CommitsOnlyAdvance
  Delivers
