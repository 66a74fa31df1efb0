SPECIFICATION Spec
CONSTANTS
  MaxRows = 3
  MaxFailures = 1
INVARIANTS TypeOK StagingNeverSticks TempFitsTarget
