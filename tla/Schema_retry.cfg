SPECIFICATION FairSpec
CONSTANTS
  Cols = {a, b}
  DropDeletedColumns = TRUE
  Padding = 1
  LostAnswers = FALSE
  MaxTime = 2
  MaxEvents = 2
  MaxFaults = 1
PROPERTY
  EventuallyMerged
