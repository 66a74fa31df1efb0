SPECIFICATION Spec
CONSTANTS
  Cols = {a, b}
  DropDeletedColumns = TRUE
  Padding = 1
  LostAnswers = TRUE
  MaxTime = 2
  MaxEvents = 3
  MaxFaults = 1
SYMMETRY ColSymmetry
INVARIANTS
  TypeOK
  MergeFindsItsColumns
PROPERTY
  DropsAreJustified
