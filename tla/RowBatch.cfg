SPECIFICATION Spec
CONSTANTS
  Keys = {k1, k2}
  Cols = {a}
  Values = {v1, v2}
  Null = Null
  Toast = Toast
  Missing = Missing
  NoRow = NoRow
  MaxLog = 2
SYMMETRY KeySymmetry
INVARIANTS
  TypeOK
  BatchEqualsSource
  PlaceholderIsTransient
