SPECIFICATION Spec
CONSTANTS
  n1 = n1
  n2 = n2
  i1 = i1
  i2 = i2
  Names = {n1, n2}
  Inos = {i1, i2}
  None = None
  Bindings <- Renames
  ByPath <- Derived
  Lookups = {l1}
  MaxRefs = 2
  MaxNotes = 2
INVARIANTS LookupCounts IndexSound PositiveNamesForgotten
