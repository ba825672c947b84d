CONSTANTS
  n1 = n1
  n2 = n2
  i1 = i1
  i2 = i2
  p1 = p1
  p2 = p2
  NULL = NULL
  Instances = {i1}
  Paths = {p1}
  Names = {n1, n2}
  Vals = {v}
  PropertyLists <- OneProperty
  KeyLists <- NoKeys
  MaxEntries = 4
  MaxLost = 1
SPECIFICATION Spec
CHECK_DEADLOCK FALSE
INVARIANT SetPropertyReplaces
