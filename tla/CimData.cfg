CONSTANTS
  n1 = n1
  n2 = n2
  i1 = i1
  i2 = i2
  p1 = p1
  p2 = p2
  NULL = NULL
  Instances = {i1, i2}
  Paths = {p1, p2}
  Names = {n1, n2}
  Vals = {v}
  PropertyLists <- OneProperty
  KeyLists <- NoKeys
  MaxEntries = 4
  MaxLost = 1
  MaxAlive = 3
  x = x
  y = y
  MaxObjects = 2
  MaxClassEntries = 4
  MaxNestedEntries = 6
  Types = {"string", "class"}
  Contained = {v}
  Lengths = {0, 1}
  InitialMax = 1
  MaxSize = 4
  MaxTotal = 4
  MaxNext = 1
SPECIFICATION MCSpec
CHECK_DEADLOCK FALSE
INVARIANTS TypeOK OneOwner EachNodeOnce OneArrayOwns
PROPERTIES InstancesAreValues ClassesAreValues ArraysAreSequences
SYMMETRY DataSymmetry
