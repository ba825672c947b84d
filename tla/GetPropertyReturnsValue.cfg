CONSTANTS
  t1 = t1
  t2 = t2
  Threads = {t1}
  Texts <- PropertyValues
  NoThread = NoThread
SPECIFICATION Spec
INVARIANT GetPropertyReturnsValue
CHECK_DEADLOCK FALSE
