CONSTANTS
  Threads = {t1, t2}
  Schemes = {XML, SfcbLocal}
  Installed = {XML, SfcbLocal}
  Refusing = {SfcbLocal}
  NULL = NULL
SPECIFICATION Spec
CHECK_DEADLOCK FALSE
INVARIANT EnvironmentWhenUsed
