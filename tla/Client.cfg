CONSTANTS
  Ops = {"execQuery", "enumInstanceNames", "enumInstances", "associators", "associatorNames",
         "references", "referenceNames", "enumClassNames", "enumClasses",
         "getInstance", "getClass", "createInstance",
         "setInstance", "deleteInstance", "setProperty", "getProperty", "invokeMethod"}
  LaterOps = {"getInstance"}
  Bodies = {"elements", "empty", "error", "error0", "outArgs", "unreadable"}
  MaxCalls = 2
  MaxHeaders = 2
  NULL = NULL
  Threads = {t1, t2}
  Schemes = {XML, SfcbLocal, other}
  Installed = {XML, SfcbLocal}
  Refusing = {SfcbLocal}
  Sizes = {1, 4}
  Appended = {0, 3, 7}
  IntMax = 31
  Lists = {l1, l2}
  Nodes = {n1, n2, n3}
  Values = {a, b}
  k1 = k1
  k2 = k2
  k3 = k3
  Keys = {k1, k2, k3}
  Hash <- ThreeHashes
  Copies = {c1, c2}
  Pointers = {v1, v2, v3}
  Iterators = {i1}
  BucketCounts = {1, 2}
  IdealRatio = 1
  UpperRehashThreshold = 2
SPECIFICATION MCSpec
CHECK_DEADLOCK FALSE
INVARIANTS
  TypeOK AnswersThisExchange NoUseAfterRelease NothingLost
  NothingKept ClientsKeepEnvironment ReleaseIsTheBackends
  TextInBlock LoopAdvances
  ListsLinked PairsInPlace TableOwnsItsPairs
PROPERTIES ListRefinesCursor TableRefinesMap
SYMMETRY Symmetry
