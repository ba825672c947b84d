CONSTANTS
  t1 = t1
  t2 = t2
  Threads = {t1, t2}
  Texts <- AllTexts
  NoThread = NoThread
  CIMSERVER_TIMEOUT = 3
  MAX_PLAUSIBLE_PROGRESS = 1
  MAX_PROGRESS_FIXUPS = 1
  Callbacks = {"doubles", "integers"}
  Settings <- SomeSettings
  Lengths = {2}
  MaxGap = 2
  MaxElapsed = 7
  MaxSet = 2
  MaxBody = 1
SPECIFICATION ExchangeSpec
INVARIANTS TypeOK NothingPending AcceptsOnlyNested TimeoutTypes AbortJustified
PROPERTIES OnlyTheHolderReads AnswersItsOwnText ScanTerminates StalledTransferEnds
CHECK_DEADLOCK FALSE
