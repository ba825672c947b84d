CONSTANTS
  CIMSERVER_TIMEOUT = 4
  MAX_PLAUSIBLE_PROGRESS = 2
  MAX_PROGRESS_FIXUPS = 1
  Callbacks = {"doubles"}
  Settings = {1}
  Lengths = {2}
  MaxGap = 1
  MaxElapsed = 7
  MaxSet = 0
  MaxBody = 1
SPECIFICATION TimeoutSpec
INVARIANT TenMinutesMaxPerOperation
