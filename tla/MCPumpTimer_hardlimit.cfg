CONSTANTS
  Millis = 12
  MsPerSecond = 2
  DEFAULT_PUMP_SECONDS = 1
  MAX_PUMP_SECONDS = 2
  WDT_TIMEOUT_MS = 3
  RequestSeconds <- MCRequestSeconds
  WatchdogOutcomes = {TRUE}
SPECIFICATION Spec
INVARIANTS
  ExactHardLimit
