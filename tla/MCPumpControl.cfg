CONSTANTS
  COMMAND_QUEUE_SIZE = 2
  MaxBestEffortPackets = 2
  LibraryRefuses = TRUE
  Inbound <- StartAndStop
  Qos = {0, 1}
  OtaEvents = {"errorBeforeStart", "transfer"}
  MaxEpoch = 2
  MaxOutbox = 2
SPECIFICATION Spec
INVARIANTS
  TypeOK
  RelayFollowsIntent
  NoStaleOn
  PumpRunsQuiet
  CrashRemembered
PROPERTIES
  ImplementsSharedContracts
  NoStaleStart
  StartsWait
