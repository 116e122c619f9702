CONSTANTS
  COMMAND_QUEUE_SIZE = 2
  MaxBestEffortPackets = 2
  LibraryRefuses = FALSE
  Inbound <- StartAndStop
  Qos = {0, 1}
  OtaEvents = {"errorBeforeStart", "transfer"}
  MaxEpoch = 1
  MaxOutbox = 2
SPECIFICATION FairStatusSpec
INVARIANTS
  StatusErrsOnOnly
PROPERTIES
  LoopGoesOn
  StopReconciled
