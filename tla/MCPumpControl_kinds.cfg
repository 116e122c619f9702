CONSTANTS
  COMMAND_QUEUE_SIZE = 2
  MaxBestEffortPackets = 2
  LibraryRefuses = FALSE
  Inbound <- EveryKind
  Qos = {0}
  OtaEvents = {"errorBeforeStart"}
  MaxEpoch = 1
  MaxOutbox = 2
SPECIFICATION Spec
PROPERTIES
  ImplementsContract
