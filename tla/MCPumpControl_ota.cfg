CONSTANTS
  COMMAND_QUEUE_SIZE = 1
  MaxBestEffortPackets = 3
  LibraryRefuses = FALSE
  Inbound <- OneStart
  Qos = {0}
  OtaEvents = {"errorBeforeStart"}
  MaxEpoch = 1
  MaxOutbox = 2
SPECIFICATION Spec
INVARIANTS
  StatusSettled
