CONSTANTS
  COMMAND_QUEUE_SIZE = 1
  MaxBestEffortPackets = 2
  LibraryRefuses = FALSE
  Inbound <- PaddedStart
  Qos = {0}
  OtaEvents = {}
  MaxEpoch = 1
  MaxOutbox = 2
SPECIFICATION Spec
PROPERTIES
  NoStaleStart
