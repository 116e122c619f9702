CONSTANTS
  Size = 2
  Free = free
  Message = {m1, m2, m3, m4}
  PacketId = {1, 2}
  Copies = {1, 2}
SPECIFICATION FairSpec
INVARIANTS
  TypeOK
  InFlightIsHeld
PROPERTIES
  PublishedOnce
  ImplementsContracts
  QueueDrains
