CONSTANTS
  MaxCommandBytes = 2
  MemoryBytes = 4
  SizeRange = 8
  Byte = {"a", "b"}
  Untouched = "-"
  PacketId = {0, 1}
  Fragments <- AnyFragment
  MaxFragments = 3
SPECIFICATION Spec
INVARIANTS
  TypeOK
  HandedOnWhole
  ReportedOnce
  BufferIsEnough
