CONSTANTS
  Millis = 9
  SENSOR_COUNT = 1
  SubackBudgetMs = 2
  CriticalBudgetMs = 1
  DiscoveryBudgetMs = 3
  PassMs = 1
  PacketId = {1, 2}
  Verdicts = {"acceptedQos1", "rejectedQos0"}
SPECIFICATION FairSpec
INVARIANTS
  TypeOK
  SessionGate
  SlotFollowsSession
PROPERTIES
  ImplementsSessionContract
  AcceptedInTime
  SessionSettles
