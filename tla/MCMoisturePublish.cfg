CONSTANTS
  SENSOR_COUNT = 4
  Enabled = {1, 3}
  IntervalMs = 3
  PassMs = 1
  Millis = 7
SPECIFICATION FairSpec
INVARIANTS
  TypeOK
PROPERTIES
  SweepIsWhole
  TelemetryYields
  SpacedSweeps
  TelemetryGoesOn
