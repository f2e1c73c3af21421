SPECIFICATION FairSpec
CONSTANTS
  Buses <- MCBuses
  DeviceCount = 2
  FunctionCount = 3
  Spaces <- MCSpaces
INVARIANTS
  TypeOK
  ReportsAll
  ReportsOnce
  TreeDrawn
PROPERTY
  Terminates
