SPECIFICATION Spec
CONSTANTS
  Buses = {0, 1}
  Devs = {0}
  Funcs = {0, 1}
  Dwords = {0}
  Bits <- MCBits
  TopBit = "t"
  Status <- MCStatus
  Present <- MCPresent
  IntLanes = 4
  Calls <- MCCalls
  Contents <- MCContents
  MaxCalls = 2
  MaxDisturbances = 1
INVARIANT
  WritesOnlySpecifiedRegister

