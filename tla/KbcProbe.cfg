SPECIFICATION Spec
CONSTANTS
  Tools = {"AMIKEY", "JETKEY", "MULTIKEY"}
  MaxFaults = 2
INVARIANTS
  TypeOK
  DumpTellsOutcomes
  HangLosesOneTest
  CommandByteRestored
