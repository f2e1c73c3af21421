SPECIFICATION FairSpec
CONSTANTS
  Arguments = {"03"}
  BufferSize = 2
  MaxKeys = 3
  MaxFaults = 2
INVARIANTS
  TypeOK
  LeavesAsFound
  ShowsSet3
PROPERTY
  EndsOrWaits
