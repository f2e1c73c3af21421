SPECIFICATION MCSpec
CONSTANTS
  Ones <- MCOnes
  HeaderBuf <- MCHeaderBuf
  Sources <- MCSources
  Disks <- MCDisks
  Machines <- MCMachines
  Modes <- MCModes
  Firmwares <- MCFirmwares
  CommandLines <- MCCommandLines
  Outside <- MCOutside
  MaxFaults = 0
  MaxTrouble = 0
INVARIANTS
  UsageFollowed
CHECK_DEADLOCK FALSE
