SPECIFICATION MCSpec
CONSTANTS
  Ones <- MCOnes
  HeaderBuf <- MCHeaderBuf
  Sources <- MCGapSources
  Disks <- MCDisks
  Machines <- MCOvertakenMachines
  Modes <- MCModes
  Firmwares <- MCFirmwares
  CommandLines <- MCCommandLines
  Outside <- MCOutside
  MaxFaults = 0
  MaxTrouble = 0
INVARIANTS
  NamesAlwaysRight
CHECK_DEADLOCK FALSE
