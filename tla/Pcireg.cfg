SPECIFICATION MCSpec
CONSTANTS
  Ones <- MCOnes
  HeaderBuf <- MCHeaderBuf
  Sources <- MCSources
  Disks <- MCDisks
  Machines <- MCMachines
  Modes <- MCModes
  Firmwares <- MCFirmwares
  CommandLines <- MCCommandLines
  Outside <- MCOutside
  MaxFaults = 2
  MaxTrouble = 2
INVARIANTS
  TypeOK
  NamesRight
  CursorsBacked
  ArgumentsFollowed
  BufferKept
  SteeringRight
CHECK_DEADLOCK FALSE
