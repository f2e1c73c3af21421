SPECIFICATION Spec
CONSTANTS
  Units = 16
  First = 4
  Regs = 4
  Settings <- MCSettings
  Machines <- MCMachines
INVARIANTS
  TypeOK
  RangesApart
  
  
