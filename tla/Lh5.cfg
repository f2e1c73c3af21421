SPECIFICATION Spec
CONSTANTS
  ByteBits = 3
  LenBits = 2
  RunBits = 1
  Literals = 4
  MaxMatch = 10
  Threshold = 3
  DicBits = 5
  PBit = 3
  TBit = 4
  CBit = 4
  PtTableBits = 4
  CTableBits = 4
  Archives <- MCArchives
INVARIANTS TypeOK TablesDecode DecodesContent
