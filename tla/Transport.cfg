SPECIFICATION FairSpec
CHECK_DEADLOCK FALSE
CONSTANTS
  HdrLen = 2
  SlotSize = 7
  TlvMax = 2
  File <- MCFile
  Protocols = {"raw", "xmodem", "ymodem"}
  Chunk = 2
  SmallBlock = 2
  BigBlock = 3
  BlkMod = 4
  MaxTrouble = 3
INVARIANTS
  TypeOK
  FlashIsPrefix
  CutIsIrrelevant
  SuccessIsWhole
  WithinSlot
PROPERTY
  Completes
