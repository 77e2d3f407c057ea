\* Pages of 3 and transfers of 2 as 256 and 255, sectors of one page; the
\* image ends inside the second sector, as it does inside the 109th.
SPECIFICATION AllSpec
CONSTANTS
  PageSize = 3
  DmaMax = 2
  SectorSize = 3
  FlashSize = 15
  AppSize = 5
  Images = {i1, i2}
  PieceSizes = {1, 3}
  Erased = Erased
  Garbage = Garbage
  StorageBase = 6
  StartLengths <- SomeStartLengths
  BlockData = {p, q}
  Pieces <- SomePieces
  Lengths = {3, 6}
  Anything = Anything
  BlockNums = {1}
INVARIANTS
  AllTypeOK
  FinishedImageIsWhole
  AcceptedIsProgrammed
  NothingSpoiled
PROPERTIES
  BootAfterWrite
  DeviceSpec
