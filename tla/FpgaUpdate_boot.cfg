\* Pages of 4 and transfers of 3 as 256 and 255; the image ends inside the
\* second sector, as it does inside the 109th.
SPECIFICATION Spec
CONSTANTS
  PageSize = 4
  DmaMax = 3
  SectorSize = 8
  FlashSize = 24
  AppSize = 13
  Images = {1, 2}
  PieceSizes = {2, 5, 6}
  Erased = Erased
  Garbage = Garbage
PROPERTIES
  BootsOnlyValidImage
