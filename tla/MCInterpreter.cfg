SPECIFICATION Spec
CONSTANTS
  Online = Online
  MaxBuffers = {0}
  Requirements = {}
  BufferAlign = 2
  MaxScratch = 2
  ArenaSizes <- MCArenaSizes
  Models <- MCModels
  SizeOf <- MCSizeOf
INVARIANTS TypeOK NothingTorn AllocatedIsWhole UndefinedOnlyWhenShort PlanIsSound
PROPERTY AllocateReturns
CHECK_DEADLOCK FALSE
