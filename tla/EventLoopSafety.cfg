SPECIFICATION Spec
CONSTANTS
  Clients = {c1, c2}
  Rd = rd
  Wr = wr
  BusFd = 3
  CtlR = 4
  CtlW = 5
  InitialSize = 2
  ChanCap = 28
  MaxStarts = 2
  MaxMsgs = 1
  MaxSends = 1
  AllocFails = TRUE
  Noticers = {}
  NoOne = none
SYMMETRY ClientSymmetry
INVARIANTS TypeOK TableFits ControlSlotFirst LoopOwnsTable StoppedMeansReleased RunningMeansThread NoDeadWatchHandled
PROPERTIES ImplementsService
