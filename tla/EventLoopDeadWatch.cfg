SPECIFICATION Spec
CONSTANTS
  Clients = {c1}
  Rd = rd
  Wr = wr
  BusFd = 3
  CtlR = 4
  CtlW = 5
  InitialSize = 8
  ChanCap = 28
  MaxStarts = 1
  MaxMsgs = 0
  MaxSends = 1
  AllocFails = FALSE
  Noticers = {c1}
  NoOne = none
INVARIANT NoDeadWatchHandled
