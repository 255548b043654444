SPECIFICATION Spec
CONSTANTS
  Clients = {c1}
  Rd = rd
  Wr = wr
  BusFd = 3
  CtlR = 4
  CtlW = 5
  InitialSize = 8
  ChanCap = 28
  MaxStarts = 1
  MaxMsgs = 0
  MaxSends = 0
  AllocFails = FALSE
  Noticers = {}
  NoOne = none
INVARIANT MessagesIntact
