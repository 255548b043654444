SPECIFICATION FairSpec
CONSTANTS
  Clients = {c1}
  Rd = rd
  Wr = wr
  BusFd = 3
  CtlR = 4
  CtlW = 5
  InitialSize = 1
  ChanCap = 40
  MaxStarts = 2
  MaxMsgs = 1
  MaxSends = 2
  AllocFails = FALSE
  Noticers = {c1}
  NoOne = none
INVARIANT InSync
PROPERTIES QueuedMessagesDispatched StopReturns
