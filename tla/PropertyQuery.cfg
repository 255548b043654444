SPECIFICATION QuerySpec
CHECK_DEADLOCK FALSE
CONSTANTS
  Sent <- MCSent
  MaxEntries = 4
  OutOfMemory = TRUE
INVARIANTS TypeOK NothingDropped ParsingReleases CallReleases ErrorIsTheClients BorrowedIsHeld
