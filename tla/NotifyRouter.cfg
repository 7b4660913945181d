SPECIFICATION FairSpec
CONSTANTS
  i1 = i1
  i2 = i2
  i3 = i3
  i4 = i4
  Items = {i1, i2, i4}
  Status <- FourPayloads
  BufferCap = 1
  PartialAfter = 1
  AutoFree = 2
  MaxCommands = 2
  SendMayFail = TRUE
INVARIANTS TypeOK HeldOnce
PROPERTIES BusyIsFlushed
CHECK_DEADLOCK FALSE
