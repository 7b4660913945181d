SPECIFICATION FairSpec
CONSTANTS
  i1 = i1
  i2 = i2
  i3 = i3
  i4 = i4
  Items = {i1, i2}
  Status <- FourPayloads
  BufferCap = 2
  PartialAfter = 1
  AutoFree = 2
  MaxCommands = 1
  SendMayFail = FALSE
PROPERTIES HandledIsForwarded
CHECK_DEADLOCK FALSE
