SPECIFICATION Spec
CONSTANTS
  h1 = h1
  h2 = h2
  a1 = a1
  a2 = a2
  b1 = b1
  Hosts = {h1, h2}
  Agents = {a1, a2, b1}
  HostOf <- MCHostOf
  Children = {a1}
  Parents = {a2}
  TTL = 1
  ScanTime = 1
  Clock <- MCClock
  Ahead <- MCAhead
  MaxPosts = 2
  MaxNow = 2
  None = None
INVARIANTS TypeOK ListIsLatest ShownWasAlive
PROPERTIES ParentKept
CHECK_DEADLOCK FALSE
