SPECIFICATION FairSpec
CONSTANTS
  e1 = e1
  e2 = e2
  e3 = e3
  c1 = c1
  c2 = c2
  k1 = k1
  k2 = k2
  Events = {e1, e2, e3}
  KeyOf <- MCKeyOf
  Clients = {c1, c2}
  ScopeOf <- MCScopeOf
  Public = Public
  All = All
  RingSize = 2
  ChanSize = 1
  MaxCalls = 2
  None = None
INVARIANTS TypeOK RecentIsLatest NoGap NoSendOnClosed
PROPERTIES PublishReturns
CHECK_DEADLOCK FALSE
