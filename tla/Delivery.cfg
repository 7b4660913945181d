SPECIFICATION FairSpec
CONSTANTS
  e1 = e1
  e2 = e2
  Envelopes = {e1, e2}
  Order <- TwoEnvelopes
  Requests = {r1, r2}
  Handles = {h1, h2, h3}
  Pids = {p1, p2, p3}
  Launchable = {e1, e2}
  MaxCached = 1
  Failures <- AnyFault
  Reports = {"done"}
  Commands = {"created", "failed"}
  MaxHistory = 1
  MaxFaults = 1
  None = None
INVARIANTS TypeOK BoundIsReal
PROPERTIES QueuedIsStarted
CHECK_DEADLOCK FALSE
