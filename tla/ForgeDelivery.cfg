SPECIFICATION FairSpec
CONSTANTS
  Envelopes = {e1, e2}
  Requests = {r1, r2}
  Handles = {h1, h2}
  Pids = {p1, p2}
  Launchable = {e1}
  MaxCached = 1
  Failures <- AnyCall
  None = None
INVARIANTS TypeOK OneLiveExecutor LiveIsReachable
PROPERTIES ImplementsService EveryRequestAnswered
