SPECIFICATION FairSpec
CONSTANTS
  e1 = e1
  e2 = e2
  Envelopes = {e1}
  Order <- OneEnvelope
  Requests = {r1}
  Handles = {h1}
  Pids = {p1, p2}
  Launchable = {e1}
  MaxCached = 1
  Failures = {}
  Reports = {"in_progress"}
  Commands = {}
  MaxHistory = 1
  MaxFaults = 0
  None = None
PROPERTIES DeliveryIsRecorded
CHECK_DEADLOCK FALSE
