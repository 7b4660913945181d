SPECIFICATION Spec
CONSTANTS
  Envelopes = {e1}
  Sessions = {s1}
  Keys = {k1, k2}
  Requests = {r1, r2}
  Reported = {"blocked", "paused"}
  LoopLimit = 1
  Window = 1
  ChunkSize = 2
  BulkIds <- SomeLists
  Failures = {"insert", "message"}
  MaxPosted = 1
  MaxRows = 3
  MaxNow = 1
  None = None
SYMMETRY Symmetry
INVARIANTS TypeOK LoopIsFlagged FlagIsEarned AlertsAgree BulkAckTruthful
CHECK_DEADLOCK FALSE
