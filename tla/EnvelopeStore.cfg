SPECIFICATION Spec
CONSTANTS
  Envelopes = {e1}
  ProofKeys = {k1, k2}
  Sessions = {s1, s2}
  ExecSessions = {x1}
  Messages = {m1, m2}
  InsertStatuses = {"created", "in_progress", "done"}
  MaxHistory = 3
  None = None
SYMMETRY Symmetry
INVARIANTS TypeOK HistoryTruthful DoneWasProven CompletionAgrees
PROPERTIES TerminalFrozen NothingForgotten
CHECK_DEADLOCK FALSE
