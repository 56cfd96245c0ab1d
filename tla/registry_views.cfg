SPECIFICATION ViewSpec
CONSTANTS
  Agents = {a1, a2}
  Tunnels = {t1, t2}
  Messages = {}
  Cancels = {c1}
  Deletes = {d1}
  Queries = {q1}
  RecentCap = 2
  QueueCap = 1
  MaxRequests = 0
  None = None
  Reply = Reply
CHECK_DEADLOCK FALSE
SYMMETRY ViewSymmetry
INVARIANTS
  NoDanglingEntry
  RecentLogOK
  ConnectedIsReportedOnce
  CancelNotReplayed
