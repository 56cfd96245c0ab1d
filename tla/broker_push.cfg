SPECIFICATION Spec
CONSTANTS
  Agents = {a1, a2}
  Tunnels = {t1, t2}
  Messages = {m1, m2}
  Cancels = {}
  Deletes = {}
  RecentCap = 1
  QueueCap = 1
  MaxRequests = 0
  None = None
  Reply = Reply
CHECK_DEADLOCK FALSE
SYMMETRY Symmetry
INVARIANTS
  TypeOK
  ExactlyOnce
  NoMisdelivery
  OvertakesOnlyBuffered
PROPERTY
  ImplementsDelivery
