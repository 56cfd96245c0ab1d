SPECIFICATION FairSpec
CONSTANTS
  Instances = {i1, i2}
  Tunnels = {t1, t2}
  Messages = {m1}
  None = None
  Faults = {"crash"}
  MaxFaults = 1
  MaxDeliveries = 2
  BufferCap = 0
CHECK_DEADLOCK FALSE
PROPERTIES
  RedisSettles
INVARIANT
  RedisTypeOK
