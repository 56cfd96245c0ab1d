SPECIFICATION FaultSpec
CONSTANTS
  Instances = {i1, i2}
  Tunnels = {t1, t2}
  Messages = {m1}
  None = None
  Faults = {"publish", "acquire", "heartbeat", "subscribe", "release", "crash", "read", "ack", "count", "dlq", "group", "drain", "deliver", "push", "view"}
  Readers = {r1}
  Subscribers = {s1, s2}
  MaxFrames = 3
  MaxFaults = 2
  MaxDeliveries = 2
  BufferCap = 1
CHECK_DEADLOCK FALSE
SYMMETRY RedisSymmetry
INVARIANTS
  LatestHolderOwns
  NothingForgotten
  DirectoryOK
  OneStretch
