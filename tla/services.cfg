SPECIFICATION Spec
CONSTANTS
  Pids = {p1, p2}
  Nodes = {n1, n2}
  Deletes = {d1, d2}
  Execs = {x1}
  None = None
  Resolvers = {r1, r2}
  Files = {f1, f2}
  RefsPerConfig = 2
  MaxVersion = 2
  Agents = {a1, a2}
  Clients = {c1}
  Operator = op
  Ttls = {0, 1, 2, 7}
  MaxI64 = 7
  Leeway = 1
  MaxTime = 4
  AdminExpiry = 2
  MaxOpen = 1
  MaxMinted = 2
CHECK_DEADLOCK FALSE
INVARIANTS
  NodesOK
  ResolvedOK
  AccessOK
PROPERTIES
  ServicesSettle
  TokensOK
