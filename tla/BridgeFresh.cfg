\* A browser's command and a REST request to two servers, fresh ids, any
\* connection losses, timeouts and restarts.
CONSTANTS
  Servers = {s1, s2}
  Conns = {c1}
  None = None
  Calls = {k1, k2}
  WsCalls = {k1}
  LogCalls = {k2}
  CmdIds = {i1, i2}
  FreshIds = TRUE
SPECIFICATION Spec
SYMMETRY BridgeSymmetry
INVARIANTS AuditIsTrue PendingHasCaller
  DeliveredToNamedServer
PROPERTY ImplementsRpc
