\* Every call ends, ids reused or not: callers are fair, agents and users not.
CONSTANTS
  Servers = {s1}
  Conns = {c1}
  None = None
  Calls = {k1, k2}
  WsCalls = {k1, k2}
  LogCalls = {}
  CmdIds = {i1}
  FreshIds = FALSE
SPECIFICATION FairSpec
PROPERTY CallsEnd
