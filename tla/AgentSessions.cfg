\* Two terminals of one id, one after the other, two tasks of one stream id,
\* as many threads as terminals.
CONSTANTS
  TermIds = {i1}
  StreamIds = {s1}
  Terms = {t1, t2}
  Streams = {k1, k2}
  Threads = 2
  None = None
SPECIFICATION FairSpec
INVARIANTS TypeOK ShellCanBeClosed StopIsEffective StreamCanBeStopped
PROPERTIES AgentReturns StoppedStreamEnds
