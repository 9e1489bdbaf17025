\* Two tasks broadcasting to two browsers; tasks and cleanups are fair.
CONSTANTS
  Topics = {t1}
  Clients = {w1, w2}
  Broadcasts = {b1, b2}
  None = None
SPECIFICATION FairSpec
INVARIANT CompletedReachesAudience
PROPERTIES BroadcastEnds LostBrowserForgotten
