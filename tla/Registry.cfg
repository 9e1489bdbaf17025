\* Two servers, connections that may overlap; handlers are fair.
CONSTANTS
  Servers = {s1, s2}
  Conns = {c1, c2}
  None = None
SPECIFICATION FairRegistrySpec
INVARIANTS RoutesToServingHandler OnlineHasHandler ConnectedAgentRegistered
  ConnectedServerOnline
PROPERTIES DeadLinkUnregistered OfflineEventually
