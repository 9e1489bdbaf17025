\* Two browsers, two stream ids that they may share; handlers are fair.
CONSTANTS
  Clients = {w1, w2}
  Streams = {i1, i2}
  None = None
SPECIFICATION FairSpec
INVARIANT OriginatorIsSubscribed
PROPERTY LostSubscriberForgotten
