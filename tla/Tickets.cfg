\* Two requests for one ticket, two browsers that come and go.
CONSTANTS
  Topics = {t1}
  Clients = {w1, w2}
  Broadcasts = {b1, b2}
  Values = {v1, v2}
  None = None
SPECIFICATION TicketsSpec
SYMMETRY TicketsSymmetry
INVARIANTS TicketsTypeOK ShownIsCommitted
