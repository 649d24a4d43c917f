\* Two handlers, and one label more than each table has room for.
CONSTANTS
  h1 = h1
  h2 = h2
  a = a
  b = b
  c = c
  k1 = k1
  k2 = k2
  s1 = s1
  s2 = s2
  NoServer = NoServer
  Handlers = {h1, h2}
  Hosts = {a, b, c}
  Types = {k1, k2}
  Servers = {s1, s2}
  MaxPeers = 2
  MaxEventLabels = 1
  MaxCalls = 5
SPECIFICATION Spec
SYMMETRY Symmetry
CHECK_DEADLOCK FALSE
INVARIANTS
  TypeOK
  PeersAreExact
  LabelsAreExact
  DropsAreExact
