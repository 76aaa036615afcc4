SPECIFICATION AppSpec
CONSTANTS
  u1 = u1
  a = a
  b = b
  Ports = {p1, p2}
  Bases = {pub}
  Trusted = {o1}
  Calls = {c1, c2, c3}
  Views = {u1, u2}
  Tools = {a, b}
  AttachTo <- MCAttachTo
  Helpers <- MCHelpers
  Domain = site
SYMMETRY Symmetry
INVARIANTS
  TypeOK
  NoOrphanListener
  HandedOutReachable
  NoPartialWiring
  ListSettles
