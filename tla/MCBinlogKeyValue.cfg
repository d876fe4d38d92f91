SPECIFICATION Spec
CONSTANTS
  Clients = {c1, c2}
  Keys = {k1, k2}
  Values = {a, b}
  NoKey = NoKey
  KeyPrefixes <- CommonPrefix
  MaxSeqNo = 5
  MaxCrashes = 1
SYMMETRY Symmetry
CHECK_DEADLOCK FALSE
INVARIANTS TypeOK LogFollowsMap
PROPERTY RecoversToAPromisedState
