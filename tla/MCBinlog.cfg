SPECIFICATION Spec
CONSTANTS
  Values = {a, b}
  Keys = {k1}
  NoKey = NoKey
  ReindexMin = 1
  ReindexRate = 2
  FlushMax = 2
  MaxEvents = 3
  MaxCrashes = 2
  MaxKeyChanges = 1
SYMMETRY Symmetry
INVARIANTS TypeOK LoadReproducesLive NeverFatal KeyIsKnown
PROPERTY RecoversToAPromisedState
