SPECIFICATION Spec
CONSTANTS
  Handlers = {h1, h2}
  Loop = loop
  Keys = {k1, k2}
  NoKey = NoKey
  Free = Free
  Lifetime = 3
  RefreshBuffer = 1
  MaxClock = 3
  MaxSecrets = 3
SYMMETRY Symmetry
INVARIANT OfferSignalsLoop
