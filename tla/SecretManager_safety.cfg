SPECIFICATION Spec
CONSTANTS
  Handlers = {h1, h2}
  Loop = loop
  Keys = {k1, k2}
  NoKey = NoKey
  Free = Free
  Lifetime = 2
  RefreshBuffer = 1
  MaxClock = 2
  MaxSecrets = 3
SYMMETRY Symmetry
INVARIANTS
  LeaseOutlivesExpiration
  HandedOutIsFresh
  KeyMatchesSecret
  LoopNotBehind
PROPERTIES
  KeyInForceIsStable
