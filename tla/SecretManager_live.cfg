SPECIFICATION FairSpec
CONSTANTS
  Handlers = {h1}
  Loop = loop
  Keys = {k1}
  NoKey = NoKey
  Free = Free
  Lifetime = 3
  RefreshBuffer = 1
  MaxClock = 3
  MaxSecrets = 3
PROPERTIES
  CallsReturn
  LoopRefreshes
  AcceptedKeyStartsLoop
