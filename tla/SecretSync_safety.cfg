SPECIFICATION FairSpec
CONSTANTS
  Ids = {i1, i2}
  Readers = {r1}
  NoId = NoId
  MaxRev = 3
CHECK_DEADLOCK FALSE
INVARIANTS CacheIsOneRevision LookupIsFresh
PROPERTIES CacheNeverGoesBack CacheCatchesUp LookupsReturn
