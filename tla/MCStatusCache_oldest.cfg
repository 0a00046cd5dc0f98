\* Three files for two slots: one more than the cache holds.
CONSTANTS
  l1 = l1
  l2 = l2
  f1 = f1
  f2 = f2
  f3 = f3
  NoPath = NoPath
  Lookups = {l1}
  Paths = {f1, f2, f3}
  CacheSize = 2
  Expiry = 2
  MaxSkew = 0
  MaxVersion = 1
  MaxEra = 0
  MaxFailures = 0
SPECIFICATION Spec
PROPERTIES ReplacesOldest
CHECK_DEADLOCK FALSE
