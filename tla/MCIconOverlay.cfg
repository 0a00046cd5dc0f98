\* A thread that paints a file, another that looks it up, and clears at any time; two
\* slots, so that the file can be in the cache twice.
SPECIFICATION FairOverlaySpec
CONSTANTS
  l1 = l1
  l2 = l2
  f1 = f1
  NoPath = NoPath
  Lookups = {l1, l2}
  Painters = {l1}
  Paths = {f1}
  FlagsOf <- MCFlagsOf
  Loadings <- MCLoadings
  CacheSize = 2
  Expiry = 1
  MaxSkew = 0
  MaxVersion = 2
  MaxEra = 0
  MaxFailures = 1
INVARIANTS OnlyOneHandler RoundAgrees RoundIsFresh
PROPERTIES OverlaySettles
