\* Two lookups of one file, two slots, a clock that can be set back by twice the expiry
\* time: enough for an insertion to find no slot.  Entries of other files change nothing
\* for a file but the slots they take, as its own duplicates do.
CONSTANTS
  l1 = l1
  l2 = l2
  f1 = f1
  f2 = f2
  f3 = f3
  NoPath = NoPath
  Lookups = {l1, l2}
  Paths = {f1}
  CacheSize = 2
  Expiry = 2
  MaxSkew = 4
  MaxVersion = 2
  MaxEra = 1
  MaxFailures = 1
SPECIFICATION FairSpec
INVARIANTS WritesInside ClearFlushes DuplicatesBounded
PROPERTIES StaleDiesOut
CHECK_DEADLOCK FALSE
