\* Two commands at once, two files in a folder and in one below it, one drawing thread.
SPECIFICATION UserSpec
CONSTANTS
  l1 = l1
  t1 = t1
  t2 = t2
  f1 = f1
  f2 = f2
  d1 = d1
  d2 = d2
  NoPath = NoPath
  NoFolder = NoFolder
  Lookups = {l1}
  Paths = {f1, f2}
  Tasks = {t1, t2}
  Folders = {d1, d2}
  Folder <- MCFolder
  Parent <- MCParent
  CacheSize = 1
  Expiry = 1
  MaxSkew = 0
  MaxVersion = 2
  MaxEra = 2
  MaxFailures = 0
INVARIANTS AnnouncedIsPainted
PROPERTIES ScreenSettles
CHECK_DEADLOCK FALSE
