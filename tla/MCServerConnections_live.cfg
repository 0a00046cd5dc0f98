\* One process that can end and start again, two connect threads, one of every failure.
CONSTANTS
  p1 = p1
  p2 = p2
  a1 = a1
  a2 = a2
  NoAttempt = NoAttempt
  Processes = {p1}
  Attempts = {a1, a2}
  MaxDrops = 1
  MaxCrashes = 1
  MaxErrors = 1
  MaxNotices = 1
  Faults = {"answer"}
  MaxFaults = 1
SPECIFICATION FairSpec
PROPERTIES Recovers OfflineDetected
CHECK_DEADLOCK FALSE
