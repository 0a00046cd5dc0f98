\* Two processes, of which one can end, and two connect threads.
CONSTANTS
  p1 = p1
  p2 = p2
  a1 = a1
  a2 = a2
  NoAttempt = NoAttempt
  Processes = {p1, p2}
  Attempts = {a1, a2}
  MaxDrops = 1
  MaxCrashes = 1
  MaxErrors = 1
  MaxNotices = 1
  Faults = {"start"}
  MaxFaults = 1
SPECIFICATION Spec
SYMMETRY Symmetry
INVARIANTS TypeOK PromptingHasConnect
PROPERTIES OnlineIsEvidenced OfflineIsSilent
CHECK_DEADLOCK FALSE
