\* Two callers, two tasks, two folders, any failure once, three versions of the server.
SPECIFICATION RootFairSpec
CONSTANTS
  Clients = {c1, c2}
  Tasks = {t1, t2}
  Expiry = 1
  MaxSkew = 1
  MaxVersion = 3
  Faults <- AllFaults
  MaxFaults = 1
  f1 = f1
  f2 = f2
  Folders <- SomeFolders
  RootFolders <- RootsByValue
INVARIANTS ShellTypeOK SingleFlight EveryChangeAnnounced
PROPERTIES ScreenCatchesUp ImplementsFairRefreshedValue
\* A lost refresh with an old value and a server at its bound: nothing can happen.
CHECK_DEADLOCK FALSE
