\* Three threads that call the stub, three things (factories, objects, pages), the DLL
\* mapped three times.
SPECIFICATION FairSpec
CONSTANTS
  c1 = c1
  c2 = c2
  c3 = c3
  x1 = x1
  x2 = x2
  x3 = x3
  Callers = {c1, c2, c3}
  Things = {x1, x2, x3}
  Faults = {"load", "DllGetClassObject", "DllCanUnloadNow"}
  MaxImages = 3
CONSTRAINT Orderly
INVARIANTS CallsMappedCode MappedWhileInUse
PROPERTIES FreedInTheEnd
CHECK_DEADLOCK FALSE
