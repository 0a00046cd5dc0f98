\* Every operation in every course, by two threads of one process or of two.
CONSTANTS
  t1 = t1
  t2 = t2
  q1 = q1
  q2 = q2
  Nobody = Nobody
  Threads = {t1, t2}
  Processes = {q1, q2}
  Operations <- OperationNames
SPECIFICATION FairSpec
INVARIANTS LockOrder NoWaitCycle CommandsSerial
PROPERTIES OperationsEnd
