\* A session ends; nothing happens after that.
CONSTANTS
  Task = {t1, t2, t3}
  None = None
  MaxResumes = 2
  MaxNavigations = 4
SPECIFICATION Spec
SYMMETRY Requests
CHECK_DEADLOCK FALSE
INVARIANTS
  TwoNavigations
  PausedIsReachable
  BrowserIsOwned
  OneClick
  SessionInv
PROPERTIES
  StepsOfExecution
