SPECIFICATION Spec
CONSTANTS
  r = r  m = m  b = b
  Candidate = {b}
  Method <- BrowserMethod
  MaxRevision = 2
  Plan = {p1, p2}
  Task = {t1, t2, t3}
  None = None
  MaxCrashes = 2
  MaxFaults = 1
  MaxResumes = 2
SYMMETRY Symmetry
INVARIANTS
  NoRepeatedSideEffect
  SubmittedIsBacked
  OneDriver
  IInv
PROPERTIES
  ConsentIsCurrent
