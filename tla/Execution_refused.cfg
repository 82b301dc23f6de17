SPECIFICATION Spec
CONSTANTS
  r = r  m = m  b = b
  Candidate = {r}
  Method <- RfcMethod
  MaxRevision = 1
  Plan = {p1}
  Task = {t1}
  None = None
  MaxCrashes = 1
  MaxFaults = 0
  MaxResumes = 0
SYMMETRY Symmetry
INVARIANTS
  RefusedOnlyIfAttempted
