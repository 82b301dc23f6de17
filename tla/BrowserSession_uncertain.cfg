\* A session ends; nothing happens after that.
CONSTANTS
  Task = {t1, t2}
  None = None
  MaxResumes = 1
  MaxNavigations = 1
SPECIFICATION Spec
SYMMETRY Requests
CHECK_DEADLOCK FALSE
INVARIANTS
  SubmittedIfCredible
