SPECIFICATION Spec
CONSTANTS
  r = r  m = m  b = b
  Candidate = {r, m}
  Method <- MixedMethod
  MaxRevision = 1
  Plan = {p1, p2}
  Task = {t1, t2}
  None = None
  MaxCrashes = 1
  MaxFaults = 1
  MaxResumes = 0
SYMMETRY Symmetry
INVARIANTS
  TypeOK
  NoRepeatedSideEffect
  RetryOnlyWithoutEffect
  SubmittedIsBacked
  IntentIsDurable
  NoOrphan
PROPERTIES
  ImplementsLifecycle
  PlanIsRecordedWhole
