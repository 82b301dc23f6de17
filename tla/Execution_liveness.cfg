SPECIFICATION FairSpec
CONSTANTS
  r = r  m = m  b = b
  Candidate = {m, b}
  Method <- MailBrowserMethod
  MaxRevision = 1
  Plan = {p1}
  Task = {t1, t2}
  None = None
  MaxCrashes = 1
  MaxFaults = 1
  MaxResumes = 1
PROPERTIES
  EveryActionSettles
  LockIsReleased
  RecoveryCompletes
