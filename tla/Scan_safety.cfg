SPECIFICATION Spec
CONSTANTS
  s1 = s1  s2 = s2
  ScanId = {s1, s2}
  Limits <- TwoScans
  PageSize = 2
  Task = {t1, t2}
  None = None
  MaxMessage = 3
  MaxDeletes = 1
  MaxCrashes = 1
  MaxFaults = 0
SYMMETRY Symmetry
INVARIANTS
  LimitIsKept
  NothingSkipped
  SeenIsReviewable
  IInv
