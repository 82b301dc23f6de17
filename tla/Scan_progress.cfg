SPECIFICATION RetrySpec
CONSTANTS
  s1 = s1  s2 = s2
  ScanId = {s1}
  Limits <- LimitOf3
  PageSize = 2
  Task = {t1}
  None = None
  MaxMessage = 4
  MaxDeletes = 0
  MaxCrashes = 2
  MaxFaults = 2
PROPERTIES
  RunReturns
  RetriedScanFinishes
