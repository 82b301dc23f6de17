SPECIFICATION RetrySpec
CONSTANTS
  s1 = s1  s2 = s2
  ScanId = {s1}
  Limits <- LimitOf3
  PageSize = 2
  Task = {t1}
  None = None
  MaxMessage = 3
  MaxDeletes = 1
  MaxCrashes = 1
  MaxFaults = 0
PROPERTIES
  RetriedScanFinishes
