SPECIFICATION ErasureSpec
CONSTANTS
  Client = {1, 2}
  Upload = {1, 2}
  Number = {1, 2}
  XLDisk = {1, 2, 3, 4}
  Fallible = {1, 4}
  MaxCall = 3   MaxChange = 2
  VolDisk = {1, 2, 3, 4}
  Owner = {{1, 2}, {3, 4}}
  MaxAdmin = 2   MaxRestart = 1   MaxOutage = 1
  CServer = {a, b}
  CCall = {1, 2}
  CKey = {k}
  CSize = {1, 2}
  maxSize = 3
  MaxCacheCall = 3
INVARIANTS OpenListed AckedPartsKept  ServedAsDescribed SizeCovers
 
CHECK_DEADLOCK FALSE
