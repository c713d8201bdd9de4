SPECIFICATION ServerSpec
CONSTANTS
  Object = {x, y}
  Request = {1, 2}
  MaxRequest = 3
  PartLists <- SomeParts
  BlockSizes = {2, 3, 4}
  DataBlocks = {2, 3}
  MaxPos = 9
  Slash = 2
  Trees <- SomeTrees
  Lacking <- SomeLacking
  NewObject <- Names
  Params <- SomeParams
  MaxKeys = 1   maxObjectList = 1
  Lister = {1, 2}
  MaxWalk = 3   MaxObjChange = 1   MaxTimer = 2
  Caller = {1, 2}
  maxRetryAttempts = 1
  Op = {"MakeVol", "AppendFile", "RenameFile"}
  MaxOps = 2   MaxBreak = 1   MaxRotate = 1
  MaxDie = 2
SYMMETRY Sym
INVARIANTS OneVersion   RangeServed ListedOnce RepeatedIfCut SettingsKept
CHECK_DEADLOCK FALSE
