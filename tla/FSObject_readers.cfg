SPECIFICATION FSSpec
CONSTANTS
  a = a
  FSServer = {a}
  FSClient = {1, 2, 3}
  Homes <- OneHome
  MaxFSCall = 4   MaxDelete = 0   MaxDeath = 0   MaxPurge = 0
INVARIANT ReaderKeepsFile
CHECK_DEADLOCK FALSE
