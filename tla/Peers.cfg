SPECIFICATION PeersSpec
CONSTANTS
  a = a   b = b
  FSServer = {a, b}
  FSClient = {1, 2, 3}
  Homes <- FSHomes
  MaxFSCall = 4   MaxDelete = 1   MaxDeath = 1   MaxPurge = 1
  Instance = {a, b}
  MClient = {1, 2}
  MHomes <- Sites
  MaxPart = 2
  Content = {1, 2}
  Small = {2}
  MaxPut = 3   MaxTimeout = 1
  Peer = {v1, v2}
  Admin = {1, 2}
  Statement = {p, r}
  Queue = {q}
  MaxSpent = 3   MaxMiss = 1   MaxStart = 1
  Node = {n1, n2}
  MaxListen = 3   MaxEvent = 2
  CredServer = {a, b}
  Change = {1, 2}
  MaxSetAuth = 2   MaxLost = 1   MaxReboot = 1
INVARIANTS  InfoOfOneVersion CompletedAsNamed UploadGoesOn InForce NeverOnClosed  
CHECK_DEADLOCK FALSE
