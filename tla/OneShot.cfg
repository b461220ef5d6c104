SPECIFICATION FairShotSpec
CONSTANTS
  c1 = c1
  c2 = c2
  NoConn = NoConn
  Clients <- Two
  MaxMsgs = 1
  SndBuf = 1
  MayKill = TRUE
  MaxFd = 6
  MaxWorkers = 2
  CreateMayFail = TRUE
INVARIANT HandsSound
PROPERTY AllRead
CHECK_DEADLOCK FALSE
