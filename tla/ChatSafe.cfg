SPECIFICATION SpacedSpec
CONSTANTS
  c1 = c1
  c2 = c2
  c3 = c3
  NoConn = NoConn
  Clients <- Three
  Talkers <- Two
  MaxConns = 3
  MaxFd = 3
  MaxMsgs = 1
  SndBuf = 1
  MayQuit = FALSE
  MayKill = TRUE
  CreateMayFail = TRUE
SYMMETRY Sym
INVARIANT RegistrySound
INVARIANT BroadcastSound
CHECK_DEADLOCK FALSE
