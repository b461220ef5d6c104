SPECIFICATION PairsSpec
CONSTANTS
  MaxFile = 3
  SendCap = 2
  SockBuf = 1
  MayDie = TRUE
  MaxTyped = 3
  MaxTold = 3
  MayLeave = TRUE
  MaxNaps = 5
  NumThread <- Teams
  Loops <- Turn
  Values <- Keyed
  Rounds = 5
  MayEnd = TRUE
INVARIANT TransferSound
INVARIANT AllPrinted
INVARIANT FamilySound
INVARIANT CountSound
INVARIANT HandoffSound
PROPERTY BothEnd
PROPERTY HandsEnd
PROPERTY Prints
PROPERTY SlotSpec
PROPERTY BothJoined
CHECK_DEADLOCK FALSE
