SPECIFICATION LibrariesSpec
CONSTANTS
  LengthWrap = 64
  Pieces <- PiecesOf
  MaxFed = 130
  OctetValues <- OctetsOf
  UnitValues <- UnitsOf
  PointValues <- PointsOf
  MaxOctets = 4
  MaxUnits = 3
  MaxPoints = 2
  MaxLength = 2112
  HalfWord = 8
INVARIANTS
  ValidIsWellFormed RepairIsSound ConversionsAgree WalksAgree NicknameIsDecoded
  StreamIsOneShot EveryByteIsHashed KeysAreApart ProcessorsAgree
CHECK_DEADLOCK FALSE
