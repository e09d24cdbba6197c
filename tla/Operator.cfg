SPECIFICATION OperatorSpec
CONSTANTS
  MaxPid = 3
  MaxCommand = 3
  Id = {krakey}
  Default = Default
  Nowhere = Nowhere
  MaxMark = 3
  MaxCall = 3
  Service = {gpt, claude}
  None = None
  MaxEdit = 2
  MaxPut = 1
  MaxFolder = 2
  MaxToken = 2
  MaxBoots = 2
  MaxSaves = 1
  MaxUpset = 1
  MaxUse = 2
  MaxTab = 2
  MaxPage = 2
INVARIANTS
  OperatorTypeOK
  DaemonsKept
  KilledStaysDown
  ReportedIsKept
  EditorsAreHonest
  WindowsAreTrue
CHECK_DEADLOCK FALSE
