SPECIFICATION Spec
CONSTANTS
  LastAt = 1
  MaxEvents = 3
  MaxFetches = 1
  Remembered = 3
  DefaultLimit = 1
  FetchLimit = 2
  FetchBudget = 4
  MaxHeld = 2
  Capacity = 2
  MaxEntries = 4
  MaxStarts = 2
  MaxFailures = 1
  BufferSize = 3
  Persisted = 2
  MaxSeq = 9
  MaxWaiting = 6
  MaxJStarts = 2
  MaxClears = 1
  RingSize = 3
  FileEntries = 2
  MaxRecords = 9
  MaxQueued = 4
  MaxBStarts = 3
  NotebookCaps <- Caps
  HistoryMax = 2
  KeepRecent = 1
  NoteImportance = 2
  Importances = {2, 3}
  NoteKinds = {"thought"}
  NoteSizes = {2}
  Budgets <- BudgetsChecked
  MaxNoteId = 3
  MaxEntryId = 3
  MaxMStarts = 2
  Watched = {krakey, kit}
  NoAgent = NoAgent
  MaxCaptured = 2
  MaxPicks = 3
  MaxAsked = 2
  MaxUpsets = 1
INVARIANTS
  TypeOK
  FilesReplay
  IdsStandForOne
  StoresKeep
  ShownInBudget
  LookedUpIsTrue
PROPERTIES
  ImportantStays
CHECK_DEADLOCK FALSE
