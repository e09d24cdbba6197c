SPECIFICATION ToolsSpec
CONSTANTS
  c1 = c1
  c2 = c2
  a = a
  b = b
  Call <- TwoCalls
  None = None
  MaxCommands = 1
  MaxSearch = 3
  MaxPool = 2
  MaxFound = 3
  MaxSize = 2
  Budget = 3
  Child <- TwoChildren
  MaxOutput = 1
  MaxWritten = 2
  Texts <- SomeTexts
  Parts <- SomeParts
  MaxNode = 4
  MaxListed = 4
INVARIANTS
  ToolsTypeOK
  ToolsAreSound
  AnswersAreExact
PROPERTIES
  EveryCallSettles
CHECK_DEADLOCK FALSE
