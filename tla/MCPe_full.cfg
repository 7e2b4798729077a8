SPECIFICATION Spec
CONSTANTS
  Tools <- OnlyConsole
  FileAlignment = 2
  SectionAlignment = 4
  InjSize = 4
  Own <- OwnSection
  Entry = 5
  OwnImports = 1
  HeaderRoom = 4
  ImportRoom = 4
  MaxRuns = 4
INVARIANT SuccessMeansPatched
