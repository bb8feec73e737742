SPECIFICATION BothSpec
CONSTANTS
  Texts <- MCTexts
  Sizes = {0, 1, 2, 3}
  Overlaps = {0, 1, 2, 4}
  Ceiling = 4
  SegTexts <- MCSegTexts
  Maxes = {1, 3, 4}
  Mins = {0, 2}
  Defs <- MCDefs
  Nodes = {"a", "b", "c", "d"}
  Labels = {"calls", "imports"}
  Graphs <- MCGraphs
  Questions <- MCQuestions
  MaxDepth = 4
  PathDepth = 3
  Keys = {1, 2, 3}
  Place <- MCPlace
  Cohorts = {"v1", "v2"}
  Inquiries <- MCInquiries
  MaxPage = 2
  RrfK = 60
  Factor = 2
  Floor = 2
  Ceil = 3
  MaxWrites = 2
  Files = {1, 2, 3}
  Parts <- MCParts
  Package <- MCPackage
  Corpora <- MCCorpora
  x = x
  y = y
  NoFile = NoFile
  Items <- MCItems
  Batches <- MCBatches
  Concurrency = 2
  Faults = TRUE
INVARIANTS
  TypeOK
  Accounted
  CheckpointIsTrue
  RecordedIsDurable
  
  PiecesKeepTheText
  ReadsAreHonest
  NamesResolveAlike
PROPERTIES
  ResumeKeepsRecord
  RunReturns
