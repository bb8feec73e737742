SPECIFICATION Spec
CONSTANTS
  f1 = f1
  f2 = f2
  crate = crate
  NoText = NoText
  NoHead = NoHead
  Files <- MCFiles
  Texts <- MCTexts
  Names <- MCNames
  TextsOf <- MCFewTextsOf
  NamesOf <- MCNamesOf
  LineOf <- MCLineOf
  UsesOf <- MCUsesOf
  PiecesOf <- MCPiecesOf
  TooLarge = {"a2"}
  Refused = {}
  FullHash = {}
  Units <- MCUnits
  UnitOf <- MCUnitOf
  OverwriteChoices = {TRUE}
  EmbedChoices = {FALSE}
  LspChoices = {TRUE}
  Faults = {"server"}
  MaxRefused = 0
  Purges = FALSE
PROPERTIES
  FailedServersAreRetried
