CONSTANTS
  Docs <- MCDocs
  KeyOf <- MCKeyOf
  Pieces <- MCPieces
  NodesIn <- MCNodesIn
  EdgesIn <- MCEdgesIn
  ClaimsIn <- MCClaimsIn
  Scenarios <- MCScenarios
  Source = "s"
  Symbol = "y"
  Others = {"c", "x"}
  Texts = {"t1", "t2", "t3"}
  Dark = "dark"
  Hidden = "hidden"
  MostPieces = 2
SPECIFICATION CorpusSpec
INVARIANTS CorpusTypeOK DocumentsAreWhole 
PROPERTIES DeclarationsLand SweepsSpareThePresent
CHECK_DEADLOCK FALSE
