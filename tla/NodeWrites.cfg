SPECIFICATION Spec
CONSTANTS
  k1 = k1
  k2 = k2
  s1 = s1
  s2 = s2
  None = None
  Sessions <- MCSessions
  Keys <- MCKeys
  Payloads <- MCPayloads
  ParentOf <- MCParentOf
  Calls <- MCCalls
  Stored <- MCStored
  RowOf <- MCRowOf
  FirstId = 3
  Alone = {"ingest"}
  MaxCalls = 3
  Faults = TRUE
SYMMETRY Symmetry
INVARIANTS
  TypeOK
  HistoryExplainsHead
  OkIffDurable
  EdgesJoinNodes
PROPERTIES
  IngestEdgesStay
  ImplementsHistory
