CONSTANTS
  Ids = {"i", "j"}
  Slots = 1
  MaxLines = 3
  MaxPanics = 1
  PipeBreaks = TRUE
  Clients = {"a", "b"}
  MaxCalls = 3
  MaxFaults = 2
  Drops = TRUE
SPECIFICATION Spec
INVARIANTS ServingTypeOK SlotsAreConserved CancellationReaches EscalationStaysInside
PROPERTIES SettlesEachRequestOnce EveryRequestSettles EveryFrameIsAnswered
CHECK_DEADLOCK FALSE
