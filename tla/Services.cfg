CONSTANTS
  Docs <- MCDocs
  Symbols = 1
  Probes = 2
  Tries = 2
  Pipe = 1
  Backlog = 2
  Preloads = {TRUE, FALSE}
  Callers = {"p", "q"}
  Asking <- MCAsking
  Texts = 3
  Cohorts = {"v1", "v2"}
  Narrow = {"v2"}
  MaxStarts = 2
SPECIFICATION Spec
INVARIANTS ServicesTypeOK AnswersAreTheirOwn VectorsAreOneCohort
PROPERTIES EveryCallEnds
CHECK_DEADLOCK FALSE
