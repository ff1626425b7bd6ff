SPECIFICATION Spec
CONSTANTS
  Requests <- Commands
  PathLength = 12
INVARIANT
  WorkerActsOnRequest
