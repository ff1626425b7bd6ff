\* Two other programs; the driver may mount again and again.
CONSTANTS
  Others = {p, q}
  Modes <- AllModes
  MountRequests <- Requests
  IoctlRequests <- Queries
  TC_MAX_VOLUME_SIZE = 500000
SYMMETRY Symmetry
SPECIFICATION Spec
INVARIANTS
  TypeOK
  OnlyFileObjectLeaks
  SoleWriter
  ReadOnlyIsShown
  TimesKept
  
  AnswerFits
