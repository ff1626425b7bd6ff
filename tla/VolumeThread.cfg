\* Three requests: one in the worker's hands, one in the list and one between
\* the insertion and the semaphore.
CONSTANTS
  Irps = {a, b, c}
  NoIrp = NoIrp
SPECIFICATION FairSpec
INVARIANTS
  TypeOK
  NoLostWakeup
  StopIsSeen
  NoUseAfterFree
  RequestOwnedOnce
PROPERTIES
  QueuedIsServed
  MountEnds
  StopEnds
  ImplementsService
