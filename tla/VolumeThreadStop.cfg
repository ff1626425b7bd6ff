\* Two requests are enough for one to be queued when the stop comes.
CONSTANTS
  Irps = {a, b}
  NoIrp = NoIrp
SPECIFICATION Spec
PROPERTY
  LoopDrainsList
