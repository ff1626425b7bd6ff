\* Seven units: the smallest file whose outer data area holds a hidden unit
\* that is not also a backup header slot.
CONSTANTS
  Creds = {p, q}
  NoCred = NoCred
  VolSize = 3
  HiddenSizes = {1, 2}
  MaxWrite = 2
  MaxRaw = 1
  MaxKeys = 3
SYMMETRY Symmetry
SPECIFICATION Spec
PROPERTY
  ChangeKeepsOtherVolumes
CHECK_DEADLOCK FALSE
