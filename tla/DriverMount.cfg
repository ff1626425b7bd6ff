\* Two drives for two concurrent mounts, of one drive or of both, and one
\* tear-down request; three devices let a drive be mounted again.
CONSTANTS
  Mounters = {m1, m2}
  Teardowns = {u}
  MaxDrive = 2
  MaxDevs = 3
SPECIFICATION Spec
INVARIANTS
  TypeOK
  TableIsLive
  NoVolumeLost
  UnmountAllUnmounts
PROPERTIES
  LettersKept
  TeardownsEnd
