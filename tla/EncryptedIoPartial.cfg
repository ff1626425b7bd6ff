\* Sectors of two bytes, one sector before the volume and one after it, and
\* three sectors in it: a request can cover two and leave one.
CONSTANTS
  Unit = 2
  DataOffset = 2
  DiskLength = 6
  Irps = {a, b}
  MaxLen = 4
  Requests <- ByteRequests
SPECIFICATION Spec
PROPERTY
  NeighboursKept
