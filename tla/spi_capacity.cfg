\* The capacity the master is told.
CONSTANTS
  a = a
  b = b
  z = z
  j = j
  Data = {a, b, z, j}
  InitData = z
  MAX_PAYLOAD = 2
  U32 = 64
  DriveBs = 1
  DriveLast = 3
  XferFaults = {}
  Ops <- AllOps
  SeqMod = 2
  Junk = j
  GiveUp = FALSE
  Nominal = FALSE
SPECIFICATION Spec
INVARIANT CapacityIsBlockCount
