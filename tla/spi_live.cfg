\* A master with nominal timing that may drop a request at any point and go on; the
\* wire and the payload transfers may fail.
CONSTANTS
  a = a
  b = b
  z = z
  j = j
  Data = {a, b, z, j}
  InitData = z
  MAX_PAYLOAD = 2
  U32 = 64
  DriveBs = 1
  DriveLast = 3
  XferFaults = {"payload"}
  Ops <- LiveOps
  SeqMod = 3
  Junk = j
  GiveUp = TRUE
  Nominal = TRUE
SPECIFICATION LiveSpec
PROPERTIES EveryRequestAnswered AcksAreTrue
