\* A master that drops a Write the slave still works on.
CONSTANTS
  a = a
  b = b
  z = z
  j = j
  Data = {a, b, z, j}
  InitData = z
  MAX_PAYLOAD = 2
  U32 = 64
  DriveBs = 1
  DriveLast = 3
  XferFaults = {}
  Ops <- FewOps
  SeqMod = 4
  Junk = j
  GiveUp = TRUE
  Nominal = FALSE
SPECIFICATION Spec
PROPERTY StoresOwnPayload
