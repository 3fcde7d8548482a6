\* A master that repeats a request until it is answered; any timing.
CONSTANTS
  a = a
  b = b
  z = z
  j = j
  Data = {a, b, z, j}
  InitData = z
  MAX_PAYLOAD = 2
  U32 = 64
  DriveBs = 1
  DriveLast = 3
  XferFaults = {"payload", "response"}
  Ops <- AllOps
  SeqMod = 2
  Junk = j
  GiveUp = FALSE
  Nominal = FALSE
SPECIFICATION Spec
INVARIANTS TypeOK StoreIntegrity InStep
PROPERTIES AcksAreTrue ImplementsBlockStore
