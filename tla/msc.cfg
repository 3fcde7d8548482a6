SPECIFICATION VfsSpec
CONSTANTS
  a1 = a1
  a2 = a2
  Addrs = {a1, a2}
  o1 = o1
  o2 = o2
  Objs = {o1, o2}
  p1 = p1
  p2 = p2
  Paths = {p1, p2}
  Vols = {0, 1}
  Descs <- MCDescs
  MaxEvents = 10
  MaxPlugs = 3
INVARIANTS
  VfsTypeOK DriverOutlivesHandler DeregistersUnused NothingLeftBehind DisconnectedIsGone
  ConfigIsOfInterface UninstallIsAwaited GoneIsReported
  PathReachesDevice VolumesAreHandles PdrvIsAssigned
SYMMETRY MCSymmetry
