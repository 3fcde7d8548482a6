SPECIFICATION UsbLiveSpec
CONSTANTS
  Ids <- MCIds
  RETRY_COUNT = 3
  Prompt = TRUE
  MayExhaust = FALSE
  ReleaseFails = FALSE
INVARIANTS
  NoOrphan
  PowerCutsNothingInUse
  CapacityIsOfHandle
PROPERTY DriveComesUp
