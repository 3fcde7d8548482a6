SPECIFICATION UsbSpec
CONSTANTS
  Ids <- MCIds
  RETRY_COUNT = 3
  Prompt = FALSE
  MayExhaust = TRUE
  ReleaseFails = TRUE
INVARIANTS
  UsbTypeOK
  HandleDanglesOnlyInClose
  ClosesTheGoneDevice
